--------------------------- MODULE MCTenantOverlay ---------------------------
(***************************************************************************)
(* Instances of TenantOverlay for TLC: tenant blue with a routed segment,  *)
(* tenant green with one that is switched only; two racks of a leaf each.  *)
(***************************************************************************)
EXTENDS TenantOverlay, TLC

CONSTANTS blue, green, vb, vg, sb1, sg, a, b, leafA, leafB   \* model values

TenantOfVrf  == vb :> blue @@ vg :> green
VrfOfSegment == sb1 :> vb @@ sg :> vg
RackOfLeaf   == leafA :> a @@ leafB :> b
=============================================================================
