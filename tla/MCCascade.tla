------------------------------ MODULE MCCascade ------------------------------
(***************************************************************************)
(* Instances of Cascade for TLC: one fabric, its super-spine pod f0, one   *)
(* generated pod and one rack.                                             *)
(***************************************************************************)
EXTENDS Cascade, TLC

CONSTANTS f, f0, p1, r1, w1, w2   \* model values

PodOfRack == [r \in Racks |-> p1]

\* One switch per tier; two per tier; nothing above the rack.
Ones    == [t \in Targets |-> 1]
Twos    == [t \in Targets |-> 2]
NoUpper == [t \in Targets |-> IF t \in Racks THEN 1 ELSE 0]

\* A leaf has one uplink: a second spine above it gets none of its cables.
OneLeafUplink == [t \in Children |-> IF t \in Racks THEN 1 ELSE 2]

SmallFabric   == {Ones}
FullFabric    == {Twos}
AnyFabric     == {Twos, NoUpper}

Interchangeable == Permutations(Workers)
=============================================================================
