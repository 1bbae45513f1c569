--------------------------- MODULE MCServerService ---------------------------
(***************************************************************************)
(* Instances of ServerService and ClusterPeering for TLC: an l3 service s1 *)
(* and an l2 service s2; rack a has two leafs with a port each, rack b one *)
(* leaf with two.                                                          *)
(***************************************************************************)
EXTENDS ClusterPeering, TLC

CONSTANTS s1, s2, a, b, leafA1, leafA2, leafB, pA1, pA2, pB1, pB2   \* model values

LayerOf    == [s \in Services |-> IF s = s2 THEN "l2" ELSE "l3"]
AllRouted  == [s \in Services |-> "l3"]
RackOfLeaf == leafA1 :> a @@ leafA2 :> a @@ leafB :> b
OneRack    == [l \in Leafs |-> a]
LeafOfPort == [p \in Ports |-> CASE p = pA1 -> leafA1
                                 [] p = pA2 -> leafA2
                                 [] OTHER   -> leafB]
Order      == [x \in Racks \cup Ports |-> IF x \in {b, pA2, pB2} THEN 2 ELSE 1]

\* Nothing asked: every placement is automatic.
Automatic == [s \in Services |-> Nothing]

\* Each service names a port of its own.
Pinned == [s \in Services |-> [Nothing EXCEPT !.port = IF s = s1 THEN pA1 ELSE pB1]]

\* The same two ports, the other way round: s1 has a second port on its leaf.
Crossed == [s \in Services |-> [Nothing EXCEPT !.port = IF s = s1 THEN pB1 ELSE pA1]]

\* All services form the cluster.
Cluster == IF s2 \in Services THEN <<s1, s2>> ELSE <<s1>>
=============================================================================
