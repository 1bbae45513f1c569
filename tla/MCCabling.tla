------------------------------ MODULE MCCabling ------------------------------
(***************************************************************************)
(* Instances of Cabling for TLC: two pods below the super-spines, and two  *)
(* racks below the spines of the first pod.                                *)
(***************************************************************************)
EXTENDS Cabling, TLC

CONSTANTS f, p1, p2, r1, r2   \* model values

FirstPod == [r \in Racks |-> p1]

\* Room to grow on every tier; the first pod and the first rack have an index
\* to move to.
SomeSizes == f :> {2, 3} @@ p1 :> {1, 2} @@ p2 :> {1, 2} @@ r1 :> {1, 2} @@ r2 :> {1}
FirstSizes == f :> 2 @@ p1 :> 1 @@ p2 :> 1 @@ r1 :> 1 @@ r2 :> 1
SomeIndexes == p1 :> {3, 4} @@ p2 :> {2} @@ r1 :> {1, 3} @@ r2 :> {2}
FirstIndexes == p1 :> 3 @@ p2 :> 2 @@ r1 :> 1 @@ r2 :> 2

\* The fabric may shrink under its pods.
ShrinkingSizes == f :> {2, 3} @@ p1 :> {2} @@ p2 :> {1}
LargeSizes == f :> 3 @@ p1 :> 2 @@ p2 :> 1
TwoIndexes == p1 :> {2} @@ p2 :> {3}
TwoFirstIndexes == p1 :> 2 @@ p2 :> 3

\* The first pod may be moved behind the second after it was cabled.
FixedSizes == f :> {2} @@ p1 :> {1} @@ p2 :> {1}
OneSizes == f :> 2 @@ p1 :> 1 @@ p2 :> 1
MovingIndexes == p1 :> {2, 4} @@ p2 :> {3}
=============================================================================
