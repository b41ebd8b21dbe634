--------------------------- MODULE MCControlPlane ---------------------------
(***************************************************************************)
(* Instances of ControlPlane for TLC.  Symmetric sets: the external        *)
(* workers and the handlers are interchangeable.                           *)
(***************************************************************************)
EXTENDS ControlPlane, TLC

CONSTANTS e1, e2, i1, h1, h2, r1, f1, f2, f3

OneTask == {1}
ZeroOrOne == {0, 1}
JustOne == {1}
Half == {50}
AllOps == AllOperations

\* f1 and f2 differ in nothing but whether they may be retried.
SharedText == [f \in Failure |-> IF f = f2 THEN f1 ELSE f]

Symmetry == Permutations({e1, e2}) \union Permutations({h1, h2})
=============================================================================
