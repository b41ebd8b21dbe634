--------------------------- MODULE MCTaskCreation ---------------------------
(***************************************************************************)
(* An instance of TaskCreation for TLC: b1 is a body the JSON column       *)
(* rewrites, to b2; w1 and w2 are workflows that differ in case only.      *)
(***************************************************************************)
EXTENDS TaskCreation

CONSTANTS w1, w2, b1, b2

Rewriting == [b \in Body |-> IF b = b1 THEN b2 ELSE b]
IgnoringCase == [w \in Workflow |-> IF w = w2 THEN w1 ELSE w]
=============================================================================
