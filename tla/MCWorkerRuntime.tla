-------------------------- MODULE MCWorkerRuntime --------------------------
(***************************************************************************)
(* Instances of WorkerRuntime for TLC: one runtime, e1, and another worker *)
(* that only claims, e2.                                                   *)
(***************************************************************************)
EXTENDS WorkerRuntime

CONSTANTS e1, e2, r1, f1, f2

OneTask == {1}
JustOne == {1}
Half == {50}
AllOps == AllOperations
RuntimeHandlers == {e1} \X {"main", "heartbeat", "report"}

\* Every failure has a code of its own.
OwnText == [f \in Failure |-> f]
=============================================================================
