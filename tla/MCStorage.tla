------------------------------ MODULE MCStorage ------------------------------
(***************************************************************************)
(* An instance of Storage for TLC: three tasks, of which one goes through  *)
(* several attempts while the others are inserted and move around it,      *)
(* pages of one row, and two handlers, so that tasks are created and       *)
(* canceled while a client reads.                                          *)
(***************************************************************************)
EXTENDS Storage, TLC

CONSTANTS i1, h1, h2, r1, f1

ThreeTasks == 1..3
NoneOrTwo == {0, 2}
OneUnit == {1}
QueuedOrAll == {"", "queued"}
OwnText == [f \in Failure |-> f]

\* Bound: task 1 alone may have retries.  Task 3 makes at most one transition
\* after its creation; task 2 is inserted last and stays as it is.
SideTasks ==
    /\ tasks[2].maxRetries = 0 /\ tasks[2].version = 0
    /\ tasks[3].maxRetries = 0 /\ tasks[3].version <= 1
    /\ Exists(2) => Exists(1) /\ Exists(3)

\* Bound: at most one handler reads and at most one writes.  Handlers keep
\* nothing between two requests, so they may be named: h1 serves those who
\* read, h2 those who write, whose cancellations end in a detail.  Details of
\* h1 are of the task with the retries.
OneReadsOneWrites ==
    /\ calls'[h1].op \notin WriteOp
    /\ calls'[h1].op = "detail" => calls'[h1].task = 1
    /\ calls[h2] = NoCall => calls'[h2].op \notin {"detail", "walk", "stats"}

\* Bound: a walk, through the queued tasks, and the statistics, of all tasks,
\* see at most four transitions; a detail sees MaxEvents.
ListsAreShort ==
    \A h \in Handler : calls[h].op \in {"walk", "stats"} =>
      /\ calls[h].filter = IF calls[h].op = "walk" THEN "queued" ELSE ""
      /\ Cardinality(UNION {{t} \X DOMAIN events[t] : t \in TaskId}) <= 4

\* An answer that is ready is taken before anything else happens: taking it
\* changes nothing but the call, and no other step reads or writes a call
\* that is done.
MCNext ==
    IF \E h \in Handler : calls[h].pc = "done"
      THEN \E h \in Handler : Answered(h)
      ELSE Next /\ SideTasks' /\ OneReadsOneWrites /\ ListsAreShort'

MCSpec == Init /\ [][MCNext]_vars
=============================================================================
