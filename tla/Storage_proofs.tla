---------------------------- MODULE Storage_proofs ----------------------------
(***************************************************************************)
(* Both backends keep rows and events in step, whatever the interleaving   *)
(* of the goroutines, implement TaskLifecycle, and answer the requests     *)
(* that combine several reads correctly.                                   *)
(*                                                                         *)
(* Everything is said about Committed: the rows as whoever respects the    *)
(* locks sees them.  Committed changes in one step only, when an event is  *)
(* stored or a transaction commits, and then by one legal transition.      *)
(***************************************************************************)
EXTENDS Storage, TaskStore_proofs, FiniteSetTheorems, WellFoundedInduction

-----------------------------------------------------------------------------
(* Rows.                                                                   *)

\* A row b that replaces a, and the event that is stored with it.
Replaces(b, a, event) ==
    /\ b \in Task /\ RowOK(b) /\ b.status # "absent" /\ b.createdAt \in Nat
    /\ event \in EventType /\ Announced(event) = b.status
    /\ \/ /\ a.status = "absent"
          /\ b.status = "queued" /\ b.owner = NoWorker /\ b.version = 0
          /\ b.retryCount = 0 /\ b.maxRetries \in MaxRetriesOf
       \/ /\ a.status \notin {"absent"} \union terminalStatuses
          /\ Transition(a, b)
          /\ b.version = a.version + 1 /\ b.createdAt = a.createdAt

\* Nothing but the lease expiry and what is not read back differs.
Same(a, b) ==
    /\ b \in Task /\ RowOK(b)
    /\ b.status = a.status /\ b.version = a.version /\ b.createdAt = a.createdAt
    /\ b.availableAt = a.availableAt /\ b.owner = a.owner
    /\ b.retryCount = a.retryCount /\ b.maxRetries = a.maxRetries

Follows(a, b) == Same(a, b) \/ \E event : Replaces(b, a, event)

\* What a row is before its task exists, and after.
RowInOrder(row) == RowOK(row) /\ (row.status # "absent" => row.createdAt \in Nat)

\* The copy of a row that a worker holds.
CopyFenced(w, e, row) == ExecutionFenced(w, e, row) /\ e.row.createdAt = row.createdAt

\* A copy that is going to be saved was made from the row, if the row still
\* has the version of the copy.
UpdateFenced(c, row) ==
    /\ row.status # "absent"
    /\ c.event \in EventType /\ Announced(c.event) = c.row.status
    /\ c.row.version <= row.version /\ c.row.createdAt = row.createdAt
    /\ c.row.version = row.version => row.status = "running" /\ SavedFrom(c.row, row)

\* -1 for a task that does not exist.
VersionOf(row) == IF row.status = "absent" THEN -1 ELSE row.version

\* Saving a well-formed transition of a row, with the next version.
LEMMA SaveReplaces ==
    ASSUME NEW a \in Task, RowInOrder(a),
           a.status \notin {"absent"} \union terminalStatuses,
           NEW row \in Task, RowOK(row), row.status # "absent",
           row.createdAt = a.createdAt, Transition(a, row),
           NEW event \in EventType, Announced(event) = row.status
    PROVE  Replaces([row EXCEPT !.version = a.version + 1], a, event)
<1> DEFINE b == [row EXCEPT !.version = a.version + 1]
<1>1. a.version + 1 \in Nat /\ a.createdAt \in Nat
  BY DEF Task, RowInOrder
<1>2. b \in Task
  BY <1>1, Zenon DEF Task
<1>3. /\ b.status = row.status /\ b.owner = row.owner /\ b.leaseExp = row.leaseExp
      /\ b.retryCount = row.retryCount /\ b.maxRetries = row.maxRetries
      /\ b.createdAt = row.createdAt /\ b.version = a.version + 1
  BY DEF Task
<1> SUFFICES Replaces(b, a, event)
  OBVIOUS
<1> HIDE DEF b
<1>4. RowOK(b) /\ Transition(a, b)
  BY <1>3 DEF RowOK, Transition
<1> QED
  BY <1>1, <1>2, <1>3, <1>4 DEF Replaces

\* A new task.
LEMMA NewReplaces ==
    ASSUME NEW a \in Task, a.status = "absent", NEW m \in MaxRetriesOf, NEW at \in Nat
    PROVE  Replaces(NewTask(m, at), a, "task_created")
BY StoreAssumption, NewTaskType, EventTypes, Announcements DEF Replaces

\* A claim of a row that waits, or whose lease expired within its budget.
LEMMA ClaimReplaces ==
    ASSUME NEW a \in Task, RowInOrder(a), NEW w \in Worker, NEW at \in Nat,
           \/ a.status = "running" /\ a.retryCount < a.maxRetries
           \/ a.status \in {"queued", "retrying"}
    PROVE  /\ Claimed(a, w, at) \in Task
           /\ Claimed(a, w, at).owner = w
           /\ Replaces([Claimed(a, w, at) EXCEPT !.version = a.version + 1], a,
                       ClaimedEvent(a))
<1> DEFINE row == Claimed(a, w, at)
<1>1. /\ row \in Task /\ row.status = "running" /\ row.owner = w
      /\ row.leaseExp # NoTime /\ row.maxRetries = a.maxRetries
      /\ row.createdAt = a.createdAt
      /\ a.status = "running" => row.retryCount = a.retryCount + 1
      /\ a.status # "running" => row.retryCount = a.retryCount
  BY ClaimedType
<1>2. ClaimedEvent(a) \in ClaimEvent
  BY DEF ClaimedEvent, ClaimEvent
<1>3. ClaimedEvent(a) \in EventType /\ Announced(ClaimedEvent(a)) = "running"
  BY <1>2, EventTypes, Announcements
<1>4. a.status \notin {"absent"} \union terminalStatuses
  BY NotEnded
<1> SUFFICES row \in Task /\ row.owner = w
             /\ Replaces([row EXCEPT !.version = a.version + 1], a, ClaimedEvent(a))
  OBVIOUS
<1> HIDE DEF row
<1>5. row.retryCount <= row.maxRetries
  BY <1>1 DEF RowInOrder, RowOK, Task
<1>6. RowOK(row)
  BY <1>1, <1>5, NoWorkerAssumption DEF RowOK
<1>7. Transition(a, row)
  <2>1. CASE a.status = "running" /\ a.retryCount < a.maxRetries
    BY <1>1, <2>1 DEF Transition
  <2>2. CASE a.status \in {"queued", "retrying"}
    BY <1>1, <2>2 DEF Transition
  <2> QED
    BY <2>1, <2>2
<1> QED
  BY <1>1, <1>3, <1>4, <1>6, <1>7, SaveReplaces

\* The reaper's write.
LEMMA ReapReplaces ==
    ASSUME NEW a \in Task, RowInOrder(a), a.status = "running"
    PROVE  LET row == [MoveTo(a, "failed") EXCEPT !.err = LeaseExpiredError]
           IN  row \in Task
               /\ Replaces([row EXCEPT !.version = a.version + 1], a, "task_failed")
<1> DEFINE moved == MoveTo(a, "failed")
           row == [moved EXCEPT !.err = LeaseExpiredError]
<1>1. "failed" \in terminalStatuses /\ "failed" \in Status /\ "failed" # "running"
  BY DEF terminalStatuses, Status
<1>2. /\ moved \in Task /\ RowOK(moved) /\ moved.status = "failed"
      /\ moved.owner = NoWorker /\ moved.retryCount = a.retryCount
      /\ moved.maxRetries = a.maxRetries /\ moved.createdAt = a.createdAt
  BY <1>1, EndedRowOK, MoveToType DEF RowInOrder
<1>3. LeaseExpiredError \in ErrorMessage
  BY DEF LeaseExpiredError, ErrorMessage
<1> SUFFICES /\ row \in Task
             /\ Replaces([row EXCEPT !.version = a.version + 1], a, "task_failed")
  OBVIOUS
<1> HIDE DEF moved
<1>4. row \in Task
  BY <1>2, <1>3, Zenon DEF Task
<1>5. /\ row.status = moved.status /\ row.owner = moved.owner
      /\ row.leaseExp = moved.leaseExp /\ row.retryCount = moved.retryCount
      /\ row.maxRetries = moved.maxRetries /\ row.createdAt = moved.createdAt
  BY <1>2 DEF Task
<1> HIDE DEF row
<1>6. RowOK(row) /\ Transition(a, row)
  BY <1>2, <1>5 DEF RowOK, Transition
<1>7. a.status \notin {"absent"} \union terminalStatuses
  BY NotEnded
<1> QED
  BY <1>2, <1>4, <1>5, <1>6, <1>7, SaveReplaces, EventTypes, Announcements

\* A cancellation.
LEMMA CancelReplaces ==
    ASSUME NEW a \in Task, RowInOrder(a),
           a.status \in {"queued", "retrying", "running"}
    PROVE  /\ MoveTo(a, "canceled") \in Task
           /\ Replaces([MoveTo(a, "canceled") EXCEPT !.version = a.version + 1], a,
                       "task_canceled")
<1> DEFINE row == MoveTo(a, "canceled")
<1>1. "canceled" \in terminalStatuses /\ "canceled" \in Status /\ "canceled" # "running"
  BY DEF terminalStatuses, Status
<1>2. /\ row \in Task /\ RowOK(row) /\ row.status = "canceled"
      /\ row.owner = NoWorker /\ row.retryCount = a.retryCount
      /\ row.maxRetries = a.maxRetries /\ row.createdAt = a.createdAt
  BY <1>1, EndedRowOK, MoveToType DEF RowInOrder
<1> SUFFICES /\ row \in Task
             /\ Replaces([row EXCEPT !.version = a.version + 1], a, "task_canceled")
  OBVIOUS
<1> HIDE DEF row
<1>3. Transition(a, row)
  BY <1>2 DEF Transition
<1>4. a.status \notin {"absent"} \union terminalStatuses
  BY NotEnded
<1> QED
  BY <1>2, <1>3, <1>4, SaveReplaces, EventTypes, Announcements

\* The save of a copy that is still current.
LEMMA UpdateReplaces ==
    ASSUME NEW a \in Task, RowInOrder(a), NEW c, c.row \in Task,
           UpdateFenced(c, a), a.version = c.row.version
    PROVE  Replaces([c.row EXCEPT !.version = a.version + 1], a, c.event)
<1>1. /\ a.status = "running" /\ SavedFrom(c.row, a) /\ c.row.createdAt = a.createdAt
      /\ c.event \in EventType /\ Announced(c.event) = c.row.status
  BY DEF UpdateFenced
<1>2. RowOK(c.row) /\ c.row.status # "absent" /\ Transition(a, c.row)
  BY <1>1, SavedFromOK, SavedIsTransition DEF RowInOrder
<1>3. a.status \notin {"absent"} \union terminalStatuses
  BY <1>1, NotEnded
<1> QED
  BY <1>1, <1>2, <1>3, SaveReplaces

-----------------------------------------------------------------------------
(* What stays true when a row moves on.                                    *)

\* Rows that follow each other.
LEMMA FollowFacts ==
    ASSUME NEW a \in Task, RowInOrder(a), NEW b, Follows(a, b)
    PROVE  /\ b \in Task /\ RowInOrder(b)
           /\ VersionOf(a) \in Int /\ VersionOf(b) \in Int
           /\ VersionOf(a) <= VersionOf(b)
           /\ VersionOf(a) = VersionOf(b) => Same(a, b)
           /\ a.status # "absent" => b.status # "absent" /\ b.createdAt = a.createdAt
           /\ a.status # "absent" => Advances(a, b)
<1>1. b \in Task /\ RowInOrder(b) /\ a.version \in Nat /\ b.version \in Nat
  BY DEF Follows, Same, Replaces, Task, RowInOrder
<1>2. CASE Same(a, b)
  BY <1>1, <1>2 DEF Same, VersionOf, Advances
<1>3. ASSUME NEW event, Replaces(b, a, event)
      PROVE  /\ VersionOf(a) < VersionOf(b)
             /\ a.status # "absent" => b.status # "absent" /\ b.createdAt = a.createdAt
             /\ a.status # "absent" => b.version > a.version
  <2>1. b.status # "absent"
    BY <1>3 DEF Replaces
  <2>2. CASE a.status = "absent"
    BY <1>1, <2>1, <2>2 DEF VersionOf
  <2>3. CASE a.status # "absent"
    <3>1. b.version = a.version + 1 /\ b.createdAt = a.createdAt
      BY <1>3, <2>3 DEF Replaces
    <3> QED
      BY <1>1, <2>1, <2>3, <3>1 DEF VersionOf
  <2> QED
    BY <2>2, <2>3
<1>4. VersionOf(a) \in Int /\ VersionOf(b) \in Int
  BY <1>1 DEF VersionOf
<1>5. CASE \E event : Replaces(b, a, event)
  <2>1. PICK event : Replaces(b, a, event)
    BY <1>5
  <2>2. /\ VersionOf(a) < VersionOf(b) /\ b.status # "absent"
        /\ a.status # "absent" => b.status # "absent" /\ b.createdAt = a.createdAt
        /\ a.status # "absent" => b.version > a.version
    BY <1>3, <2>1 DEF Replaces
  <2> QED
    BY <1>1, <1>4, <2>2 DEF Advances
<1> QED
  BY <1>2, <1>5 DEF Follows

\* A worker's copy stays fenced.
LEMMA CopyStaysFenced ==
    ASSUME NEW w, NEW e \in Execution, NEW a \in Task, RowInOrder(a), NEW b,
           Follows(a, b), CopyFenced(w, e, a)
    PROVE  CopyFenced(w, e, b)
<1>1. a.status # "absent"
  BY DEF CopyFenced, ExecutionFenced
<1>2. b \in Task /\ Advances(a, b) /\ b.createdAt = a.createdAt
  BY <1>1, FollowFacts
<1> QED
  BY <1>2, ExecutionStaysFenced DEF CopyFenced

\* So does a copy that is on its way to the store.
LEMMA UpdateStaysFenced ==
    ASSUME NEW c, c.row \in Task, NEW a \in Task, RowInOrder(a), NEW b,
           Follows(a, b), UpdateFenced(c, a)
    PROVE  UpdateFenced(c, b)
<1>1. a.status # "absent" /\ c.row.version \in Nat
  BY DEF UpdateFenced, Task
<1>2. /\ b \in Task /\ Advances(a, b) /\ b.createdAt = a.createdAt
      /\ b.status # "absent" /\ a.version \in Nat /\ b.version \in Nat
  BY <1>1, FollowFacts DEF Task
<1>3. CASE Same(a, b)
  BY <1>3 DEF Same, UpdateFenced, SavedFrom
<1>4. CASE b.version = a.version + 1
  BY <1>1, <1>2, <1>4 DEF UpdateFenced
<1> QED
  BY <1>1, <1>3, <1>4 DEF Follows, Replaces

\* An ending of an attempt is made from the worker's copy.
LEMMA EndingFenced ==
    ASSUME NEW w \in Worker, NEW e \in Execution, NEW at \in Nat,
           NEW o \in Endings(e, at), NEW row \in Task, RowOK(row),
           CopyFenced(w, e, row), NEW c, c.row = o[1], c.event = o[2]
    PROVE  o[1] \in Task /\ o[2] \in EventType /\ UpdateFenced(c, row)
<1>1. /\ o[1] \in Task /\ o[2] \in EventType /\ o[1].version = e.row.version
      /\ o[1].createdAt = e.row.createdAt /\ SavedFrom(o[1], e.row)
      /\ Announced(o[2]) = o[1].status /\ o[1].status # "running"
  BY EndingSaveable DEF Saveable
<1>2. /\ row.status # "absent" /\ e.row.version <= row.version
      /\ e.row.createdAt = row.createdAt
      /\ e.row.version = row.version =>
           /\ row.owner = w
           /\ e.row.retryCount = row.retryCount
           /\ e.row.maxRetries = row.maxRetries
  BY DEF CopyFenced, ExecutionFenced
<1>3. ASSUME o[1].version = row.version
      PROVE  row.status = "running" /\ SavedFrom(o[1], row)
  <2>1. /\ row.owner = w /\ e.row.retryCount = row.retryCount
        /\ e.row.maxRetries = row.maxRetries
    BY <1>1, <1>2, <1>3
  <2>2. row.status = "running"
    BY <2>1, NoWorkerAssumption DEF RowOK
  <2>3. SavedFrom(o[1], row)
    BY <1>1, <2>1 DEF SavedFrom
  <2> QED
    BY <2>2, <2>3
<1> QED
  BY <1>1, <1>2, <1>3 DEF UpdateFenced

-----------------------------------------------------------------------------
(* The inductive invariant.                                                *)

\* What goroutine g has established about the transition it is making.
WriteOK(g, c) ==
    /\ c.op \in {"claim", "update"} => g \in Internal
    /\ c.op \in {"create", "cancel"} => g \in Handler /\ c.task \in TaskId
    /\ c.op = "update" /\ c.pc # "written" =>
         c.task \in TaskId /\ UpdateFenced(c, Committed[c.task])
    /\ c.op = "create" /\ c.pc # "written" => Committed[c.task].status = "absent"
    /\ c.pc = "written" =>
         /\ c.task \in TaskId /\ Replaces(tasks[c.task], c.row, c.event)
         /\ c.op # "create" => c.row.status # "absent"
         /\ c.op = "claim" => /\ tasks[c.task].status = "running"
                               /\ tasks[c.task].owner = g

\* The row a detail shows has its event among those that are stored.
DetailOK(c) ==
    /\ c.pc = "row" => Exists(c.task)
    /\ c.pc # "row" => c.version + 1 <= Len(events[c.task])
    /\ c.pc = "done" => c.version + 1 <= c.seen

\* Versions only grow while a request is answered.
BaseOK(c) == \A t \in TaskId : c.base[t] <= VersionOf(Committed[t])

\* Where a row is in the list, relative to a cursor.
AfterCursor(t, cursor) ==
    \/ cursor = NoCursor
    \/ Committed[t].createdAt < cursor.at
    \/ Committed[t].createdAt = cursor.at /\ t < cursor.id

Shown(c, t) == \E i \in DOMAIN c.pages : t \in c.pages[i]

\* The pages hold what comes before the cursor, once; what has not changed
\* and is wanted is on a page or still to come.
WalkOK(c) ==
    /\ BaseOK(c)
    /\ \A t \in TaskId : Shown(c, t) =>
         /\ Committed[t].status # "absent"
         /\ c.pc # "done" => ~AfterCursor(t, c.cursor)
    /\ \A i, j \in DOMAIN c.pages : i # j => c.pages[i] \intersect c.pages[j] = {}
    /\ \A t \in Steady(c) : Wanted(c, t) =>
         Shown(c, t) \/ (c.pc # "done" /\ AfterCursor(t, c.cursor))

Exact(c, s) == {t \in Steady(c) : Wanted(c, t) /\ Committed[t].status = s}
ExactDue(c, s) == {t \in Exact(c, s) : /\ s \in {"queued", "retrying"}
                                       /\ Committed[t].availableAt <= c.at}

\* n counted a set of tasks: all that are exact, and others that changed.
Counted(n, exact, changed) ==
    \E S \in SUBSET TaskId :
      n = Cardinality(S) /\ exact \subseteq S /\ S \subseteq exact \union changed

StatsOK(c) ==
    /\ BaseOK(c)
    /\ \A s \in Status :
         /\ c.pc # "counts" => Counted(c.counts[s], Exact(c, s), Changed(c))
         /\ c.pc = "done" => Counted(c.available[s], ExactDue(c, s), Changed(c))

ReadOK(c) ==
    /\ c.op = "detail" => DetailOK(c)
    /\ c.op = "walk" => WalkOK(c)
    /\ c.op = "stats" => StatsOK(c)

CallTyped(g, c) ==
    \/ c = NoCall
    \/ c \in WriteCall
    \/ g \in Handler /\ c \in DetailCall \union WalkCall \union StatsCall

CallOK(g) ==
    /\ CallTyped(g, calls[g])
    /\ calls[g].op \in WriteOp => WriteOK(g, calls[g])
    /\ ReadOK(calls[g])
    /\ HoldsTasks(calls[g]) <=> taskMu = g
    /\ HoldsEvents(calls[g]) <=> eventMu = g

TypesOK ==
    /\ StoreTypeOK /\ InternalTypeOK
    /\ stamps \in [TaskId -> Seq(Nat)]
    /\ backend \in Backend
    /\ calls = [g \in Goroutine |-> calls[g]]

LocksOK ==
    /\ {taskMu, eventMu} \subseteq Goroutine \union {Free}
    /\ backend = "mysql" => taskMu = Free /\ eventMu = Free

\* No two calls create the same task.
CreatesAreApart ==
    \A g, h \in Goroutine :
      calls[g].op = "create" /\ calls[h].op = "create" /\ calls[g].task = calls[h].task
        => g = h

RowsInStep ==
    \A t \in TaskId :
      /\ Committed[t] \in Task /\ RowInOrder(Committed[t])
      /\ TrailMatches(Committed[t], events[t])
      /\ Len(stamps[t]) = Len(events[t])

CopiesOK ==
    \A w \in Internal : iw[w].pc = "execute" =>
      CopyFenced(w, iw[w], Committed[iw[w].task])

SInv ==
    /\ TypesOK
    /\ LocksOK
    /\ \A g \in Goroutine : CallOK(g)
    /\ CreatesAreApart
    /\ RowsInStep
    /\ CopiesOK

-----------------------------------------------------------------------------
(* What a step does, as everyone else sees it.                             *)

Quiet ==
    /\ \A t \in TaskId : Same(Committed[t], Committed'[t])
    /\ events' = events /\ stamps' = stamps

Saves(t, event, at) ==
    /\ Replaces(Committed'[t], Committed[t], event)
    /\ \A u \in TaskId \ {t} : Committed'[u] = Committed[u]
    /\ events' = [events EXCEPT ![t] = Append(@, event)]
    /\ stamps' = [stamps EXCEPT ![t] = Append(@, at)]

Moves == Quiet \/ \E t \in TaskId, event \in EventType, at \in Nat : Saves(t, event, at)

ExistingStay == \A t \in TaskId : Exists(t) => Exists(t)'

\* The step leaves the call of h and what h relies on alone.
Leaves(h) ==
    /\ calls'[h] = calls[h]
    /\ taskMu' = h <=> taskMu = h
    /\ eventMu' = h <=> eventMu = h
    /\ taskMu = h => tasks' = tasks
    /\ calls[h].op = "create" /\ calls[h].pc # "written" =>
         Committed'[calls[h].task].status = "absent"

KeepsCopy(w) ==
    iw'[w].pc = "execute" =>
      iw[w].pc = "execute" /\ iw'[w].task = iw[w].task /\ iw'[w].row = iw[w].row

\* A step of goroutine g.
StepOK(g) ==
    /\ TypesOK' /\ LocksOK'
    /\ Moves /\ ExistingStay
    /\ \A h \in Goroutine \ {g} : Leaves(h)
    /\ Leaves(g) \/ CallOK(g)'
    /\ calls'[g].op = "create" =>
         \A h \in Goroutine \ {g} :
           calls[h].op = "create" => calls[h].task # calls'[g].task
    /\ \A w \in Internal : iw'[w].pc = "execute" =>
         KeepsCopy(w) \/ CopyFenced(w, iw'[w], Committed'[iw'[w].task])

\* Every row follows the one it was.
LEMMA RowsFollow ==
    ASSUME RowsInStep, Moves, NEW t \in TaskId
    PROVE  Follows(Committed[t], Committed'[t])
<1>1. Same(Committed[t], Committed[t])
  BY DEF RowsInStep, Same, RowInOrder
<1>2. CASE Quiet
  BY <1>2 DEF Quiet, Follows
<1>3. ASSUME NEW u \in TaskId, NEW event \in EventType, NEW at \in Nat,
             Saves(u, event, at)
      PROVE  Follows(Committed[t], Committed'[t])
  <2>1. CASE t = u
    BY <1>3, <2>1 DEF Saves, Follows
  <2>2. CASE t # u
    BY <1>1, <1>3, <2>2 DEF Saves, Follows
  <2> QED
    BY <2>1, <2>2
<1> QED
  BY <1>2, <1>3 DEF Moves

\* Rows, events and stamps stay in step.
LEMMA RowsStayInStep ==
    ASSUME TypesOK, RowsInStep, Moves
    PROVE  RowsInStep'
<1> SUFFICES ASSUME NEW t \in TaskId
             PROVE  /\ Committed'[t] \in Task /\ RowInOrder(Committed'[t])
                    /\ TrailMatches(Committed'[t], events'[t])
                    /\ Len(stamps'[t]) = Len(events'[t])
  BY DEF RowsInStep
<1> DEFINE a == Committed[t]
           b == Committed'[t]
<1>1. /\ a \in Task /\ RowInOrder(a) /\ TrailMatches(a, events[t])
      /\ Len(stamps[t]) = Len(events[t])
  BY DEF RowsInStep
<1>2. events[t] \in Seq(EventType) /\ stamps[t] \in Seq(Nat)
  BY DEF TypesOK, StoreTypeOK
<1>3. Follows(a, b)
  BY RowsFollow
<1>4. b \in Task /\ RowInOrder(b)
  BY <1>1, <1>3, FollowFacts
<1>5. CASE Quiet
  <2>1. Same(a, b) /\ events'[t] = events[t] /\ stamps'[t] = stamps[t]
    BY <1>5 DEF Quiet
  <2>2. TrailMatches(b, events[t])
    BY <1>1, <2>1 DEF Same, TrailMatches
  <2> QED
    BY <1>1, <1>4, <2>1, <2>2
<1>6. ASSUME NEW u \in TaskId, NEW event \in EventType, NEW at \in Nat,
             Saves(u, event, at)
      PROVE  TrailMatches(b, events'[t]) /\ Len(stamps'[t]) = Len(events'[t])
  <2>1. CASE t # u
    <3>1. events'[t] = events[t] /\ stamps'[t] = stamps[t] /\ b = a
      BY <1>6, <2>1 DEF Saves, TypesOK, StoreTypeOK
    <3> QED
      BY <1>1, <3>1
  <2>2. CASE t = u
    <3>1. /\ events'[t] = Append(events[t], event) /\ stamps'[t] = Append(stamps[t], at)
          /\ Replaces(b, a, event)
      BY <1>6, <2>2 DEF Saves, TypesOK, StoreTypeOK
    <3>2. Len(stamps'[t]) = Len(events'[t])
      BY <1>1, <1>2, <3>1
    <3>3. CASE a.status # "absent"
      <4>1. b.status # "absent" /\ b.version = a.version + 1 /\ Announced(event) = b.status
        BY <3>1, <3>3 DEF Replaces
      <4> HIDE DEF a, b
      <4> QED
        BY <1>1, <1>2, <1>4, <3>1, <3>2, <3>3, <4>1, AppendMatches
    <3>4. CASE a.status = "absent"
      <4>1. b.status # "absent" /\ b.version = 0 /\ Announced(event) = b.status
        BY <3>1, <3>4 DEF Replaces
      <4>2. events[t] = <<>>
        BY <1>1, <3>4 DEF TrailMatches
      <4>3. Len(events'[t]) = 1 /\ events'[t][1] = event
        BY <3>1, <4>2
      <4> QED
        BY <3>2, <4>1, <4>3 DEF TrailMatches
    <3> QED
      BY <3>3, <3>4
  <2> QED
    BY <2>1, <2>2
<1> QED
  BY <1>4, <1>5, <1>6 DEF Moves

\* The event list of a task does not shrink.
LEMMA EventsGrow ==
    ASSUME TypesOK, Moves, NEW t \in TaskId
    PROVE  Len(events[t]) <= Len(events'[t])
<1>1. events[t] \in Seq(EventType)
  BY DEF TypesOK, StoreTypeOK
<1>2. CASE Quiet
  BY <1>1, <1>2 DEF Quiet
<1>3. ASSUME NEW u \in TaskId, NEW event \in EventType, NEW at \in Nat,
             Saves(u, event, at)
      PROVE  Len(events[t]) <= Len(events'[t])
  <2>1. CASE t = u
    <3>1. events'[t] = Append(events[t], event)
      BY <1>3, <2>1 DEF Saves, TypesOK, StoreTypeOK
    <3> QED
      BY <1>1, <3>1
  <2>2. CASE t # u
    <3>1. events'[t] = events[t]
      BY <1>3, <2>2 DEF Saves, TypesOK, StoreTypeOK
    <3> QED
      BY <1>1, <3>1
  <2> QED
    BY <2>1, <2>2
<1> QED
  BY <1>2, <1>3 DEF Moves

-----------------------------------------------------------------------------
(* A request that combines several reads keeps what it has established     *)
(* while others move on.                                                   *)

\* The versions a request compares with.
LEMMA VersionsAre == \A t \in TaskId : Versions[t] = VersionOf(Committed[t])
BY DEF Versions, VersionOf

\* A task that is still steady has its old row; one that changed stays changed.
LEMMA SteadyAndChanged ==
    ASSUME RowsInStep, Moves, NEW c, c.base \in [TaskId -> Int], BaseOK(c)
    PROVE  /\ BaseOK(c)'
           /\ Changed(c) \subseteq Changed(c)'
           /\ Steady(c)' \subseteq Steady(c)
           /\ Steady(c) \subseteq Steady(c)' \union Changed(c)'
           /\ \A t \in Steady(c)' : Same(Committed[t], Committed'[t])
<1>1. \A t \in TaskId :
        /\ Versions[t] \in Int /\ Versions'[t] \in Int
        /\ Versions[t] <= Versions'[t]
        /\ Versions[t] = Versions'[t] => Same(Committed[t], Committed'[t])
  <2> TAKE t \in TaskId
  <2>1. Committed[t] \in Task /\ RowInOrder(Committed[t])
    BY DEF RowsInStep
  <2>2. Follows(Committed[t], Committed'[t])
    BY RowsFollow
  <2>3. Versions[t] = VersionOf(Committed[t]) /\ Versions'[t] = VersionOf(Committed'[t])
    BY DEF Versions, VersionOf
  <2> QED
    BY <2>1, <2>2, <2>3, FollowFacts
<1>2. \A t \in TaskId : c.base[t] <= Versions[t] /\ c.base[t] \in Int
  BY VersionsAre DEF BaseOK
<1>3. \A t \in TaskId : Versions'[t] = VersionOf(Committed'[t])
  BY DEF Versions, VersionOf
<1>4. BaseOK(c)'
  BY <1>1, <1>2, <1>3 DEF BaseOK
<1>5. Changed(c) \subseteq Changed(c)'
  BY <1>1, <1>2 DEF Changed
<1>6. Steady(c)' \subseteq Steady(c)
  BY <1>1, <1>2 DEF Steady
<1>7. Steady(c) \subseteq Steady(c)' \union Changed(c)'
  BY DEF Steady, Changed
<1>8. \A t \in Steady(c)' : Same(Committed[t], Committed'[t])
  BY <1>1, <1>2 DEF Steady
<1> QED
  BY <1>4, <1>5, <1>6, <1>7, <1>8

\* A detail.
LEMMA DetailStays ==
    ASSUME TypesOK, Moves, ExistingStay, NEW c \in DetailCall, DetailOK(c)
    PROVE  DetailOK(c)'
<1>1. c.task \in TaskId /\ c.version \in Nat
  BY DEF DetailCall
<1>2. /\ Len(events[c.task]) \in Nat /\ Len(events'[c.task]) \in Nat
      /\ Len(events[c.task]) <= Len(events'[c.task])
  <2>1. events[c.task] \in Seq(EventType)
    BY <1>1 DEF TypesOK, StoreTypeOK
  <2>2. Len(events[c.task]) <= Len(events'[c.task])
    BY <1>1, EventsGrow
  <2>3. Len(events'[c.task]) \in Nat
    <3>1. CASE Quiet
      BY <2>1, <3>1 DEF Quiet
    <3>2. ASSUME NEW u \in TaskId, NEW event \in EventType, NEW at \in Nat,
                 Saves(u, event, at)
          PROVE  Len(events'[c.task]) \in Nat
      <4>1. events'[c.task] = events[c.task] \/ events'[c.task] = Append(events[c.task], event)
        BY <1>1, <3>2 DEF Saves, TypesOK, StoreTypeOK
      <4> QED
        BY <2>1, <4>1
    <3> QED
      BY <3>1, <3>2 DEF Moves
  <2> QED
    BY <2>1, <2>2, <2>3
<1>3. c.pc = "row" => Exists(c.task)'
  BY <1>1 DEF DetailOK, ExistingStay
<1>4. c.pc # "row" => c.version + 1 <= Len(events'[c.task])
  BY <1>1, <1>2 DEF DetailOK
<1> QED
  BY <1>3, <1>4 DEF DetailOK

\* A walk through the pages.
LEMMA WalkStays ==
    ASSUME RowsInStep, Moves, NEW c \in WalkCall, WalkOK(c)
    PROVE  WalkOK(c)'
<1>1. c.base \in [TaskId -> Int] /\ BaseOK(c)
  BY DEF WalkCall, WalkOK
<1>2. /\ BaseOK(c)'
      /\ Steady(c)' \subseteq Steady(c)
      /\ \A t \in Steady(c)' : Same(Committed[t], Committed'[t])
  BY <1>1, SteadyAndChanged
<1>3. \A t \in TaskId : Shown(c, t)' <=> Shown(c, t)
  BY DEF Shown
<1>4. \A t \in TaskId : Committed[t].status # "absent" =>
        /\ Committed'[t].status # "absent"
        /\ AfterCursor(t, c.cursor)' <=> AfterCursor(t, c.cursor)
  <2> SUFFICES ASSUME NEW t \in TaskId, Committed[t].status # "absent"
               PROVE  /\ Committed'[t].status # "absent"
                      /\ AfterCursor(t, c.cursor)' <=> AfterCursor(t, c.cursor)
    OBVIOUS
  <2>1. Committed'[t].status # "absent" /\ Committed'[t].createdAt = Committed[t].createdAt
    BY RowsFollow, FollowFacts DEF RowsInStep
  <2> QED
    BY <2>1 DEF AfterCursor
<1>5. \A t \in TaskId : Shown(c, t)' =>
         /\ Committed'[t].status # "absent"
         /\ c.pc # "done" => ~AfterCursor(t, c.cursor)'
  BY <1>3, <1>4 DEF WalkOK
<1>6. \A t \in Steady(c)' : Wanted(c, t)' =>
         Shown(c, t)' \/ (c.pc # "done" /\ AfterCursor(t, c.cursor)')
  <2> SUFFICES ASSUME NEW t \in Steady(c)', Wanted(c, t)'
               PROVE  Shown(c, t)' \/ (c.pc # "done" /\ AfterCursor(t, c.cursor)')
    OBVIOUS
  <2>1. t \in TaskId /\ t \in Steady(c) /\ Same(Committed[t], Committed'[t])
    BY <1>2 DEF Steady
  <2>2. Committed[t].status # "absent"
    <3>1. Versions[t] = c.base[t] /\ c.base[t] # -1
      BY <2>1 DEF Steady
    <3> QED
      BY <2>1, <3>1, VersionsAre DEF VersionOf
  <2>3. Wanted(c, t)
    BY <2>1 DEF Wanted, Same
  <2> QED
    BY <1>3, <1>4, <2>1, <2>2, <2>3 DEF WalkOK
<1>7. \A i, j \in DOMAIN c.pages : i # j => c.pages[i] \intersect c.pages[j] = {}
  BY DEF WalkOK
<1> QED
  BY <1>2, <1>5, <1>6, <1>7 DEF WalkOK

\* Statistics.
LEMMA StatsStay ==
    ASSUME RowsInStep, Moves, NEW c \in StatsCall, StatsOK(c)
    PROVE  StatsOK(c)'
<1>1. c.base \in [TaskId -> Int] /\ BaseOK(c)
  BY DEF StatsCall, StatsOK
<1>2. /\ BaseOK(c)'
      /\ Changed(c) \subseteq Changed(c)'
      /\ Steady(c)' \subseteq Steady(c)
      /\ Steady(c) \subseteq Steady(c)' \union Changed(c)'
      /\ \A t \in Steady(c)' : Same(Committed[t], Committed'[t])
  BY <1>1, SteadyAndChanged
<1>3. \A s \in Status : /\ Exact(c, s)' \subseteq Exact(c, s)
                        /\ Exact(c, s) \subseteq Exact(c, s)' \union Changed(c)'
  BY <1>2 DEF Exact, Wanted, Same
<1>4. \A s \in Status : /\ ExactDue(c, s)' \subseteq ExactDue(c, s)
                        /\ ExactDue(c, s) \subseteq ExactDue(c, s)' \union Changed(c)'
  <2> TAKE s \in Status
  <2>1. Exact(c, s)' \subseteq Steady(c)'
    BY DEF Exact
  <2> QED
    BY <1>2, <1>3, <2>1 DEF ExactDue, Same
<1>5. ASSUME NEW n, NEW X, NEW Y, NEW A, NEW B, Counted(n, X, A),
             Y \subseteq X, X \subseteq Y \union B, A \subseteq B
      PROVE  Counted(n, Y, B)
  <2>1. PICK S \in SUBSET TaskId :
          n = Cardinality(S) /\ X \subseteq S /\ S \subseteq X \union A
    BY <1>5 DEF Counted
  <2>2. Y \subseteq S /\ S \subseteq Y \union B
    BY <1>5, <2>1
  <2> QED
    BY <2>1, <2>2 DEF Counted
<1>6. \A s \in Status : c.pc # "counts" =>
        Counted(c.counts[s], Exact(c, s)', Changed(c)')
  BY <1>2, <1>3, <1>5 DEF StatsOK
<1>7. \A s \in Status : c.pc = "done" =>
        Counted(c.available[s], ExactDue(c, s)', Changed(c)')
  BY <1>2, <1>4, <1>5 DEF StatsOK
<1> QED
  BY <1>2, <1>6, <1>7 DEF StatsOK, Counted

\* Which kind of call a call is.
LEMMA CallKinds ==
    ASSUME NEW g, NEW c, CallTyped(g, c)
    PROVE  /\ c.op \in WriteOp => c \in WriteCall
           /\ c.op = "detail" => c \in DetailCall /\ g \in Handler
           /\ c.op = "walk" => c \in WalkCall /\ g \in Handler
           /\ c.op = "stats" => c \in StatsCall /\ g \in Handler
           /\ HoldsTasks(c) => c.op \in WriteOp
           /\ HoldsEvents(c) => HoldsTasks(c)
           /\ c.pc = "pause" => c.op = "walk"
<1>1. CASE c = NoCall
  BY <1>1 DEF NoCall, WriteOp, HoldsTasks, HoldsEvents
<1>2. CASE c \in WriteCall
  BY <1>2 DEF WriteCall, WriteOp, HoldsTasks, HoldsEvents
<1>3. CASE g \in Handler /\ c \in DetailCall
  BY <1>3 DEF DetailCall, WriteOp, HoldsTasks, HoldsEvents
<1>4. CASE g \in Handler /\ c \in WalkCall
  BY <1>4 DEF WalkCall, WriteOp, HoldsTasks, HoldsEvents
<1>5. CASE g \in Handler /\ c \in StatsCall
  BY <1>5 DEF StatsCall, WriteOp, HoldsTasks, HoldsEvents
<1> QED
  BY <1>1, <1>2, <1>3, <1>4, <1>5 DEF CallTyped

\* A transition in progress keeps what it has established.
LEMMA WriteStays ==
    ASSUME RowsInStep, Moves, NEW g, NEW c \in WriteCall, WriteOK(g, c),
           c.pc = "written" => tasks' = tasks,
           c.op = "create" /\ c.pc # "written" => Committed'[c.task].status = "absent"
    PROVE  WriteOK(g, c)'
<1>1. c.row \in Task
  BY DEF WriteCall
<1>2. ASSUME c.op = "update", c.pc # "written"
      PROVE  c.task \in TaskId /\ UpdateFenced(c, Committed'[c.task])
  <2>1. c.task \in TaskId /\ UpdateFenced(c, Committed[c.task])
    BY <1>2 DEF WriteOK
  <2>2. /\ Committed[c.task] \in Task /\ RowInOrder(Committed[c.task])
        /\ Follows(Committed[c.task], Committed'[c.task])
    BY <2>1, RowsFollow DEF RowsInStep
  <2> QED
    BY <1>1, <2>1, <2>2, UpdateStaysFenced
<1>3. ASSUME c.pc = "written"
      PROVE  Replaces(tasks'[c.task], c.row, c.event)
  BY <1>3 DEF WriteOK
<1>4. /\ c.op \in {"claim", "update"} => g \in Internal
      /\ c.op \in {"create", "cancel"} => g \in Handler /\ c.task \in TaskId
      /\ c.pc = "written" =>
           /\ c.task \in TaskId
           /\ c.op # "create" => c.row.status # "absent"
           /\ c.op = "claim" => tasks'[c.task].status = "running" /\ tasks'[c.task].owner = g
  BY DEF WriteOK
<1>5. WriteOK(g, c)' <=>
        /\ c.op \in {"claim", "update"} => g \in Internal
        /\ c.op \in {"create", "cancel"} => g \in Handler /\ c.task \in TaskId
        /\ c.op = "update" /\ c.pc # "written" =>
             c.task \in TaskId /\ UpdateFenced(c, Committed'[c.task])
        /\ c.op = "create" /\ c.pc # "written" => Committed'[c.task].status = "absent"
        /\ c.pc = "written" =>
             /\ c.task \in TaskId /\ Replaces(tasks'[c.task], c.row, c.event)
             /\ c.op # "create" => c.row.status # "absent"
             /\ c.op = "claim" => /\ tasks'[c.task].status = "running"
                                   /\ tasks'[c.task].owner = g
  BY Zenon DEF WriteOK
<1> QED
  BY <1>2, <1>3, <1>4, <1>5

\* What is said of a call in the next state can be said of a name for it.
LEMMA ReadNamed ==
    ASSUME NEW h, NEW c, c = calls'[h], ReadOK(c)'
    PROVE  ReadOK(calls[h])'
<1>1. Steady(c)' = Steady(calls[h])' /\ Changed(c)' = Changed(calls[h])'
  BY DEF Steady, Changed
<1>2. /\ \A t : Wanted(c, t)' <=> Wanted(calls[h], t)'
      /\ \A t : Shown(c, t)' <=> Shown(calls[h], t)'
      /\ \A t : AfterCursor(t, c.cursor)' <=> AfterCursor(t, calls[h].cursor)'
  BY DEF Wanted, Shown, AfterCursor
<1>3. BaseOK(c)' <=> BaseOK(calls[h])'
  BY DEF BaseOK
<1>4. DetailOK(c)' => DetailOK(calls[h])'
  BY DEF DetailOK
<1>5. WalkOK(c)' => WalkOK(calls[h])'
  BY <1>1, <1>2, <1>3 DEF WalkOK
<1>6. \A s : Exact(c, s)' = Exact(calls[h], s)'
  BY <1>1, <1>2 DEF Exact
<1>7. \A s : ExactDue(c, s)' = ExactDue(calls[h], s)'
  BY <1>6 DEF ExactDue
<1>8. StatsOK(c)' => StatsOK(calls[h])'
  BY <1>1, <1>3, <1>6, <1>7 DEF StatsOK, Counted
<1> QED
  BY <1>4, <1>5, <1>8 DEF ReadOK

\* A request keeps what it has established.
LEMMA ReadStays ==
    ASSUME TypesOK, RowsInStep, Moves, ExistingStay, NEW g, NEW c, CallTyped(g, c),
           ReadOK(c)
    PROVE  ReadOK(c)'
<1>1. c.op = "detail" => DetailOK(c)'
  BY CallKinds, DetailStays DEF ReadOK
<1>2. c.op = "walk" => WalkOK(c)'
  BY CallKinds, WalkStays DEF ReadOK
<1>3. c.op = "stats" => StatsOK(c)'
  BY CallKinds, StatsStay DEF ReadOK
<1> QED
  BY <1>1, <1>2, <1>3 DEF ReadOK

\* A call by its name.
LEMMA CallNamed ==
    ASSUME NEW g, NEW c, c = calls'[g], CallTyped(g, c), ReadOK(c)',
           c.op \in WriteOp => WriteOK(g, c)',
           HoldsTasks(c) <=> taskMu' = g,
           HoldsEvents(c) <=> eventMu' = g
    PROVE  CallOK(g)'
<1>1. ReadOK(calls[g])'
  BY ReadNamed
<1>2. calls'[g].op \in WriteOp => WriteOK(g, calls[g])'
  BY Zenon DEF WriteOK, UpdateFenced
<1>3. /\ HoldsTasks(calls[g])' <=> taskMu' = g
      /\ HoldsEvents(calls[g])' <=> eventMu' = g
  BY DEF HoldsTasks, HoldsEvents
<1> QED
  BY <1>1, <1>2, <1>3 DEF CallOK, CallTyped

\* Any call.
LEMMA CallStays ==
    ASSUME TypesOK, RowsInStep, Moves, ExistingStay, NEW h \in Goroutine,
           CallOK(h), Leaves(h)
    PROVE  CallOK(h)'
<1>1. PICK c : c = calls[h]
  OBVIOUS
<1>2. /\ CallTyped(h, c) /\ ReadOK(c)
      /\ c.op \in WriteOp => WriteOK(h, c)
      /\ HoldsTasks(c) <=> taskMu = h
      /\ HoldsEvents(c) <=> eventMu = h
  BY <1>1 DEF CallOK
<1>3. /\ c = calls'[h]
      /\ taskMu' = h <=> taskMu = h
      /\ eventMu' = h <=> eventMu = h
      /\ taskMu = h => tasks' = tasks
      /\ c.op = "create" /\ c.pc # "written" => Committed'[c.task].status = "absent"
  BY <1>1 DEF Leaves
<1>4. c.op \in WriteOp => WriteOK(h, c)'
  <2> SUFFICES ASSUME c.op \in WriteOp PROVE WriteOK(h, c)'
    OBVIOUS
  <2>1. c \in WriteCall /\ WriteOK(h, c)
    BY <1>2, CallKinds
  <2>2. c.pc = "written" => tasks' = tasks
    BY <1>2, <1>3 DEF HoldsTasks
  <2> QED
    BY <1>3, <2>1, <2>2, WriteStays
<1>5. ReadOK(c)'
  BY <1>2, ReadStays
<1> QED
  BY <1>2, <1>3, <1>4, <1>5, CallNamed

-----------------------------------------------------------------------------
(* A step that is OK keeps the invariant.                                  *)

\* The copies of the workers.
LEMMA CopiesStay ==
    ASSUME TypesOK, RowsInStep, Moves, CopiesOK, NEW w \in Internal,
           iw'[w].pc = "execute", KeepsCopy(w)
    PROVE  CopyFenced(w, iw'[w], Committed'[iw'[w].task])
<1>1. /\ iw[w].pc = "execute" /\ iw'[w].task = iw[w].task /\ iw'[w].row = iw[w].row
  BY DEF KeepsCopy
<1>2. iw[w] \in Execution /\ iw[w].task \in TaskId
  BY <1>1, ExecutionParts DEF TypesOK
<1>3. CopyFenced(w, iw[w], Committed[iw[w].task])
  BY <1>1 DEF CopiesOK
<1>4. /\ Committed[iw[w].task] \in Task /\ RowInOrder(Committed[iw[w].task])
      /\ Follows(Committed[iw[w].task], Committed'[iw[w].task])
  BY <1>2, RowsFollow DEF RowsInStep
<1>5. CopyFenced(w, iw[w], Committed'[iw[w].task])
  BY <1>2, <1>3, <1>4, CopyStaysFenced
<1> QED
  BY <1>1, <1>5 DEF CopyFenced, ExecutionFenced

\* The induction step, for any step that is OK.
LEMMA StepKeeps ==
    ASSUME SInv, NEW g \in Goroutine, StepOK(g)
    PROVE  SInv'
<1>1. TypesOK' /\ LocksOK' /\ Moves /\ ExistingStay
  BY DEF StepOK
<1>2. TypesOK /\ RowsInStep /\ CopiesOK /\ CreatesAreApart
  BY DEF SInv
<1>3. RowsInStep'
  BY <1>1, <1>2, RowsStayInStep
<1>4. \A h \in Goroutine : CallOK(h)'
  <2>1. ASSUME NEW h \in Goroutine, Leaves(h) PROVE CallOK(h)'
    BY <1>1, <1>2, <2>1, CallStays DEF SInv
  <2> QED
    BY <2>1 DEF StepOK
<1>5. CreatesAreApart'
  <2> SUFFICES ASSUME NEW h \in Goroutine, NEW k \in Goroutine,
                      calls'[h].op = "create", calls'[k].op = "create",
                      calls'[h].task = calls'[k].task
               PROVE  h = k
    BY DEF CreatesAreApart
  <2>1. \A j \in Goroutine \ {g} : calls'[j] = calls[j]
    BY DEF StepOK, Leaves
  <2>2. calls'[g].op = "create" =>
         \A j \in Goroutine \ {g} :
           calls[j].op = "create" => calls[j].task # calls'[g].task
    BY DEF StepOK
  <2>3. CASE h # g /\ k # g
    BY <1>2, <2>1, <2>3 DEF CreatesAreApart
  <2>4. CASE h = g /\ k # g
    BY <2>1, <2>2, <2>4
  <2>5. CASE k = g /\ h # g
    BY <2>1, <2>2, <2>5
  <2> QED
    BY <2>3, <2>4, <2>5
<1>6. CopiesOK'
  <2> SUFFICES ASSUME NEW w \in Internal, iw'[w].pc = "execute"
               PROVE  CopyFenced(w, iw'[w], Committed'[iw'[w].task])
    BY DEF CopiesOK, CopyFenced, ExecutionFenced
  <2>1. CASE KeepsCopy(w)
    BY <1>1, <1>2, <2>1, CopiesStay
  <2> QED
    BY <2>1 DEF StepOK
<1> QED
  BY <1>1, <1>3, <1>4, <1>5, <1>6 DEF SInv

-----------------------------------------------------------------------------
(* Steps that leave the rows alone.                                        *)

\* The rows as others see them do not depend on calls that hold no lock.
LEMMA CommittedSame ==
    ASSUME tasks' = tasks, taskMu' = taskMu,
           taskMu # Free => calls'[taskMu] = calls[taskMu]
    PROVE  Committed' = Committed
BY DEF Committed

\* Such a step is quiet.
LEMMA QuietStep ==
    ASSUME SInv, Committed' = Committed, events' = events, stamps' = stamps
    PROVE  Moves
<1>1. \A t \in TaskId : Same(Committed[t], Committed'[t])
  BY DEF SInv, RowsInStep, RowInOrder, Same
<1> QED
  BY <1>1 DEF Moves, Quiet

\* A creation in progress finds no row yet.
LEMMA CreationsWait ==
    ASSUME SInv, NEW h \in Goroutine, calls[h].op = "create", calls[h].pc # "written"
    PROVE  Committed[calls[h].task].status = "absent" /\ calls[h].task \in TaskId
<1>1. WriteOK(h, calls[h])
  BY DEF SInv, CallOK, WriteOp
<1> QED
  BY <1>1 DEF WriteOK

\* A step of one goroutine that holds no lock changes its call alone.
LEMMA CallOnlyStep ==
    ASSUME SInv, NEW g \in Goroutine, NEW c,
           tasks' = tasks, events' = events, granted' = granted, stamps' = stamps,
           backend' = backend, taskMu' = taskMu, eventMu' = eventMu,
           now' \in Nat, InternalTypeOK', \A w \in Internal : KeepsCopy(w),
           ~HoldsTasks(calls[g]), ~HoldsTasks(c), calls' = [calls EXCEPT ![g] = c],
           CallTyped(g, c), ReadOK(c), c.op \in WriteOp => WriteOK(g, c),
           c.op = "create" => \A h \in Goroutine \ {g} :
             calls[h].op = "create" => calls[h].task # c.task
    PROVE  StepOK(g)
<1>1. calls'[g] = c /\ \A h \in Goroutine \ {g} : calls'[h] = calls[h]
  BY DEF SInv, TypesOK
<1>2. taskMu # g /\ eventMu # g
  BY CallKinds DEF SInv, CallOK
<1>3. Committed' = Committed
  <2>1. taskMu # Free => taskMu \in Goroutine \ {g}
    BY <1>2 DEF SInv, LocksOK
  <2> QED
    BY <1>1, <2>1, CommittedSame
<1>4. Moves
  BY <1>3, QuietStep
<1>5. TypesOK' /\ LocksOK'
  BY DEF SInv, TypesOK, LocksOK, StoreTypeOK
<1>6. ExistingStay
  BY DEF ExistingStay, Exists
<1>7. \A h \in Goroutine \ {g} : Leaves(h)
  BY <1>1, <1>3, CreationsWait DEF Leaves
<1>8. CallOK(g)'
  <2>1. ReadOK(c)'
    BY <1>4, <1>6, ReadStays DEF SInv
  <2>2. c.op \in WriteOp => WriteOK(g, c)'
    <3> SUFFICES ASSUME c.op \in WriteOp PROVE WriteOK(g, c)'
      OBVIOUS
    <3>1. c \in WriteCall /\ c.pc # "written"
      BY CallKinds DEF HoldsTasks
    <3>2. c.op = "create" => Committed'[c.task].status = "absent"
      BY <1>3, <3>1 DEF WriteOK
    <3> QED
      BY <1>4, <3>1, <3>2, WriteStays DEF SInv
  <2>3. ~HoldsEvents(c)
    BY CallKinds
  <2> QED
    BY <1>1, <1>2, <2>1, <2>2, <2>3, CallNamed
<1> QED
  BY <1>1, <1>4, <1>5, <1>6, <1>7, <1>8 DEF StepOK

\* A step that changes no call.
LEMMA NoCallStep ==
    ASSUME SInv, NEW g \in Goroutine,
           Moves, ExistingStay, StoreTypeOK', InternalTypeOK',
           stamps' = stamps, backend' = backend, taskMu' = taskMu,
           eventMu' = eventMu, calls' = calls,
           \A h \in Goroutine : taskMu = h => tasks' = tasks,
           \A h \in Goroutine : calls[h].op = "create" /\ calls[h].pc # "written" =>
              Committed'[calls[h].task].status = "absent",
           \A w \in Internal : KeepsCopy(w)
    PROVE  StepOK(g)
<1>1. TypesOK' /\ LocksOK'
  BY DEF SInv, TypesOK, LocksOK
<1>2. \A h \in Goroutine : Leaves(h)
  BY DEF Leaves
<1>3. calls'[g].op = "create" => \A h \in Goroutine \ {g} :
        calls[h].op = "create" => calls[h].task # calls'[g].task
  BY DEF SInv, CreatesAreApart
<1> QED
  BY <1>1, <1>2, <1>3 DEF StepOK

-----------------------------------------------------------------------------
(* The requests.                                                           *)

\* A call that begins.
LEMMA StartStep ==
    ASSUME SInv, NEW g \in Goroutine, NEW c, Start(g, c), ~HoldsTasks(c),
           CallTyped(g, c), ReadOK(c), c.op \in WriteOp => WriteOK(g, c),
           c.op = "create" => \A h \in Goroutine \ {g} :
             calls[h].op = "create" => calls[h].task # c.task
    PROVE  StepOK(g)
<1>1. /\ tasks' = tasks /\ events' = events /\ granted' = granted /\ stamps' = stamps
      /\ backend' = backend /\ taskMu' = taskMu /\ eventMu' = eventMu
      /\ now' = now /\ iw' = iw /\ up' = up /\ crashes' = crashes
      /\ calls[g] = NoCall /\ calls' = [calls EXCEPT ![g] = c]
  BY DEF Start, storeVars, internalVars, memoryVars
<1>2. now' \in Nat /\ InternalTypeOK' /\ \A w \in Internal : KeepsCopy(w)
  BY <1>1 DEF SInv, TypesOK, StoreTypeOK, InternalTypeOK, KeepsCopy
<1>3. ~HoldsTasks(calls[g])
  BY <1>1 DEF HoldsTasks, NoCall
<1> QED
  BY <1>1, <1>2, <1>3, CallOnlyStep

\* The type of a call that is going to write.
LEMMA StartedWrite ==
    ASSUME NEW op \in WriteOp, NEW at \in Nat, NEW t \in TaskId \union {0},
           NEW row \in Task, NEW event \in EventType \union {""}
    PROVE  LET c == [op |-> op, pc |-> "begin", at |-> at, task |-> t, row |-> row,
                     event |-> event]
           IN  c \in WriteCall /\ ~HoldsTasks(c) /\ ReadOK(c)
BY DEF WriteCall, WriteOp, HoldsTasks, ReadOK

\* A call that is going to write.
LEMMA StartWriteStep ==
    ASSUME SInv, NEW g \in Goroutine, NEW op \in WriteOp, NEW at \in Nat,
           NEW t \in TaskId \union {0}, NEW row \in Task, NEW event \in EventType \union {""},
           StartWriting(g, op, t, row, event, at),
           op \in {"claim", "update"} => g \in Internal,
           op \in {"create", "cancel"} => g \in Handler /\ t \in TaskId,
           op = "create" => /\ Committed[t].status = "absent"
                            /\ \A h \in Goroutine \ {g} :
                                 calls[h].op = "create" => calls[h].task # t,
           op = "update" => \A c : c.row = row /\ c.event = event =>
             t \in TaskId /\ UpdateFenced(c, Committed[t])
    PROVE  StepOK(g)
<1>1. PICK c : c = [op |-> op, pc |-> "begin", at |-> at, task |-> t, row |-> row,
                    event |-> event]
  OBVIOUS
<1>2. Start(g, c)
  BY <1>1 DEF StartWriting
<1>3. c \in WriteCall /\ ~HoldsTasks(c) /\ ReadOK(c)
  BY <1>1, StartedWrite
<1>4. /\ c.op = op /\ c.pc = "begin" /\ c.task = t /\ c.row = row /\ c.event = event
  BY <1>1
<1>5. WriteOK(g, c)
  BY <1>4 DEF WriteOK
<1>6. CallTyped(g, c)
  BY <1>3 DEF CallTyped
<1> QED
  BY <1>2, <1>3, <1>4, <1>5, <1>6, StartStep

\* A worker polls, or ends its attempt.
LEMMA StartWorkerStep ==
    ASSUME SInv, NEW w \in Internal, StartWorker(w)
    PROVE  StepOK(w)
<1>1. w \in Goroutine /\ w \in Worker
  BY InternalAssumption DEF Goroutine
<1>2. PICK at \in LocalTime :
      \/ iw[w].pc = "poll" /\ StartWriting(w, "claim", 0, NoTask, "", at)
      \/ /\ iw[w].pc = "execute" /\ iw[w].lease # "lost"
         /\ \E o \in Endings(iw[w], at) :
              StartWriting(w, "update", iw[w].task, o[1], o[2], at)
  BY DEF StartWorker
<1>3. at \in Nat
  BY LocalTimeType DEF SInv, TypesOK, StoreTypeOK
<1>4. "claim" \in WriteOp /\ "update" \in WriteOp
  BY DEF WriteOp
<1>5. CASE StartWriting(w, "claim", 0, NoTask, "", at)
  BY <1>1, <1>3, <1>4, <1>5, NoTaskType, StartWriteStep
<1>6. CASE /\ iw[w].pc = "execute"
           /\ \E o \in Endings(iw[w], at) :
                StartWriting(w, "update", iw[w].task, o[1], o[2], at)
  <2>1. PICK o \in Endings(iw[w], at) :
          StartWriting(w, "update", iw[w].task, o[1], o[2], at)
    BY <1>6
  <2>2. iw[w] \in Execution /\ iw[w].task \in TaskId
    BY <1>6, ExecutionParts DEF SInv, TypesOK
  <2>3. /\ CopyFenced(w, iw[w], Committed[iw[w].task])
        /\ Committed[iw[w].task] \in Task /\ RowOK(Committed[iw[w].task])
    BY <1>6, <2>2 DEF SInv, CopiesOK, RowsInStep, RowInOrder
  <2>4. \A c : c.row = o[1] /\ c.event = o[2] =>
          o[1] \in Task /\ o[2] \in EventType /\ UpdateFenced(c, Committed[iw[w].task])
    BY <1>1, <1>3, <2>2, <2>3, EndingFenced
  <2>5. o[1] \in Task /\ o[2] \in EventType
    <3>1. PICK c : c = [row |-> o[1], event |-> o[2]]
      OBVIOUS
    <3>2. c.row = o[1] /\ c.event = o[2]
      BY <3>1
    <3> QED
      BY <2>4, <3>2
  <2>6. \A c : c.row = o[1] /\ c.event = o[2] =>
          iw[w].task \in TaskId /\ UpdateFenced(c, Committed[iw[w].task])
    BY <2>2, <2>4
  <2>7. PICK t \in TaskId : t = iw[w].task
    BY <2>2
  <2>8. PICK row \in Task, event \in EventType : row = o[1] /\ event = o[2]
    BY <2>5
  <2>9. StartWriting(w, "update", t, row, event, at)
    BY <2>1, <2>7, <2>8
  <2>10. \A c : c.row = row /\ c.event = event =>
           t \in TaskId /\ UpdateFenced(c, Committed[t])
    BY <2>6, <2>7, <2>8
  <2> QED
    BY <1>1, <1>3, <1>4, <2>9, <2>10, StartWriteStep
<1> QED
  BY <1>2, <1>5, <1>6

\* The reaper polls.
LEMMA StartReaperStep ==
    ASSUME SInv, StartReaper
    PROVE  StepOK(Reaper)
<1>1. PICK at \in LocalTime : StartWriting(Reaper, "reap", 0, NoTask, "", at)
  BY DEF StartReaper
<1>2. at \in Nat /\ Reaper \in Goroutine /\ "reap" \in WriteOp
  BY LocalTimeType DEF SInv, TypesOK, StoreTypeOK, Goroutine, WriteOp
<1> QED
  BY <1>1, <1>2, NoTaskType, StartWriteStep

\* A row that is not there is not there for anyone.
LEMMA AbsentForAll ==
    ASSUME SInv, NEW t \in TaskId, ~Exists(t)
    PROVE  Committed[t].status = "absent"
<1>1. CASE taskMu # Free /\ calls[taskMu].pc = "written"
  <2>1. PICK g \in Goroutine : g = taskMu
    BY <1>1 DEF SInv, LocksOK
  <2>2. CallOK(g) /\ calls[g].pc = "written"
    BY <1>1, <2>1 DEF SInv
  <2>3. calls[g].op \in WriteOp
    BY <2>2, CallKinds DEF CallOK, HoldsTasks
  <2>4. Replaces(tasks[calls[g].task], calls[g].row, calls[g].event)
    BY <2>2, <2>3 DEF CallOK, WriteOK
  <2>5. calls[g].task # t
    BY <2>4 DEF Replaces, Exists
  <2>6. Committed = [tasks EXCEPT ![calls[g].task] = calls[g].row]
    BY <1>1, <2>1 DEF Committed
  <2>7. Committed[t] = tasks[t]
    BY <2>5, <2>6 DEF SInv, TypesOK, StoreTypeOK
  <2> QED
    BY <2>7 DEF Exists
<1>2. CASE ~(taskMu # Free /\ calls[taskMu].pc = "written")
  BY <1>2 DEF Committed, Exists
<1> QED
  BY <1>1, <1>2

\* Only handlers create tasks.
LEMMA CreatorsAreHandlers ==
    ASSUME SInv, NEW g \in Goroutine, calls[g].op = "create"
    PROVE  g \in Handler
<1>1. WriteOK(g, calls[g])
  BY DEF SInv, CallOK, WriteOp
<1> QED
  BY <1>1 DEF WriteOK

\* A client creates or cancels a task.
LEMMA StartHandlerStep ==
    ASSUME SInv, NEW h \in Handler, StartWrite(h)
    PROVE  StepOK(h)
<1>1. PICK at \in LocalTime, t \in TaskId :
      \/ /\ ~Exists(t)
         /\ \A g \in Handler : calls[g].op = "create" => calls[g].task # t
         /\ StartWriting(h, "create", t, NoTask, "", at)
      \/ Exists(t) /\ StartWriting(h, "cancel", t, NoTask, "", at)
  BY DEF StartWrite
<1>2. at \in Nat /\ h \in Goroutine /\ {"create", "cancel"} \subseteq WriteOp
  BY LocalTimeType DEF SInv, TypesOK, StoreTypeOK, Goroutine, WriteOp
<1>3. CASE /\ ~Exists(t)
           /\ \A g \in Handler : calls[g].op = "create" => calls[g].task # t
           /\ StartWriting(h, "create", t, NoTask, "", at)
  <2>1. \A g \in Goroutine \ {h} : calls[g].op = "create" => calls[g].task # t
    BY <1>3, CreatorsAreHandlers
  <2> QED
    BY <1>2, <1>3, <2>1, AbsentForAll, NoTaskType, StartWriteStep
<1>4. CASE StartWriting(h, "cancel", t, NoTask, "", at)
  BY <1>2, <1>4, NoTaskType, StartWriteStep
<1> QED
  BY <1>1, <1>3, <1>4

\* A detail that begins.
LEMMA DetailBegins ==
    ASSUME NEW t \in TaskId, NEW c, c = Detail(t)
    PROVE  /\ c \in DetailCall /\ c.op = "detail" /\ c.pc = "row" /\ c.task = t
           /\ ~HoldsTasks(c) /\ ~HoldsEvents(c) /\ c.op \notin WriteOp
           /\ Exists(t) => ReadOK(c)
BY DEF Detail, DetailCall, HoldsTasks, HoldsEvents, WriteOp, ReadOK, DetailOK

\* The versions at the start of a request.
LEMMA BaseBegins ==
    ASSUME SInv
    PROVE  /\ Versions \in [TaskId -> Int]
           /\ \A c : c.base = Versions => BaseOK(c)
<1>1. \A t \in TaskId : VersionOf(Committed[t]) \in Int
  BY DEF SInv, RowsInStep, VersionOf, Task
<1>2. Versions \in [TaskId -> Int]
  <2>1. Versions = [t \in TaskId |-> VersionOf(Committed[t])]
    BY DEF Versions, VersionOf
  <2> QED
    BY <1>1, <2>1
<1>3. ASSUME NEW c, c.base = Versions PROVE BaseOK(c)
  BY <1>1, <1>3, VersionsAre DEF BaseOK
<1> QED
  BY <1>2, <1>3

\* A client asks for a detail, a list or statistics.
LEMMA StartReadStep ==
    ASSUME SInv, NEW h \in Handler, StartRead(h)
    PROVE  StepOK(h)
<1>1. h \in Goroutine
  BY DEF Goroutine
<1>2. ASSUME NEW t \in TaskId, Exists(t), Start(h, Detail(t))
      PROVE  StepOK(h)
  <2>1. PICK c : c = Detail(t)
    OBVIOUS
  <2>2. /\ c \in DetailCall /\ ~HoldsTasks(c) /\ c.op \notin WriteOp /\ ReadOK(c)
        /\ c.op # "create"
    BY <1>2, <2>1, DetailBegins DEF WriteOp
  <2> QED
    BY <1>1, <1>2, <2>1, <2>2, StartStep DEF CallTyped
<1>3. ASSUME NEW f \in Filter,
             Start(h, [op |-> "walk", pc |-> "page", filter |-> f, cursor |-> NoCursor,
                       pages |-> <<>>, base |-> Versions])
      PROVE  StepOK(h)
  <2>1. PICK c : c = [op |-> "walk", pc |-> "page", filter |-> f, cursor |-> NoCursor,
                      pages |-> <<>>, base |-> Versions]
    OBVIOUS
  <2>2. /\ c.op = "walk" /\ c.pc = "page" /\ c.cursor = NoCursor /\ c.pages = <<>>
        /\ c.base = Versions
    BY <2>1
  <2>3. c \in WalkCall
    <3>1. <<>> \in Seq(SUBSET TaskId) /\ NoCursor \in Cursor
      BY NoTimeFacts DEF NoCursor, Cursor
    <3> QED
      BY <2>1, <3>1, BaseBegins DEF WalkCall
  <2>4. WalkOK(c)
    <3>1. BaseOK(c) /\ \A t \in TaskId : AfterCursor(t, c.cursor)
      BY <2>2, BaseBegins DEF AfterCursor
    <3>2. DOMAIN c.pages = {}
      BY <2>2
    <3> QED
      BY <2>2, <3>1, <3>2 DEF WalkOK, Shown, Steady
  <2>5. ~HoldsTasks(c) /\ c.op \notin WriteOp /\ c.op # "create" /\ ReadOK(c)
    BY <2>2, <2>4 DEF HoldsTasks, WriteOp, ReadOK
  <2> QED
    BY <1>1, <1>3, <2>1, <2>3, <2>5, StartStep DEF CallTyped
<1>4. ASSUME NEW f \in Filter, NEW at \in LocalTime,
             Start(h, [op |-> "stats", pc |-> "counts", filter |-> f, at |-> at,
                       counts |-> [s \in Status |-> 0],
                       available |-> [s \in Status |-> 0], base |-> Versions])
      PROVE  StepOK(h)
  <2>1. PICK c : c = [op |-> "stats", pc |-> "counts", filter |-> f, at |-> at,
                      counts |-> [s \in Status |-> 0],
                      available |-> [s \in Status |-> 0], base |-> Versions]
    OBVIOUS
  <2>2. /\ c.op = "stats" /\ c.pc = "counts" /\ c.base = Versions
    BY <2>1
  <2>3. c \in StatsCall
    <3>1. at \in Nat /\ [s \in Status |-> 0] \in [Status -> Nat]
      BY LocalTimeType DEF SInv, TypesOK, StoreTypeOK
    <3> QED
      BY <2>1, <3>1, BaseBegins DEF StatsCall
  <2>4. StatsOK(c)
    BY <2>2, BaseBegins DEF StatsOK
  <2>5. ~HoldsTasks(c) /\ c.op \notin WriteOp /\ c.op # "create" /\ ReadOK(c)
    BY <2>2, <2>4 DEF HoldsTasks, WriteOp, ReadOK
  <2> QED
    BY <1>1, <1>4, <2>1, <2>3, <2>5, StartStep DEF CallTyped
<1> QED
  BY <1>2, <1>3, <1>4 DEF StartRead

-----------------------------------------------------------------------------
(* The clock, the heartbeat and answers.                                   *)

\* Whoever may read the rows sees all that is committed.
LEMMA ReadersSeeCommitted ==
    ASSUME SInv, CanReadTasks
    PROVE  taskMu = Free /\ Committed = tasks
BY StorageAssumption DEF SInv, TypesOK, LocksOK, CanReadTasks, Committed

\* Nothing of the store, the calls and the copies changes.
LEMMA IdleStep ==
    ASSUME SInv, tasks' = tasks, events' = events, granted' = granted,
           stamps' = stamps, backend' = backend, taskMu' = taskMu,
           eventMu' = eventMu, calls' = calls, now' \in Nat, InternalTypeOK',
           \A w \in Internal : KeepsCopy(w)
    PROVE  StepOK(Reaper)
<1>1. Reaper \in Goroutine
  BY DEF Goroutine
<1>2. Committed' = Committed
  BY CommittedSame
<1>3. Moves /\ ExistingStay
  BY <1>2, QuietStep DEF ExistingStay, Exists
<1>4. StoreTypeOK'
  BY DEF SInv, TypesOK, StoreTypeOK
<1>5. \A h \in Goroutine : calls[h].op = "create" /\ calls[h].pc # "written" =>
        Committed'[calls[h].task].status = "absent"
  BY <1>2, CreationsWait
<1> QED
  BY <1>1, <1>3, <1>4, <1>5, NoCallStep

\* Time passes.
LEMMA TickStep == ASSUME SInv, Tick PROVE StepOK(Reaper)
<1>1. /\ tasks' = tasks /\ events' = events /\ granted' = granted /\ stamps' = stamps
      /\ backend' = backend /\ taskMu' = taskMu /\ eventMu' = eventMu
      /\ iw' = iw /\ up' = up /\ crashes' = crashes /\ calls' = calls
      /\ now' = now + 1
  BY DEF Tick, storeVars, internalVars, memoryVars
<1>2. now' \in Nat /\ InternalTypeOK' /\ \A w \in Internal : KeepsCopy(w)
  BY <1>1 DEF SInv, TypesOK, StoreTypeOK, InternalTypeOK, KeepsCopy
<1> QED
  BY <1>1, <1>2, IdleStep

\* A worker gives an attempt up.
LEMMA AbandonStep == ASSUME SInv, NEW w \in Internal, Abandon(w) PROVE StepOK(Reaper)
<1>1. /\ tasks' = tasks /\ events' = events /\ granted' = granted /\ stamps' = stamps
      /\ backend' = backend /\ taskMu' = taskMu /\ eventMu' = eventMu
      /\ iw' = [iw EXCEPT ![w] = Polling] /\ up' = up /\ crashes' = crashes
      /\ calls' = calls /\ now' = now
  BY DEF Abandon, AbandonExecution, storeVars, memoryVars
<1>2. now' \in Nat /\ InternalTypeOK'
  BY <1>1 DEF SInv, TypesOK, StoreTypeOK, InternalTypeOK
<1>3. \A v \in Internal : KeepsCopy(v)
  BY <1>1 DEF SInv, TypesOK, InternalTypeOK, KeepsCopy, Polling
<1> QED
  BY <1>1, <1>2, <1>3, IdleStep

\* The heartbeat changes an expiry, or tells the worker why it did not.
LEMMA HeartbeatStep == ASSUME SInv, NEW w \in Internal, Heartbeat(w) PROVE StepOK(Reaper)
<1>1. /\ stamps' = stamps /\ backend' = backend /\ taskMu' = taskMu
      /\ eventMu' = eventMu /\ calls' = calls /\ now' = now
      /\ up' = up /\ crashes' = crashes /\ iw[w].pc = "execute"
  BY DEF Heartbeat, maintainLease, memoryVars
<1>2. taskMu = Free /\ Committed = tasks
  BY ReadersSeeCommitted DEF Heartbeat
<1>3. iw[w] \in Execution /\ iw[w].task \in TaskId
  BY <1>1, ExecutionParts DEF SInv, TypesOK
<1>4. ASSUME NEW x \in {"lost", "store_error"}, iw' = [iw EXCEPT ![w].lease = x],
             UNCHANGED storeVars
      PROVE  StepOK(Reaper)
  <2>1. iw[w] \in Execution => [iw[w] EXCEPT !.lease = x] \in Execution
    BY DEF Execution
  <2>2. InternalTypeOK' /\ now' \in Nat
    BY <1>1, <1>3, <1>4, <2>1 DEF SInv, TypesOK, StoreTypeOK, InternalTypeOK
  <2>3. \A v \in Internal : KeepsCopy(v)
    BY <1>1, <1>3, <1>4 DEF SInv, TypesOK, InternalTypeOK, KeepsCopy, Execution
  <2> QED
    BY <1>1, <1>4, <2>2, <2>3, IdleStep DEF storeVars
<1>5. ASSUME NEW at \in LocalTime, RenewLease(iw[w].task, w, at), UNCHANGED iw
      PROVE  StepOK(Reaper)
  <2>1. PICK t \in TaskId : t = iw[w].task
    BY <1>3
  <2> DEFINE new == [tasks[t] EXCEPT !.leaseExp = at + LeaseDuration]
  <2>2. /\ tasks' = [tasks EXCEPT ![t] = new] /\ events' = events
        /\ tasks[t].status = "running"
    BY <1>5, <2>1 DEF RenewLease, Renewable
  <2>3. at \in Nat /\ tasks[t] \in Task /\ RowOK(tasks[t]) /\ tasks \in [TaskId -> Task]
    BY <1>2, LocalTimeType DEF SInv, TypesOK, StoreTypeOK, RowsInStep, RowInOrder
  <2>4. at + LeaseDuration \in Int /\ at + LeaseDuration # NoTime
    BY <2>3, NoTimeFacts, StoreAssumption
  <2>5. new \in Task
    BY <2>3, <2>4, Zenon DEF Task
  <2>6. /\ new.status = tasks[t].status /\ new.version = tasks[t].version
        /\ new.createdAt = tasks[t].createdAt /\ new.availableAt = tasks[t].availableAt
        /\ new.owner = tasks[t].owner /\ new.retryCount = tasks[t].retryCount
        /\ new.maxRetries = tasks[t].maxRetries
        /\ new.leaseExp = at + LeaseDuration
    BY <2>3 DEF Task
  <2> HIDE DEF new
  <2>7. Same(tasks[t], new)
    BY <2>2, <2>3, <2>4, <2>5, <2>6 DEF Same, RowOK
  <2>8. Committed' = tasks'
    BY <1>1, <1>2 DEF Committed
  <2>9. \A u \in TaskId : Same(Committed[u], Committed'[u])
    <3>1. \A u \in TaskId : Same(tasks[u], tasks[u])
      BY <1>2 DEF SInv, RowsInStep, RowInOrder, Same
    <3> QED
      BY <1>2, <2>2, <2>3, <2>7, <2>8, <3>1
  <2>10. Moves
    BY <1>1, <2>2, <2>9 DEF Moves, Quiet
  <2>11. ExistingStay
    BY <1>2, <2>8, <2>9 DEF ExistingStay, Exists, Same
  <2>12. granted' \in [TaskId -> Int]
    <3>1. granted \in [TaskId -> Int]
      BY DEF SInv, TypesOK, StoreTypeOK
    <3>2. granted' = [granted EXCEPT ![t] = at + LeaseDuration]
      BY <1>5, <2>1 DEF RenewLease
    <3> QED
      BY <2>4, <3>1, <3>2
  <2>13. StoreTypeOK' /\ InternalTypeOK'
    BY <1>1, <1>5, <2>2, <2>3, <2>5, <2>12
       DEF SInv, TypesOK, StoreTypeOK, InternalTypeOK
  <2>14. \A h \in Goroutine : calls[h].op = "create" /\ calls[h].pc # "written" =>
           Committed'[calls[h].task].status = "absent"
    BY <2>9, CreationsWait DEF Same
  <2>15. \A h \in Goroutine : taskMu # h
    BY <1>2, GoroutineAssumption
  <2>16. \A v \in Internal : KeepsCopy(v)
    BY <1>5 DEF KeepsCopy
  <2> QED
    BY <1>1, <2>10, <2>11, <2>13, <2>14, <2>15, <2>16, NoCallStep DEF Goroutine
<1> QED
  BY <1>4, <1>5 DEF Heartbeat, maintainLease

\* A client takes its answer, or asks for the next page.
LEMMA AnsweredStep == ASSUME SInv, NEW h \in Handler, Answered(h) PROVE StepOK(h)
<1>1. /\ tasks' = tasks /\ events' = events /\ granted' = granted /\ stamps' = stamps
      /\ backend' = backend /\ taskMu' = taskMu /\ eventMu' = eventMu
      /\ now' = now /\ iw' = iw /\ up' = up /\ crashes' = crashes
  BY DEF Answered, storeVars, internalVars, memoryVars
<1>2. now' \in Nat /\ InternalTypeOK' /\ \A w \in Internal : KeepsCopy(w)
  BY <1>1 DEF SInv, TypesOK, StoreTypeOK, InternalTypeOK, KeepsCopy
<1>3. h \in Goroutine
  BY DEF Goroutine
<1>4. calls[h].pc \in {"done", "pause"} /\ ~HoldsTasks(calls[h])
  BY DEF Answered, HoldsTasks
<1>5. CallTyped(h, calls[h]) /\ ReadOK(calls[h])
  BY <1>3 DEF SInv, CallOK
<1>6. CASE calls' = [calls EXCEPT ![h] = NoCall]
  <2>1. PICK c : c = NoCall
    OBVIOUS
  <2>2. ~HoldsTasks(c) /\ c.op \notin WriteOp /\ c.op # "create" /\ ReadOK(c)
    BY <2>1 DEF NoCall, HoldsTasks, WriteOp, ReadOK
  <2>3. CallTyped(h, c)
    BY <2>1 DEF CallTyped
  <2> QED
    BY <1>1, <1>2, <1>3, <1>4, <1>6, <2>1, <2>2, <2>3, CallOnlyStep
<1>7. CASE calls[h].pc = "pause" /\ calls' = [calls EXCEPT ![h].pc = "page"]
  <2>1. calls[h] \in WalkCall
    BY <1>5, <1>7, CallKinds
  <2>2. PICK b \in WalkCall : b = calls[h]
    BY <2>1
  <2>3. PICK c : c = [b EXCEPT !.pc = "page"]
    OBVIOUS
  <2>4. c \in WalkCall
    BY <2>2, <2>3 DEF WalkCall
  <2>5. /\ c.op = "walk" /\ c.pc = "page" /\ c.cursor = b.cursor /\ c.pages = b.pages
        /\ c.base = b.base /\ c.filter = b.filter /\ b.pc = "pause" /\ b.op = "walk"
    BY <1>7, <2>2, <2>3 DEF WalkCall
  <2>6. WalkOK(b)
    BY <1>5, <2>2, <2>5 DEF ReadOK
  <2>7. /\ \A t : Shown(c, t) <=> Shown(b, t)
        /\ Steady(c) = Steady(b)
        /\ \A t : Wanted(c, t) <=> Wanted(b, t)
        /\ BaseOK(c) <=> BaseOK(b)
    BY <2>5 DEF Shown, Steady, Wanted, BaseOK
  <2>8. WalkOK(c)
    BY <2>5, <2>6, <2>7 DEF WalkOK
  <2>9. ~HoldsTasks(c) /\ c.op \notin WriteOp /\ c.op # "create" /\ ReadOK(c)
    BY <2>5, <2>8 DEF HoldsTasks, WriteOp, ReadOK
  <2>10. calls' = [calls EXCEPT ![h] = c]
    BY <1>7, <2>2, <2>3
  <2> QED
    BY <1>1, <1>2, <1>3, <1>4, <2>4, <2>9, <2>10, CallOnlyStep DEF CallTyped
<1> QED
  BY <1>6, <1>7 DEF Answered

-----------------------------------------------------------------------------
(* The order of the list.  Ranks count the rows listed before a row; the   *)
(* least rank stands in for an induction over the finite list.             *)

Rank(rows, t) == Cardinality({u \in rows : ListedBefore(u, t)})

\* A non-empty set of numbers has a least one.
LEMMA LeastNumber ==
    ASSUME NEW S \in SUBSET Nat, S # {}
    PROVE  \E n \in S : \A m \in S : n <= m
<1> DEFINE R == OpToRel(<, Nat)
<1>1. IsWellFoundedOn(R, Nat)
  BY NatLessThanWellFounded
<1>2. \A x, y \in Nat : x < y => <<x, y>> \in R
  BY DEF OpToRel
<1> HIDE DEF R
<1>3. PICK n \in S : \A m \in S : ~(<<m, n>> \in R)
  BY <1>1, WFMin
<1>4. ASSUME NEW m \in S PROVE n <= m
  <2>1. m \in Nat /\ n \in Nat
    OBVIOUS
  <2>2. ~(m < n)
    BY <1>2, <1>3, <2>1
  <2> QED
    BY <2>1, <2>2
<1> QED
  BY <1>4

\* ORDER BY created_at DESC, id DESC is a strict total order.
LEMMA ListOrder ==
    ASSUME tasks \in [TaskId -> Task]
    PROVE  /\ \A a \in TaskId : ~ListedBefore(a, a)
           /\ \A a, b \in TaskId : a = b \/ ListedBefore(a, b) \/ ListedBefore(b, a)
           /\ \A a, b, c \in TaskId :
                ListedBefore(a, b) /\ ListedBefore(b, c) => ListedBefore(a, c)
<1>1. \A a \in TaskId : tasks[a].createdAt \in Int /\ a \in Int
  BY StoreAssumption DEF Task
<1> QED
  BY <1>1 DEF ListedBefore

\* Ranks are finite, and follow the order.
LEMMA RankFacts ==
    ASSUME tasks \in [TaskId -> Task], NEW rows \in SUBSET TaskId
    PROVE  /\ IsFiniteSet(rows) /\ Cardinality(rows) \in Nat
           /\ \A t \in rows : Rank(rows, t) \in Nat /\ Rank(rows, t) < Cardinality(rows)
           /\ \A t, u \in rows : ListedBefore(u, t) => Rank(rows, u) < Rank(rows, t)
<1>1. IsFiniteSet(rows) /\ Cardinality(rows) \in Nat
  BY QueryAssumption, FS_Subset, FS_CardinalityType
<1>2. \A t \in TaskId : LET P == {u \in rows : ListedBefore(u, t)}
                        IN  IsFiniteSet(P) /\ Rank(rows, t) = Cardinality(P)
                            /\ Cardinality(P) \in Nat
  <2> TAKE t \in TaskId
  <2> DEFINE P == {u \in rows : ListedBefore(u, t)}
  <2>1. P \subseteq rows
    OBVIOUS
  <2>2. IsFiniteSet(P)
    BY <1>1, <2>1, FS_Subset
  <2>3. Cardinality(P) \in Nat
    BY <2>2, FS_CardinalityType
  <2> QED
    BY <2>2, <2>3 DEF Rank
<1>3. ASSUME NEW A, NEW B, IsFiniteSet(B), A \subseteq B, NEW x \in B, x \notin A
      PROVE  Cardinality(A) < Cardinality(B)
  <2>1. /\ IsFiniteSet(A) /\ Cardinality(A) <= Cardinality(B)
        /\ Cardinality(A) = Cardinality(B) => A = B
    BY <1>3, FS_Subset
  <2>2. Cardinality(A) \in Nat /\ Cardinality(B) \in Nat /\ A # B
    BY <1>3, <2>1, FS_CardinalityType
  <2> QED
    BY <2>1, <2>2
<1>4. ASSUME NEW t \in rows PROVE Rank(rows, t) < Cardinality(rows)
  <2> DEFINE P == {u \in rows : ListedBefore(u, t)}
  <2>1. P \subseteq rows /\ t \notin P /\ Rank(rows, t) = Cardinality(P)
    BY <1>2, ListOrder
  <2> HIDE DEF P
  <2> QED
    BY <1>1, <1>3, <2>1
<1>5. ASSUME NEW t \in rows, NEW u \in rows, ListedBefore(u, t)
      PROVE  Rank(rows, u) < Rank(rows, t)
  <2> DEFINE P == {x \in rows : ListedBefore(x, t)}
             Q == {x \in rows : ListedBefore(x, u)}
  <2>1. t \in TaskId /\ u \in TaskId
    OBVIOUS
  <2>2. Q \subseteq P /\ u \in P /\ u \notin Q
    BY <1>5, <2>1, ListOrder
  <2>3. IsFiniteSet(P) /\ Rank(rows, t) = Cardinality(P) /\ Rank(rows, u) = Cardinality(Q)
    BY <1>2, <2>1
  <2> HIDE DEF P, Q
  <2> QED
    BY <1>3, <2>2, <2>3
<1>6. \A t \in rows : Rank(rows, t) \in Nat
  BY <1>2
<1> QED
  BY <1>1, <1>4, <1>5, <1>6

\* Some row of a set has the least rank.
LEMMA LeastRank ==
    ASSUME tasks \in [TaskId -> Task], NEW rows \in SUBSET TaskId,
           NEW some \in SUBSET rows, some # {}
    PROVE  \E t \in some : \A u \in some : Rank(rows, t) <= Rank(rows, u)
<1> DEFINE N == {Rank(rows, t) : t \in some}
<1>1. N \in SUBSET Nat /\ N # {}
  BY RankFacts
<1>2. \E n \in N : \A m \in N : n <= m
  <2> HIDE DEF N
  <2> QED
    BY <1>1, LeastNumber
<1> QED
  BY <1>2

\* A query that returns fewer rows than asked for returns all of them.
LEMMA ShortQueryIsAll ==
    ASSUME tasks \in [TaskId -> Task], NEW rows \in SUBSET TaskId, NEW n \in Nat,
           Cardinality(FirstRows(rows, n)) < n
    PROVE  FirstRows(rows, n) = rows
<1> DEFINE F == FirstRows(rows, n)
<1>1. F = {t \in rows : Rank(rows, t) < n}
  BY DEF FirstRows, Rank
<1>2. F \subseteq rows /\ F \subseteq TaskId
  BY <1>1
<1> SUFFICES ASSUME rows \ F # {} PROVE FALSE
  BY <1>2
<1>3. Cardinality(F) < n
  OBVIOUS
<1> HIDE DEF F
<1>4. PICK t \in rows \ F : \A u \in rows \ F : Rank(rows, t) <= Rank(rows, u)
  BY LeastRank
<1> DEFINE P == {u \in rows : ListedBefore(u, t)}
<1>5. P \subseteq F
  <2> SUFFICES ASSUME NEW u \in rows, ListedBefore(u, t), u \notin F PROVE FALSE
    OBVIOUS
  <2>1. /\ Rank(rows, u) < Rank(rows, t) /\ Rank(rows, t) <= Rank(rows, u)
        /\ Rank(rows, u) \in Nat /\ Rank(rows, t) \in Nat
    BY <1>4, RankFacts
  <2> QED
    BY <2>1
<1>6. Rank(rows, t) = Cardinality(P)
  BY DEF Rank
<1>7. IsFiniteSet(F) /\ Cardinality(F) \in Nat
  BY <1>2, RankFacts
<1> HIDE DEF P
<1>8. Cardinality(P) <= Cardinality(F)
  BY <1>5, <1>7, FS_Subset
<1>9. Rank(rows, t) < n
  <2>1. Rank(rows, t) \in Nat
    BY RankFacts
  <2> QED
    BY <1>3, <1>6, <1>7, <1>8, <2>1
<1> QED
  BY <1>1, <1>4, <1>9

\* A page of at most n rows holds them all.
LEMMA ShortPageIsAll ==
    ASSUME tasks \in [TaskId -> Task], NEW rows \in SUBSET TaskId, NEW n \in Nat,
           Cardinality(rows) <= n
    PROVE  FirstRows(rows, n) = rows
<1>1. \A t \in rows : Rank(rows, t) < n
  <2> TAKE t \in rows
  <2>1. Rank(rows, t) \in Nat /\ Cardinality(rows) \in Nat /\ Rank(rows, t) < Cardinality(rows)
    BY RankFacts
  <2> QED
    BY <2>1
<1> QED
  BY <1>1 DEF FirstRows, Rank

\* What is not among the first rows comes after each of them.
LEMMA RestComesAfter ==
    ASSUME tasks \in [TaskId -> Task], NEW rows \in SUBSET TaskId, NEW n \in Nat,
           NEW t \in FirstRows(rows, n), NEW u \in rows \ FirstRows(rows, n)
    PROVE  ListedBefore(t, u)
<1>1. t \in rows /\ Rank(rows, t) < n /\ ~(Rank(rows, u) < n)
  BY DEF FirstRows, Rank
<1>2. Rank(rows, t) \in Nat /\ Rank(rows, u) \in Nat
  BY <1>1, RankFacts
<1>3. ~ListedBefore(u, t)
  BY <1>1, <1>2, RankFacts
<1>4. t # u /\ t \in TaskId /\ u \in TaskId
  BY <1>1
<1> QED
  BY <1>3, <1>4, ListOrder

\* A non-empty set of rows has a first and a last one.
LEMMA FirstAndLast ==
    ASSUME tasks \in [TaskId -> Task], NEW rows \in SUBSET TaskId, rows # {}
    PROVE  /\ \E t \in rows : Rank(rows, t) = 0
           /\ \E t \in rows : \A u \in rows \ {t} : ListedBefore(u, t)
<1>1. PICK t \in rows : \A u \in rows : Rank(rows, t) <= Rank(rows, u)
  BY LeastRank
<1>2. {u \in rows : ListedBefore(u, t)} = {}
  <2> SUFFICES ASSUME NEW u \in rows, ListedBefore(u, t) PROVE FALSE
    OBVIOUS
  <2>1. /\ Rank(rows, u) < Rank(rows, t) /\ Rank(rows, t) <= Rank(rows, u)
        /\ Rank(rows, u) \in Nat /\ Rank(rows, t) \in Nat
    BY <1>1, RankFacts
  <2> QED
    BY <2>1
<1>3. Rank(rows, t) = 0
  BY <1>2, FS_EmptySet DEF Rank
<1> DEFINE Left(x) == Cardinality(rows) - Rank(rows, x)
           N == {Left(x) : x \in rows}
<1>4. \A x \in rows : Left(x) \in Nat
  <2> TAKE x \in rows
  <2>1. /\ Rank(rows, x) \in Nat /\ Cardinality(rows) \in Nat
        /\ Rank(rows, x) < Cardinality(rows)
    BY RankFacts
  <2> QED
    BY <2>1
<1>5. N \in SUBSET Nat /\ N # {}
  BY <1>4
<1>6. \E n \in N : \A m \in N : n <= m
  <2> HIDE DEF N
  <2> QED
    BY <1>5, LeastNumber
<1>7. PICK l \in rows : \A u \in rows : Left(l) <= Left(u)
  BY <1>6
<1>8. ASSUME NEW u \in rows \ {l} PROVE ListedBefore(u, l)
  <2>1. ~ListedBefore(l, u)
    <3>1. /\ Rank(rows, l) \in Nat /\ Rank(rows, u) \in Nat /\ Cardinality(rows) \in Nat
          /\ ListedBefore(l, u) => Rank(rows, l) < Rank(rows, u)
      BY RankFacts
    <3>2. Left(l) <= Left(u)
      BY <1>7
    <3> QED
      BY <3>1, <3>2
  <2>2. l \in TaskId /\ u \in TaskId /\ l # u
    OBVIOUS
  <2> QED
    BY <2>1, <2>2, ListOrder
<1> QED
  BY <1>3, <1>8

-----------------------------------------------------------------------------
(* Reads.                                                                  *)

Selected(filter, cursor) ==
    {t \in TaskId : Matches(t, filter) /\ isBeforeTaskCursor(t, cursor)}

\* A page: all the rows that are selected, or the first of them, and then the
\* cursor names the last row of the page and the others come after it.
LEMMA PageFacts ==
    ASSUME tasks \in [TaskId -> Task], NEW filter, NEW cursor,
           NEW result, result = ListTasks(filter, cursor)
    PROVE  /\ result.items \subseteq Selected(filter, cursor)
           /\ result.hasMore \in BOOLEAN
           /\ ~result.hasMore => /\ result.items = Selected(filter, cursor)
                                 /\ result.next = NoCursor
           /\ result.hasMore => \E last \in result.items :
                /\ result.next = [at |-> tasks[last].createdAt, id |-> last]
                /\ \A u \in result.items \ {last} : ListedBefore(u, last)
                /\ \A u \in Selected(filter, cursor) \ result.items : ListedBefore(last, u)
<1> DEFINE rows == Selected(filter, cursor)
           items == FirstRows(rows, Limit + 1)
           page == FirstRows(items, Limit)
           more == Cardinality(items) > Limit
<1>1. result = [items |-> page, hasMore |-> more,
                next |-> IF more THEN NextCursor(page) ELSE NoCursor]
  BY DEF ListTasks, QueryRows, Selected
<1>2. rows \in SUBSET TaskId
  BY DEF Selected
<1>3. /\ result.items = page /\ result.hasMore = more
      /\ more => result.next = NextCursor(page)
      /\ ~more => result.next = NoCursor
  BY <1>1
<1> SUFFICES
      /\ page \subseteq rows
      /\ more \in BOOLEAN
      /\ ~more => page = rows
      /\ more => \E last \in page :
           /\ NextCursor(page) = [at |-> tasks[last].createdAt, id |-> last]
           /\ \A u \in page \ {last} : ListedBefore(u, last)
           /\ \A u \in rows \ page : ListedBefore(last, u)
  BY <1>3
<1> HIDE DEF rows
<1>4. Limit \in Nat /\ Limit > 0 /\ Limit + 1 \in Nat
  <2>1. Limit \in Nat /\ Limit # 0
    BY QueryAssumption
  <2> QED
    BY <2>1
<1>5. items \subseteq rows /\ items \in SUBSET TaskId
  BY <1>2 DEF FirstRows
<1>6. page \subseteq items /\ page \in SUBSET TaskId
  BY <1>5 DEF FirstRows
<1>7. Cardinality(items) \in Nat
  BY <1>5, RankFacts
<1>8. CASE ~more
  <2>1. Cardinality(items) <= Limit /\ Cardinality(items) < Limit + 1
    BY <1>4, <1>7, <1>8
  <2>2. items = rows
    BY <1>2, <1>4, <2>1, ShortQueryIsAll
  <2>3. page = items
    BY <1>4, <1>5, <2>1, ShortPageIsAll
  <2> QED
    BY <1>8, <2>2, <2>3
<1>9. CASE more
  <2>1. items # {}
    <3>1. Cardinality({}) = 0
      BY FS_EmptySet
    <3> QED
      BY <1>4, <1>7, <1>9, <3>1
  <2>2. PICK first \in items : Rank(items, first) = 0
    BY <1>5, <2>1, FirstAndLast
  <2>3. first \in page
    BY <1>4, <2>2 DEF FirstRows, Rank
  <2>4. \E t \in page : \A u \in page \ {t} : ListedBefore(u, t)
    <3> HIDE DEF page
    <3> QED
      BY <1>6, <2>3, FirstAndLast
  <2> DEFINE last == CHOOSE t \in page : \A u \in page \ {t} : ListedBefore(u, t)
  <2>5. last \in page /\ \A u \in page \ {last} : ListedBefore(u, last)
    <3> HIDE DEF page
    <3> QED
      BY <2>4
  <2>6. NextCursor(page) = [at |-> tasks[last].createdAt, id |-> last]
    BY DEF NextCursor
  <2> HIDE DEF last
  <2>7. \A u \in items \ page : ListedBefore(last, u)
    BY <1>4, <1>5, <2>5, RestComesAfter
  <2>8. \A u \in rows \ items : ListedBefore(last, u)
    <3>1. last \in items
      BY <1>6, <2>5
    <3> QED
      BY <1>2, <1>4, <3>1, RestComesAfter
  <2>9. \A u \in rows \ page : ListedBefore(last, u)
    BY <2>7, <2>8
  <2> QED
    BY <1>5, <1>6, <1>9, <2>5, <2>6, <2>9
<1> QED
  BY <1>8, <1>9

\* A read changes the reader's call alone.
LEMMA ReaderStep ==
    ASSUME SInv, NEW g \in Goroutine, calls[g].op \notin WriteOp, NEW c,
           calls' = [calls EXCEPT ![g] = c],
           UNCHANGED <<storeVars, stamps, iw, up, memoryVars, now, crashes, backend>>,
           CallTyped(g, c), c.op \in {"detail", "walk", "stats"}, ReadOK(c)
    PROVE  StepOK(g)
<1>1. /\ tasks' = tasks /\ events' = events /\ granted' = granted /\ stamps' = stamps
      /\ backend' = backend /\ taskMu' = taskMu /\ eventMu' = eventMu
      /\ now' = now /\ iw' = iw /\ up' = up /\ crashes' = crashes
  BY DEF storeVars, memoryVars
<1>2. now' \in Nat /\ InternalTypeOK' /\ \A w \in Internal : KeepsCopy(w)
  BY <1>1 DEF SInv, TypesOK, StoreTypeOK, InternalTypeOK, KeepsCopy
<1>3. ~HoldsTasks(calls[g])
  BY CallKinds DEF SInv, CallOK
<1>4. c.op \notin WriteOp /\ c.op # "create" /\ ~HoldsTasks(c)
  <2>1. c.op \notin WriteOp
    BY DEF WriteOp
  <2> QED
    BY <2>1, CallKinds
<1> QED
  BY <1>1, <1>2, <1>3, <1>4, CallOnlyStep

\* The row of a detail, and then its events.
LEMMA ReadDetailStep ==
    ASSUME SInv, NEW g \in Goroutine, calls[g].op = "detail", ReadDetail(g, calls[g]),
           UNCHANGED <<storeVars, stamps, iw, up, memoryVars, now, crashes, backend>>
    PROVE  StepOK(g)
<1>1. PICK b : b = calls[g]
  OBVIOUS
<1>2. b \in DetailCall /\ g \in Handler /\ DetailOK(b) /\ calls[g].op \notin WriteOp
  BY <1>1, CallKinds DEF SInv, CallOK, ReadOK, WriteOp
<1>3. b.task \in TaskId /\ b.version \in Nat
  BY <1>2 DEF DetailCall
<1>4. events[b.task] \in Seq(EventType) /\ tasks[b.task] \in Task
  BY <1>3 DEF SInv, TypesOK, StoreTypeOK
<1>5. CASE /\ b.pc = "row" /\ CanReadTasks
           /\ calls' = [calls EXCEPT ![g].pc = "events",
                                     ![g].version = tasks[b.task].version,
                                     ![g].owner = tasks[b.task].owner]
  <2>1. PICK c : c = [b EXCEPT !.pc = "events", !.version = tasks[b.task].version,
                               !.owner = tasks[b.task].owner]
    OBVIOUS
  <2>2. calls' = [calls EXCEPT ![g] = c]
    BY <1>1, <1>5, <2>1
  <2>3. tasks[b.task].version \in Nat /\ tasks[b.task].owner \in Worker \union {NoWorker}
    BY <1>4 DEF Task
  <2>4. c \in DetailCall
    BY <1>2, <2>1, <2>3 DEF DetailCall
  <2>5. c.op = "detail" /\ c.pc = "events" /\ c.task = b.task
        /\ c.version = tasks[b.task].version
    BY <1>2, <2>1 DEF DetailCall
  <2>6. Len(events[b.task]) = tasks[b.task].version + 1
    <3>1. Committed = tasks
      BY <1>5, ReadersSeeCommitted
    <3>2. tasks[b.task].status # "absent"
      BY <1>2, <1>5 DEF DetailOK, Exists
    <3>3. TrailMatches(tasks[b.task], events[b.task])
      BY <1>3, <3>1 DEF SInv, RowsInStep
    <3> QED
      BY <3>2, <3>3 DEF TrailMatches
  <2>7. ReadOK(c)
    BY <2>3, <2>5, <2>6 DEF ReadOK, DetailOK
  <2> QED
    BY <1>2, <2>2, <2>4, <2>5, <2>7, ReaderStep DEF CallTyped
<1>6. ASSUME NEW f \in populateFailureDiagnostics(b.task, backend = "memory"),
             NEW k \in populateWorkerDiagnostics(b.task, b.owner, backend = "memory"),
             b.pc = "events",
             calls' = [calls EXCEPT ![g].pc = "done", ![g].seen = Len(events[b.task]),
                                    ![g].failure = f, ![g].claim = k]
      PROVE  StepOK(g)
  <2>1. PICK c : c = [b EXCEPT !.pc = "done", !.seen = Len(events[b.task]),
                               !.failure = f, !.claim = k]
    OBVIOUS
  <2>2. calls' = [calls EXCEPT ![g] = c]
    BY <1>1, <1>6, <2>1
  <2>3. DOMAIN events[b.task] \subseteq Nat /\ Len(events[b.task]) \in Nat
    BY <1>4
  <2>4. f \in Nat /\ k \in Nat
    BY <1>6, <2>3 DEF populateFailureDiagnostics, populateWorkerDiagnostics, Scan,
       FoundFirst, CodedFailure, FailureEvent, NamesWorker
  <2>5. c \in DetailCall
    BY <1>2, <2>1, <2>3, <2>4 DEF DetailCall
  <2>6. /\ c.op = "detail" /\ c.pc = "done" /\ c.task = b.task /\ c.version = b.version
        /\ c.seen = Len(events[b.task])
    BY <1>2, <2>1 DEF DetailCall
  <2>7. b.version + 1 <= Len(events[b.task])
    BY <1>2, <1>6 DEF DetailOK
  <2>8. ReadOK(c)
    BY <2>6, <2>7 DEF ReadOK, DetailOK
  <2> QED
    BY <1>2, <2>2, <2>5, <2>6, <2>8, ReaderStep DEF CallTyped
<1> QED
  BY <1>1, <1>5, <1>6 DEF ReadDetail

\* The next page of a walk.
LEMMA ReadPageStep ==
    ASSUME SInv, NEW g \in Goroutine, calls[g].op = "walk", ReadPage(g, calls[g]),
           UNCHANGED <<storeVars, stamps, iw, up, memoryVars, now, crashes, backend>>
    PROVE  StepOK(g)
<1>1. PICK b : b = calls[g]
  OBVIOUS
<1>2. b \in WalkCall /\ g \in Handler /\ WalkOK(b) /\ calls[g].op \notin WriteOp
  BY <1>1, CallKinds DEF SInv, CallOK, ReadOK, WriteOp
<1>3. /\ b.pages \in Seq(SUBSET TaskId) /\ b.cursor \in Cursor
      /\ b.base \in [TaskId -> Int] /\ b.op = "walk"
  BY <1>2 DEF WalkCall
<1>4. PICK r : r = ListTasks(b.filter, b.cursor)
  OBVIOUS
<1>5. PICK c : c = [b EXCEPT !.pc = IF r.hasMore THEN "pause" ELSE "done",
                             !.cursor = r.next, !.pages = Append(b.pages, r.items)]
  OBVIOUS
<1>6. b.pc = "page" /\ CanReadTasks /\ calls' = [calls EXCEPT ![g] = c]
  BY <1>1, <1>4, <1>5 DEF ReadPage
<1>7. Committed = tasks /\ tasks \in [TaskId -> Task]
  BY <1>6, ReadersSeeCommitted DEF SInv, TypesOK, StoreTypeOK
<1> DEFINE rows == Selected(b.filter, b.cursor)
<1>8. /\ r.items \subseteq rows
      /\ r.hasMore \in BOOLEAN
      /\ ~r.hasMore => r.items = rows /\ r.next = NoCursor
      /\ r.hasMore => \E last \in r.items :
           /\ r.next = [at |-> tasks[last].createdAt, id |-> last]
           /\ \A u \in r.items \ {last} : ListedBefore(u, last)
           /\ \A u \in rows \ r.items : ListedBefore(last, u)
  <2>1. PICK filter, cursor : filter = b.filter /\ cursor = b.cursor
    OBVIOUS
  <2>2. r = ListTasks(filter, cursor) /\ rows = Selected(filter, cursor)
    BY <1>4, <2>1
  <2> HIDE DEF rows
  <2>3. /\ r.items \subseteq Selected(filter, cursor)
        /\ r.hasMore \in BOOLEAN
        /\ ~r.hasMore => /\ r.items = Selected(filter, cursor)
                         /\ r.next = NoCursor
        /\ r.hasMore => \E last \in r.items :
             /\ r.next = [at |-> tasks[last].createdAt, id |-> last]
             /\ \A u \in r.items \ {last} : ListedBefore(u, last)
             /\ \A u \in Selected(filter, cursor) \ r.items : ListedBefore(last, u)
    BY <1>7, <2>2, PageFacts
  <2> QED
    BY <2>2, <2>3
<1>9. rows = {t \in TaskId : /\ Exists(t) /\ (b.filter = "" \/ tasks[t].status = b.filter)
                             /\ AfterCursor(t, b.cursor)}
  BY <1>7 DEF Selected, Matches, isBeforeTaskCursor, AfterCursor
<1> HIDE DEF rows
<1>10. r.items \in SUBSET TaskId /\ \A t \in r.items : Exists(t) /\ AfterCursor(t, b.cursor)
  BY <1>8, <1>9
<1>11. r.next \in Cursor
  <2>1. NoCursor \in Cursor
    BY NoTimeFacts DEF NoCursor, Cursor
  <2>2. \A t \in TaskId : [at |-> tasks[t].createdAt, id |-> t] \in Cursor
    BY <1>7 DEF Cursor, Task
  <2> QED
    BY <1>8, <1>10, <2>1, <2>2
<1>12. Append(b.pages, r.items) \in Seq(SUBSET TaskId)
  BY <1>3, <1>10
<1>13. c \in WalkCall
  BY <1>2, <1>5, <1>11, <1>12 DEF WalkCall
<1>14. /\ c.op = "walk" /\ c.filter = b.filter /\ c.base = b.base
       /\ c.cursor = r.next /\ c.pages = Append(b.pages, r.items)
       /\ c.pc # "done" <=> r.hasMore
  BY <1>2, <1>5 DEF WalkCall
<1>15. /\ DOMAIN c.pages = (DOMAIN b.pages) \union {Len(b.pages) + 1}
       /\ \A i \in DOMAIN b.pages : c.pages[i] = b.pages[i]
       /\ c.pages[Len(b.pages) + 1] = r.items
       /\ Len(b.pages) + 1 \notin DOMAIN b.pages
  BY <1>3, <1>10, <1>14
<1>16. \A t : Shown(c, t) <=> Shown(b, t) \/ t \in r.items
  BY <1>15 DEF Shown
<1>17. \A t \in TaskId : Shown(b, t) =>
         Committed[t].status # "absent" /\ ~AfterCursor(t, b.cursor)
  BY <1>2, <1>6 DEF WalkOK
<1>18. /\ \A t \in TaskId : tasks[t].createdAt \in Int /\ t \in Int
       /\ \A t \in TaskId : Exists(t) => tasks[t].createdAt \in Nat
       /\ b.cursor.at \in Int /\ b.cursor.id \in Int
  <2>1. \A t \in TaskId : tasks[t].createdAt \in Int /\ t \in Int
    BY <1>7, StoreAssumption DEF Task
  <2>2. \A t \in TaskId : Exists(t) => tasks[t].createdAt \in Nat
    BY <1>7 DEF SInv, RowsInStep, RowInOrder, Exists
  <2>3. b.cursor.at \in Int /\ b.cursor.id \in Int
    <3>1. b.cursor.at \in Int /\ b.cursor.id \in TaskId \union {0}
      BY <1>3 DEF Cursor
    <3> QED
      BY <2>1, <3>1
  <2> QED
    BY <2>1, <2>2, <2>3
<1>19. ASSUME NEW last \in r.items,
              r.next = [at |-> tasks[last].createdAt, id |-> last]
       PROVE  \A t \in TaskId : AfterCursor(t, r.next) <=> ListedBefore(last, t)
  <2>1. last \in TaskId /\ tasks[last].createdAt \in Nat
    BY <1>10, <1>18
  <2>2. r.next.at = tasks[last].createdAt /\ r.next.id = last
    BY <1>19
  <2>3. r.next # NoCursor
    BY <2>1, <2>2, NoTimeFacts DEF NoCursor
  <2> QED
    BY <1>7, <1>18, <2>1, <2>2, <2>3 DEF AfterCursor, ListedBefore
<1>20. ASSUME NEW t \in TaskId, Shown(c, t), r.hasMore
       PROVE  ~AfterCursor(t, r.next)
  <2>1. PICK last \in r.items :
           /\ r.next = [at |-> tasks[last].createdAt, id |-> last]
           /\ \A u \in r.items \ {last} : ListedBefore(u, last)
    BY <1>8, <1>20
  <2>2. last \in TaskId /\ AfterCursor(last, b.cursor)
    BY <1>10
  <2>3. CASE t \in r.items
    <3>1. t = last \/ ListedBefore(t, last)
      BY <2>1, <2>3
    <3>2. ~ListedBefore(last, t)
      BY <1>7, <2>2, <3>1, ListOrder
    <3> QED
      BY <1>19, <2>1, <3>2
  <2>4. CASE Shown(b, t)
    <3>1. ~AfterCursor(t, b.cursor)
      BY <1>17, <2>4
    <3>2. ~ListedBefore(last, t)
      BY <1>7, <1>18, <2>2, <3>1 DEF AfterCursor, ListedBefore
    <3> QED
      BY <1>19, <2>1, <3>2
  <2> QED
    BY <1>16, <1>20, <2>3, <2>4
<1>21. \A i, j \in DOMAIN c.pages : i # j => c.pages[i] \intersect c.pages[j] = {}
  <2>1. \A i \in DOMAIN b.pages : b.pages[i] \in SUBSET TaskId
    BY <1>3
  <2>2. \A i \in DOMAIN b.pages : b.pages[i] \intersect r.items = {}
    BY <1>10, <1>17, <2>1 DEF Shown
  <2>3. \A i, j \in DOMAIN b.pages : i # j => b.pages[i] \intersect b.pages[j] = {}
    BY <1>2 DEF WalkOK
  <2> QED
    BY <1>15, <2>2, <2>3
<1>22. ASSUME NEW t \in Steady(c), Wanted(c, t)
       PROVE  Shown(c, t) \/ (c.pc # "done" /\ AfterCursor(t, r.next))
  <2>1. t \in Steady(b) /\ Wanted(b, t) /\ t \in TaskId
    BY <1>14, <1>22 DEF Steady, Wanted
  <2>2. Shown(b, t) \/ AfterCursor(t, b.cursor)
    BY <1>2, <2>1 DEF WalkOK
  <2>3. CASE AfterCursor(t, b.cursor)
    <3>1. Exists(t)
      <4>1. VersionOf(Committed[t]) # -1
        BY <2>1, VersionsAre DEF Steady
      <4> QED
        BY <1>7, <4>1 DEF VersionOf, Exists
    <3>2. t \in rows
      BY <1>7, <1>9, <2>1, <2>3, <3>1 DEF Wanted
    <3>3. CASE r.hasMore
      BY <1>8, <1>14, <1>16, <1>19, <2>1, <3>2, <3>3
    <3>4. CASE ~r.hasMore
      BY <1>8, <1>16, <3>2, <3>4
    <3> QED
      BY <3>3, <3>4
  <2> QED
    BY <1>16, <2>2, <2>3
<1>23. WalkOK(c)
  <2>1. BaseOK(c)
    BY <1>2, <1>14 DEF WalkOK, BaseOK
  <2>2. \A t \in TaskId : Shown(c, t) => Committed[t].status # "absent"
    BY <1>7, <1>10, <1>16, <1>17 DEF Exists
  <2> QED
    BY <1>14, <1>20, <1>21, <1>22, <2>1, <2>2 DEF WalkOK
<1> QED
  BY <1>2, <1>6, <1>13, <1>14, <1>23, ReaderStep DEF CallTyped, ReadOK

\* What a count counts when it is taken.
LEMMA CountedNow ==
    ASSUME SInv, Committed = tasks, NEW c \in StatsCall, NEW s \in Status
    PROVE  /\ StatusCounts(c.filter) \in [Status -> Nat]
           /\ AvailableCounts(c.filter, c.at) \in [Status -> Nat]
           /\ Counted(StatusCounts(c.filter)[s], Exact(c, s), Changed(c))
           /\ Counted(AvailableCounts(c.filter, c.at)[s], ExactDue(c, s), Changed(c))
<1>1. \A S \in SUBSET TaskId : Cardinality(S) \in Nat
  BY QueryAssumption, FS_Subset, FS_CardinalityType
<1>2. StatusCounts(c.filter) \in [Status -> Nat]
  BY <1>1 DEF StatusCounts
<1>3. AvailableCounts(c.filter, c.at) \in [Status -> Nat]
  BY <1>1 DEF AvailableCounts
<1> DEFINE S == {t \in TaskId : Matches(t, c.filter) /\ tasks[t].status = s}
           D == {t \in TaskId : /\ Matches(t, c.filter) /\ tasks[t].status = s
                                /\ isAvailableTask(t, c.at)}
<1>4. \A t \in TaskId : Versions[t] = VersionOf(tasks[t])
  BY VersionsAre
<1>5. \A t \in TaskId : Exists(t) => VersionOf(tasks[t]) # -1
  BY DEF SInv, TypesOK, StoreTypeOK, Task, VersionOf, Exists
<1>6. \A t \in TaskId : t \in Exact(c, s) <=> t \in S /\ t \in Steady(c)
  <2>1. \A t \in Steady(c) : Exists(t)
    BY <1>4 DEF Steady, VersionOf, Exists
  <2> QED
    BY <2>1 DEF Exact, Wanted, Matches, Steady
<1>7. \A t \in TaskId : Exists(t) => t \in Steady(c) \/ t \in Changed(c)
  BY <1>4, <1>5 DEF Steady, Changed
<1>8. Exact(c, s) \subseteq S /\ S \subseteq Exact(c, s) \union Changed(c)
  BY <1>6, <1>7 DEF Exact, Steady, Matches
<1>9. ExactDue(c, s) \subseteq D /\ D \subseteq ExactDue(c, s) \union Changed(c)
  BY <1>6, <1>8 DEF ExactDue, isAvailableTask
<1>10. StatusCounts(c.filter)[s] = Cardinality(S)
  BY DEF StatusCounts
<1>11. AvailableCounts(c.filter, c.at)[s] = Cardinality(D)
  BY DEF AvailableCounts
<1>12. S \in SUBSET TaskId /\ D \in SUBSET TaskId
  OBVIOUS
<1> HIDE DEF S, D
<1> QED
  BY <1>2, <1>3, <1>8, <1>9, <1>10, <1>11, <1>12 DEF Counted

\* Statistics, in two queries or in one critical section.
LEMMA ReadStatsStep ==
    ASSUME SInv, NEW g \in Goroutine, calls[g].op = "stats",
           \/ backend = "mysql" /\ QueryStats(g, calls[g])
           \/ backend = "memory" /\ SnapshotStats(g, calls[g]),
           UNCHANGED <<storeVars, stamps, iw, up, memoryVars, now, crashes, backend>>
    PROVE  StepOK(g)
<1>1. PICK b : b = calls[g]
  OBVIOUS
<1>2. b \in StatsCall /\ g \in Handler /\ StatsOK(b) /\ calls[g].op \notin WriteOp
  BY <1>1, CallKinds DEF SInv, CallOK, ReadOK, WriteOp
<1>3. CanReadTasks
  BY StorageAssumption DEF SnapshotStats, CanReadTasks
<1>4. Committed = tasks
  BY <1>3, ReadersSeeCommitted
<1>5. PICK counts, available :
        counts = StatusCounts(b.filter) /\ available = AvailableCounts(b.filter, b.at)
  OBVIOUS
<1>6. /\ \A s \in Status : Counted(counts[s], Exact(b, s), Changed(b))
      /\ \A s \in Status : Counted(available[s], ExactDue(b, s), Changed(b))
  BY <1>2, <1>4, <1>5, CountedNow
<1>7. counts \in [Status -> Nat] /\ available \in [Status -> Nat]
  <2>1. "queued" \in Status
    BY DEF Status
  <2> QED
    BY <1>2, <1>4, <1>5, <2>1, CountedNow
<1>8. ASSUME NEW c \in StatsCall, c.filter = b.filter, c.at = b.at, c.base = b.base
      PROVE  /\ BaseOK(c) /\ Changed(c) = Changed(b)
             /\ \A s \in Status : Exact(c, s) = Exact(b, s)
             /\ \A s \in Status : ExactDue(c, s) = ExactDue(b, s)
  <2>1. BaseOK(c) /\ Changed(c) = Changed(b) /\ Steady(c) = Steady(b)
    BY <1>2, <1>8 DEF StatsOK, BaseOK, Changed, Steady
  <2>2. \A t : Wanted(c, t) <=> Wanted(b, t)
    BY <1>8 DEF Wanted
  <2>3. \A s \in Status : Exact(c, s) = Exact(b, s)
    BY <2>1, <2>2 DEF Exact
  <2>4. \A s \in Status : ExactDue(c, s) = ExactDue(b, s)
    BY <1>8, <2>3 DEF ExactDue
  <2> QED
    BY <2>1, <2>3, <2>4
<1>9. ASSUME NEW c \in StatsCall, c.filter = b.filter, c.at = b.at, c.base = b.base,
             calls' = [calls EXCEPT ![g] = c],
             \A s \in Status :
               /\ c.pc # "counts" => Counted(c.counts[s], Exact(b, s), Changed(b))
               /\ c.pc = "done" => Counted(c.available[s], ExactDue(b, s), Changed(b))
      PROVE  StepOK(g)
  <2>1. StatsOK(c)
    BY <1>8, <1>9 DEF StatsOK
  <2>2. c.op = "stats"
    BY DEF StatsCall
  <2>3. CallTyped(g, c) /\ ReadOK(c)
    BY <1>2, <2>1, <2>2 DEF CallTyped, ReadOK
  <2> QED
    BY <1>2, <1>9, <2>2, <2>3, ReaderStep
<1>10. CASE /\ b.pc = "counts"
            /\ calls' = [calls EXCEPT ![g].pc = "available", ![g].counts = counts]
  <2>1. PICK c : c = [b EXCEPT !.pc = "available", !.counts = counts]
    OBVIOUS
  <2>2. calls' = [calls EXCEPT ![g] = c]
    BY <1>1, <1>10, <2>1
  <2>3. c \in StatsCall
    BY <1>2, <1>7, <2>1 DEF StatsCall
  <2>4. /\ c.filter = b.filter /\ c.at = b.at /\ c.base = b.base
        /\ c.pc = "available" /\ c.counts = counts
    BY <1>2, <2>1 DEF StatsCall
  <2> QED
    BY <1>6, <1>9, <2>2, <2>3, <2>4
<1>11. CASE /\ b.pc = "available"
            /\ calls' = [calls EXCEPT ![g].pc = "done", ![g].available = available]
  <2>1. PICK c : c = [b EXCEPT !.pc = "done", !.available = available]
    OBVIOUS
  <2>2. calls' = [calls EXCEPT ![g] = c]
    BY <1>1, <1>11, <2>1
  <2>3. c \in StatsCall
    BY <1>2, <1>7, <2>1 DEF StatsCall
  <2>4. /\ c.filter = b.filter /\ c.at = b.at /\ c.base = b.base
        /\ c.pc = "done" /\ c.counts = b.counts /\ c.available = available
    BY <1>2, <2>1 DEF StatsCall
  <2>5. \A s \in Status : Counted(b.counts[s], Exact(b, s), Changed(b))
    BY <1>2, <1>11 DEF StatsOK
  <2> QED
    BY <1>6, <1>9, <2>2, <2>3, <2>4, <2>5
<1>12. CASE /\ b.pc = "counts"
            /\ calls' = [calls EXCEPT ![g].pc = "done", ![g].counts = counts,
                                      ![g].available = available]
  <2>1. PICK c : c = [b EXCEPT !.pc = "done", !.counts = counts, !.available = available]
    OBVIOUS
  <2>2. calls' = [calls EXCEPT ![g] = c]
    BY <1>1, <1>12, <2>1
  <2>3. c \in StatsCall
    BY <1>2, <1>7, <2>1 DEF StatsCall
  <2>4. /\ c.filter = b.filter /\ c.at = b.at /\ c.base = b.base
        /\ c.pc = "done" /\ c.counts = counts /\ c.available = available
    BY <1>2, <2>1 DEF StatsCall
  <2> QED
    BY <1>6, <1>9, <2>2, <2>3, <2>4
<1> QED
  BY <1>1, <1>5, <1>10, <1>11, <1>12 DEF QueryStats, SnapshotStats

-----------------------------------------------------------------------------
(* Writes.  How a call ends for the goroutine that made it.                *)

\* A call that ends, or is answered with a detail.
LEMMA EndedCall ==
    ASSUME NEW g, NEW c, c = calls'[g], ReadOK(c)', taskMu' # g, eventMu' # g,
           \/ c = NoCall
           \/ g \in Handler /\ c \in DetailCall
    PROVE  CallOK(g)' /\ c.op # "create" /\ c.op \notin WriteOp
<1>1. CASE c = NoCall
  <2>1. c.op \notin WriteOp /\ ~HoldsTasks(c) /\ ~HoldsEvents(c) /\ c.op # "create"
    BY <1>1 DEF NoCall, WriteOp, HoldsTasks, HoldsEvents
  <2> QED
    BY <1>1, <2>1, CallNamed DEF CallTyped
<1>2. CASE g \in Handler /\ c \in DetailCall
  <2>1. c.op \notin WriteOp /\ ~HoldsTasks(c) /\ ~HoldsEvents(c) /\ c.op # "create"
    BY <1>2 DEF DetailCall, WriteOp, HoldsTasks, HoldsEvents
  <2> QED
    BY <1>2, <2>1, CallNamed DEF CallTyped
<1> QED
  BY <1>1, <1>2

\* The parts of a writing call.
LEMMA WritingCall ==
    ASSUME SInv, NEW g \in Goroutine, NEW c, c = calls[g], c.op \in WriteOp
    PROVE  /\ c \in WriteCall /\ WriteOK(g, c)
           /\ c.at \in Nat /\ c.row \in Task
           /\ c.op \in {"claim", "update"} => g \in Internal /\ g \in Worker
           /\ c.op \in {"create", "cancel"} => g \in Handler /\ c.task \in TaskId
           /\ c.op = "cancel" => g \in Handler
           /\ HoldsTasks(c) <=> taskMu = g
           /\ HoldsEvents(c) <=> eventMu = g
<1>1. c \in WriteCall /\ WriteOK(g, c)
  BY CallKinds DEF SInv, CallOK
<1>2. c.at \in Nat /\ c.row \in Task
  BY <1>1 DEF WriteCall
<1>3. /\ c.op \in {"claim", "update"} => g \in Internal /\ g \in Worker
      /\ c.op \in {"create", "cancel"} => g \in Handler /\ c.task \in TaskId
  BY <1>1, InternalAssumption DEF WriteOK
<1> QED
  BY <1>1, <1>2, <1>3 DEF SInv, CallOK

\* A call ends and releases what it holds.
LEMMA ReleaseStep ==
    ASSUME SInv, NEW g \in Goroutine,
           taskMu \in {g, Free}, eventMu \in {g, Free}, taskMu' = Free, eventMu' = Free,
           NEW c, calls' = [calls EXCEPT ![g] = c],
           \/ c = NoCall
           \/ g \in Handler /\ c \in DetailCall /\ c.pc = "row" /\ Exists(c.task)',
           Moves, ExistingStay, StoreTypeOK', InternalTypeOK',
           stamps' \in [TaskId -> Seq(Nat)], backend' = backend,
           \A h \in Goroutine \ {g} : calls[h].op = "create" /\ calls[h].pc # "written" =>
             Committed'[calls[h].task].status = "absent",
           \A w \in Internal : iw'[w].pc = "execute" =>
             KeepsCopy(w) \/ CopyFenced(w, iw'[w], Committed'[iw'[w].task])
    PROVE  StepOK(g)
<1>1. calls'[g] = c /\ \A h \in Goroutine \ {g} : calls'[h] = calls[h]
  BY DEF SInv, TypesOK
<1>2. TypesOK' /\ LocksOK'
  BY DEF SInv, TypesOK, LocksOK
<1>3. \A h \in Goroutine : h # Free
  BY GoroutineAssumption
<1>4. \A h \in Goroutine \ {g} : Leaves(h)
  BY <1>1, <1>3 DEF Leaves
<1>5. ReadOK(c)'
  <2>1. CASE c = NoCall
    BY <2>1 DEF NoCall, ReadOK
  <2>2. CASE c \in DetailCall /\ c.pc = "row" /\ Exists(c.task)'
    <3>1. c.op = "detail"
      BY <2>2 DEF DetailCall
    <3>2. DetailOK(c)'
      BY <2>2 DEF DetailOK
    <3> QED
      BY <3>1, <3>2 DEF ReadOK
  <2> QED
    BY <2>1, <2>2
<1>6. CallOK(g)' /\ c.op # "create"
  BY <1>1, <1>3, <1>5, EndedCall
<1> QED
  BY <1>1, <1>2, <1>4, <1>6 DEF StepOK

\* A call ends without a trace in the store.
LEMMA NoEffectStep ==
    ASSUME SInv, NEW g \in Goroutine, NEW b, b = calls[g], b.op \in WriteOp,
           taskMu \in {g, Free}, eventMu \in {g, Free}, taskMu' = Free, eventMu' = Free,
           Committed' = Committed, StoreTypeOK', ExistingStay,
           events' = events, stamps' = stamps, backend' = backend, crashes' = crashes,
           (Miss(g, b) /\ tasks' = tasks) \/ Fail(g)
    PROVE  StepOK(g)
<1>1. Moves
  BY QuietStep
<1>2. /\ iw' = iw \/ iw' = [w \in Internal |-> Polling]
      /\ up' \in BOOLEAN
  BY DEF Miss, Fail, SInv, TypesOK, InternalTypeOK
<1>3. InternalTypeOK' /\ stamps' \in [TaskId -> Seq(Nat)]
  BY <1>2 DEF SInv, TypesOK, InternalTypeOK
<1>4. \A w \in Internal : KeepsCopy(w)
  BY <1>2 DEF KeepsCopy, Polling
<1>5. \A h \in Goroutine \ {g} : calls[h].op = "create" /\ calls[h].pc # "written" =>
        Committed'[calls[h].task].status = "absent"
  BY CreationsWait
<1>6. CASE calls' = [calls EXCEPT ![g] = NoCall]
  <2>1. PICK c : c = NoCall
    OBVIOUS
  <2> QED
    BY <1>1, <1>3, <1>4, <1>5, <1>6, <2>1, ReleaseStep
<1>7. CASE /\ b.op = "cancel" /\ tasks[b.task].status = "canceled" /\ tasks' = tasks
           /\ calls' = [calls EXCEPT ![g] = Detail(b.task)]
  <2>1. PICK c : c = Detail(b.task)
    OBVIOUS
  <2>2. g \in Handler /\ b.task \in TaskId
    BY <1>7, WritingCall
  <2>3. c \in DetailCall /\ c.pc = "row" /\ c.task = b.task
    BY <2>1, <2>2, DetailBegins
  <2>4. Exists(c.task)'
    BY <1>7, <2>3 DEF Exists
  <2> QED
    BY <1>1, <1>3, <1>4, <1>5, <1>7, <2>1, <2>2, <2>3, <2>4, ReleaseStep
<1> QED
  BY <1>6, <1>7 DEF Miss, Fail

\* Call b of g saves a transition: row replaces the row of task t.
Committing(g, b, t, row, event) ==
    /\ b = calls[g] /\ b.op \in WriteOp
    /\ taskMu \in {g, Free} /\ eventMu \in {g, Free} /\ taskMu' = Free /\ eventMu' = Free
    /\ \A u \in TaskId \ {t} : tasks'[u] = Committed[u]
    /\ tasks'[t] = row /\ Replaces(row, Committed[t], event)
    /\ Committed[t].status = "absent" => b.op = "create" /\ b.task = t
    /\ b.op = "claim" => row.status = "running" /\ row.owner = g
    /\ events' = [events EXCEPT ![t] = Append(@, event)]
    /\ stamps' = [stamps EXCEPT ![t] = Append(@, b.at)]
    /\ StoreTypeOK' /\ ExistingStay /\ backend' = backend /\ crashes' = crashes
    /\ Succeed(g, b, t, row)

\* The rest of a transition that is saved.
LEMMA CommitStep ==
    ASSUME SInv, NEW g \in Goroutine, NEW b, NEW t \in TaskId, NEW row, NEW event,
           Committing(g, b, t, row, event)
    PROVE  StepOK(g)
<1> USE DEF Committing
<1>1. Committed' = tasks'
  BY DEF Committed
<1>2. b.at \in Nat /\ row \in Task /\ row.status # "absent" /\ event \in EventType
  BY WritingCall DEF Replaces
<1>3. Saves(t, event, b.at)
  BY <1>1 DEF Saves
<1>4. Moves
  BY <1>2, <1>3 DEF Moves
<1>5. stamps' \in [TaskId -> Seq(Nat)]
  <2>1. stamps \in [TaskId -> Seq(Nat)]
    BY DEF SInv, TypesOK
  <2>2. Append(stamps[t], b.at) \in Seq(Nat)
    BY <1>2, <2>1
  <2> QED
    BY <2>1, <2>2
<1>6. ASSUME NEW h \in Goroutine \ {g}, calls[h].op = "create", calls[h].pc # "written"
      PROVE  Committed'[calls[h].task].status = "absent"
  <2>1. Committed[calls[h].task].status = "absent" /\ calls[h].task \in TaskId
    BY <1>6, CreationsWait
  <2>2. CASE calls[h].task = t
    <3>1. b.op = "create" /\ b.task = t
      BY <2>1, <2>2
    <3> QED
      BY <1>6, <2>2, <3>1 DEF SInv, CreatesAreApart
  <2>3. CASE calls[h].task # t
    BY <1>1, <2>1, <2>3
  <2> QED
    BY <2>2, <2>3
<1> DEFINE e == [pc |-> "execute", task |-> t, row |-> row, lease |-> "ok"]
<1>7. e \in Execution /\ e.row = row /\ e.task = t
  BY <1>2 DEF Execution
<1>8. b.op = "claim" => CopyFenced(g, e, row)
  BY <1>2, <1>7 DEF CopyFenced, ExecutionFenced, Task
<1>9. iw' = CASE b.op = "claim" -> [iw EXCEPT ![g] = e]
              [] b.op = "update" -> [iw EXCEPT ![g] = Polling]
              [] OTHER -> iw
  BY DEF Succeed
<1> HIDE DEF e
<1>10. /\ b.op = "claim" => iw' = [iw EXCEPT ![g] = e] /\ g \in Internal
       /\ b.op = "update" => iw' = [iw EXCEPT ![g] = Polling] /\ g \in Internal
       /\ b.op \notin {"claim", "update"} => iw' = iw
  BY <1>9, WritingCall
<1>11. InternalTypeOK'
  <2>1. iw \in [Internal -> Execution \union {Polling}]
    BY DEF SInv, TypesOK, InternalTypeOK
  <2>2. iw' \in [Internal -> Execution \union {Polling}]
    BY <1>7, <1>10, <2>1
  <2> QED
    BY <2>2 DEF Succeed, SInv, TypesOK, InternalTypeOK
<1>12. ASSUME NEW w \in Internal, iw'[w].pc = "execute"
       PROVE  KeepsCopy(w) \/ CopyFenced(w, iw'[w], Committed'[iw'[w].task])
  <2>1. iw \in [Internal -> Execution \union {Polling}]
    BY DEF SInv, TypesOK, InternalTypeOK
  <2>2. CASE w = g /\ b.op = "claim"
    <3>1. iw'[w] = e
      BY <1>10, <2>1, <2>2
    <3>2. Committed'[iw'[w].task] = row
      BY <1>1, <1>7, <3>1
    <3> QED
      BY <1>8, <2>2, <3>1, <3>2
  <2>3. CASE w = g /\ b.op = "update"
    <3>1. iw'[w] = Polling
      BY <1>10, <2>1, <2>3
    <3> QED
      BY <1>12, <3>1 DEF Polling
  <2>4. CASE w # g \/ b.op \notin {"claim", "update"}
    <3>1. iw'[w] = iw[w]
      BY <1>10, <2>1, <2>4
    <3> QED
      BY <1>12, <3>1 DEF KeepsCopy
  <2> QED
    BY <2>2, <2>3, <2>4
<1>13. CASE b.op = "cancel"
  <2>1. PICK c : c = Detail(t)
    OBVIOUS
  <2>2. calls' = [calls EXCEPT ![g] = c]
    BY <1>13, <2>1 DEF Succeed
  <2>3. g \in Handler /\ c \in DetailCall /\ c.pc = "row" /\ c.task = t
    BY <1>13, <2>1, DetailBegins, WritingCall
  <2>4. Exists(c.task)'
    BY <1>2, <2>3 DEF Exists
  <2> QED
    BY <1>4, <1>5, <1>6, <1>11, <1>12, <2>2, <2>3, <2>4, ReleaseStep
<1>14. CASE b.op # "cancel"
  <2>1. PICK c : c = NoCall
    OBVIOUS
  <2>2. calls' = [calls EXCEPT ![g] = c]
    BY <1>14, <2>1 DEF Succeed
  <2> QED
    BY <1>4, <1>5, <1>6, <1>11, <1>12, <2>1, <2>2, ReleaseStep
<1> QED
  BY <1>13, <1>14

-----------------------------------------------------------------------------
(* Transactions of the mysql backend.                                      *)

\* A save with its event, seen as the replacement of one row.
LEMMA SavedRow ==
    ASSUME StoreTypeOK, NEW t \in TaskId, NEW row \in Task, NEW event,
           SaveWithEvent(t, row, event)
    PROVE  /\ tasks' = [tasks EXCEPT ![t] = [row EXCEPT !.version = tasks[t].version + 1]]
           /\ events' = [events EXCEPT ![t] = Append(@, event)]
           /\ granted' \in [TaskId -> Int]
<1>1. granted \in [TaskId -> Int] /\ row.leaseExp \in Int
  BY DEF StoreTypeOK, Task
<1>2. granted' = [granted EXCEPT ![t] =
          IF row.status # "running" THEN NoTime
          ELSE IF event \in ClaimEvent THEN row.leaseExp ELSE granted[t]]
  BY DEF SaveWithEvent
<1>3. granted' \in [TaskId -> Int]
  BY <1>1, <1>2, NoTimeFacts
<1> QED
  BY <1>3 DEF SaveWithEvent

\* Setting the version leaves status and owner alone.
LEMMA VersionedRow ==
    ASSUME NEW row \in Task, NEW v
    PROVE  /\ [row EXCEPT !.version = v].status = row.status
           /\ [row EXCEPT !.version = v].owner = row.owner
BY DEF Task

\* What a committed transaction does.
LEMMA CommitsReplace ==
    ASSUME SInv, Committed = tasks, NEW g \in Goroutine, NEW c, c = calls[g],
           c.op \in WriteOp, c.pc = "begin", NEW t \in TaskId, Commits(g, c, t)
    PROVE  \E row, event :
             /\ tasks' = [tasks EXCEPT ![t] = row]
             /\ Replaces(row, tasks[t], event)
             /\ events' = [events EXCEPT ![t] = Append(@, event)]
             /\ granted' \in [TaskId -> Int]
             /\ tasks[t].status = "absent" => c.op = "create" /\ c.task = t
             /\ c.op = "claim" => row.status = "running" /\ row.owner = g
<1>1. /\ c.at \in Nat /\ c.row \in Task /\ WriteOK(g, c)
      /\ c.op \in {"claim", "update"} => g \in Worker
  BY WritingCall
<1>2. /\ StoreTypeOK /\ tasks[t] \in Task /\ RowInOrder(tasks[t])
      /\ granted \in [TaskId -> Int]
  BY DEF SInv, TypesOK, StoreTypeOK, RowsInStep
<1>3. CASE c.op = "create" /\ t = c.task /\ CreateTaskWithEvent(t, c.at)
  <2>1. PICK m \in MaxRetriesOf :
         /\ tasks' = [tasks EXCEPT ![t] = NewTask(m, c.at)]
         /\ events' = [events EXCEPT ![t] = Append(@, "task_created")]
    BY <1>3 DEF CreateTaskWithEvent
  <2>2. tasks[t].status = "absent" /\ granted' = granted
    BY <1>3 DEF CreateTaskWithEvent, Exists
  <2>3. Replaces(NewTask(m, c.at), tasks[t], "task_created")
    BY <1>1, <1>2, <2>2, NewReplaces
  <2> QED
    BY <1>2, <1>3, <2>1, <2>2, <2>3
<1>4. CASE c.op = "claim" /\ ClaimNextWithEvent(g, c.at, t)
  <2> DEFINE row == Claimed(tasks[t], g, c.at)
             b == [row EXCEPT !.version = tasks[t].version + 1]
  <2>1. \/ tasks[t].status = "running" /\ tasks[t].retryCount < tasks[t].maxRetries
        \/ tasks[t].status \in {"queued", "retrying"}
    BY <1>4, ClaimableRows
  <2>2. row \in Task /\ row.owner = g /\ Replaces(b, tasks[t], ClaimedEvent(tasks[t]))
    BY <1>1, <1>2, <1>4, <2>1, ClaimReplaces
  <2>3. row.status = "running"
    BY <1>1, <1>2, <1>4, ClaimedType
  <2>4. SaveWithEvent(t, row, ClaimedEvent(tasks[t]))
    BY <1>4 DEF ClaimNextWithEvent
  <2> HIDE DEF row
  <2>5. /\ tasks' = [tasks EXCEPT ![t] = b]
        /\ events' = [events EXCEPT ![t] = Append(@, ClaimedEvent(tasks[t]))]
        /\ granted' \in [TaskId -> Int]
    BY <1>2, <2>2, <2>4, SavedRow
  <2>6. b.status = "running" /\ b.owner = g
    BY <2>2, <2>3, VersionedRow
  <2>7. tasks[t].status # "absent"
    BY <2>1
  <2> HIDE DEF b
  <2> QED
    BY <2>2, <2>5, <2>6, <2>7
<1>5. CASE c.op = "reap" /\ FailNextExpiredWithEvent(c.at, t)
  <2> DEFINE row == [MoveTo(tasks[t], "failed") EXCEPT !.err = LeaseExpiredError]
             b == [row EXCEPT !.version = tasks[t].version + 1]
  <2>1. SaveWithEvent(t, row, "task_failed") /\ tasks[t].status = "running"
    BY <1>5 DEF FailNextExpiredWithEvent, FirstUnlocked, Exhausted, Expired
  <2>2. row \in Task /\ Replaces(b, tasks[t], "task_failed")
    BY <1>2, <2>1, ReapReplaces
  <2> HIDE DEF row
  <2>3. /\ tasks' = [tasks EXCEPT ![t] = b]
        /\ events' = [events EXCEPT ![t] = Append(@, "task_failed")]
        /\ granted' \in [TaskId -> Int]
    BY <1>2, <2>1, <2>2, SavedRow
  <2> HIDE DEF b
  <2> QED
    BY <1>5, <2>1, <2>2, <2>3
<1>6. CASE c.op = "cancel" /\ CancelTaskWithEvent(t)
  <2> DEFINE row == MoveTo(tasks[t], "canceled")
             b == [row EXCEPT !.version = tasks[t].version + 1]
  <2>1. /\ SaveWithEvent(t, row, "task_canceled")
        /\ tasks[t].status \in {"queued", "retrying", "running"}
    BY <1>6 DEF CancelTaskWithEvent, Cancelable
  <2>2. row \in Task /\ Replaces(b, tasks[t], "task_canceled")
    BY <1>2, <2>1, CancelReplaces
  <2> HIDE DEF row
  <2>3. /\ tasks' = [tasks EXCEPT ![t] = b]
        /\ events' = [events EXCEPT ![t] = Append(@, "task_canceled")]
        /\ granted' \in [TaskId -> Int]
    BY <1>2, <2>1, <2>2, SavedRow
  <2> HIDE DEF b
  <2> QED
    BY <1>6, <2>1, <2>2, <2>3
<1>7. CASE c.op = "update" /\ t = c.task /\ UpdateTaskWithEvent(t, c.row, c.event)
  <2> DEFINE b == [c.row EXCEPT !.version = tasks[t].version + 1]
  <2>1. /\ SaveWithEvent(t, c.row, c.event) /\ tasks[t].version = c.row.version
        /\ tasks[t].status # "absent"
    BY <1>7 DEF UpdateTaskWithEvent, updateTask, Exists
  <2>2. UpdateFenced(c, tasks[t])
    BY <1>1, <1>7 DEF WriteOK
  <2>3. Replaces(b, tasks[t], c.event)
    BY <1>1, <1>2, <2>1, <2>2, UpdateReplaces
  <2>4. /\ tasks' = [tasks EXCEPT ![t] = b]
        /\ events' = [events EXCEPT ![t] = Append(@, c.event)]
        /\ granted' \in [TaskId -> Int]
    BY <1>1, <1>2, <2>1, SavedRow
  <2> HIDE DEF b
  <2> QED
    BY <1>7, <2>1, <2>3, <2>4
<1> QED
  BY <1>3, <1>4, <1>5, <1>6, <1>7 DEF Commits

\* A transaction, committed or not.
LEMMA TransactionStep ==
    ASSUME SInv, NEW g \in Goroutine, calls[g].op \in WriteOp, backend = "mysql",
           Transaction(g, calls[g]), UNCHANGED <<now, crashes, backend>>
    PROVE  StepOK(g)
<1>1. PICK c : c = calls[g]
  OBVIOUS
<1>2. /\ taskMu = Free /\ eventMu = Free /\ taskMu' = Free /\ eventMu' = Free
      /\ Committed = tasks /\ Committed' = tasks' /\ c.pc = "begin"
  BY <1>1 DEF SInv, LocksOK, Transaction, memoryVars, Committed
<1>3. CASE /\ Miss(g, c) \/ Fail(g)
           /\ UNCHANGED <<storeVars, stamps>>
  <2>1. tasks' = tasks /\ events' = events /\ granted' = granted /\ stamps' = stamps
    BY <1>3 DEF storeVars
  <2>2. StoreTypeOK' /\ ExistingStay
    BY <2>1 DEF SInv, TypesOK, StoreTypeOK, ExistingStay, Exists
  <2> QED
    BY <1>1, <1>2, <1>3, <2>1, <2>2, NoEffectStep
<1>4. ASSUME NEW t \in TaskId, Commits(g, c, t),
             stamps' = [stamps EXCEPT ![t] = Append(@, c.at)],
             Succeed(g, c, t, tasks'[t])
      PROVE  StepOK(g)
  <2>1. PICK row, event :
             /\ tasks' = [tasks EXCEPT ![t] = row]
             /\ Replaces(row, tasks[t], event)
             /\ events' = [events EXCEPT ![t] = Append(@, event)]
             /\ granted' \in [TaskId -> Int]
             /\ tasks[t].status = "absent" => c.op = "create" /\ c.task = t
             /\ c.op = "claim" => row.status = "running" /\ row.owner = g
    BY <1>1, <1>2, <1>4, CommitsReplace
  <2>2. row \in Task /\ row.status # "absent" /\ event \in EventType
    BY <2>1 DEF Replaces
  <2>3. tasks \in [TaskId -> Task] /\ events \in [TaskId -> Seq(EventType)]
    BY DEF SInv, TypesOK, StoreTypeOK
  <2>4. tasks'[t] = row /\ \A u \in TaskId \ {t} : tasks'[u] = tasks[u]
    BY <2>1, <2>3
  <2>5. StoreTypeOK'
    <3>1. Append(events[t], event) \in Seq(EventType)
      BY <2>2, <2>3
    <3>2. tasks' \in [TaskId -> Task] /\ events' \in [TaskId -> Seq(EventType)]
      BY <2>1, <2>2, <2>3, <3>1
    <3> QED
      BY <2>1, <3>2 DEF SInv, TypesOK, StoreTypeOK
  <2>6. ExistingStay
    BY <2>2, <2>4 DEF ExistingStay, Exists
  <2>7. Succeed(g, c, t, row)
    BY <1>4, <2>4
  <2>8. /\ \A u \in TaskId \ {t} : tasks'[u] = Committed[u]
        /\ Replaces(row, Committed[t], event)
        /\ Committed[t].status = "absent" => c.op = "create" /\ c.task = t
    BY <1>2, <2>1, <2>4
  <2>9. /\ c.op \in WriteOp /\ backend' = backend /\ crashes' = crashes
        /\ taskMu \in {g, Free} /\ eventMu \in {g, Free}
        /\ taskMu' = Free /\ eventMu' = Free
    BY <1>1, <1>2
  <2>10. /\ c.op = "claim" => row.status = "running" /\ row.owner = g
         /\ events' = [events EXCEPT ![t] = Append(@, event)]
         /\ stamps' = [stamps EXCEPT ![t] = Append(@, c.at)]
    BY <1>4, <2>1
  <2>11. Committing(g, c, t, row, event)
    BY <1>1, <2>4, <2>5, <2>6, <2>7, <2>8, <2>9, <2>10 DEF Committing
  <2> QED
    BY <2>11, CommitStep
<1> QED
  BY <1>1, <1>3, <1>4 DEF Transaction

-----------------------------------------------------------------------------
(* Transitions of the memory backend.                                      *)

\* What a call decides to write under the locks.
LEMMA WritesReplace ==
    ASSUME SInv, Committed = tasks, NEW g \in Goroutine, NEW c, c = calls[g],
           c.op \in WriteOp, c.pc # "written", NEW w \in Writes(g, c)
    PROVE  LET t == w[1]
               row == IF Exists(t) THEN [w[2] EXCEPT !.version = tasks[t].version + 1]
                                   ELSE w[2]
           IN  /\ t \in TaskId
               /\ Replaces(row, tasks[t], w[3])
               /\ tasks[t].status = "absent" => c.op = "create"
               /\ c.op = "create" => t = c.task
               /\ c.op = "claim" => row.status = "running" /\ row.owner = g
<1>1. /\ c.at \in Nat /\ c.row \in Task /\ WriteOK(g, c)
      /\ c.op \in {"claim", "update"} => g \in Worker
      /\ c.op \in {"create", "cancel"} => c.task \in TaskId
  BY WritingCall
<1>2. \A t \in TaskId : tasks[t] \in Task /\ RowInOrder(tasks[t])
  BY DEF SInv, RowsInStep
<1>3. CASE c.op = "create"
  <2>1. PICK m \in MaxRetriesOf : w = <<c.task, NewTask(m, c.at), "task_created">>
    BY <1>3 DEF Writes
  <2>2. tasks[c.task].status = "absent" /\ c.task \in TaskId
    BY <1>1, <1>3 DEF WriteOK
  <2>3. Replaces(NewTask(m, c.at), tasks[c.task], "task_created")
    BY <1>1, <1>2, <2>2, NewReplaces
  <2> QED
    BY <1>3, <2>1, <2>2, <2>3 DEF Exists
<1>4. CASE c.op = "claim"
  <2>1. PICK t \in claimNextLocked(c.at) :
          w = <<t, Claimed(tasks[t], g, c.at), ClaimedEvent(tasks[t])>>
    BY <1>4 DEF Writes
  <2>2. /\ t \in TaskId
        /\ \/ tasks[t].status = "running" /\ tasks[t].retryCount < tasks[t].maxRetries
           \/ tasks[t].status \in {"queued", "retrying"}
    BY DEF claimNextLocked, Recoverable, Due, Expired
  <2> DEFINE row == Claimed(tasks[t], g, c.at)
             b == [row EXCEPT !.version = tasks[t].version + 1]
  <2>3. row \in Task /\ row.owner = g /\ Replaces(b, tasks[t], ClaimedEvent(tasks[t]))
    BY <1>1, <1>2, <1>4, <2>2, ClaimReplaces
  <2>4. row.status = "running"
    BY <1>1, <1>2, <1>4, <2>2, ClaimedType
  <2>5. w[1] = t /\ w[2] = row /\ w[3] = ClaimedEvent(tasks[t])
    BY <2>1
  <2> HIDE DEF row
  <2>6. b.status = "running" /\ b.owner = g
    BY <2>3, <2>4, VersionedRow
  <2>7. Exists(t) /\ b = [w[2] EXCEPT !.version = tasks[t].version + 1]
    BY <2>2, <2>5 DEF Exists
  <2> HIDE DEF b
  <2> QED
    BY <1>4, <2>2, <2>3, <2>5, <2>6, <2>7 DEF Exists
<1>5. CASE c.op = "reap"
  <2>1. PICK t \in failNextExpiredLocked(c.at) :
          w = <<t, [MoveTo(tasks[t], "failed") EXCEPT !.err = LeaseExpiredError],
                "task_failed">>
    BY <1>5 DEF Writes
  <2>2. t \in TaskId /\ tasks[t].status = "running"
    BY DEF failNextExpiredLocked, Exhausted, Expired
  <2> DEFINE row == [MoveTo(tasks[t], "failed") EXCEPT !.err = LeaseExpiredError]
             b == [row EXCEPT !.version = tasks[t].version + 1]
  <2>3. Replaces(b, tasks[t], "task_failed")
    BY <1>2, <2>2, ReapReplaces
  <2>4. w[1] = t /\ w[2] = row /\ w[3] = "task_failed"
    BY <2>1
  <2> HIDE DEF row
  <2>5. Exists(t) /\ b = [w[2] EXCEPT !.version = tasks[t].version + 1]
    BY <2>2, <2>4 DEF Exists
  <2> HIDE DEF b
  <2> QED
    BY <1>5, <2>2, <2>3, <2>4, <2>5 DEF Exists
<1>6. CASE c.op = "cancel"
  <2>1. PICK t \in {u \in {c.task} : Cancelable(u)} :
          w = <<t, MoveTo(tasks[t], "canceled"), "task_canceled">>
    BY <1>6 DEF Writes
  <2>2. t \in TaskId /\ tasks[t].status \in {"queued", "retrying", "running"}
    BY <1>1, <1>6 DEF Cancelable
  <2> DEFINE row == MoveTo(tasks[t], "canceled")
             b == [row EXCEPT !.version = tasks[t].version + 1]
  <2>3. Replaces(b, tasks[t], "task_canceled")
    BY <1>2, <2>2, CancelReplaces
  <2>4. w[1] = t /\ w[2] = row /\ w[3] = "task_canceled"
    BY <2>1
  <2> HIDE DEF row
  <2>5. Exists(t) /\ b = [w[2] EXCEPT !.version = tasks[t].version + 1]
    BY <2>2, <2>4 DEF Exists
  <2> HIDE DEF b
  <2> QED
    BY <1>6, <2>2, <2>3, <2>4, <2>5 DEF Exists
<1>7. CASE c.op = "update"
  <2>1. PICK t \in {u \in {c.task} : updateTask(u, c.row)} : w = <<t, c.row, c.event>>
    BY <1>7 DEF Writes
  <2>2. t = c.task /\ tasks[t].version = c.row.version /\ Exists(t)
    BY DEF updateTask
  <2>3. t \in TaskId /\ UpdateFenced(c, tasks[t])
    BY <1>1, <1>7, <2>2 DEF WriteOK
  <2> DEFINE b == [c.row EXCEPT !.version = tasks[t].version + 1]
  <2>4. Replaces(b, tasks[t], c.event)
    BY <1>1, <1>2, <2>2, <2>3, UpdateReplaces
  <2>5. w[1] = t /\ w[2] = c.row /\ w[3] = c.event
    BY <2>1
  <2>6. b = [w[2] EXCEPT !.version = tasks[t].version + 1]
    BY <2>5
  <2> HIDE DEF b
  <2> QED
    BY <1>7, <2>2, <2>3, <2>4, <2>5, <2>6 DEF Exists
<1> QED
  BY <1>3, <1>4, <1>5, <1>6, <1>7 DEF WriteOp

\* The call takes the task lock.
LEMMA LockStep ==
    ASSUME SInv, NEW g \in Goroutine, calls[g].op \in WriteOp, Lock(g, calls[g]),
           UNCHANGED <<now, crashes, backend>>, backend = "memory"
    PROVE  StepOK(g)
<1>1. PICK b : b = calls[g]
  OBVIOUS
<1>2. /\ b \in WriteCall /\ WriteOK(g, b) /\ b.op \in WriteOp
      /\ HoldsEvents(b) <=> eventMu = g
  BY <1>1, WritingCall
<1>3. /\ tasks' = tasks /\ events' = events /\ granted' = granted /\ stamps' = stamps
      /\ backend' = backend /\ crashes' = crashes /\ now' = now /\ iw' = iw /\ up' = up
      /\ taskMu = Free /\ taskMu' = g /\ eventMu' = eventMu /\ b.pc = "begin"
      /\ calls' = [calls EXCEPT ![g].pc = "tasks_locked"]
  BY <1>1 DEF Lock, storeVars
<1>4. PICK c : c = [b EXCEPT !.pc = "tasks_locked"]
  OBVIOUS
<1>5. /\ c.op = b.op /\ c.pc = "tasks_locked" /\ c.task = b.task /\ c.row = b.row
      /\ c.event = b.event
  BY <1>2, <1>4 DEF WriteCall
<1>6. c \in WriteCall
  BY <1>2, <1>4 DEF WriteCall
<1>7. calls'[g] = c /\ \A h \in Goroutine \ {g} : calls'[h] = calls[h]
  BY <1>1, <1>3, <1>4 DEF SInv, TypesOK
<1>8. /\ Committed = tasks /\ Committed' = tasks'
  BY <1>3, <1>5, <1>7 DEF Committed
<1>9. Moves /\ ExistingStay
  BY <1>3, <1>8, QuietStep DEF ExistingStay, Exists
<1>10. TypesOK' /\ LocksOK'
  <2>1. TypesOK'
    BY <1>3 DEF SInv, TypesOK, StoreTypeOK, InternalTypeOK
  <2>2. LocksOK'
    BY <1>3 DEF SInv, LocksOK
  <2> QED
    BY <2>1, <2>2
<1>11. \A h \in Goroutine \ {g} : Leaves(h)
  <2>1. \A h \in Goroutine : h # Free
    BY GoroutineAssumption
  <2>2. \A h \in Goroutine : calls[h].op = "create" /\ calls[h].pc # "written" =>
          Committed'[calls[h].task].status = "absent"
    BY <1>3, <1>8, CreationsWait
  <2> QED
    BY <1>3, <1>7, <2>1, <2>2 DEF Leaves
<1>12. WriteOK(g, c)
  BY <1>2, <1>3, <1>5 DEF WriteOK, UpdateFenced
<1>13. CallOK(g)'
  <2>1. c.op = "create" => Committed'[c.task].status = "absent"
    BY <1>3, <1>5, <1>8, <1>12 DEF WriteOK
  <2>2. WriteOK(g, c)'
    BY <1>5, <1>6, <1>9, <1>12, <2>1, WriteStays DEF SInv
  <2>3. ReadOK(c)'
    BY <1>2, <1>5 DEF ReadOK, WriteOp
  <2>4. /\ HoldsTasks(c) <=> taskMu' = g
        /\ HoldsEvents(c) <=> eventMu' = g
    BY <1>2, <1>3, <1>5 DEF HoldsTasks, HoldsEvents
  <2> QED
    BY <1>6, <1>7, <2>2, <2>3, <2>4, CallNamed DEF CallTyped
<1>14. calls'[g].op = "create" => \A h \in Goroutine \ {g} :
         calls[h].op = "create" => calls[h].task # calls'[g].task
  BY <1>1, <1>5, <1>7 DEF SInv, CreatesAreApart
<1>15. \A w \in Internal : KeepsCopy(w)
  BY <1>3 DEF KeepsCopy
<1> QED
  BY <1>9, <1>10, <1>11, <1>13, <1>14, <1>15 DEF StepOK

\* The call takes the event lock and writes the row, which nobody sees yet.
LEMMA WriteRowStep ==
    ASSUME SInv, NEW g \in Goroutine, calls[g].op \in WriteOp, WriteRow(g, calls[g]),
           UNCHANGED <<now, crashes, backend>>, backend = "memory"
    PROVE  StepOK(g)
<1>1. PICK b : b = calls[g]
  OBVIOUS
<1>2. /\ b \in WriteCall /\ WriteOK(g, b) /\ b.op \in WriteOp
      /\ HoldsTasks(b) <=> taskMu = g
  BY <1>1, WritingCall
<1>3. /\ events' = events /\ granted' = granted /\ stamps' = stamps
      /\ backend' = backend /\ crashes' = crashes /\ now' = now /\ iw' = iw /\ up' = up
      /\ taskMu' = taskMu /\ eventMu = Free /\ eventMu' = g /\ b.pc = "tasks_locked"
  BY <1>1 DEF WriteRow
<1>4. taskMu = g
  BY <1>2, <1>3 DEF HoldsTasks
<1>5. Committed = tasks
  BY <1>1, <1>3, <1>4 DEF Committed
<1>6. PICK w \in Writes(g, b) :
         /\ tasks' = [tasks EXCEPT ![w[1]] =
               IF Exists(w[1]) THEN [w[2] EXCEPT !.version = tasks[w[1]].version + 1]
                               ELSE w[2]]
         /\ calls' = [calls EXCEPT ![g] = [b EXCEPT !.pc = "written", !.task = w[1],
                                           !.row = tasks[w[1]], !.event = w[3]]]
  BY <1>1 DEF WriteRow
<1>7. PICK t, event, row, old :
         /\ t = w[1] /\ event = w[3] /\ old = tasks[t]
         /\ row = IF Exists(t) THEN [w[2] EXCEPT !.version = tasks[t].version + 1]
                               ELSE w[2]
  OBVIOUS
<1>8. /\ t \in TaskId /\ Replaces(row, old, event)
      /\ old.status = "absent" => b.op = "create"
      /\ b.op = "create" => t = b.task
      /\ b.op = "claim" => row.status = "running" /\ row.owner = g
  BY <1>1, <1>2, <1>3, <1>5, <1>7, WritesReplace
<1>9. tasks \in [TaskId -> Task] /\ old \in Task
  BY <1>7, <1>8 DEF SInv, TypesOK, StoreTypeOK
<1>10. PICK c : c = [b EXCEPT !.pc = "written", !.task = t, !.row = old, !.event = event]
  OBVIOUS
<1>11. c.op = b.op /\ c.pc = "written" /\ c.task = t /\ c.row = old /\ c.event = event
  BY <1>2, <1>10 DEF WriteCall
<1>12. c \in WriteCall
  <2>1. event \in EventType
    BY <1>8 DEF Replaces
  <2> QED
    BY <1>2, <1>8, <1>9, <1>10, <2>1 DEF WriteCall
<1>13. tasks' = [tasks EXCEPT ![t] = row] /\ calls' = [calls EXCEPT ![g] = c]
  BY <1>6, <1>7, <1>10
<1>14. calls'[g] = c /\ \A h \in Goroutine \ {g} : calls'[h] = calls[h]
  BY <1>13 DEF SInv, TypesOK
<1>15. /\ tasks'[t] = row /\ tasks' \in [TaskId -> Task]
       /\ row.status # "absent"
  BY <1>8, <1>9, <1>13 DEF Replaces
<1>16. Committed' = Committed
  <2>1. g # Free
    BY GoroutineAssumption
  <2>2. Committed' = [tasks' EXCEPT ![t] = old]
    BY <1>3, <1>4, <1>11, <1>14, <2>1 DEF Committed
  <2> QED
    BY <1>5, <1>7, <1>8, <1>9, <1>13, <2>2
<1>17. Moves
  BY <1>3, <1>16, QuietStep
<1>18. ExistingStay
  BY <1>8, <1>9, <1>13, <1>15 DEF ExistingStay, Exists
<1>19. TypesOK' /\ LocksOK'
  <2>1. TypesOK'
    BY <1>3, <1>13, <1>15 DEF SInv, TypesOK, StoreTypeOK, InternalTypeOK
  <2>2. LocksOK'
    BY <1>3, <1>4 DEF SInv, LocksOK
  <2> QED
    BY <2>1, <2>2
<1>20. \A h \in Goroutine \ {g} : Leaves(h)
  <2>1. \A h \in Goroutine : h # Free
    BY GoroutineAssumption
  <2>2. \A h \in Goroutine : calls[h].op = "create" /\ calls[h].pc # "written" =>
          Committed'[calls[h].task].status = "absent"
    BY <1>16, CreationsWait
  <2> QED
    BY <1>3, <1>4, <1>14, <2>1, <2>2 DEF Leaves
<1>21. CallOK(g)'
  <2>1. WriteOK(g, c)'
    <3>1. Replaces(tasks'[t], old, event)
      BY <1>8, <1>15
    <3>2. /\ b.op \in {"claim", "update"} => g \in Internal
          /\ b.op \in {"create", "cancel"} => g \in Handler
      BY <1>2 DEF WriteOK
    <3>3. b.op = "claim" => tasks'[t].status = "running" /\ tasks'[t].owner = g
      BY <1>8, <1>15
    <3> QED
      BY <1>8, <1>11, <3>1, <3>2, <3>3, Zenon DEF WriteOK
  <2>2. ReadOK(c)'
    BY <1>2, <1>11 DEF ReadOK, WriteOp
  <2>3. /\ HoldsTasks(c) <=> taskMu' = g
        /\ HoldsEvents(c) <=> eventMu' = g
    BY <1>3, <1>4, <1>11 DEF HoldsTasks, HoldsEvents
  <2> QED
    BY <1>12, <1>14, <2>1, <2>2, <2>3, CallNamed DEF CallTyped
<1>22. calls'[g].op = "create" => \A h \in Goroutine \ {g} :
         calls[h].op = "create" => calls[h].task # calls'[g].task
  BY <1>1, <1>8, <1>11, <1>14 DEF SInv, CreatesAreApart
<1>23. \A v \in Internal : KeepsCopy(v)
  BY <1>3 DEF KeepsCopy
<1> QED
  BY <1>17, <1>18, <1>19, <1>20, <1>21, <1>22, <1>23 DEF StepOK

\* The call finds nothing to do.
LEMMA NothingToWriteStep ==
    ASSUME SInv, NEW g \in Goroutine, calls[g].op \in WriteOp,
           NothingToWrite(g, calls[g]), UNCHANGED <<now, crashes, backend>>
    PROVE  StepOK(g)
<1>1. PICK c : c = calls[g]
  OBVIOUS
<1>2. /\ tasks' = tasks /\ events' = events /\ granted' = granted /\ stamps' = stamps
      /\ backend' = backend /\ crashes' = crashes /\ now' = now
      /\ eventMu = Free /\ taskMu' = Free /\ eventMu' = Free /\ c.pc = "tasks_locked"
      /\ Miss(g, c) \/ Fail(g)
  BY <1>1 DEF NothingToWrite, Refused, Unlock, storeVars
<1>3. taskMu = g
  BY <1>1, <1>2, WritingCall DEF HoldsTasks
<1>4. Committed = tasks /\ Committed' = tasks'
  BY <1>1, <1>2, <1>3 DEF Committed
<1>5. StoreTypeOK' /\ ExistingStay
  BY <1>2 DEF SInv, TypesOK, StoreTypeOK, ExistingStay, Exists
<1>6. /\ taskMu \in {g, Free} /\ eventMu \in {g, Free} /\ Committed' = Committed
      /\ c.op \in WriteOp
  BY <1>1, <1>2, <1>3, <1>4
<1> QED
  BY <1>1, <1>2, <1>5, <1>6, NoEffectStep

\* Who has written a row holds both locks, and everyone else sees the old row.
LEMMA WrittenFacts ==
    ASSUME SInv, NEW g \in Goroutine, NEW c, c = calls[g], c.op \in WriteOp,
           c.pc = "written"
    PROVE  /\ taskMu = g /\ eventMu = g /\ c.task \in TaskId /\ c.row \in Task
           /\ Committed = [tasks EXCEPT ![c.task] = c.row] /\ Committed[c.task] = c.row
           /\ Replaces(tasks[c.task], c.row, c.event)
           /\ c.op # "create" => c.row.status # "absent"
           /\ c.op = "claim" => /\ tasks[c.task].status = "running"
                                /\ tasks[c.task].owner = g
<1>1. /\ WriteOK(g, c) /\ taskMu = g /\ eventMu = g /\ c.row \in Task
  BY WritingCall DEF HoldsTasks, HoldsEvents
<1>2. /\ c.task \in TaskId
      /\ Replaces(tasks[c.task], c.row, c.event)
      /\ c.op # "create" => c.row.status # "absent"
      /\ c.op = "claim" => /\ tasks[c.task].status = "running"
                           /\ tasks[c.task].owner = g
  BY <1>1 DEF WriteOK
<1>3. g # Free
  BY GoroutineAssumption
<1>4. Committed = [tasks EXCEPT ![c.task] = c.row]
  BY <1>1, <1>3 DEF Committed
<1>5. Committed[c.task] = c.row
  BY <1>2, <1>4 DEF SInv, TypesOK, StoreTypeOK
<1> QED
  BY <1>1, <1>2, <1>4, <1>5

\* The event is stored and both locks are released: the transition commits.
LEMMA AppendEventStep ==
    ASSUME SInv, NEW g \in Goroutine, calls[g].op \in WriteOp,
           AppendEvent(g, calls[g]), UNCHANGED <<now, crashes, backend>>
    PROVE  StepOK(g)
<1>1. PICK c : c = calls[g]
  OBVIOUS
<1>2. PICK t, row, event : t = c.task /\ row = tasks[t] /\ event = c.event
  OBVIOUS
<1>3. /\ c.pc = "written" /\ tasks' = tasks /\ granted' = granted
      /\ events' = [events EXCEPT ![t] = Append(@, event)]
      /\ stamps' = [stamps EXCEPT ![t] = Append(@, c.at)]
      /\ Succeed(g, c, t, row)
      /\ taskMu' = Free /\ eventMu' = Free
      /\ backend' = backend /\ crashes' = crashes /\ now' = now
  BY <1>1, <1>2 DEF AppendEvent, Unlock
<1>4. /\ taskMu = g /\ eventMu = g /\ t \in TaskId
      /\ Committed = [tasks EXCEPT ![t] = c.row]
      /\ Replaces(row, Committed[t], event)
      /\ Committed[t].status = "absent" => c.op = "create" /\ c.task = t
      /\ c.op = "claim" => row.status = "running" /\ row.owner = g
  BY <1>1, <1>2, <1>3, WrittenFacts
<1>5. \A u \in TaskId \ {t} : tasks'[u] = Committed[u]
  BY <1>3, <1>4 DEF SInv, TypesOK, StoreTypeOK
<1>6. StoreTypeOK'
  <2>1. event \in EventType
    BY <1>4 DEF Replaces
  <2>2. events \in [TaskId -> Seq(EventType)]
    BY DEF SInv, TypesOK, StoreTypeOK
  <2>3. Append(events[t], event) \in Seq(EventType)
    BY <1>4, <2>1, <2>2
  <2>4. events' \in [TaskId -> Seq(EventType)]
    BY <1>3, <1>4, <2>2, <2>3
  <2> QED
    BY <1>3, <2>4 DEF SInv, TypesOK, StoreTypeOK
<1>7. ExistingStay
  BY <1>3 DEF ExistingStay, Exists
<1>8. /\ c.op \in WriteOp /\ taskMu \in {g, Free} /\ eventMu \in {g, Free}
      /\ tasks'[t] = row
  BY <1>1, <1>2, <1>3, <1>4
<1>9. Committing(g, c, t, row, event)
  BY <1>1, <1>3, <1>4, <1>5, <1>6, <1>7, <1>8 DEF Committing
<1> QED
  BY <1>4, <1>9, CommitStep

\* The event cannot be built: the row returns to what everyone else saw.
LEMMA RollBackStep ==
    ASSUME SInv, NEW g \in Goroutine, calls[g].op \in WriteOp,
           RollBack(g, calls[g]), UNCHANGED <<now, crashes, backend>>
    PROVE  StepOK(g)
<1>1. PICK c : c = calls[g]
  OBVIOUS
<1>2. /\ c.pc = "written" /\ tasks' = [tasks EXCEPT ![c.task] = c.row]
      /\ events' = events /\ stamps' = stamps /\ granted' = granted
      /\ taskMu' = Free /\ eventMu' = Free /\ Fail(g)
      /\ backend' = backend /\ crashes' = crashes /\ now' = now
      /\ c.op # "create"
  BY <1>1 DEF RollBack, Restored, Unlock
<1>3. /\ taskMu = g /\ eventMu = g /\ c.task \in TaskId /\ c.row \in Task
      /\ Committed = tasks' /\ c.row.status # "absent"
  BY <1>1, <1>2, WrittenFacts
<1>4. Committed' = tasks'
  BY <1>2 DEF Committed
<1>5. StoreTypeOK'
  BY <1>2, <1>3 DEF SInv, TypesOK, StoreTypeOK
<1>6. ExistingStay
  BY <1>2, <1>3 DEF ExistingStay, Exists, SInv, TypesOK, StoreTypeOK
<1>7. /\ c.op \in WriteOp /\ taskMu \in {g, Free} /\ eventMu \in {g, Free}
      /\ Committed' = Committed
  BY <1>1, <1>3, <1>4
<1> QED
  BY <1>1, <1>2, <1>5, <1>6, <1>7, NoEffectStep

-----------------------------------------------------------------------------
(* The induction.                                                          *)

\* A step of a call.
LEMMA StepStep == ASSUME SInv, NEW g \in Goroutine, Step(g) PROVE StepOK(g)
<1>1. UNCHANGED <<now, crashes, backend>>
  BY DEF Step
<1>2. CASE calls[g].op \in WriteOp /\ backend = "mysql" /\ Transaction(g, calls[g])
  BY <1>1, <1>2, TransactionStep
<1>3. CASE calls[g].op \in WriteOp /\ backend = "memory" /\ Lock(g, calls[g])
  BY <1>1, <1>3, LockStep
<1>4. CASE calls[g].op \in WriteOp /\ backend = "memory" /\ WriteRow(g, calls[g])
  BY <1>1, <1>4, WriteRowStep
<1>5. CASE calls[g].op \in WriteOp /\ NothingToWrite(g, calls[g])
  BY <1>1, <1>5, NothingToWriteStep
<1>6. CASE calls[g].op \in WriteOp /\ AppendEvent(g, calls[g])
  BY <1>1, <1>6, AppendEventStep
<1>7. CASE calls[g].op \in WriteOp /\ RollBack(g, calls[g])
  BY <1>1, <1>7, RollBackStep
<1>8. CASE Read(g, calls[g])
  <2>1. UNCHANGED <<storeVars, stamps, iw, up, memoryVars, now, crashes, backend>>
    BY <1>1, <1>8 DEF Read
  <2>2. CASE calls[g].op = "detail" /\ ReadDetail(g, calls[g])
    BY <2>1, <2>2, ReadDetailStep
  <2>3. CASE calls[g].op = "walk" /\ ReadPage(g, calls[g])
    BY <2>1, <2>3, ReadPageStep
  <2>4. CASE /\ calls[g].op = "stats"
             /\ \/ backend = "mysql" /\ QueryStats(g, calls[g])
                \/ backend = "memory" /\ SnapshotStats(g, calls[g])
    BY <2>1, <2>4, ReadStatsStep
  <2> QED
    BY <1>8, <2>2, <2>3, <2>4 DEF Read
<1> QED
  BY <1>2, <1>3, <1>4, <1>5, <1>6, <1>7, <1>8 DEF Step

\* Every step of the system is an OK step of some goroutine.
LEMMA NextStep ==
    ASSUME SInv, [Next]_vars
    PROVE  \E g \in Goroutine : StepOK(g)
<1>1. /\ Reaper \in Goroutine /\ Internal \subseteq Goroutine /\ Handler \subseteq Goroutine
  BY DEF Goroutine
<1>2. ASSUME NEW w \in Internal, StartWorker(w) \/ Heartbeat(w) \/ Abandon(w)
      PROVE  StepOK(w) \/ StepOK(Reaper)
  BY <1>2, StartWorkerStep, HeartbeatStep, AbandonStep
<1>3. ASSUME NEW h \in Handler, StartWrite(h) \/ StartRead(h) \/ Answered(h)
      PROVE  StepOK(h)
  BY <1>3, StartHandlerStep, StartReadStep, AnsweredStep
<1>4. CASE UNCHANGED vars
  <2>1. /\ tasks' = tasks /\ events' = events /\ granted' = granted /\ stamps' = stamps
        /\ backend' = backend /\ taskMu' = taskMu /\ eventMu' = eventMu
        /\ iw' = iw /\ up' = up /\ crashes' = crashes /\ calls' = calls /\ now' = now
    BY <1>4 DEF vars, storeVars, internalVars, memoryVars
  <2>2. now' \in Nat /\ InternalTypeOK' /\ \A w \in Internal : KeepsCopy(w)
    BY <2>1 DEF SInv, TypesOK, StoreTypeOK, InternalTypeOK, KeepsCopy
  <2> QED
    BY <1>1, <2>1, <2>2, IdleStep
<1> QED
  BY <1>1, <1>2, <1>3, <1>4, StartReaperStep, StepStep, TickStep DEF Next

\* The empty store, no locks and no calls satisfy the invariant.
LEMMA InitSInv == Init => SInv
<1> SUFFICES ASSUME Init PROVE SInv
  OBVIOUS
<1>1. /\ tasks = [t \in TaskId |-> NoTask] /\ events = [t \in TaskId |-> <<>>]
      /\ granted = [t \in TaskId |-> NoTime] /\ now = 0
      /\ iw = [w \in Internal |-> Polling] /\ up = TRUE /\ crashes = 0
      /\ stamps = [t \in TaskId |-> <<>>] /\ backend \in Backend
      /\ taskMu = Free /\ eventMu = Free /\ calls = [g \in Goroutine |-> NoCall]
  BY DEF Init, StoreInit, InternalInit
<1>2. Committed = tasks
  BY <1>1 DEF Committed
<1>3. TypesOK
  <2>1. StoreTypeOK
    BY <1>1, NoTaskType, NoTimeFacts DEF StoreTypeOK
  <2>2. InternalTypeOK
    BY <1>1 DEF InternalTypeOK
  <2>3. stamps \in [TaskId -> Seq(Nat)]
    BY <1>1
  <2> QED
    BY <1>1, <2>1, <2>2, <2>3 DEF TypesOK
<1>4. LocksOK
  BY <1>1 DEF LocksOK
<1>5. \A g \in Goroutine : CallOK(g)
  <2> TAKE g \in Goroutine
  <2>1. calls[g] = NoCall /\ g # Free
    BY <1>1, GoroutineAssumption
  <2>2. /\ calls[g].op \notin WriteOp /\ ReadOK(calls[g]) /\ CallTyped(g, calls[g])
        /\ ~HoldsTasks(calls[g]) /\ ~HoldsEvents(calls[g])
    BY <2>1 DEF NoCall, WriteOp, ReadOK, CallTyped, HoldsTasks, HoldsEvents
  <2> QED
    BY <1>1, <2>1, <2>2 DEF CallOK
<1>6. CreatesAreApart
  <2>1. NoCall.op # "create"
    BY DEF NoCall
  <2> QED
    BY <1>1, <2>1 DEF CreatesAreApart
<1>7. RowsInStep
  <2>1. TrailMatches(NoTask, <<>>) /\ RowInOrder(NoTask)
    BY NoTaskType DEF TrailMatches, RowInOrder
  <2> QED
    BY <1>1, <1>2, <2>1, NoTaskType DEF RowsInStep
<1>8. CopiesOK
  BY <1>1 DEF CopiesOK, Polling
<1> QED
  BY <1>3, <1>4, <1>5, <1>6, <1>7, <1>8 DEF SInv

\* The inductive invariant holds, whatever the backend and however the calls
\* of workers, reaper and handlers interleave (storage.go, internal/store).
THEOREM StorageInvariant == Spec => []SInv
<1>1. SInv /\ [Next]_vars => SInv'
  BY NextStep, StepKeeps
<1> QED
  BY <1>1, InitSInv, PTL DEF Spec

-----------------------------------------------------------------------------
(* What it implies.                                                        *)

\* Types, and that the two locks of the memory stores are held by exactly the
\* call that is between taking and releasing them.
THEOREM StorageTypes == Spec => []TypeOK
<1>1. SInv => TypeOK
  BY DEF SInv, TypesOK, LocksOK, CallOK, CallTyped, TypeOK
<1> QED
  BY <1>1, StorageInvariant, PTL

\* The guards of the steps that end a critical section: AppendEvent once the row
\* is written, before that WriteRow or NothingToWrite.
HolderHasTurn ==
    /\ taskMu # Free =>
         /\ backend = "memory" /\ calls[taskMu].op \in WriteOp
         /\ \/ calls[taskMu].pc = "written" /\ eventMu = taskMu
            \/ calls[taskMu].pc = "tasks_locked" /\ eventMu = Free
    /\ eventMu # Free => taskMu = eventMu

\* The event lock is only ever taken under the task lock, and whoever holds the
\* task lock finds the event lock free or its own: no call waits for a lock
\* inside a critical section, so the two locks cannot deadlock (the fixed lock
\* order of the memory stores, task_transition_store.go).
THEOREM LockOrder == Spec => []HolderHasTurn
<1>1. SInv => HolderHasTurn
  <2> SUFFICES ASSUME SInv PROVE HolderHasTurn
    OBVIOUS
  <2>1. /\ taskMu \in Goroutine \union {Free} /\ eventMu \in Goroutine \union {Free}
        /\ backend = "mysql" => taskMu = Free /\ eventMu = Free
        /\ backend \in {"memory", "mysql"}
    BY StorageAssumption DEF SInv, LocksOK, TypesOK
  <2>2. ASSUME NEW g \in Goroutine
        PROVE  /\ HoldsTasks(calls[g]) => calls[g].op \in WriteOp
               /\ HoldsEvents(calls[g]) => HoldsTasks(calls[g])
               /\ HoldsTasks(calls[g]) <=> taskMu = g
               /\ HoldsEvents(calls[g]) <=> eventMu = g
    BY CallKinds DEF SInv, CallOK
  <2>3. eventMu # Free => taskMu = eventMu
    BY <2>1, <2>2
  <2>4. ASSUME taskMu # Free
        PROVE  /\ backend = "memory" /\ calls[taskMu].op \in WriteOp
               /\ \/ calls[taskMu].pc = "written" /\ eventMu = taskMu
                  \/ calls[taskMu].pc = "tasks_locked" /\ eventMu = Free
    <3>1. taskMu \in Goroutine /\ backend = "memory"
      BY <2>1, <2>4
    <3>2. calls[taskMu].op \in WriteOp /\ HoldsTasks(calls[taskMu])
      BY <2>2, <3>1
    <3>3. CASE calls[taskMu].pc = "written"
      BY <2>2, <3>1, <3>2, <3>3 DEF HoldsEvents
    <3>4. CASE calls[taskMu].pc = "tasks_locked"
      <4>1. eventMu # taskMu
        BY <2>2, <3>1, <3>4 DEF HoldsEvents
      <4> QED
        BY <2>3, <3>1, <3>2, <3>4, <4>1
    <3> QED
      BY <3>2, <3>3, <3>4 DEF HoldsTasks
  <2> QED
    BY <2>3, <2>4 DEF HolderHasTurn
<1> QED
  BY <1>1, StorageInvariant, PTL

\* Whenever a row can be read, one event is stored for each of its versions:
\* no reader sees half of a transition (task_transition_store.go).
THEOREM StoresInStep == Spec => []StoresAgree
<1>1. SInv => StoresAgree
  <2> SUFFICES ASSUME SInv, NEW t \in TaskId
               PROVE  /\ Len(stamps[t]) = Len(events[t])
                      /\ CanReadTasks =>
                           Len(events[t]) = IF Exists(t) THEN tasks[t].version + 1 ELSE 0
    BY DEF StoresAgree
  <2>1. Len(stamps[t]) = Len(events[t]) /\ TrailMatches(Committed[t], events[t])
    BY DEF SInv, RowsInStep
  <2>2. CanReadTasks => Committed = tasks
    BY ReadersSeeCommitted
  <2> QED
    BY <2>1, <2>2 DEF TrailMatches, Exists
<1> QED
  BY <1>1, StorageInvariant, PTL

\* A detail made of two reads never shows a row whose event it does not list
\* (GetTaskDetail).
THEOREM DetailCurrent == Spec => []DetailNotBehind
<1>1. SInv => DetailNotBehind
  <2> SUFFICES ASSUME SInv, NEW h \in Handler, calls[h].op = "detail", calls[h].pc = "done"
               PROVE  calls[h].seen >= calls[h].version + 1
    BY DEF DetailNotBehind
  <2>1. CallOK(h)
    BY DEF SInv, Goroutine
  <2>2. calls[h] \in DetailCall /\ DetailOK(calls[h])
    BY <2>1, CallKinds DEF CallOK, ReadOK
  <2>3. calls[h].seen \in Nat /\ calls[h].version \in Nat
    BY <2>2 DEF DetailCall
  <2> QED
    BY <2>2, <2>3 DEF DetailOK
<1> QED
  BY <1>1, StorageInvariant, PTL

\* A walk through the pages shows no task twice, although tasks are created
\* and move between its pages (ListTasks).
THEOREM WalkOnce == Spec => []WalkListsOnce
<1>1. SInv => WalkListsOnce
  BY DEF SInv, Goroutine, CallOK, ReadOK, WalkOK, WalkListsOnce
<1> QED
  BY <1>1, StorageInvariant, PTL

\* A walk that reached its end has shown every task that did not change and
\* was wanted, whatever ties there are in created_at (ListTasks).
THEOREM WalkComplete == Spec => []WalkIsComplete
<1>1. SInv => WalkIsComplete
  BY DEF SInv, Goroutine, CallOK, ReadOK, WalkOK, Shown, WalkIsComplete
<1> QED
  BY <1>1, StorageInvariant, PTL

\* A set that holds all exact tasks, and besides them changed ones only, is
\* counted right up to the number of changed tasks.
LEMMA CountedIsBracketed ==
    ASSUME NEW n, NEW exact \in SUBSET TaskId, NEW changed \in SUBSET TaskId,
           Counted(n, exact, changed)
    PROVE  Bracketed(n, Cardinality(exact), Cardinality(changed))
<1>1. PICK S \in SUBSET TaskId :
        n = Cardinality(S) /\ exact \subseteq S /\ S \subseteq exact \union changed
  BY DEF Counted
<1>2. IsFiniteSet(TaskId)
  BY QueryAssumption
<1>3. IsFiniteSet(S) /\ IsFiniteSet(exact) /\ IsFiniteSet(changed)
  BY <1>2, FS_Subset
<1>4. Cardinality(exact) <= Cardinality(S)
  BY <1>1, <1>3, FS_Subset
<1>5. /\ IsFiniteSet(exact \union changed) /\ IsFiniteSet(exact \intersect changed)
      /\ Cardinality(exact \union changed) =
           Cardinality(exact) + Cardinality(changed) - Cardinality(exact \intersect changed)
  <2>1. exact \intersect changed \in SUBSET exact
    OBVIOUS
  <2> QED
    BY <1>3, <2>1, FS_Union, FS_Subset
<1>6. Cardinality(S) <= Cardinality(exact \union changed)
  BY <1>1, <1>5, FS_Subset
<1>7. /\ Cardinality(S) \in Nat /\ Cardinality(exact) \in Nat
      /\ Cardinality(changed) \in Nat /\ Cardinality(exact \intersect changed) \in Nat
  BY <1>3, <1>5, FS_CardinalityType
<1> QED
  BY <1>1, <1>4, <1>5, <1>6, <1>7 DEF Bracketed

\* Statistics are off by at most the tasks that changed during the request,
\* also when they are read by two queries (GetTaskStats).
THEOREM StatsBracketed == Spec => []StatsAreBracketed
<1>1. SInv => StatsAreBracketed
  <2> SUFFICES ASSUME SInv, NEW h \in Handler, NEW c, c = calls[h], c.op = "stats",
                      c.pc = "done", NEW s \in Status
               PROVE  /\ Bracketed(c.counts[s], Cardinality(Exact(c, s)),
                                   Cardinality(Changed(c)))
                      /\ Bracketed(c.available[s], Cardinality(ExactDue(c, s)),
                                   Cardinality(Changed(c)))
    BY DEF StatsAreBracketed, Exact, ExactDue
  <2>1. StatsOK(c)
    BY DEF SInv, Goroutine, CallOK, ReadOK
  <2>2. /\ Counted(c.counts[s], Exact(c, s), Changed(c))
        /\ Counted(c.available[s], ExactDue(c, s), Changed(c))
    BY <2>1 DEF StatsOK
  <2>3. /\ Exact(c, s) \in SUBSET TaskId /\ ExactDue(c, s) \in SUBSET TaskId
        /\ Changed(c) \in SUBSET TaskId
    BY DEF Exact, ExactDue, Steady, Changed
  <2> QED
    BY <2>2, <2>3, CountedIsBracketed
<1> QED
  BY <1>1, StorageInvariant, PTL

-----------------------------------------------------------------------------
(* Refinement.                                                             *)

LifecycleStep == Lifecycle!Next \/ UNCHANGED Lifecycle!lifecycleVars

\* Rows that stay as they are for everyone map to a stutter.
LEMMA QuietLegal == ASSUME Quiet PROVE LifecycleStep
<1>1. \A t \in TaskId : /\ Committed'[t].status = Committed[t].status
                        /\ Committed'[t].owner = Committed[t].owner
                        /\ Committed'[t].retryCount = Committed[t].retryCount
                        /\ Committed'[t].maxRetries = Committed[t].maxRetries
  BY DEF Quiet, Same
<1> QED
  BY <1>1 DEF LifecycleStep, Lifecycle!lifecycleVars

\* The replacement of one row maps to one transition of its task.
LEMMA SavesLegal ==
    ASSUME RowsInStep, NEW t \in TaskId, NEW event, NEW at, Saves(t, event, at)
    PROVE  LifecycleStep
<1>1. PICK a, b : a = Committed[t] /\ b = Committed'[t]
  OBVIOUS
<1>2. Replaces(b, a, event) /\ \A u \in TaskId \ {t} : Committed'[u] = Committed[u]
  BY <1>1 DEF Saves
<1>3. /\ [u \in TaskId |-> Committed[u].status]' =
           [[u \in TaskId |-> Committed[u].status] EXCEPT ![t] = b.status]
      /\ [u \in TaskId |-> Committed[u].owner]' =
           [[u \in TaskId |-> Committed[u].owner] EXCEPT ![t] = b.owner]
      /\ [u \in TaskId |-> Committed[u].retryCount]' =
           [[u \in TaskId |-> Committed[u].retryCount] EXCEPT ![t] = b.retryCount]
      /\ [u \in TaskId |-> Committed[u].maxRetries]' =
           [[u \in TaskId |-> Committed[u].maxRetries] EXCEPT ![t] = b.maxRetries]
  BY <1>1, <1>2
<1>4. CASE a.status = "absent"
  <2>1. /\ b.status = "queued" /\ b.owner = NoWorker /\ b.retryCount = 0
        /\ b.maxRetries \in MaxRetriesOf
    BY <1>2, <1>4, NotEnded DEF Replaces
  <2>2. a.retryCount = 0
    BY <1>1, <1>4 DEF RowsInStep, RowInOrder, RowOK
  <2>3. [u \in TaskId |-> Committed[u].retryCount]' =
          [u \in TaskId |-> Committed[u].retryCount]
    BY <1>1, <1>2, <2>1, <2>2
  <2>4. Lifecycle!Create(t)
    BY <1>1, <1>3, <1>4, <2>1, <2>3 DEF Lifecycle!Create, Lifecycle!Become
  <2> QED
    BY <2>4 DEF LifecycleStep, Lifecycle!Next
<1>5. CASE a.status # "absent"
  <2>1. Transition(a, b)
    BY <1>2, <1>5 DEF Replaces
  <2>2. [u \in TaskId |-> Committed[u].maxRetries]' =
          [u \in TaskId |-> Committed[u].maxRetries]
    BY <1>1, <1>2, <2>1 DEF Transition
  <2>3. CASE /\ a.status \in {"queued", "retrying"} /\ b.status = "running"
             /\ b.owner \in Worker /\ b.retryCount = a.retryCount
    <3>1. [u \in TaskId |-> Committed[u].retryCount]' =
            [u \in TaskId |-> Committed[u].retryCount]
      BY <1>1, <1>2, <2>3
    <3>2. Lifecycle!Start(t, b.owner)
      BY <1>1, <1>3, <2>2, <2>3, <3>1 DEF Lifecycle!Start, Lifecycle!Become
    <3> QED
      BY <2>3, <3>2 DEF LifecycleStep, Lifecycle!Next
  <2>4. CASE /\ a.status = "running" /\ a.retryCount < a.maxRetries
             /\ b.status = "running" /\ b.owner \in Worker
             /\ b.retryCount = a.retryCount + 1
    <3>1. Lifecycle!Recover(t, b.owner)
      BY <1>1, <1>3, <2>2, <2>4
         DEF Lifecycle!Recover, Lifecycle!Charge, Lifecycle!Become
    <3> QED
      BY <2>4, <3>1 DEF LifecycleStep, Lifecycle!Next
  <2>5. CASE /\ a.status = "running" /\ a.retryCount < a.maxRetries
             /\ b.status = "retrying" /\ b.owner = NoWorker
             /\ b.retryCount = a.retryCount + 1
    <3>1. Lifecycle!Retry(t)
      BY <1>1, <1>3, <2>2, <2>5 DEF Lifecycle!Retry, Lifecycle!Charge, Lifecycle!Become
    <3> QED
      BY <3>1 DEF LifecycleStep, Lifecycle!Next
  <2>6. CASE /\ b.retryCount = a.retryCount /\ b.owner = NoWorker
             /\ a.status \in {"queued", "retrying", "running"}
             /\ b.status \in {"succeeded", "partially_succeeded", "failed", "queued",
                              "canceled"}
             /\ a.status # "running" => b.status = "canceled"
    <3>1. [u \in TaskId |-> Committed[u].retryCount]' =
            [u \in TaskId |-> Committed[u].retryCount]
      BY <1>1, <1>2, <2>6
    <3>2. CASE b.status = "queued"
      <4>1. Lifecycle!Release(t)
        BY <1>1, <1>3, <2>2, <2>6, <3>1, <3>2 DEF Lifecycle!Release, Lifecycle!Become
      <4> QED
        BY <4>1 DEF LifecycleStep, Lifecycle!Next
    <3>3. CASE b.status = "canceled"
      <4>1. Lifecycle!Cancel(t)
        BY <1>1, <1>3, <2>2, <2>6, <3>1, <3>3 DEF Lifecycle!Cancel, Lifecycle!Become
      <4> QED
        BY <4>1 DEF LifecycleStep, Lifecycle!Next
    <3>4. CASE b.status \in {"succeeded", "partially_succeeded", "failed"}
      <4>1. b.status \in Lifecycle!Ended \ {"canceled"}
        BY <3>4 DEF Lifecycle!Ended
      <4>2. Lifecycle!Finish(t, b.status)
        BY <1>1, <1>3, <2>2, <2>6, <3>1, <3>4 DEF Lifecycle!Finish, Lifecycle!Become
      <4> QED
        BY <4>1, <4>2 DEF LifecycleStep, Lifecycle!Next
    <3> QED
      BY <2>6, <3>2, <3>3, <3>4
  <2>7. CASE b.status = a.status /\ b.owner = a.owner /\ b.retryCount = a.retryCount
    <3>1. /\ [u \in TaskId |-> Committed[u].status]' =
               [u \in TaskId |-> Committed[u].status]
          /\ [u \in TaskId |-> Committed[u].owner]' =
               [u \in TaskId |-> Committed[u].owner]
          /\ [u \in TaskId |-> Committed[u].retryCount]' =
               [u \in TaskId |-> Committed[u].retryCount]
      BY <1>1, <1>2, <2>7
    <3> QED
      BY <2>2, <3>1 DEF LifecycleStep, Lifecycle!lifecycleVars
  <2> QED
    BY <2>1, <2>3, <2>4, <2>5, <2>6, <2>7 DEF Transition
<1> QED
  BY <1>4, <1>5

\* Through either backend a task makes only the atomic transitions of its
\* lifecycle: what the memory store does under its two locks, and what it
\* rolls back, is one transition or none to everyone who respects the locks.
THEOREM BackendRefinement == Spec => BackendImplementsLifecycle
<1>1. Init => Lifecycle!Init
  <2> SUFFICES ASSUME Init PROVE Lifecycle!Init
    OBVIOUS
  <2>1. Committed = [t \in TaskId |-> NoTask]
    BY DEF Init, StoreInit, Committed
  <2> QED
    BY <2>1, NoTaskType DEF Lifecycle!Init, NoTask
<1>2. SInv /\ [Next]_vars => [Lifecycle!Next]_(Lifecycle!lifecycleVars)
  <2> SUFFICES ASSUME SInv, [Next]_vars PROVE LifecycleStep
    BY DEF LifecycleStep
  <2>1. Moves /\ RowsInStep
    BY NextStep DEF StepOK, SInv
  <2> QED
    BY <2>1, QuietLegal, SavesLegal DEF Moves
<1> QED
  BY <1>1, <1>2, StorageInvariant, PTL DEF Spec, BackendImplementsLifecycle, Lifecycle!Spec

=============================================================================
