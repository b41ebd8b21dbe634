------------------------------- MODULE Storage -------------------------------
(***************************************************************************)
(* One control-plane process and its store, at the grain at which its      *)
(* goroutines really share it.  storage.go opens one of two backends:      *)
(*                                                                         *)
(*   mysql   a transaction, and every query, is one step;                  *)
(*   memory  two maps with a lock each.  A transition takes the task lock, *)
(*           then the event lock, writes the row, builds and appends the   *)
(*           event, and releases both; a reader takes one lock at a time.  *)
(*                                                                         *)
(* Goroutines: the in-process workers, the reaper, and HTTP handlers that  *)
(* create and cancel tasks, show a task's detail, walk through the list    *)
(* page by page and compute statistics.  Every call reads its clock before *)
(* it reaches the store, so a slow call carries an old time.               *)
(***************************************************************************)
EXTENDS InternalWorker, TaskQueries

CONSTANTS
    Backend,   \* the backends to consider
    Handler,   \* goroutines that serve HTTP requests
    MaxEvents, \* bound on the transitions of all tasks together
    MaxCalls   \* bound on the calls in progress at once

ASSUME StorageAssumption ==
    /\ Backend \subseteq {"memory", "mysql"}
    /\ {MaxEvents, MaxCalls} \subseteq Nat

VARIABLES
    backend,  \* which backend openRuntimeStores opened
    taskMu,   \* holder of MemoryTaskStore.mu's write lock, or Free
    eventMu,  \* holder of MemoryEventStore.mu's write lock, or Free
    calls     \* goroutine -> the call it makes

memoryVars == <<taskMu, eventMu>>
vars == <<now, storeVars, internalVars, stamps, backend, memoryVars, calls>>

Reaper == "reaper"
Free == "free"
Goroutine == Internal \union Handler \union {Reaper}

\* A goroutine has one job, and a free lock is held by none.
ASSUME GoroutineAssumption ==
    /\ Internal \intersect Handler = {}
    /\ Reaper \notin Internal \union Handler
    /\ Free \notin Goroutine

NoCall == [op |-> "none", pc |-> "idle"]

\* A call that writes.  task, row and event are what it is going to write; once
\* the row is written, row is the snapshot it replaced.
WriteOp == {"create", "claim", "reap", "cancel", "update"}

WriteCall == [op : WriteOp,
              pc : {"begin", "tasks_locked", "written"},
              at : Nat, task : TaskId \union {0}, row : Task,
              event : EventType \union {""}]

\* version, owner: read from the row; seen: how many events were listed;
\* failure, claim: the events its diagnostics were taken from, 0 for none.
DetailCall == [op : {"detail"}, pc : {"row", "events", "done"}, task : TaskId,
               version : Nat, owner : Worker \union {NoWorker},
               seen : Nat, failure : Nat, claim : Nat]

\* base: the versions of the rows when the request began, -1 for none.
WalkCall == [op : {"walk"}, pc : {"page", "pause", "done"}, filter : Filter,
             cursor : Cursor, pages : Seq(SUBSET TaskId), base : [TaskId -> Int]]

StatsCall == [op : {"stats"}, pc : {"counts", "available", "done"}, filter : Filter,
              at : Nat, counts : [Status -> Nat], available : [Status -> Nat],
              base : [TaskId -> Int]]

HoldsTasks(c) == c.pc \in {"tasks_locked", "written"}
HoldsEvents(c) == c.pc = "written"

\* Types, and that a lock is held by exactly the call that is past taking it.
TypeOK ==
    /\ StoreTypeOK /\ InternalTypeOK
    /\ stamps \in [TaskId -> Seq(Nat)]
    /\ backend \in Backend
    /\ {taskMu, eventMu} \subseteq Goroutine \union {Free}
    /\ \A g \in Goroutine :
         /\ \/ calls[g] = NoCall
            \/ calls[g] \in WriteCall
            \/ g \in Handler /\ calls[g] \in DetailCall \union WalkCall \union StatsCall
         /\ HoldsTasks(calls[g]) <=> taskMu = g
         /\ HoldsEvents(calls[g]) <=> eventMu = g

Init ==
    /\ StoreInit /\ InternalInit
    /\ stamps = [t \in TaskId |-> <<>>]
    /\ backend \in Backend
    /\ taskMu = Free /\ eventMu = Free
    /\ calls = [g \in Goroutine |-> NoCall]

\* A row that is written but still locked has not changed for anyone who
\* respects the locks.
Committed ==
    IF taskMu # Free /\ calls[taskMu].pc = "written"
      THEN [tasks EXCEPT ![calls[taskMu].task] = calls[taskMu].row] ELSE tasks

Versions == [t \in TaskId |-> IF Committed[t].status = "absent" THEN -1
                              ELSE Committed[t].version]

-----------------------------------------------------------------------------
(* Mutants.                                                                *)

\* A cancellation holds the event lock already when it comes to append, as if
\* it called EventStore.Append, which takes the lock once more.
MutantLock(g, c) ==
    /\ c.pc = "begin" /\ taskMu = Free
    /\ c.op = "cancel" => eventMu = Free
    /\ taskMu' = g
    /\ eventMu' = IF c.op = "cancel" THEN g ELSE eventMu
    /\ calls' = [calls EXCEPT ![g].pc = "tasks_locked"]
    /\ UNCHANGED <<storeVars, stamps, iw, up>>

\* The error path of a transition forgets the snapshot it took.
MutantRestored(c) == tasks

\* A call that finds nothing returns without releasing the event lock.
MutantUnlock == taskMu' = Free /\ UNCHANGED eventMu

\* The detail lists the events before it reads the row.
MutantReadDetail(g, c) ==
    \/ /\ c.pc = "row"
       /\ calls' = [calls EXCEPT ![g].pc = "events", ![g].seen = Len(events[c.task])]
    \/ /\ c.pc = "events"
       /\ calls' = [calls EXCEPT ![g].pc = "done", ![g].version = tasks[c.task].version]

-----------------------------------------------------------------------------
(* The requests, as the goroutines make them.                              *)

Detail(t) == [op |-> "detail", pc |-> "row", task |-> t, version |-> 0,
              owner |-> NoWorker, seen |-> 0, failure |-> 0, claim |-> 0]

Start(g, call) ==
    /\ up
    /\ calls[g] = NoCall
    /\ Cardinality({g1 \in Goroutine : calls[g1] # NoCall}) < MaxCalls
    /\ calls' = [calls EXCEPT ![g] = call]
    /\ UNCHANGED <<now, storeVars, internalVars, stamps, backend, memoryVars>>

StartWriting(g, op, t, row, event, at) ==
    /\ Cardinality(UNION {{t1} \X DOMAIN events[t1] : t1 \in TaskId})
         + Cardinality({g1 \in Goroutine : calls[g1].op \in WriteOp}) < MaxEvents
    /\ Start(g, [op |-> op, pc |-> "begin", at |-> at, task |-> t, row |-> row,
                 event |-> event])

\* Worker.ProcessNext, and the end of its executor; Reaper.ProcessNext.
StartWorker(w) ==
    \E at \in LocalTime :
      \/ iw[w].pc = "poll" /\ StartWriting(w, "claim", 0, NoTask, "", at)
      \/ /\ iw[w].pc = "execute" /\ iw[w].lease # "lost"
         /\ \E o \in Endings(iw[w], at) :
              StartWriting(w, "update", iw[w].task, o[1], o[2], at)

StartReaper == \E at \in LocalTime : StartWriting(Reaper, "reap", 0, NoTask, "", at)

\* Ids are fresh: no other request creates the same task.
StartWrite(h) ==
    \E at \in LocalTime, t \in TaskId :
      \/ /\ ~Exists(t)
         /\ \A g \in Handler : calls[g].op = "create" => calls[g].task # t
         /\ StartWriting(h, "create", t, NoTask, "", at)
      \/ Exists(t) /\ StartWriting(h, "cancel", t, NoTask, "", at)

StartRead(h) ==
    \/ \E t \in TaskId : Exists(t) /\ Start(h, Detail(t))
    \/ \E f \in Filter :
         \/ Start(h, [op |-> "walk", pc |-> "page", filter |-> f, cursor |-> NoCursor,
                      pages |-> <<>>, base |-> Versions])
         \/ \E at \in LocalTime :
              Start(h, [op |-> "stats", pc |-> "counts", filter |-> f, at |-> at,
                        counts |-> [s \in Status |-> 0],
                        available |-> [s \in Status |-> 0], base |-> Versions])

-----------------------------------------------------------------------------
(* How a call ends for the goroutine that made it.                         *)

\* The transition was saved.  A cancellation answers with the detail.
Succeed(g, c, t, row) ==
    /\ calls' = [calls EXCEPT ![g] = IF c.op = "cancel" THEN Detail(t) ELSE NoCall]
    /\ iw' = CASE c.op = "claim" -> [iw EXCEPT ![g] = [pc |-> "execute", task |-> t,
                                                       row |-> row, lease |-> "ok"]]
               [] c.op = "update" -> [iw EXCEPT ![g] = Polling]
               [] OTHER -> iw
    /\ UNCHANGED up

\* ErrNoTaskAvailable, ErrNoExpiredTask; a task that is canceled already.
Miss(g, c) ==
    /\ calls' = [calls EXCEPT ![g] =
          IF c.op = "cancel" /\ tasks[c.task].status = "canceled"
            THEN Detail(c.task) ELSE NoCall]
    /\ UNCHANGED <<iw, up>>

\* Any other error is an answer for a client and the end of a background
\* processor, and with it of the process.
Fail(g) ==
    /\ calls' = [calls EXCEPT ![g] = NoCall]
    /\ IF g \in Handler THEN UNCHANGED <<iw, up>>
       ELSE up' = FALSE /\ iw' = [w \in Internal |-> Polling]

Refused(g, c) == IF c.op = "update" THEN Fail(g) ELSE Miss(g, c)

-----------------------------------------------------------------------------
(* mysql: the transactions of TaskStore.  Rows may be locked by other      *)
(* processes, and any transaction may fail.                                *)

Commits(g, c, t) ==
    \/ c.op = "create" /\ t = c.task /\ CreateTaskWithEvent(t, c.at)
    \/ c.op = "claim" /\ ClaimNextWithEvent(g, c.at, t)
    \/ c.op = "reap" /\ FailNextExpiredWithEvent(c.at, t)
    \/ c.op = "cancel" /\ t = c.task /\ CancelTaskWithEvent(t)
    \/ c.op = "update" /\ t = c.task /\ UpdateTaskWithEvent(t, c.row, c.event)

Transaction(g, c) ==
    /\ c.pc = "begin"
    /\ \/ \E t \in TaskId : /\ Commits(g, c, t)
                            /\ stamps' = [stamps EXCEPT ![t] = Append(@, c.at)]
                            /\ Succeed(g, c, t, tasks'[t])
       \/ /\ \/ c.op \in {"claim", "reap"} /\ Miss(g, c)
             \/ c.op = "cancel" /\ ~Cancelable(c.task) /\ Miss(g, c)
             \/ Fail(g)
          /\ UNCHANGED <<storeVars, stamps>>
    /\ UNCHANGED memoryVars

-----------------------------------------------------------------------------
(* memory: the same transitions under the two locks.  The history variable *)
(* granted is not kept here; no property of this module uses it.           *)

Lock(g, c) ==
    /\ c.pc = "begin" /\ taskMu = Free
    /\ taskMu' = g
    /\ calls' = [calls EXCEPT ![g].pc = "tasks_locked"]
    /\ UNCHANGED <<storeVars, stamps, iw, up, eventMu>>

Unlock == taskMu' = Free /\ eventMu' = Free

\* Unlike the query, recovery breaks ties by id alone.
claimNextLocked(at) ==
    LET expired == Recoverable(at)
    IN  IF expired # {}
          THEN {t \in expired : \A u \in expired :
                  \/ LeaseExpiresAt[t] < LeaseExpiresAt[u]
                  \/ LeaseExpiresAt[t] = LeaseExpiresAt[u] /\ t <= u}
          ELSE {t \in Due(at) : \A u \in Due(at) : RowBefore(AvailableAt, t, u)}

failNextExpiredLocked(at) ==
    {t \in Exhausted(at) : \A u \in Exhausted(at) :
       \/ LeaseExpiresAt[t] < LeaseExpiresAt[u]
       \/ LeaseExpiresAt[t] = LeaseExpiresAt[u] /\ t <= u}

\* The <<task, row, event>> the call writes; none if it finds nothing to do.
Writes(g, c) ==
    CASE c.op = "create" ->
           {<<c.task, NewTask(m, c.at), "task_created">> : m \in MaxRetriesOf}
      [] c.op = "claim" ->
           {<<t, Claimed(tasks[t], g, c.at), ClaimedEvent(tasks[t])>> :
              t \in claimNextLocked(c.at)}
      [] c.op = "reap" ->
           {<<t, [MoveTo(tasks[t], "failed") EXCEPT !.err = LeaseExpiredError],
              "task_failed">> : t \in failNextExpiredLocked(c.at)}
      [] c.op = "cancel" ->
           {<<t, MoveTo(tasks[t], "canceled"), "task_canceled">> :
              t \in {u \in {c.task} : Cancelable(u)}}
      [] c.op = "update" ->
           {<<t, c.row, c.event>> : t \in {u \in {c.task} : updateTask(u, c.row)}}

\* The second lock, and under both the decision and the new row.
WriteRow(g, c) ==
    /\ c.pc = "tasks_locked" /\ eventMu = Free
    /\ eventMu' = g
    /\ \E w \in Writes(g, c) :
         LET t == w[1]
         IN  /\ tasks' = [tasks EXCEPT ![t] =
                   IF Exists(t) THEN [w[2] EXCEPT !.version = tasks[t].version + 1]
                                ELSE w[2]]
             /\ calls' = [calls EXCEPT ![g] = [c EXCEPT !.pc = "written", !.task = t,
                                               !.row = tasks[t], !.event = w[3]]]
    /\ UNCHANGED <<events, stamps, granted, iw, up, taskMu>>

NothingToWrite(g, c) ==
    /\ c.pc = "tasks_locked" /\ eventMu = Free
    /\ Writes(g, c) = {}
    /\ Refused(g, c)
    /\ Unlock
    /\ UNCHANGED <<storeVars, stamps>>

AppendEvent(g, c) ==
    /\ c.pc = "written"
    /\ events' = [events EXCEPT ![c.task] = Append(@, c.event)]
    /\ stamps' = [stamps EXCEPT ![c.task] = Append(@, c.at)]
    /\ Succeed(g, c, c.task, tasks[c.task])
    /\ Unlock
    /\ UNCHANGED <<tasks, granted>>

Restored(c) == [tasks EXCEPT ![c.task] = c.row]

\* The event cannot be built after the row was changed: the snapshot returns.
RollBack(g, c) ==
    /\ c.pc = "written"
    /\ c.op \in {"claim", "reap", "cancel"}
    /\ tasks' = Restored(c)
    /\ Fail(g)
    /\ Unlock
    /\ UNCHANGED <<events, stamps, granted>>

-----------------------------------------------------------------------------
(* Reads.  Under a read lock, or as one statement, a read is one step.     *)

CanReadTasks == backend = "memory" => taskMu = Free
CanReadEvents == backend = "memory" => eventMu = Free

ReadDetail(g, c) ==
    \/ /\ c.pc = "row" /\ CanReadTasks
       /\ calls' = [calls EXCEPT ![g].pc = "events",
                                 ![g].version = tasks[c.task].version,
                                 ![g].owner = tasks[c.task].owner]
    \/ /\ c.pc = "events" /\ CanReadEvents
       /\ \E f \in populateFailureDiagnostics(c.task, backend = "memory"),
             k \in populateWorkerDiagnostics(c.task, c.owner, backend = "memory") :
            calls' = [calls EXCEPT ![g].pc = "done", ![g].seen = Len(events[c.task]),
                                   ![g].failure = f, ![g].claim = k]

ReadPage(g, c) ==
    LET result == ListTasks(c.filter, c.cursor)
    IN  /\ c.pc = "page" /\ CanReadTasks
        /\ calls' = [calls EXCEPT ![g] =
              [c EXCEPT !.pc = IF result.hasMore THEN "pause" ELSE "done",
                        !.cursor = result.next,
                        !.pages = Append(@, result.items)]]

\* Two queries in MySQL.
QueryStats(g, c) ==
    \/ /\ c.pc = "counts"
       /\ calls' = [calls EXCEPT ![g].pc = "available",
                                 ![g].counts = StatusCounts(c.filter)]
    \/ /\ c.pc = "available"
       /\ calls' = [calls EXCEPT ![g].pc = "done",
                                 ![g].available = AvailableCounts(c.filter, c.at)]

\* One critical section in memory.
SnapshotStats(g, c) ==
    /\ c.pc = "counts" /\ CanReadTasks
    /\ calls' = [calls EXCEPT ![g].pc = "done",
                              ![g].counts = StatusCounts(c.filter),
                              ![g].available = AvailableCounts(c.filter, c.at)]

Read(g, c) ==
    /\ \/ c.op = "detail" /\ ReadDetail(g, c)
       \/ c.op = "walk" /\ ReadPage(g, c)
       \/ c.op = "stats" /\ backend = "mysql" /\ QueryStats(g, c)
       \/ c.op = "stats" /\ backend = "memory" /\ SnapshotStats(g, c)
    /\ UNCHANGED <<storeVars, stamps, iw, up, memoryVars>>

\* The client takes its answer, or asks for the next page with its cursor.
Answered(h) ==
    /\ \/ /\ calls[h].pc \in {"done", "pause"}
          /\ calls' = [calls EXCEPT ![h] = NoCall]
       \/ /\ calls[h].pc = "pause" /\ up
          /\ calls' = [calls EXCEPT ![h].pc = "page"]
    /\ UNCHANGED <<now, storeVars, internalVars, stamps, backend, memoryVars>>

-----------------------------------------------------------------------------

Step(g) ==
    LET c == calls[g]
    IN  /\ \/ /\ c.op \in WriteOp
              /\ \/ backend = "mysql" /\ Transaction(g, c)
                 \/ /\ backend = "memory"
                    /\ \/ Lock(g, c)
                       \/ WriteRow(g, c)
                       \/ NothingToWrite(g, c)
                       \/ AppendEvent(g, c)
                       \/ RollBack(g, c)
           \/ Read(g, c)
        /\ UNCHANGED <<now, crashes, backend>>

\* The heartbeat goroutine; it has ended before its worker saves anything.
Heartbeat(w) ==
    /\ calls[w] = NoCall
    /\ CanReadTasks
    /\ maintainLease(w)
    /\ backend = "memory" => iw'[w].lease # "store_error"
    /\ UNCHANGED <<stamps, backend, memoryVars, calls>>

Abandon(w) ==
    /\ calls[w] = NoCall
    /\ AbandonExecution(w)
    /\ UNCHANGED <<stamps, backend, memoryVars, calls>>

Tick ==
    /\ now < MaxNow
    /\ now' = now + 1
    /\ UNCHANGED <<storeVars, internalVars, stamps, backend, memoryVars, calls>>

Next ==
    \/ \E w \in Internal : StartWorker(w) \/ Heartbeat(w) \/ Abandon(w)
    \/ StartReaper
    \/ \E h \in Handler : StartWrite(h) \/ StartRead(h) \/ Answered(h)
    \/ \E g \in Goroutine : Step(g)
    \/ Tick

Spec == Init /\ [][Next]_vars

-----------------------------------------------------------------------------
(* Safety.                                                                 *)

\* Whenever a row can be read, exactly one event has been stored for each of
\* its versions: a transition that takes two locks and two writes, or that
\* fails between them, leaves no trace of a half (task_transition_store.go).
StoresAgree ==
    \A t \in TaskId :
      /\ Len(stamps[t]) = Len(events[t])
      /\ CanReadTasks => Len(events[t]) = IF Exists(t) THEN tasks[t].version + 1 ELSE 0

\* A detail combines two reads, and transitions commit between them.  It may
\* show events that are newer than its row, but never a row whose own event
\* is missing from the list (GetTaskDetail).
DetailNotBehind ==
    \A h \in Handler :
      calls[h].op = "detail" /\ calls[h].pc = "done"
        => calls[h].seen >= calls[h].version + 1

\* Whoever holds the task lock can always go on to its end, so nobody waits
\* for a lock whose holder waits in turn: with starvation-free mutexes every
\* call returns (the fixed lock order of the memory stores).
HolderCanProceed == taskMu # Free => ENABLED Step(taskMu)

LastIn(indexes) == IF indexes = {} THEN 0
                   ELSE CHOOSE i \in indexes : \A j \in indexes : j <= i

\* The diagnostics scan events in the order of their timestamps, which calls
\* read before they queue for a lock.  Still they name the worker that was
\* last and the failure that was last, unless that was final: it has no code,
\* and the detail of a task that failed for good shows the code of its last
\* scheduled retry, if there was one.  Backoff delays and lease durations,
\* if they are longer than two clocks may differ, keep the attempts of a task
\* apart (populateFailureDiagnostics, populateWorkerDiagnostics).
DiagnosticsAreLatest ==
    \A h \in Handler :
      LET c == calls[h]
          failedForGood == \E i \in 1..c.seen : events[c.task][i] = "task_failed"
      IN  c.op = "detail" /\ c.pc = "done" =>
            /\ ~failedForGood =>
                 c.failure = LastIn(FailureEvent(c.task) \intersect 1..c.seen)
            /\ failedForGood =>
                 c.failure = LastIn(CodedFailure(c.task) \intersect 1..c.seen)
            /\ c.owner = NoWorker =>
                 c.claim = LastIn(NamesWorker(c.task) \intersect 1..c.seen)

\* Events are listed by created_at.  A slow call may carry an old time, but
\* available_at, the lease and the version keep it from committing after an
\* event that is stamped later, by more than clocks differ; only a
\* cancellation, which checks none of them, can be listed any earlier than an
\* event it followed (ListByTaskID).
OnlyCancellationIsLate ==
    \A t \in TaskId : \A i, j \in 1..Len(events[t]) :
      i < j /\ events[t][j] # "task_canceled"
        => stamps[t][i] <= stamps[t][j] + 2 * Skew

\* Rows that have not changed since the request began.
Steady(c) == {t \in TaskId : c.base[t] # -1 /\ Versions[t] = c.base[t]}
Changed(c) == {t \in TaskId : Versions[t] # c.base[t]}

Wanted(c, t) == c.filter = "" \/ Committed[t].status = c.filter

\* A walk through the pages shows no task twice, although tasks are created
\* and change their status between the pages (ListTasks).
WalkListsOnce ==
    \A h \in Handler : calls[h].op = "walk" =>
      \A i, j \in DOMAIN calls[h].pages :
        i # j => calls[h].pages[i] \intersect calls[h].pages[j] = {}

\* A walk that reached the last page has shown every task that matched all
\* the while, also when several tasks share a created_at (ListTasks).
WalkIsComplete ==
    \A h \in Handler : LET c == calls[h] IN
      c.op = "walk" /\ c.pc = "done" =>
        \A t \in Steady(c) :
          Wanted(c, t) => \E i \in DOMAIN c.pages : t \in c.pages[i]

Bracketed(n, exact, slack) == exact <= n /\ n <= exact + slack

\* The two numbers of the statistics are read by two queries.  Each is off by
\* at most the tasks that changed during the request (GetTaskStats).
StatsAreBracketed ==
    \A h \in Handler : LET c == calls[h] IN
      c.op = "stats" /\ c.pc = "done" =>
        \A s \in Status :
          LET rows == {t \in Steady(c) : Wanted(c, t) /\ Committed[t].status = s}
              due == {t \in rows : /\ s \in {"queued", "retrying"}
                                   /\ Committed[t].availableAt <= c.at}
              slack == Cardinality(Changed(c))
          IN  /\ Bracketed(c.counts[s], Cardinality(rows), slack)
              /\ Bracketed(c.available[s], Cardinality(due), slack)

-----------------------------------------------------------------------------
(* Refinement.                                                             *)

Lifecycle == INSTANCE TaskLifecycle WITH
    status <- [t \in TaskId |-> Committed[t].status],
    retries <- [t \in TaskId |-> Committed[t].retryCount],
    budget <- [t \in TaskId |-> Committed[t].maxRetries],
    holder <- [t \in TaskId |-> Committed[t].owner]

\* Through either backend, a task makes only the atomic transitions of its
\* lifecycle: the memory store's steps under its locks are one transition to
\* everyone who respects them.
BackendImplementsLifecycle == Lifecycle!Spec

=============================================================================
