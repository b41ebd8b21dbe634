----------------------------- MODULE TaskQueries -----------------------------
(***************************************************************************)
(* What the read-only requests compute: keyset pagination of the task      *)
(* list, the statistics, and the diagnostics that a task's detail derives  *)
(* from its events.  The operators read the tables as they are at one      *)
(* moment; Storage decides which moments a request combines.               *)
(*                                                                         *)
(* Both backends answer the same questions.  They differ in one place:     *)
(* events with equal created_at are listed by id in MySQL, which says when *)
(* the id was made and not when it was inserted, and in the order of their *)
(* insertion in memory.                                                    *)
(***************************************************************************)
EXTENDS TaskStore, FiniteSets

CONSTANTS
    Filter,  \* the status filters clients use; "" selects every status
    Limit    \* page size

\* Ids fit a VARCHAR(64): there are finitely many.
ASSUME QueryAssumption ==
    /\ IsFiniteSet(TaskId)
    /\ Filter \subseteq Status \union {""}
    /\ Limit \in Nat \ {0}

VARIABLE stamps  \* id -> created_at of each of its events

NoCursor == [at |-> NoTime, id |-> 0]

Cursor == [at : Int, id : TaskId \union {0}]

-----------------------------------------------------------------------------
(* Mutants.                                                                *)

\* The cursor compares created_at only and keeps the row it names.
MutantIsBeforeTaskCursor(t, cursor) ==
    cursor = NoCursor \/ tasks[t].createdAt <= cursor.at

\* Leaves out the rows that become available at this very instant.
MutantAvailableCounts(filter, at) ==
    [s \in Status |-> Cardinality({t \in TaskId :
        Exists(t) /\ (filter = "" \/ tasks[t].status = filter)
        /\ tasks[t].status = s /\ s \in {"queued", "retrying"}
        /\ tasks[t].availableAt < at})]

\* Looks for the first failure instead of the last one.
MutantFoundFirst(t, indexes) ==
    {i \in indexes : \A j \in indexes : stamps[t][i] <= stamps[t][j]}

-----------------------------------------------------------------------------
(* The task list.                                                          *)

Matches(t, filter) == Exists(t) /\ (filter = "" \/ tasks[t].status = filter)

isBeforeTaskCursor(t, cursor) ==
    \/ cursor = NoCursor
    \/ tasks[t].createdAt < cursor.at
    \/ tasks[t].createdAt = cursor.at /\ t < cursor.id

\* ORDER BY created_at DESC, id DESC
ListedBefore(a, b) ==
    \/ tasks[a].createdAt > tasks[b].createdAt
    \/ tasks[a].createdAt = tasks[b].createdAt /\ a > b

FirstRows(rows, n) ==
    {t \in rows : Cardinality({u \in rows : ListedBefore(u, t)}) < n}

\* The store's query.
QueryRows(filter, cursor, n) ==
    FirstRows({t \in TaskId : Matches(t, filter) /\ isBeforeTaskCursor(t, cursor)}, n)

NextCursor(items) ==
    LET last == CHOOSE t \in items : \A u \in items \ {t} : ListedBefore(u, t)
    IN  [at |-> tasks[last].createdAt, id |-> last]

\* Mutant: the cursor names the extra row, which the page leaves out.
MutantListTasks(filter, cursor) ==
    LET items == QueryRows(filter, cursor, Limit + 1)
        more == Cardinality(items) > Limit
    IN  [items |-> FirstRows(items, Limit), hasMore |-> more,
         next |-> IF more THEN NextCursor(items) ELSE NoCursor]

\* The service reads one row more than it returns.
ListTasks(filter, cursor) ==
    LET items == QueryRows(filter, cursor, Limit + 1)
        more == Cardinality(items) > Limit
        page == FirstRows(items, Limit)
    IN  [items |-> page, hasMore |-> more,
         next |-> IF more THEN NextCursor(page) ELSE NoCursor]

-----------------------------------------------------------------------------
(* Statistics: two queries in MySQL, one critical section in memory.       *)

StatusCounts(filter) ==
    [s \in Status |->
       Cardinality({t \in TaskId : Matches(t, filter) /\ tasks[t].status = s})]

isAvailableTask(t, at) ==
    tasks[t].status \in {"queued", "retrying"} /\ tasks[t].availableAt <= at

AvailableCounts(filter, at) ==
    [s \in Status |->
       Cardinality({t \in TaskId : /\ Matches(t, filter)
                                   /\ tasks[t].status = s
                                   /\ isAvailableTask(t, at)})]

-----------------------------------------------------------------------------
(* Diagnostics.  Events are named by their position in commit order.       *)

\* The positions a scan from the end of the list may meet first.
FoundFirst(t, indexes) ==
    {i \in indexes : \A j \in indexes : stamps[t][j] <= stamps[t][i]}

\* The failures among the events of a task, and those whose payload has an
\* error code.  The scheduler writes one; an in-process worker that fails a
\* task for good (finishFailed) and the reaper write none.  The final Fail of
\* an external worker has one too, but external workers are not in Storage.
FailureEvent(t) == {i \in DOMAIN events[t] : events[t][i] \in {"task_retrying", "task_failed"}}

CodedFailure(t) == {i \in FailureEvent(t) : events[t][i] = "task_retrying"}

\* Claims are the events whose payload names a worker and a lease.
NamesWorker(t) == {i \in DOMAIN events[t] : events[t][i] \in ClaimEvent}

\* What the scan finds among the events of the list, 0 if none qualifies.
Scan(t, indexes, stable) ==
    IF indexes = {} THEN {0}
    ELSE IF stable
      THEN {i \in FoundFirst(t, indexes) : \A j \in FoundFirst(t, indexes) : j <= i}
      ELSE FoundFirst(t, indexes)

populateFailureDiagnostics(t, stable) == Scan(t, CodedFailure(t), stable)

\* The row's own lease, while there is one, comes before the events.
populateWorkerDiagnostics(t, owner, stable) ==
    IF owner # NoWorker THEN {0} ELSE Scan(t, NamesWorker(t), stable)

=============================================================================
