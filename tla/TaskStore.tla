------------------------------ MODULE TaskStore ------------------------------
(***************************************************************************)
(* The MySQL system of record: the tasks table, the task_events table and  *)
(* the transactions of internal/store/mysqlstore that the services run.    *)
(* A transaction is one step: it holds a row lock from its locking read to *)
(* its commit.  What the callers read before a transaction and write in it *)
(* is split into steps of its own by the modules that extend this one.     *)
(*                                                                         *)
(* Timestamps come from the clocks of the control-plane processes, never   *)
(* from the database: LocalTime is what such a clock may read.             *)
(***************************************************************************)
EXTENDS TaskDomain, Sequences

CONSTANTS
    TaskId,        \* ids, ordered like the id column of the ORDER BY clauses
    MaxRetriesOf,  \* the max_retries values of the creation requests
    LeaseDuration, \* what claims and renewals add to the clock
    Skew,          \* how far a process's clock may be off
    MaxNow         \* bound: later than this the clock moves to deadlines only

ASSUME StoreAssumption ==
    /\ TaskId \subseteq Nat
    /\ MaxRetriesOf \subseteq Nat
    /\ LeaseDuration \in Nat \ {0}
    /\ Skew \in Nat
    /\ MaxNow \in Nat

VARIABLES
    tasks,   \* id -> row
    events,  \* id -> types of its task_events, in commit order
    now,     \* real time
    granted  \* history: the lease expiry last granted to the current holder

storeVars == <<tasks, events, granted>>

StoreTypeOK ==
    /\ tasks \in [TaskId -> Task]
    /\ events \in [TaskId -> Seq(EventType)]
    /\ now \in Nat
    /\ granted \in [TaskId -> Int]

StoreInit ==
    /\ tasks = [t \in TaskId |-> NoTask]
    /\ events = [t \in TaskId |-> <<>>]
    /\ now = 0
    /\ granted = [t \in TaskId |-> NoTime]

LocalTime == {at \in (now - Skew)..(now + Skew) : at >= 0}

Exists(t) == tasks[t].status # "absent"

-----------------------------------------------------------------------------
(* Mutants: plausible slips in the queries and transactions below.         *)

\* Skips the retry budget of the recovery query.
MutantRecoverable(at) ==
    {t \in TaskId : tasks[t].status = "running" /\ tasks[t].leaseExp <= at}

\* Forgets "AND lease_expires_at <= ?".
MutantExpired(t, at) == tasks[t].status = "running" /\ tasks[t].leaseExp # NoTime

\* The claim query forgets the rows that wait for a retry.
MutantDue(at) ==
    {t \in TaskId : tasks[t].status = "queued" /\ tasks[t].availableAt <= at}

\* The claim query forgets "AND available_at <= ?".
MutantDueEarly(at) ==
    {t \in TaskId : tasks[t].status \in {"queued", "retrying"}}

\* The reaper and the recovery query disagree about the boundary.
MutantExhausted(at) ==
    {t \in TaskId : /\ tasks[t].status = "running"
                    /\ tasks[t].leaseExp <= at
                    /\ tasks[t].retryCount > tasks[t].maxRetries}

\* The version counts status changes only.
MutantSaveWithEvent(t, row, event) ==
    /\ tasks' = [tasks EXCEPT ![t] = [row EXCEPT !.version =
          IF row.status = tasks[t].status THEN @ ELSE tasks[t].version + 1]]
    /\ events' = [events EXCEPT ![t] = Append(@, event)]
    /\ UNCHANGED granted

\* Drops "AND version = ?".
MutantUpdateTask(t, row) == Exists(t)

\* Renews whatever the row's status and owner are.
MutantRenewable(t, w, at) == Exists(t)

\* A renewal is a new version of the row, but has no event.
MutantRenewLease(t, w, at) ==
    /\ tasks[t].status = "running" /\ tasks[t].owner = w /\ tasks[t].leaseExp > at
    /\ tasks' = [tasks EXCEPT ![t].leaseExp = at + LeaseDuration,
                              ![t].version = @ + 1]
    /\ UNCHANGED <<events, granted>>

-----------------------------------------------------------------------------
(* The WHERE and ORDER BY clauses.                                         *)

Expired(t, at) ==
    /\ tasks[t].status = "running"
    /\ tasks[t].leaseExp # NoTime
    /\ tasks[t].leaseExp <= at

Recoverable(at) ==
    {t \in TaskId : Expired(t, at) /\ tasks[t].retryCount < tasks[t].maxRetries}

Due(at) ==
    {t \in TaskId : /\ tasks[t].status \in {"queued", "retrying"}
                    /\ tasks[t].availableAt <= at}

Exhausted(at) ==
    {t \in TaskId : Expired(t, at) /\ tasks[t].retryCount >= tasks[t].maxRetries}

\* ORDER BY <key>, created_at, id
RowBefore(key, a, b) ==
    \/ key[a] < key[b]
    \/ /\ key[a] = key[b]
       /\ \/ tasks[a].createdAt < tasks[b].createdAt
          \/ tasks[a].createdAt = tasks[b].createdAt /\ a <= b

LeaseExpiresAt == [t \in TaskId |-> tasks[t].leaseExp]
AvailableAt == [t \in TaskId |-> tasks[t].availableAt]

\* LIMIT 1 FOR UPDATE SKIP LOCKED, when other transactions hold the locked rows.
FirstUnlocked(t, rows, locked, key) ==
    /\ t \in rows \ locked
    /\ \A u \in rows \ locked : RowBefore(key, t, u)

-----------------------------------------------------------------------------
(* Row writes.                                                             *)

\* Every transition saves the row with version + 1 and inserts one event.
SaveWithEvent(t, row, event) ==
    /\ tasks' = [tasks EXCEPT ![t] = [row EXCEPT !.version = tasks[t].version + 1]]
    /\ events' = [events EXCEPT ![t] = Append(@, event)]
    /\ granted' = [granted EXCEPT ![t] =
          IF row.status # "running" THEN NoTime
          ELSE IF event \in ClaimEvent THEN row.leaseExp ELSE @]

\* "WHERE id = ? AND version = ?" of the versioned update.
updateTask(t, row) == Exists(t) /\ tasks[t].version = row.version

UpdateTaskWithEvent(t, row, event) ==
    /\ updateTask(t, row)
    /\ SaveWithEvent(t, row, event)

CreateTaskWithEvent(t, at) ==
    /\ ~Exists(t)
    /\ \E m \in MaxRetriesOf :
         /\ tasks' = [tasks EXCEPT ![t] = NewTask(m, at)]
         /\ events' = [events EXCEPT ![t] = Append(@, "task_created")]
    /\ UNCHANGED granted

\* The row a claim writes; progress and error_message stay.
Claimed(task, w, at) ==
    IF task.status = "running"
      THEN [task EXCEPT !.retryCount = @ + 1, !.owner = w,
                        !.leaseExp = at + LeaseDuration]
      ELSE [MoveTo(task, "running") EXCEPT !.owner = w,
                                           !.leaseExp = at + LeaseDuration]

\* Expired leases first, then the rows that are due.
ClaimNextWithEvent(w, at, t) ==
    /\ \E locked \in SUBSET TaskId :
         \/ FirstUnlocked(t, Recoverable(at), locked, LeaseExpiresAt)
         \/ /\ Recoverable(at) \subseteq locked
            /\ FirstUnlocked(t, Due(at), locked, AvailableAt)
            /\ CanTransition(tasks[t].status, "running")
    /\ SaveWithEvent(t, Claimed(tasks[t], w, at), ClaimedEvent(tasks[t]))

FailNextExpiredWithEvent(at, t) ==
    /\ \E locked \in SUBSET TaskId :
         FirstUnlocked(t, Exhausted(at), locked, LeaseExpiresAt)
    /\ CanTransition(tasks[t].status, "failed")
    /\ SaveWithEvent(t, [MoveTo(tasks[t], "failed") EXCEPT !.err = LeaseExpiredError],
                     "task_failed")

Cancelable(t) == tasks[t].status \in {"queued", "retrying", "running"}

\* SELECT ... FOR UPDATE, so the row cannot change before the update.
CancelTaskWithEvent(t) ==
    /\ Cancelable(t)
    /\ CanTransition(tasks[t].status, "canceled")
    /\ SaveWithEvent(t, MoveTo(tasks[t], "canceled"), "task_canceled")

Renewable(t, w, at) ==
    /\ tasks[t].status = "running"
    /\ tasks[t].owner = w
    /\ tasks[t].leaseExp > at

\* Extends the lease and leaves the version alone.
RenewLease(t, w, at) ==
    /\ Renewable(t, w, at)
    /\ tasks' = [tasks EXCEPT ![t].leaseExp = at + LeaseDuration]
    /\ granted' = [granted EXCEPT ![t] = at + LeaseDuration]
    /\ UNCHANGED events

-----------------------------------------------------------------------------
(* What the properties say about rows.                                     *)

\* The status the last event of a task announces.
Announced(event) ==
    CASE event \in {"task_created", "task_released"} -> "queued"
      [] event \in ClaimEvent \union {"task_progress"} -> "running"
      [] event = "task_retrying" -> "retrying"
      [] event = "task_succeeded" -> "succeeded"
      [] event = "task_partially_succeeded" -> "partially_succeeded"
      [] event = "task_failed" -> "failed"
      [] event = "task_canceled" -> "canceled"

TrailMatches(row, trail) ==
    IF row.status = "absent" THEN trail = <<>>
    ELSE /\ Len(trail) = row.version + 1
         /\ Announced(trail[Len(trail)]) = row.status

\* The ways in which a copy about to be saved may differ from the row it was
\* made from: it reports progress, gives the lease up or charges one retry.
SavedFrom(copy, row) ==
    /\ copy.maxRetries = row.maxRetries
    /\ \/ /\ copy.status = "running" /\ copy.owner = row.owner
          /\ copy.leaseExp # NoTime /\ copy.retryCount = row.retryCount
       \/ /\ copy.status \in {"queued", "succeeded", "partially_succeeded", "failed"}
          /\ copy.owner = NoWorker /\ copy.leaseExp = NoTime
          /\ copy.retryCount = row.retryCount
       \/ /\ copy.status = "retrying"
          /\ copy.owner = NoWorker /\ copy.leaseExp = NoTime
          /\ copy.retryCount = row.retryCount + 1
          /\ copy.retryCount <= copy.maxRetries

=============================================================================
