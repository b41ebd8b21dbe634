--------------------------- MODULE TaskStore_proofs ---------------------------
(***************************************************************************)
(* Facts about single rows and single transactions, for every value of the *)
(* constants.  RowOK is what every row satisfies; Advances is how a row    *)
(* may change in one step.  Both are about rows, not about states, so that *)
(* the proofs about copies of rows can use them too.                       *)
(***************************************************************************)
EXTENDS InternalWorker, TLAPS

RowOK(row) ==
    /\ row.status = "running" <=> row.owner # NoWorker
    /\ row.status = "running" <=> row.leaseExp # NoTime
    /\ row.retryCount <= row.maxRetries
    /\ row.status = "absent" => row.retryCount = 0

\* A row appears, gets a new version, or keeps everything but its expiry.
Advances(a, b) ==
    \/ a.status = "absent"
    \/ b.status # "absent" /\ b.version > a.version
    \/ /\ b.status = a.status /\ b.owner = a.owner /\ b.version = a.version
       /\ b.retryCount = a.retryCount /\ b.maxRetries = a.maxRetries

-----------------------------------------------------------------------------
(* The value transformations of internal/domain.                           *)

\* The NULL timestamp is an integer and before every clock reading.
LEMMA NoTimeFacts == NoTime \in Int /\ NoTime < 0
BY DEF NoTime

\* The empty error message has the type of error messages.
LEMMA NoErrorType == NoError \in ErrorMessage
BY DEF NoError, ErrorMessage

\* NoTask has the type of a row and no lease.
LEMMA NoTaskType == NoTask \in Task /\ RowOK(NoTask) /\ NoTask.status = "absent"
BY NoTimeFacts, NoErrorType DEF NoTask, Task, RowOK

\* NewTask makes a queued row without a lease and with an unused budget.
LEMMA NewTaskType ==
    ASSUME NEW m \in Nat, NEW at \in Nat
    PROVE  /\ NewTask(m, at) \in Task
           /\ RowOK(NewTask(m, at))
           /\ NewTask(m, at).status = "queued"
           /\ NewTask(m, at).version = 0
           /\ NewTask(m, at).createdAt = at
           /\ NewTask(m, at).retryCount = 0
           /\ NewTask(m, at).maxRetries = m
           /\ NewTask(m, at).owner = NoWorker
<1>1. NewTask(m, at) \in Task
  <2>1. "queued" \in Status \union {"absent"} /\ at \in Int
    BY DEF Status
  <2>2. NoTask \in Task
    BY NoTaskType
  <2> QED
    BY <2>1, <2>2 DEF NewTask, Task
<1>2. /\ NewTask(m, at).status = "queued"
      /\ NewTask(m, at).version = 0
      /\ NewTask(m, at).createdAt = at
      /\ NewTask(m, at).retryCount = 0
      /\ NewTask(m, at).maxRetries = m
      /\ NewTask(m, at).owner = NoWorker
      /\ NewTask(m, at).leaseExp = NoTime
  BY DEF NewTask, NoTask
<1> QED
  BY <1>1, <1>2 DEF RowOK

\* MoveTo to any status but running drops the lease and keeps the counters.
LEMMA MoveToType ==
    ASSUME NEW row \in Task, NEW s \in Status
    PROVE  /\ MoveTo(row, s) \in Task
           /\ MoveTo(row, s).status = s
           /\ MoveTo(row, s).retryCount = row.retryCount
           /\ MoveTo(row, s).maxRetries = row.maxRetries
           /\ MoveTo(row, s).version = row.version
           /\ MoveTo(row, s).createdAt = row.createdAt
           /\ s # "running" => /\ MoveTo(row, s).owner = NoWorker
                               /\ MoveTo(row, s).leaseExp = NoTime
BY NoTimeFacts DEF MoveTo, Task

\* ScheduleRetry drops the lease and charges one retry.
LEMMA ScheduleRetryType ==
    ASSUME NEW row \in Task, NEW at \in Int
    PROVE  /\ ScheduleRetry(row, at) \in Task
           /\ ScheduleRetry(row, at).status = "retrying"
           /\ ScheduleRetry(row, at).retryCount = row.retryCount + 1
           /\ ScheduleRetry(row, at).maxRetries = row.maxRetries
           /\ ScheduleRetry(row, at).version = row.version
           /\ ScheduleRetry(row, at).createdAt = row.createdAt
           /\ ScheduleRetry(row, at).owner = NoWorker
           /\ ScheduleRetry(row, at).leaseExp = NoTime
<1>1. "retrying" \in Status /\ "retrying" # "running"
  BY DEF Status
<1> DEFINE moved == MoveTo(row, "retrying")
<1>2. /\ moved \in Task
      /\ moved.status = "retrying"
      /\ moved.retryCount = row.retryCount
      /\ moved.maxRetries = row.maxRetries
      /\ moved.version = row.version
      /\ moved.createdAt = row.createdAt
      /\ moved.owner = NoWorker
      /\ moved.leaseExp = NoTime
  BY <1>1, MoveToType
<1>3. ScheduleRetry(row, at) = [moved EXCEPT !.retryCount = @ + 1, !.availableAt = at]
  BY DEF ScheduleRetry
<1> HIDE DEF moved
<1>4. moved.retryCount + 1 \in Nat
  BY <1>2 DEF Task
<1>5. ScheduleRetry(row, at) \in Task
  BY <1>2, <1>3, <1>4, Zenon DEF Task
<1>6. /\ ScheduleRetry(row, at).status = moved.status
      /\ ScheduleRetry(row, at).retryCount = moved.retryCount + 1
      /\ ScheduleRetry(row, at).maxRetries = moved.maxRetries
      /\ ScheduleRetry(row, at).version = moved.version
      /\ ScheduleRetry(row, at).createdAt = moved.createdAt
      /\ ScheduleRetry(row, at).owner = moved.owner
      /\ ScheduleRetry(row, at).leaseExp = moved.leaseExp
  BY <1>2, <1>3 DEF Task
<1> QED
  BY <1>2, <1>5, <1>6

\* RequeueForRelease drops the lease and charges nothing.
LEMMA RequeueType ==
    ASSUME NEW row \in Task, NEW at \in Int
    PROVE  /\ RequeueForRelease(row, at) \in Task
           /\ RequeueForRelease(row, at).status = "queued"
           /\ RequeueForRelease(row, at).retryCount = row.retryCount
           /\ RequeueForRelease(row, at).maxRetries = row.maxRetries
           /\ RequeueForRelease(row, at).version = row.version
           /\ RequeueForRelease(row, at).createdAt = row.createdAt
           /\ RequeueForRelease(row, at).owner = NoWorker
           /\ RequeueForRelease(row, at).leaseExp = NoTime
<1>1. "queued" \in Status
  BY DEF Status
<1>2. RequeueForRelease(row, at) \in Task
  <2>1. 0 \in 0..100
    OBVIOUS
  <2> QED
    BY <1>1, <2>1, NoTimeFacts, NoErrorType, Zenon DEF RequeueForRelease, Task
<1>3. /\ RequeueForRelease(row, at).status = "queued"
      /\ RequeueForRelease(row, at).retryCount = row.retryCount
      /\ RequeueForRelease(row, at).maxRetries = row.maxRetries
      /\ RequeueForRelease(row, at).version = row.version
      /\ RequeueForRelease(row, at).createdAt = row.createdAt
      /\ RequeueForRelease(row, at).owner = NoWorker
      /\ RequeueForRelease(row, at).leaseExp = NoTime
  BY DEF RequeueForRelease, Task
<1> QED
  BY <1>2, <1>3

\* A claim gives the row to w and charges a retry only for a takeover.
LEMMA ClaimedType ==
    ASSUME NEW row \in Task, NEW w \in Worker, NEW at \in Nat
    PROVE  /\ Claimed(row, w, at) \in Task
           /\ Claimed(row, w, at).status = "running"
           /\ Claimed(row, w, at).owner = w
           /\ Claimed(row, w, at).leaseExp # NoTime
           /\ Claimed(row, w, at).maxRetries = row.maxRetries
           /\ Claimed(row, w, at).createdAt = row.createdAt
           /\ row.status = "running" => Claimed(row, w, at).retryCount = row.retryCount + 1
           /\ row.status # "running" => Claimed(row, w, at).retryCount = row.retryCount
<1>1. "running" \in Status
  BY DEF Status
<1>2. at + LeaseDuration \in Int /\ at + LeaseDuration # NoTime
  BY NoTimeFacts, StoreAssumption
<1>3. CASE row.status = "running"
  <2>1. Claimed(row, w, at) = [row EXCEPT !.retryCount = @ + 1, !.owner = w,
                                          !.leaseExp = at + LeaseDuration]
    BY <1>3 DEF Claimed
  <2>2. Claimed(row, w, at) \in Task
    <3>1. row.retryCount + 1 \in Nat
      BY DEF Task
    <3> QED
      BY <2>1, <3>1, <1>2, Zenon DEF Task
  <2> QED
    BY <1>2, <1>3, <2>1, <2>2 DEF Task
<1>4. CASE row.status # "running"
  <2> DEFINE moved == MoveTo(row, "running")
  <2>1. Claimed(row, w, at) = [moved EXCEPT !.owner = w, !.leaseExp = at + LeaseDuration]
    BY <1>4 DEF Claimed
  <2>2. /\ moved \in Task
        /\ moved.status = "running"
        /\ moved.retryCount = row.retryCount
        /\ moved.maxRetries = row.maxRetries
        /\ moved.createdAt = row.createdAt
    BY <1>1, MoveToType
  <2> HIDE DEF moved
  <2>3. Claimed(row, w, at) \in Task
    BY <2>1, <2>2, <1>2 DEF Task
  <2>4. /\ Claimed(row, w, at).status = moved.status
        /\ Claimed(row, w, at).owner = w
        /\ Claimed(row, w, at).leaseExp = at + LeaseDuration
        /\ Claimed(row, w, at).maxRetries = moved.maxRetries
        /\ Claimed(row, w, at).createdAt = moved.createdAt
        /\ Claimed(row, w, at).retryCount = moved.retryCount
    BY <2>1, <2>2 DEF Task
  <2> QED
    BY <1>2, <1>4, <2>2, <2>3, <2>4
<1> QED
  BY <1>3, <1>4

-----------------------------------------------------------------------------
(* The transactions of internal/store/mysqlstore.                          *)

StoreInv ==
    /\ tasks \in [TaskId -> Task]
    /\ events \in [TaskId -> Seq(EventType)]
    /\ granted \in [TaskId -> Int]
    /\ \A t \in TaskId : RowOK(tasks[t]) /\ TrailMatches(tasks[t], events[t])

RowsAdvance == \A u \in TaskId : Advances(tasks[u], tasks'[u])

\* The event types the transitions write.
LEMMA EventTypes ==
    /\ ClaimEvent \subseteq EventType
    /\ {"task_created", "task_released", "task_progress", "task_retrying",
        "task_succeeded", "task_partially_succeeded", "task_failed",
        "task_canceled"} \subseteq EventType
BY DEF EventType, ClaimEvent

\* What each of them announces.
LEMMA Announcements ==
    /\ \A e \in ClaimEvent : Announced(e) = "running"
    /\ Announced("task_created") = "queued"
    /\ Announced("task_released") = "queued"
    /\ Announced("task_progress") = "running"
    /\ Announced("task_retrying") = "retrying"
    /\ Announced("task_succeeded") = "succeeded"
    /\ Announced("task_partially_succeeded") = "partially_succeeded"
    /\ Announced("task_failed") = "failed"
    /\ Announced("task_canceled") = "canceled"
<1>1. \A e \in ClaimEvent : Announced(e) = "running"
  BY DEF Announced, ClaimEvent
<1>2. Announced("task_created") = "queued"
  BY DEF Announced, ClaimEvent
<1>3. Announced("task_released") = "queued"
  BY DEF Announced, ClaimEvent
<1>4. Announced("task_progress") = "running"
  BY DEF Announced, ClaimEvent
<1>5. Announced("task_retrying") = "retrying"
  BY DEF Announced, ClaimEvent
<1>6. Announced("task_succeeded") = "succeeded"
  BY DEF Announced, ClaimEvent
<1>7. Announced("task_partially_succeeded") = "partially_succeeded"
  BY DEF Announced, ClaimEvent
<1>8. Announced("task_failed") = "failed"
  BY DEF Announced, ClaimEvent
<1>9. Announced("task_canceled") = "canceled"
  BY DEF Announced, ClaimEvent
<1> QED
  BY <1>1, <1>2, <1>3, <1>4, <1>5, <1>6, <1>7, <1>8, <1>9

\* Appending the event that announces a row keeps the trail in step with it.
LEMMA AppendMatches ==
    ASSUME NEW row \in Task, NEW new \in Task, NEW trail \in Seq(EventType),
           NEW event \in EventType, TrailMatches(row, trail),
           row.status # "absent", new.status # "absent",
           new.version = row.version + 1, Announced(event) = new.status
    PROVE  TrailMatches(new, Append(trail, event))
<1>1. Len(trail) = row.version + 1
  BY DEF TrailMatches
<1>2. /\ Len(Append(trail, event)) = row.version + 2
      /\ Append(trail, event)[row.version + 2] = event
  BY <1>1 DEF Task
<1> QED
  BY <1>2 DEF TrailMatches, Task

\* A save of a well-formed row together with the event that announces it.
LEMMA SaveStep ==
    ASSUME StoreInv, NEW t \in TaskId, NEW row \in Task, NEW event \in EventType,
           Exists(t), RowOK(row), row.status # "absent",
           Announced(event) = row.status, SaveWithEvent(t, row, event)
    PROVE  /\ StoreInv' /\ RowsAdvance
           /\ tasks' = [tasks EXCEPT ![t] =
                 [row EXCEPT !.version = tasks[t].version + 1]]
<1> DEFINE new == [row EXCEPT !.version = tasks[t].version + 1]
<1>1. tasks[t] \in Task /\ tasks[t].version + 1 \in Nat
  BY DEF StoreInv, Task
<1>2. new \in Task
  BY <1>1, Zenon DEF Task
<1>3. /\ new.status = row.status /\ new.owner = row.owner
      /\ new.leaseExp = row.leaseExp /\ new.retryCount = row.retryCount
      /\ new.maxRetries = row.maxRetries
      /\ new.version = tasks[t].version + 1
  BY DEF Task
<1>4. /\ tasks' = [tasks EXCEPT ![t] = new]
      /\ events' = [events EXCEPT ![t] = Append(events[t], event)]
  BY DEF SaveWithEvent
<1> HIDE DEF new
<1>5. granted' \in [TaskId -> Int]
  <2>1. row.leaseExp \in Int /\ granted[t] \in Int
    BY DEF StoreInv, Task
  <2> QED
    BY <2>1, NoTimeFacts DEF SaveWithEvent, StoreInv
<1>6. tasks' \in [TaskId -> Task] /\ events' \in [TaskId -> Seq(EventType)]
  BY <1>2, <1>4 DEF StoreInv
<1>7. RowOK(new) /\ TrailMatches(new, Append(events[t], event))
  <2>1. RowOK(new)
    BY <1>3 DEF RowOK
  <2>2. TrailMatches(tasks[t], events[t]) /\ events[t] \in Seq(EventType)
    BY DEF StoreInv
  <2> QED
    BY <1>1, <1>2, <1>3, <2>1, <2>2, AppendMatches DEF Exists
<1>8. \A u \in TaskId : RowOK(tasks'[u]) /\ TrailMatches(tasks'[u], events'[u])
  BY <1>4, <1>7 DEF StoreInv
<1>9. Advances(tasks[t], new)
  <2>1. new.version > tasks[t].version
    BY <1>1, <1>3 DEF Task
  <2> QED
    BY <1>3, <2>1 DEF Advances
<1>10. \A u \in TaskId : Advances(tasks[u], tasks[u])
  BY DEF Advances
<1>11. RowsAdvance
  BY <1>4, <1>9, <1>10 DEF RowsAdvance, StoreInv
<1> QED
  BY <1>4, <1>5, <1>6, <1>8, <1>11 DEF StoreInv, new

\* Creating a task inserts a queued row and its first event.
LEMMA CreateStep ==
    ASSUME StoreInv, NEW t \in TaskId, NEW at \in Nat, CreateTaskWithEvent(t, at)
    PROVE  StoreInv' /\ RowsAdvance
<1>1. PICK m \in MaxRetriesOf :
        /\ tasks' = [tasks EXCEPT ![t] = NewTask(m, at)]
        /\ events' = [events EXCEPT ![t] = Append(events[t], "task_created")]
  BY DEF CreateTaskWithEvent
<1>2. m \in Nat /\ tasks[t].status = "absent" /\ granted' = granted
  BY StoreAssumption DEF CreateTaskWithEvent, Exists
<1> DEFINE new == NewTask(m, at)
<1>3. new \in Task /\ RowOK(new) /\ new.status = "queued" /\ new.version = 0
  BY <1>2, NewTaskType
<1>4. tasks' = [tasks EXCEPT ![t] = new]
  BY <1>1
<1> HIDE DEF new
<1>5. "task_created" \in EventType /\ Announced("task_created") = "queued"
  BY EventTypes, Announcements
<1>6. events[t] = <<>>
  BY <1>2 DEF StoreInv, TrailMatches
<1>7. /\ Append(events[t], "task_created") \in Seq(EventType)
      /\ Len(Append(events[t], "task_created")) = 1
      /\ Append(events[t], "task_created")[1] = "task_created"
  BY <1>5, <1>6
<1>8. TrailMatches(new, Append(events[t], "task_created"))
  BY <1>3, <1>5, <1>7 DEF TrailMatches
<1>9. tasks' \in [TaskId -> Task] /\ events' \in [TaskId -> Seq(EventType)]
  BY <1>1, <1>3, <1>4, <1>7 DEF StoreInv
<1>10. \A u \in TaskId : RowOK(tasks'[u]) /\ TrailMatches(tasks'[u], events'[u])
  BY <1>1, <1>3, <1>4, <1>8 DEF StoreInv
<1>11. \A u \in TaskId : Advances(tasks[u], tasks'[u])
  BY <1>2, <1>4 DEF Advances, StoreInv
<1> QED
  BY <1>2, <1>9, <1>10, <1>11 DEF StoreInv, RowsAdvance

\* A clock reading is a natural number.
LEMMA LocalTimeType == ASSUME now \in Nat, NEW at \in LocalTime PROVE at \in Nat
BY StoreAssumption DEF LocalTime

\* The rows a claim picks: due ones, or expired ones with budget left.
LEMMA ClaimableRows ==
    ASSUME NEW w, NEW at, NEW t, ClaimNextWithEvent(w, at, t)
    PROVE  \/ tasks[t].status = "running" /\ tasks[t].retryCount < tasks[t].maxRetries
           \/ tasks[t].status \in {"queued", "retrying"}
BY DEF ClaimNextWithEvent, FirstUnlocked, Recoverable, Due, Expired

\* A claim, first or repeated, keeps the store in order.
LEMMA ClaimStep ==
    ASSUME StoreInv, NEW w \in Worker, NEW at \in Nat, NEW t \in TaskId,
           ClaimNextWithEvent(w, at, t)
    PROVE  /\ StoreInv' /\ RowsAdvance
           /\ Exists(t)
           /\ tasks'[t] \in Task
           /\ tasks'[t].status = "running"
           /\ tasks'[t].owner = w
<1> DEFINE row == Claimed(tasks[t], w, at)
           event == ClaimedEvent(tasks[t])
<1>1. tasks[t] \in Task /\ RowOK(tasks[t])
  BY DEF StoreInv
<1>2. /\ row \in Task /\ row.status = "running" /\ row.owner = w
      /\ row.leaseExp # NoTime /\ row.maxRetries = tasks[t].maxRetries
      /\ tasks[t].status = "running" => row.retryCount = tasks[t].retryCount + 1
      /\ tasks[t].status # "running" => row.retryCount = tasks[t].retryCount
  BY <1>1, ClaimedType
<1>3. event \in ClaimEvent
  BY DEF ClaimedEvent, ClaimEvent
<1>4. event \in EventType /\ Announced(event) = "running"
  BY <1>3, EventTypes, Announcements
<1>5. SaveWithEvent(t, row, event) 
  BY DEF ClaimNextWithEvent
<1> HIDE DEF row, event
<1>6. Exists(t)
  BY ClaimableRows DEF Exists
<1>7. RowOK(row)
  <2>1. row.retryCount <= row.maxRetries
    BY <1>1, <1>2, ClaimableRows DEF RowOK, Task
  <2> QED
    BY <1>2, <2>1, NoWorkerAssumption DEF RowOK
<1>8. StoreInv' /\ RowsAdvance
      /\ tasks' = [tasks EXCEPT ![t] = [row EXCEPT !.version = tasks[t].version + 1]]
  BY <1>2, <1>4, <1>5, <1>6, <1>7, SaveStep
<1>9. tasks'[t] \in Task
  BY <1>8 DEF StoreInv
<1>10. tasks'[t].status = row.status /\ tasks'[t].owner = row.owner
  BY <1>2, <1>8 DEF StoreInv, Task
<1> QED
  BY <1>2, <1>6, <1>8, <1>9, <1>10

\* The rows MoveTo makes for the ends of a task are in order.
LEMMA EndedRowOK ==
    ASSUME NEW row \in Task, RowOK(row), NEW s \in terminalStatuses
    PROVE  /\ s \in Status /\ s # "running" /\ s # "absent"
           /\ RowOK(MoveTo(row, s))
<1>1. s \in Status /\ s # "running" /\ s # "absent"
  BY DEF terminalStatuses, Status
<1> QED
  BY <1>1, MoveToType DEF RowOK

\* The reaper's transaction.
LEMMA ReapStep ==
    ASSUME StoreInv, NEW at \in Nat, NEW t \in TaskId, FailNextExpiredWithEvent(at, t)
    PROVE  StoreInv' /\ RowsAdvance
<1> DEFINE moved == MoveTo(tasks[t], "failed")
           row == [moved EXCEPT !.err = LeaseExpiredError]
<1>1. tasks[t] \in Task /\ RowOK(tasks[t]) /\ "failed" \in terminalStatuses
  BY DEF StoreInv, terminalStatuses
<1>2. moved \in Task /\ RowOK(moved) /\ moved.status = "failed"
  BY <1>1, EndedRowOK, MoveToType
<1>3. LeaseExpiredError \in ErrorMessage
  BY DEF LeaseExpiredError, ErrorMessage
<1>4. SaveWithEvent(t, row, "task_failed") /\ Exists(t)
  BY DEF FailNextExpiredWithEvent, FirstUnlocked, Exhausted, Expired, Exists
<1> HIDE DEF moved
<1>5. row \in Task
  BY <1>2, <1>3, Zenon DEF Task
<1>6. row.status = "failed" /\ RowOK(row)
  BY <1>2 DEF RowOK, Task
<1> QED
  BY <1>4, <1>5, <1>6, SaveStep, EventTypes, Announcements

\* The cancellation transaction.
LEMMA CancelStep ==
    ASSUME StoreInv, NEW t \in TaskId, CancelTaskWithEvent(t)
    PROVE  StoreInv' /\ RowsAdvance
<1>1. tasks[t] \in Task /\ RowOK(tasks[t]) /\ "canceled" \in terminalStatuses
  BY DEF StoreInv, terminalStatuses
<1>2. /\ MoveTo(tasks[t], "canceled") \in Task
      /\ RowOK(MoveTo(tasks[t], "canceled"))
      /\ MoveTo(tasks[t], "canceled").status = "canceled"
  BY <1>1, EndedRowOK, MoveToType
<1>3. SaveWithEvent(t, MoveTo(tasks[t], "canceled"), "task_canceled") /\ Exists(t)
  BY DEF CancelTaskWithEvent, Cancelable, Exists
<1> QED
  BY <1>2, <1>3, SaveStep, EventTypes, Announcements

\* A renewal changes nothing of the row but its expiry.
LEMMA RenewStep ==
    ASSUME StoreInv, NEW t \in TaskId, NEW w, NEW at \in Nat, RenewLease(t, w, at)
    PROVE  StoreInv' /\ RowsAdvance
<1> DEFINE new == [tasks[t] EXCEPT !.leaseExp = at + LeaseDuration]
<1>1. tasks[t] \in Task /\ RowOK(tasks[t]) /\ tasks[t].status = "running"
  BY DEF StoreInv, RenewLease, Renewable
<1>2. at + LeaseDuration \in Int /\ at + LeaseDuration # NoTime
  BY NoTimeFacts, StoreAssumption
<1>3. new \in Task
  BY <1>1, <1>2, Zenon DEF Task
<1>4. /\ new.status = tasks[t].status /\ new.owner = tasks[t].owner
      /\ new.version = tasks[t].version /\ new.retryCount = tasks[t].retryCount
      /\ new.maxRetries = tasks[t].maxRetries
      /\ new.leaseExp = at + LeaseDuration
  BY <1>1 DEF Task
<1>5. tasks' = [tasks EXCEPT ![t] = new] /\ events' = events
  BY DEF RenewLease
<1> HIDE DEF new
<1>6. granted' \in [TaskId -> Int]
  <2>1. granted[t] \in Int
    BY DEF StoreInv
  <2> QED
    BY <1>2, <2>1 DEF RenewLease, StoreInv
<1>7. tasks' \in [TaskId -> Task] /\ events' \in [TaskId -> Seq(EventType)]
  BY <1>3, <1>5 DEF StoreInv
<1>8. RowOK(new) /\ TrailMatches(new, events[t])
  <2>1. RowOK(new)
    BY <1>1, <1>2, <1>4 DEF RowOK
  <2>2. TrailMatches(tasks[t], events[t])
    BY DEF StoreInv
  <2> QED
    BY <1>4, <2>1, <2>2 DEF TrailMatches
<1>9. \A u \in TaskId : RowOK(tasks'[u]) /\ TrailMatches(tasks'[u], events'[u])
  BY <1>5, <1>8 DEF StoreInv
<1>10. \A u \in TaskId : Advances(tasks[u], tasks'[u])
  BY <1>4, <1>5 DEF Advances, StoreInv
<1> QED
  BY <1>6, <1>7, <1>9, <1>10 DEF StoreInv, RowsAdvance

-----------------------------------------------------------------------------
(* What is saved in place of a running row.                                *)

\* What may be saved in place of a running row: a typed copy of the same age
\* and version, made from the row in one of the allowed ways, with its event.
Saveable(o, row) ==
    /\ o[1] \in Task /\ o[2] \in EventType
    /\ o[1].version = row.version
    /\ o[1].createdAt = row.createdAt
    /\ SavedFrom(o[1], row)
    /\ Announced(o[2]) = o[1].status

\* A saved copy of a running row is a well-formed row.
LEMMA SavedFromOK ==
    ASSUME NEW copy \in Task, NEW row \in Task, RowOK(row),
           row.status = "running", SavedFrom(copy, row)
    PROVE  RowOK(copy) /\ copy.status # "absent"
<1>1. row.owner # NoWorker /\ row.retryCount <= row.maxRetries
  BY DEF RowOK
<1>2. CASE copy.status = "running"
  BY <1>1, <1>2 DEF SavedFrom, RowOK
<1>3. CASE copy.status # "running"
  BY <1>1, <1>3 DEF SavedFrom, RowOK
<1> QED
  BY <1>2, <1>3

\* Ending an attempt: the lease goes, the counters stay.
LEMMA EndedSaveable ==
    ASSUME NEW row \in Task, NEW s \in {"succeeded", "partially_succeeded", "failed"},
           NEW copy \in Task, NEW event \in EventType, Announced(event) = s,
           copy.status = MoveTo(row, s).status,
           copy.owner = MoveTo(row, s).owner,
           copy.leaseExp = MoveTo(row, s).leaseExp,
           copy.retryCount = MoveTo(row, s).retryCount,
           copy.maxRetries = MoveTo(row, s).maxRetries,
           copy.version = MoveTo(row, s).version,
           copy.createdAt = MoveTo(row, s).createdAt
    PROVE  Saveable(<<copy, event>>, row) /\ copy.status # "running"
<1>1. s \in Status /\ s # "running"
  BY DEF Status
<1>2. /\ MoveTo(row, s).status = s /\ MoveTo(row, s).owner = NoWorker
      /\ MoveTo(row, s).leaseExp = NoTime
      /\ MoveTo(row, s).retryCount = row.retryCount
      /\ MoveTo(row, s).maxRetries = row.maxRetries
      /\ MoveTo(row, s).version = row.version
      /\ MoveTo(row, s).createdAt = row.createdAt
  BY <1>1, MoveToType
<1> QED
  BY <1>1, <1>2 DEF Saveable, SavedFrom

\* A retry that is scheduled was within the task's budget.
LEMMA ScheduleSaveable ==
    ASSUME NEW row \in Task, NEW f \in Failure, NEW at \in Nat,
           NEW o \in Schedule(row, f, at)
    PROVE  Saveable(o, row) /\ o[1].status # "running"
<1>1. PICK d \in RetryDelay : o = <<RetryRow(row, f, at + d), "task_retrying">>
  BY DEF Schedule
<1>2. row.retryCount + 1 <= row.maxRetries
  BY DEF Schedule, BudgetLeft
<1>3. at + d \in Int
  BY RetryAssumption
<1> DEFINE moved == ScheduleRetry(row, at + d)
           copy == [moved EXCEPT !.err = CodeOnly(f)]
<1>4. /\ moved \in Task /\ moved.status = "retrying"
      /\ moved.retryCount = row.retryCount + 1
      /\ moved.maxRetries = row.maxRetries /\ moved.version = row.version
      /\ moved.createdAt = row.createdAt
      /\ moved.owner = NoWorker /\ moved.leaseExp = NoTime
  BY <1>3, ScheduleRetryType
<1>5. o = <<copy, "task_retrying">>
  BY <1>1 DEF RetryRow
<1> HIDE DEF moved
<1>6. CodeOnly(f) \in ErrorMessage
  BY DEF CodeOnly, ErrorMessage
<1>7. copy \in Task
  BY <1>4, <1>6, Zenon DEF Task
<1>8. /\ copy.status = moved.status /\ copy.owner = moved.owner
      /\ copy.leaseExp = moved.leaseExp /\ copy.retryCount = moved.retryCount
      /\ copy.maxRetries = moved.maxRetries /\ copy.version = moved.version
      /\ copy.createdAt = moved.createdAt
  BY <1>4 DEF Task
<1>9. "task_retrying" \in EventType /\ Announced("task_retrying") = "retrying"
  BY EventTypes, Announcements
<1> HIDE DEF copy
<1>10. SavedFrom(copy, row)
  BY <1>2, <1>4, <1>8 DEF SavedFrom
<1> QED
  BY <1>4, <1>5, <1>7, <1>8, <1>9, <1>10 DEF Saveable

\* Every way an in-process attempt ends may be saved in place of its row.
LEMMA EndingSaveable ==
    ASSUME NEW e \in Execution, NEW at \in Nat, NEW o \in Endings(e, at)
    PROVE  Saveable(o, e.row) /\ o[1].status # "running"
<1>1. e.row \in Task
  BY DEF Execution
<1>2. FixedError \in ErrorMessage /\ NoError \in ErrorMessage
  BY NoErrorType DEF FixedError, ErrorMessage
<1>3. /\ {"succeeded", "partially_succeeded", "failed"} \subseteq Status
      /\ 100 \in 0..100
  BY DEF Status
<1>4. ASSUME NEW s \in {"succeeded", "partially_succeeded", "failed"},
             NEW r \in Output, NEW x \in ErrorMessage,
             NEW event \in EventType, Announced(event) = s,
             o = <<FinishedRow(e.row, s, r, x), event>>
      PROVE  Saveable(o, e.row) /\ o[1].status # "running"
  <2> DEFINE moved == MoveTo(e.row, s)
             copy == [moved EXCEPT !.result = r, !.progress = 100, !.err = x]
  <2>1. o = <<copy, event>>
    BY <1>4 DEF FinishedRow
  <2>2. moved \in Task
    BY <1>1, <1>3, MoveToType
  <2> HIDE DEF moved
  <2>3. copy \in Task
    BY <1>3, <2>2, Zenon DEF Task
  <2>4. /\ copy.status = moved.status /\ copy.owner = moved.owner
        /\ copy.leaseExp = moved.leaseExp /\ copy.retryCount = moved.retryCount
        /\ copy.maxRetries = moved.maxRetries /\ copy.version = moved.version
        /\ copy.createdAt = moved.createdAt
    BY <2>2 DEF Task
  <2> HIDE DEF copy
  <2> QED
    BY <1>1, <1>4, <2>1, <2>3, <2>4, EndedSaveable DEF moved
<1>5. ASSUME NEW x \in ErrorMessage, o = FailureRow(e.row, x)
      PROVE  Saveable(o, e.row) /\ o[1].status # "running"
  <2> DEFINE moved == MoveTo(e.row, "failed")
             copy == [moved EXCEPT !.err = x]
  <2>1. o = <<copy, "task_failed">>
    BY <1>5 DEF FailureRow
  <2>2. moved \in Task
    BY <1>1, <1>3, MoveToType
  <2> HIDE DEF moved
  <2>3. copy \in Task
    BY <2>2, Zenon DEF Task
  <2>4. /\ copy.status = moved.status /\ copy.owner = moved.owner
        /\ copy.leaseExp = moved.leaseExp /\ copy.retryCount = moved.retryCount
        /\ copy.maxRetries = moved.maxRetries /\ copy.version = moved.version
        /\ copy.createdAt = moved.createdAt
    BY <2>2 DEF Task
  <2> HIDE DEF copy
  <2>5. "task_failed" \in EventType /\ Announced("task_failed") = "failed"
    BY EventTypes, Announcements
  <2> QED
    BY <1>1, <2>1, <2>3, <2>4, <2>5, EndedSaveable DEF moved
<1>6. CASE o \in FinishOutcomes(e.row)
  <2>1. CASE \E r \in Output :
               o = <<FinishedRow(e.row, "succeeded", r, NoError), "task_succeeded">>
    BY <1>2, <1>4, <2>1, EventTypes, Announcements
  <2>2. CASE \E r \in Output :
               o = <<FinishedRow(e.row, "partially_succeeded", r, FixedError),
                     "task_partially_succeeded">>
    BY <1>2, <1>4, <2>2, EventTypes, Announcements
  <2>3. CASE \E r \in Output :
               o = <<FinishedRow(e.row, "failed", r, FixedError), "task_failed">>
    BY <1>2, <1>4, <2>3, EventTypes, Announcements
  <2> QED
    BY <1>6, <2>1, <2>2, <2>3 DEF FinishOutcomes
<1>7. CASE o = FailureRow(e.row, FixedError)
  BY <1>2, <1>5, <1>7
<1>8. ASSUME NEW f \in Failure, o \in ErrorOutcomes(e.row, f, at)
      PROVE  Saveable(o, e.row) /\ o[1].status # "running"
  <2>1. CodeOnly(f) \in ErrorMessage
    BY DEF CodeOnly, ErrorMessage
  <2>2. CASE o \in Schedule(e.row, f, at)
    BY <1>1, <2>2, ScheduleSaveable
  <2>3. CASE o = FailureRow(e.row, CodeOnly(f))
    BY <1>5, <2>1, <2>3
  <2> QED
    BY <1>8, <2>2, <2>3 DEF ErrorOutcomes
<1>9. \/ o \in FinishOutcomes(e.row)
      \/ o = FailureRow(e.row, FixedError)
      \/ \E f \in Failure : o \in ErrorOutcomes(e.row, f, at)
  BY DEF Endings
<1> QED
  BY <1>6, <1>7, <1>8, <1>9

-----------------------------------------------------------------------------
(* Copies and transitions.                                                 *)

\* The types of the parts of an execution.
LEMMA ExecutionParts ==
    ASSUME InternalTypeOK, NEW w \in Internal, iw[w].pc = "execute"
    PROVE  iw[w] \in Execution /\ iw[w].task \in TaskId /\ iw[w].row \in Task
<1>1. iw[w] \in Execution
  BY DEF InternalTypeOK, Polling
<1> QED
  BY <1>1 DEF Execution

\* An in-process worker's copy stays fenced when the row changes.
LEMMA ExecutionStaysFenced ==
    ASSUME NEW w, NEW e \in Execution, NEW a \in Task, NEW b \in Task,
           Advances(a, b), ExecutionFenced(w, e, a)
    PROVE  ExecutionFenced(w, e, b)
<1>1. e.row.version \in Nat /\ a.version \in Nat /\ b.version \in Nat
  BY DEF Execution, Task
<1>2. CASE b.status # "absent" /\ b.version > a.version
  BY <1>1, <1>2 DEF ExecutionFenced
<1>3. CASE /\ b.status = a.status /\ b.owner = a.owner /\ b.version = a.version
           /\ b.retryCount = a.retryCount /\ b.maxRetries = a.maxRetries
  BY <1>3 DEF ExecutionFenced
<1> QED
  BY <1>2, <1>3 DEF Advances, ExecutionFenced

\* The transitions of TaskLifecycle, from one row to the next.
Transition(a, b) ==
    /\ b.maxRetries = a.maxRetries
    /\ \/ /\ a.status \in {"queued", "retrying"}
          /\ b.status = "running" /\ b.owner \in Worker /\ b.retryCount = a.retryCount
       \/ /\ a.status = "running" /\ a.retryCount < a.maxRetries
          /\ b.status = "running" /\ b.owner \in Worker
          /\ b.retryCount = a.retryCount + 1
       \/ /\ a.status = "running" /\ a.retryCount < a.maxRetries
          /\ b.status = "retrying" /\ b.owner = NoWorker
          /\ b.retryCount = a.retryCount + 1
       \/ /\ a.status = "running"
          /\ b.status \in {"succeeded", "partially_succeeded", "failed", "queued"}
          /\ b.owner = NoWorker /\ b.retryCount = a.retryCount
       \/ /\ a.status \in {"queued", "retrying", "running"}
          /\ b.status = "canceled" /\ b.owner = NoWorker /\ b.retryCount = a.retryCount
       \/ /\ b.status = a.status /\ b.owner = a.owner /\ b.retryCount = a.retryCount

\* The statuses a transition starts from have not ended.
LEMMA NotEnded == {"absent", "queued", "retrying", "running"} \cap terminalStatuses = {}
BY DEF terminalStatuses

\* A copy that was made from a running row is a transition of that row.
LEMMA SavedIsTransition ==
    ASSUME NEW copy \in Task, NEW row \in Task, row.status = "running",
           SavedFrom(copy, row)
    PROVE  Transition(row, copy)
<1>1. copy.maxRetries = row.maxRetries
  BY DEF SavedFrom
<1>2. CASE copy.status = "running" /\ copy.owner = row.owner /\ copy.retryCount = row.retryCount
  BY <1>1, <1>2 DEF Transition
<1>3. CASE /\ copy.status \in {"queued", "succeeded", "partially_succeeded", "failed"}
           /\ copy.owner = NoWorker /\ copy.retryCount = row.retryCount
  BY <1>1, <1>3 DEF Transition
<1>4. CASE /\ copy.status = "retrying" /\ copy.owner = NoWorker
           /\ copy.retryCount = row.retryCount + 1
           /\ copy.retryCount <= copy.maxRetries
  <2>1. row.retryCount < row.maxRetries
    BY <1>1, <1>4 DEF Task
  <2> QED
    BY <1>1, <1>4, <2>1 DEF Transition
<1> QED
  BY <1>2, <1>3, <1>4 DEF SavedFrom

=============================================================================
