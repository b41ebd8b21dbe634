-------------------------- MODULE ControlPlane_proofs --------------------------
(***************************************************************************)
(* The inductive invariant of ControlPlane, its safety theorems and the    *)
(* refinement of TaskLifecycle.                                            *)
(*                                                                         *)
(* IInv joins the types, the shape of every row, the match of every row    *)
(* with its audit trail and the fencing of every copy of a row.  A step    *)
(* that writes a row either saves a copy, and then the fence tells what    *)
(* the row looks like, or acts on the row under its lock.                  *)
(***************************************************************************)
EXTENDS ControlPlane, TaskStore_proofs

IInv ==
    /\ StoreInv
    /\ now \in Nat
    /\ ServiceTypeOK
    /\ InternalTypeOK
    /\ CopiesAreFenced

-----------------------------------------------------------------------------
(* Fences survive every change of the row.                                 *)

\* A handler's copy stays fenced when another actor changes the row.
LEMMA CallStaysFenced ==
    ASSUME NEW c \in Call, NEW a \in Task, NEW b \in Task,
           Advances(a, b), CallFenced(c, a)
    PROVE  CallFenced(c, b)
<1>1. c.row.version \in Nat /\ a.version \in Nat /\ b.version \in Nat
  BY DEF Call, Task
<1>2. CASE b.status # "absent" /\ b.version > a.version
  BY <1>1, <1>2 DEF CallFenced
<1>3. CASE /\ b.status = a.status /\ b.owner = a.owner /\ b.version = a.version
           /\ b.retryCount = a.retryCount /\ b.maxRetries = a.maxRetries
  BY <1>3 DEF CallFenced, SavedFrom
<1> QED
  BY <1>2, <1>3 DEF Advances, CallFenced

\* The types of the parts of a call that is being served.
LEMMA CallParts ==
    ASSUME ServiceTypeOK, NEW h \in Handler, calls[h].pc # "idle"
    PROVE  /\ calls[h] \in Call
           /\ calls[h].req \in Request
           /\ calls[h].req.tok \in Token
           /\ calls[h].req.tok.task \in TaskId
           /\ calls[h].req.worker \in External
           /\ calls[h].req.op \in AllOperations
           /\ calls[h].req.arg \in ArgumentOf(calls[h].req.op)
           /\ calls[h].row \in Task
           /\ calls[h].event \in EventType
           /\ calls[h].at \in Nat
<1>1. calls[h] \in Call
  BY DEF ServiceTypeOK, Idle
<1>2. /\ calls[h].req \in Request /\ calls[h].row \in Task
      /\ calls[h].event \in EventType /\ calls[h].at \in Nat
  BY <1>1 DEF Call
<1>3. /\ calls[h].req.tok \in Token /\ calls[h].req.worker \in External
      /\ calls[h].req.op \in AllOperations
  BY <1>2 DEF Request
<1>4. calls[h].req.tok.task \in TaskId
  BY <1>3 DEF Token
<1>5. calls[h].req.arg \in ArgumentOf(calls[h].req.op)
  BY DEF ServiceTypeOK
<1> QED
  BY <1>1, <1>2, <1>3, <1>4, <1>5

\* All copies stay fenced when the rows advance and the copies stay.
LEMMA FencesSurvive ==
    ASSUME IInv, StoreInv', RowsAdvance
    PROVE  /\ \A h \in Handler : calls[h].pc = "commit" =>
                CallFenced(calls[h], tasks'[calls[h].req.tok.task])
           /\ \A w \in Internal : iw[w].pc = "execute" =>
                ExecutionFenced(w, iw[w], tasks'[iw[w].task])
<1>1. ASSUME NEW h \in Handler, calls[h].pc = "commit"
      PROVE  CallFenced(calls[h], tasks'[calls[h].req.tok.task])
  <2> DEFINE t == calls[h].req.tok.task
  <2>1. calls[h] \in Call /\ t \in TaskId
    BY <1>1, CallParts DEF IInv
  <2>2. /\ tasks[t] \in Task /\ tasks'[t] \in Task /\ Advances(tasks[t], tasks'[t])
        /\ CallFenced(calls[h], tasks[t])
    BY <1>1, <2>1 DEF IInv, StoreInv, RowsAdvance, CopiesAreFenced
  <2> QED
    BY <2>1, <2>2, CallStaysFenced
<1>2. ASSUME NEW w \in Internal, iw[w].pc = "execute"
      PROVE  ExecutionFenced(w, iw[w], tasks'[iw[w].task])
  <2> DEFINE t == iw[w].task
  <2>1. iw[w] \in Execution /\ t \in TaskId
    BY <1>2, ExecutionParts DEF IInv
  <2>2. /\ tasks[t] \in Task /\ tasks'[t] \in Task /\ Advances(tasks[t], tasks'[t])
        /\ ExecutionFenced(w, iw[w], tasks[t])
    BY <1>2, <2>1 DEF IInv, StoreInv, RowsAdvance, CopiesAreFenced
  <2> QED
    BY <2>1, <2>2, ExecutionStaysFenced
<1> QED
  BY <1>1, <1>2

\* A step that leaves the store alone.
LEMMA StoreUnchanged ==
    ASSUME IInv, UNCHANGED storeVars
    PROVE  StoreInv' /\ RowsAdvance
BY DEF IInv, StoreInv, RowsAdvance, Advances, storeVars

\* A step that changes at most one call.
LEMMA CallStep ==
    ASSUME IInv, StoreInv', RowsAdvance, now' \in Nat,
           NEW h \in Handler, NEW new \in Call \union {Idle},
           new.pc # "idle" => new.req.arg \in ArgumentOf(new.req.op),
           new.pc = "commit" => CallFenced(new, tasks'[new.req.tok.task]),
           calls' = [calls EXCEPT ![h] = new],
           held' \in [External -> SUBSET Token], ncalls' \in Nat,
           committed' \subseteq Request, UNCHANGED internalVars
    PROVE  IInv'
<1>1. ServiceTypeOK'
  BY DEF IInv, ServiceTypeOK
<1>2. InternalTypeOK'
  BY DEF IInv, InternalTypeOK, internalVars
<1>3. CopiesAreFenced'
  BY FencesSurvive DEF CopiesAreFenced, internalVars, IInv, ServiceTypeOK
<1> QED
  BY <1>1, <1>2, <1>3 DEF IInv

\* A step that changes at most one in-process worker.
LEMMA ExecutionStep ==
    ASSUME IInv, StoreInv', RowsAdvance, now' \in Nat,
           NEW w \in Internal, NEW new \in Execution \union {Polling},
           new.pc = "execute" => ExecutionFenced(w, new, tasks'[new.task]),
           iw' = [iw EXCEPT ![w] = new], up' \in BOOLEAN, crashes' \in Nat,
           UNCHANGED serviceVars
    PROVE  IInv'
<1>1. InternalTypeOK'
  BY DEF IInv, InternalTypeOK
<1>2. ServiceTypeOK'
  BY DEF IInv, ServiceTypeOK, serviceVars
<1>3. CopiesAreFenced'
  BY FencesSurvive DEF CopiesAreFenced, serviceVars, IInv, InternalTypeOK
<1> QED
  BY <1>1, <1>2, <1>3 DEF IInv

\* A step of the store that touches no copy.
LEMMA StoreStep ==
    ASSUME IInv, StoreInv', RowsAdvance, now' \in Nat,
           UNCHANGED serviceVars, UNCHANGED internalVars
    PROVE  IInv'
<1>1. ServiceTypeOK' /\ InternalTypeOK'
  BY DEF IInv, ServiceTypeOK, serviceVars, InternalTypeOK, internalVars
<1>2. CopiesAreFenced'
  BY FencesSurvive DEF CopiesAreFenced, serviceVars, internalVars
<1> QED
  BY <1>1, <1>2 DEF IInv

-----------------------------------------------------------------------------
(* What the services make of a row before they save it.                    *)

\* Every copy a handler prepares may be saved in place of the row it read.
LEMMA OutcomeSaveable ==
    ASSUME NEW row \in Task, RowOK(row), row.status = "running", NEW req \in Request,
           req.arg \in ArgumentOf(req.op), NEW at \in Nat,
           NEW o \in Outcomes(row, req, at)
    PROVE  Saveable(o, row)
<1>1. CASE req.op = "complete"
  <2> DEFINE moved == MoveTo(row, "succeeded")
             copy == [moved EXCEPT !.result = req.arg, !.progress = 100]
  <2>1. o = <<copy, "task_succeeded">>
    BY <1>1 DEF Outcomes, CompletedRow
  <2>2. req.arg \in Output /\ 100 \in 0..100 /\ "succeeded" \in Status
    BY <1>1 DEF ArgumentOf, Status
  <2>3. moved \in Task
    BY <2>2, MoveToType
  <2> HIDE DEF moved
  <2>4. copy \in Task
    BY <2>2, <2>3, Zenon DEF Task
  <2>5. /\ copy.status = moved.status /\ copy.owner = moved.owner
        /\ copy.leaseExp = moved.leaseExp /\ copy.retryCount = moved.retryCount
        /\ copy.maxRetries = moved.maxRetries /\ copy.version = moved.version
        /\ copy.createdAt = moved.createdAt
    BY <2>3 DEF Task
  <2> HIDE DEF copy
  <2>6. "task_succeeded" \in EventType /\ Announced("task_succeeded") = "succeeded"
    BY EventTypes, Announcements
  <2> QED
    BY <2>1, <2>4, <2>5, <2>6, EndedSaveable DEF moved
<1>2. CASE req.op = "progress"
  <2> DEFINE copy == [row EXCEPT !.progress = req.arg]
  <2>1. o = <<copy, "task_progress">>
    BY <1>2 DEF Outcomes, ProgressRow
  <2>2. req.arg \in 0..100
    BY <1>2, ServiceAssumption DEF ArgumentOf
  <2>3. copy \in Task
    BY <2>2, Zenon DEF Task
  <2>4. /\ copy.status = row.status /\ copy.owner = row.owner
        /\ copy.leaseExp = row.leaseExp /\ copy.retryCount = row.retryCount
        /\ copy.maxRetries = row.maxRetries /\ copy.version = row.version
        /\ copy.createdAt = row.createdAt
    BY DEF Task
  <2> HIDE DEF copy
  <2>5. SavedFrom(copy, row)
    BY <2>4 DEF SavedFrom, RowOK
  <2> QED
    BY <2>1, <2>3, <2>4, <2>5, EventTypes, Announcements DEF Saveable
<1>3. CASE req.op = "release"
  <2> DEFINE copy == RequeueForRelease(row, at)
  <2>1. o = <<copy, "task_released">>
    BY <1>3 DEF Outcomes
  <2>2. /\ copy \in Task /\ copy.status = "queued" /\ copy.owner = NoWorker
        /\ copy.leaseExp = NoTime /\ copy.retryCount = row.retryCount
        /\ copy.maxRetries = row.maxRetries /\ copy.version = row.version
        /\ copy.createdAt = row.createdAt
    BY RequeueType
  <2> HIDE DEF copy
  <2>3. SavedFrom(copy, row)
    BY <2>2 DEF SavedFrom
  <2> QED
    BY <2>1, <2>2, <2>3, EventTypes, Announcements DEF Saveable
<1>4. CASE req.op = "fail"
  <2>1. req.arg \in Failure
    BY <1>4 DEF ArgumentOf
  <2>2. CASE o \in Schedule(row, req.arg, at)
    BY <2>1, <2>2, ScheduleSaveable
  <2>3. CASE o = <<FailedRow(row, req), "task_failed">>
    <3> DEFINE moved == MoveTo(row, "failed")
               copy == [moved EXCEPT !.err = CodeAndMessage(req.arg)]
    <3>1. o = <<copy, "task_failed">>
      BY <2>3 DEF FailedRow
    <3>2. CodeAndMessage(req.arg) \in ErrorMessage /\ "failed" \in Status
      BY <2>1, TextAssumption DEF CodeAndMessage, ErrorMessage, Status
    <3>3. moved \in Task
      BY <3>2, MoveToType
    <3> HIDE DEF moved
    <3>4. copy \in Task
      BY <3>2, <3>3, Zenon DEF Task
    <3>5. /\ copy.status = moved.status /\ copy.owner = moved.owner
          /\ copy.leaseExp = moved.leaseExp /\ copy.retryCount = moved.retryCount
          /\ copy.maxRetries = moved.maxRetries /\ copy.version = moved.version
          /\ copy.createdAt = moved.createdAt
      BY <3>3 DEF Task
    <3> HIDE DEF copy
    <3>6. "task_failed" \in EventType /\ Announced("task_failed") = "failed"
      BY EventTypes, Announcements
    <3> QED
      BY <3>1, <3>4, <3>5, <3>6, EndedSaveable DEF moved
  <2> QED
    BY <1>4, <2>2, <2>3 DEF Outcomes
<1>5. req.op \in {"complete", "progress", "release", "fail"}
  BY DEF Outcomes
<1> QED
  BY <1>1, <1>2, <1>3, <1>4, <1>5

-----------------------------------------------------------------------------
(* The steps of the worker service.                                        *)

\* Answering without a row.
LEMMA AnswerStep ==
    ASSUME IInv, NEW h \in Handler, calls[h].pc # "idle", NEW reply \in Reply,
           Answer(h, reply), UNCHANGED <<now, held, ncalls, committed>>,
           UNCHANGED storeVars, UNCHANGED internalVars
    PROVE  IInv'
<1> DEFINE c == calls[h]
           new == [c EXCEPT !.pc = "reply", !.reply = reply, !.row = NoTask]
<1>1. c \in Call /\ c.req.arg \in ArgumentOf(c.req.op)
  BY CallParts DEF IInv
<1>2. calls' = [calls EXCEPT ![h] = new]
  BY DEF Answer
<1> HIDE DEF c
<1>3. new \in Call /\ new.req = c.req /\ new.pc = "reply"
  <2>1. new \in Call
    BY <1>1, NoTaskType, Zenon DEF Call
  <2> QED
    BY <1>1, <2>1 DEF Call
<1> HIDE DEF new
<1>4. StoreInv' /\ RowsAdvance
  BY StoreUnchanged
<1> QED
  BY <1>1, <1>2, <1>3, <1>4, CallStep DEF IInv, ServiceTypeOK

\* Going on to the next read or to the renewal.
LEMMA GotoStep ==
    ASSUME IInv, NEW h \in Handler, calls[h].pc # "idle",
           NEW pc \in {"validate", "prepare", "renew"},
           Goto(h, pc), UNCHANGED <<now, held, ncalls, committed>>,
           UNCHANGED storeVars, UNCHANGED internalVars
    PROVE  IInv'
<1> DEFINE c == calls[h]
           new == [c EXCEPT !.pc = pc]
<1>1. c \in Call /\ c.req.arg \in ArgumentOf(c.req.op)
  BY CallParts DEF IInv
<1>2. calls' = [calls EXCEPT ![h] = new]
  BY DEF Goto
<1> HIDE DEF c
<1>3. new \in Call /\ new.req = c.req /\ new.pc = pc
  BY <1>1 DEF Call
<1> HIDE DEF new
<1>4. StoreInv' /\ RowsAdvance
  BY StoreUnchanged
<1> QED
  BY <1>1, <1>2, <1>3, <1>4, CallStep DEF IInv, ServiceTypeOK

\* The read that looks for a replay.
LEMMA ReplayStep ==
    ASSUME IInv, NEW h \in Handler, replayWorkerOperation(h), UNCHANGED internalVars
    PROVE  IInv'
<1>1. /\ calls[h].pc # "idle" /\ UNCHANGED <<now, held, ncalls, committed>>
      /\ UNCHANGED storeVars
  BY DEF replayWorkerOperation
<1>2. \/ \E reply \in {"lease_lost", "replayed", "conflict"} : Answer(h, reply)
      \/ Goto(h, "validate")
  BY DEF replayWorkerOperation
<1>3. {"lease_lost", "replayed", "conflict"} \subseteq Reply
  BY DEF Reply
<1> QED
  BY <1>1, <1>2, <1>3, AnswerStep, GotoStep

\* The read that validates the token.
LEMMA ValidateStep ==
    ASSUME IInv, NEW h \in Handler, validateLeaseToken(h), UNCHANGED internalVars
    PROVE  IInv'
<1>1. /\ calls[h].pc # "idle" /\ UNCHANGED <<now, held, ncalls, committed>>
      /\ UNCHANGED storeVars
  BY DEF validateLeaseToken
<1>2. \/ Answer(h, "lease_lost")
      \/ Goto(h, "renew")
      \/ Goto(h, "prepare")
  BY DEF validateLeaseToken
<1>3. "lease_lost" \in Reply
  BY DEF Reply
<1> QED
  BY <1>1, <1>2, <1>3, AnswerStep, GotoStep

\* The read that takes the copy: it is fenced because it is fresh.
LEMMA PrepareStep ==
    ASSUME IInv, NEW h \in Handler, prepareRunningTask(h), UNCHANGED internalVars
    PROVE  IInv'
<1> DEFINE c == calls[h]
           t == c.req.tok.task
<1>1. /\ c.pc # "idle" /\ UNCHANGED <<now, held, ncalls, committed>>
      /\ UNCHANGED storeVars
  BY DEF prepareRunningTask
<1>2. /\ c \in Call /\ c.req \in Request /\ t \in TaskId
      /\ c.req.arg \in ArgumentOf(c.req.op)
  BY <1>1, CallParts DEF IInv
<1>3. tasks[t] \in Task /\ RowOK(tasks[t])
  BY <1>2 DEF IInv, StoreInv
<1>4. PICK at \in LocalTime :
        \/ \E reply \in {"lease_lost", "conflict"} : Answer(h, reply)
        \/ /\ Prepared(tasks[t], c.req, at)
           /\ \E o \in Outcomes(tasks[t], c.req, at) :
                calls' = [calls EXCEPT ![h].pc = "commit", ![h].row = o[1],
                                       ![h].event = o[2]]
  BY DEF prepareRunningTask
<1>5. CASE \E reply \in {"lease_lost", "conflict"} : Answer(h, reply)
  <2>1. {"lease_lost", "conflict"} \subseteq Reply
    BY DEF Reply
  <2> QED
    BY <1>1, <1>5, <2>1, AnswerStep
<1>6. CASE /\ Prepared(tasks[t], c.req, at)
           /\ \E o \in Outcomes(tasks[t], c.req, at) :
                calls' = [calls EXCEPT ![h].pc = "commit", ![h].row = o[1],
                                       ![h].event = o[2]]
  <2>1. PICK o \in Outcomes(tasks[t], c.req, at) :
          calls' = [calls EXCEPT ![h].pc = "commit", ![h].row = o[1], ![h].event = o[2]]
    BY <1>6
  <2>2. tasks[t].status = "running" /\ tasks[t].owner = c.req.worker
    BY <1>6 DEF Prepared
  <2>3. at \in Nat
    BY LocalTimeType DEF IInv
  <2>4. Saveable(o, tasks[t])
    BY <1>2, <1>3, <2>2, <2>3, OutcomeSaveable
  <2> DEFINE new == [c EXCEPT !.pc = "commit", !.row = o[1], !.event = o[2]]
  <2>5. calls' = [calls EXCEPT ![h] = new]
    BY <2>1
  <2> HIDE DEF c
  <2>6. new \in Call
    BY <1>2, <2>4, Zenon DEF Call, Saveable
  <2>7. new.req = c.req /\ new.pc = "commit" /\ new.row = o[1] /\ new.event = o[2]
    BY <1>2 DEF Call
  <2> HIDE DEF new
  <2>8. StoreInv' /\ RowsAdvance /\ tasks' = tasks
    BY <1>1, StoreUnchanged DEF storeVars
  <2>9. CallFenced(new, tasks[t])
    <3>1. tasks[t].version \in Nat
      BY <1>3 DEF Task
    <3>2. /\ new.row.version = tasks[t].version /\ SavedFrom(new.row, tasks[t])
          /\ Announced(new.event) = new.row.status /\ new.req.worker = c.req.worker
      BY <2>4, <2>7, Zenon DEF Saveable
    <3>3. new.row.version <= tasks[t].version /\ tasks[t].status # "absent"
      BY <2>2, <3>1, <3>2
    <3> QED
      BY <2>2, <3>2, <3>3, Zenon DEF CallFenced
  <2> QED
    <3>1. /\ now' \in Nat /\ held' \in [External -> SUBSET Token] /\ ncalls' \in Nat
          /\ committed' \subseteq Request
      BY <1>1 DEF IInv, ServiceTypeOK
    <3>2. new.pc # "idle" => new.req.arg \in ArgumentOf(new.req.op)
      BY <1>2, <2>7
    <3>3. CallFenced(new, tasks'[new.req.tok.task])
      BY <2>7, <2>8, <2>9
    <3>4. new \in Call \union {Idle}
      BY <2>6
    <3> QED
      BY <2>5, <2>8, <3>1, <3>2, <3>3, <3>4, CallStep
<1> QED
  BY <1>4, <1>5, <1>6

\* A commit that passes the version check replaces a running row by a copy
\* that was made from it.
LEMMA CommitWrites ==
    ASSUME IInv, NEW h \in Handler, calls[h].pc = "commit",
           NEW t, t = calls[h].req.tok.task,
           UpdateTaskWithEvent(t, calls[h].row, calls[h].event)
    PROVE  /\ StoreInv' /\ RowsAdvance
           /\ t \in TaskId /\ tasks[t].status = "running"
           /\ calls[h].row \in Task /\ SavedFrom(calls[h].row, tasks[t])
           /\ tasks' = [tasks EXCEPT ![t] =
                 [calls[h].row EXCEPT !.version = tasks[t].version + 1]]
<1>1. t \in TaskId /\ calls[h].row \in Task /\ calls[h].event \in EventType
  BY CallParts DEF IInv
<1>2. tasks[t] \in Task /\ RowOK(tasks[t]) /\ StoreInv
  BY <1>1 DEF IInv, StoreInv
<1>3. Exists(t) /\ tasks[t].version = calls[h].row.version
  BY DEF UpdateTaskWithEvent, updateTask
<1>4. /\ tasks[t].status = "running" /\ SavedFrom(calls[h].row, tasks[t])
      /\ Announced(calls[h].event) = calls[h].row.status
  BY <1>3 DEF IInv, CopiesAreFenced, CallFenced
<1>5. RowOK(calls[h].row) /\ calls[h].row.status # "absent"
  BY <1>1, <1>2, <1>4, SavedFromOK
<1>6. SaveWithEvent(t, calls[h].row, calls[h].event)
  BY DEF UpdateTaskWithEvent
<1> QED
  BY <1>1, <1>2, <1>3, <1>4, <1>5, <1>6, SaveStep

\* The versioned update, or the conflict.
LEMMA CommitStep ==
    ASSUME IInv, NEW h \in Handler, Commit(h), UNCHANGED internalVars
    PROVE  IInv'
<1> DEFINE c == calls[h]
           t == c.req.tok.task
<1>1. c.pc = "commit" /\ UNCHANGED <<now, held, ncalls>>
  BY DEF Commit
<1>2. CASE ~updateTask(t, c.row) /\ Answer(h, "conflict") /\ UNCHANGED <<storeVars, committed>>
  <2>1. "conflict" \in Reply
    BY DEF Reply
  <2> QED
    BY <1>1, <1>2, <2>1, AnswerStep
<1>3. CASE /\ UpdateTaskWithEvent(t, c.row, c.event)
           /\ calls' = [calls EXCEPT ![h].pc = AfterCommit(c.event),
                                     ![h].reply = "ok", ![h].row = NoTask]
           /\ committed' = committed \union {c.req}
  <2> DEFINE new == [c EXCEPT !.pc = AfterCommit(c.event), !.reply = "ok",
                              !.row = NoTask]
  <2>1. StoreInv' /\ RowsAdvance
    BY <1>1, <1>3, CommitWrites
  <2>2. c \in Call /\ c.req \in Request /\ c.req.arg \in ArgumentOf(c.req.op)
    BY <1>1, CallParts DEF IInv
  <2>3. calls' = [calls EXCEPT ![h] = new]
    BY <1>3
  <2>4. AfterCommit(c.event) \in {"reply", "reread"} /\ "ok" \in Reply
    BY DEF AfterCommit, Reply
  <2> HIDE DEF c
  <2>5. new \in Call
    BY <2>2, <2>4, NoTaskType, Zenon DEF Call
  <2>6. new.req = c.req /\ new.pc # "commit"
    BY <2>2, <2>4 DEF Call
  <2> HIDE DEF new
  <2>7. committed' \subseteq Request
    BY <1>3, <2>2 DEF IInv, ServiceTypeOK
  <2> QED
    BY <1>1, <2>1, <2>2, <2>3, <2>5, <2>6, <2>7, CallStep DEF IInv, ServiceTypeOK
<1> QED
  BY <1>2, <1>3 DEF Commit

\* The renewal of a heartbeat.
LEMMA RenewCallStep ==
    ASSUME IInv, NEW h \in Handler, Renew(h), UNCHANGED internalVars
    PROVE  IInv'
<1> DEFINE c == calls[h]
           t == c.req.tok.task
<1>1. c.pc = "renew" /\ UNCHANGED <<now, held, ncalls, committed>>
  BY DEF Renew
<1>2. /\ c \in Call /\ t \in TaskId /\ c.at \in Nat
      /\ c.req.arg \in ArgumentOf(c.req.op)
  BY <1>1, CallParts DEF IInv
<1>3. CASE Answer(h, "lease_lost") /\ UNCHANGED storeVars
  <2>1. "lease_lost" \in Reply
    BY DEF Reply
  <2> QED
    BY <1>1, <1>3, <2>1, AnswerStep
<1>4. CASE /\ RenewLease(t, c.req.worker, c.at)
           /\ calls' = [calls EXCEPT ![h].pc = "reread", ![h].reply = "ok"]
  <2> DEFINE new == [c EXCEPT !.pc = "reread", !.reply = "ok"]
  <2>1. StoreInv' /\ RowsAdvance
    BY <1>2, <1>4, RenewStep DEF IInv
  <2>2. calls' = [calls EXCEPT ![h] = new]
    BY <1>4
  <2>3. "ok" \in Reply
    BY DEF Reply
  <2> HIDE DEF c
  <2>4. new \in Call
    BY <1>2, <2>3, Zenon DEF Call
  <2>5. new.req = c.req /\ new.pc = "reread"
    BY <1>2 DEF Call
  <2> HIDE DEF new
  <2> QED
    BY <1>1, <1>2, <2>1, <2>2, <2>4, <2>5, CallStep DEF IInv, ServiceTypeOK
<1> QED
  BY <1>3, <1>4 DEF Renew

\* Reading the row again for the answer.
LEMMA RereadStep ==
    ASSUME IInv, NEW h \in Handler, Reread(h), UNCHANGED internalVars
    PROVE  IInv'
<1> DEFINE c == calls[h]
           row == tasks[c.req.tok.task]
           new == [c EXCEPT !.pc = "reply", !.row = row]
<1>1. /\ c.pc = "reread" /\ UNCHANGED <<now, held, ncalls, committed>>
      /\ UNCHANGED storeVars /\ calls' = [calls EXCEPT ![h] = new]
  BY DEF Reread
<1>2. c \in Call /\ c.req.tok.task \in TaskId /\ c.req.arg \in ArgumentOf(c.req.op)
  BY <1>1, CallParts DEF IInv
<1>3. row \in Task
  BY <1>2 DEF IInv, StoreInv
<1> HIDE DEF c, row
<1>4. new \in Call
  BY <1>2, <1>3, Zenon DEF Call
<1>5. new.req = c.req /\ new.pc = "reply"
  BY <1>2 DEF Call
<1> HIDE DEF new
<1>6. StoreInv' /\ RowsAdvance
  BY <1>1, StoreUnchanged
<1> QED
  BY <1>1, <1>2, <1>4, <1>5, <1>6, CallStep DEF IInv, ServiceTypeOK

\* The tokens a row gives rise to.
LEMMA TokenType ==
    ASSUME NEW t \in TaskId, NEW row \in Task
    PROVE  withLeaseToken(t, row) \subseteq Token
<1>1. CASE row.owner = NoWorker
  BY <1>1 DEF withLeaseToken
<1>2. CASE row.owner # NoWorker
  <2>1. row.owner \in Worker /\ row.version \in Nat
    BY <1>2 DEF Task
  <2>2. [task |-> t, worker |-> row.owner, version |-> row.version] \in Token
    BY <2>1 DEF Token
  <2> QED
    BY <1>2, <2>2 DEF withLeaseToken
<1> QED
  BY <1>1, <1>2

\* The answer, with a token or without.
LEMMA RespondStep ==
    ASSUME IInv, NEW h \in Handler, Respond(h), UNCHANGED internalVars
    PROVE  IInv'
<1> DEFINE c == calls[h]
           tokens == IF c.reply = "ok" /\ c.req.op \in {"heartbeat", "progress"}
                       THEN withLeaseToken(c.req.tok.task, c.row) ELSE {}
<1>1. /\ c.pc = "reply" /\ UNCHANGED <<now, ncalls, committed>>
      /\ UNCHANGED storeVars
      /\ calls' = [calls EXCEPT ![h] = Idle]
      /\ held' = [held EXCEPT ![c.req.worker] = @ \union tokens]
  BY DEF Respond
<1>2. c \in Call /\ c.req.tok.task \in TaskId /\ c.req.worker \in External /\ c.row \in Task
  BY <1>1, CallParts DEF IInv
<1>3. tokens \subseteq Token
  BY <1>2, TokenType
<1> HIDE DEF tokens
<1>4. held' \in [External -> SUBSET Token]
  BY <1>1, <1>2, <1>3 DEF IInv, ServiceTypeOK
<1>5. StoreInv' /\ RowsAdvance
  BY <1>1, StoreUnchanged
<1>6. Idle.pc = "idle"
  BY DEF Idle
<1> QED
  BY <1>1, <1>4, <1>5, <1>6, CallStep DEF IInv, ServiceTypeOK

\* A worker sends a request with one of its tokens.
LEMMA SendStep ==
    ASSUME IInv, NEW h \in Handler, NEW w \in External, Send(h, w), UNCHANGED internalVars
    PROVE  IInv'
<1>1. PICK tok \in held[w], op \in Operation, at \in LocalTime :
        \E arg \in ArgumentOf(op) :
          calls' = [calls EXCEPT ![h] =
             [pc |-> IF op \in {"heartbeat", "progress"} THEN "validate" ELSE "replay",
              req |-> [op |-> op, worker |-> w, tok |-> tok, arg |-> arg],
              at |-> IF op = "heartbeat" THEN at ELSE 0, row |-> NoTask,
              event |-> "task_progress", reply |-> "none"]]
  BY DEF Send
<1>2. PICK arg \in ArgumentOf(op) :
          calls' = [calls EXCEPT ![h] =
             [pc |-> IF op \in {"heartbeat", "progress"} THEN "validate" ELSE "replay",
              req |-> [op |-> op, worker |-> w, tok |-> tok, arg |-> arg],
              at |-> IF op = "heartbeat" THEN at ELSE 0, row |-> NoTask,
              event |-> "task_progress", reply |-> "none"]]
  BY <1>1
<1> DEFINE pc == IF op \in {"heartbeat", "progress"} THEN "validate" ELSE "replay"
           req == [op |-> op, worker |-> w, tok |-> tok, arg |-> arg]
           time == IF op = "heartbeat" THEN at ELSE 0
           new == [pc |-> pc, req |-> req, at |-> time, row |-> NoTask,
                   event |-> "task_progress", reply |-> "none"]
<1>3. op \in AllOperations /\ tok \in Token /\ arg \in Argument
  BY ServiceAssumption DEF IInv, ServiceTypeOK, Argument
<1>4. req \in Request /\ req.arg = arg /\ req.op = op
  BY <1>3 DEF Request
<1>5. time \in Nat
  BY LocalTimeType DEF IInv
<1>6. pc \in {"validate", "replay"} /\ "none" \in Reply /\ "task_progress" \in EventType
  BY EventTypes DEF Reply
<1>7. calls' = [calls EXCEPT ![h] = new]
  BY <1>2
<1> HIDE DEF pc, req, time
<1>8. new \in Call
  BY <1>4, <1>5, <1>6, NoTaskType, Zenon DEF Call
<1>9. new.req = req /\ new.pc # "commit"
  BY <1>6
<1> HIDE DEF new
<1>10. /\ StoreInv' /\ RowsAdvance /\ UNCHANGED <<now, held, committed>>
       /\ ncalls' = ncalls + 1
  BY StoreUnchanged DEF Send
<1>11. new.req.arg \in ArgumentOf(new.req.op)
  BY <1>4, <1>9
<1>12. /\ held' \in [External -> SUBSET Token] /\ committed' \subseteq Request
       /\ ncalls' \in Nat /\ now' \in Nat
  BY <1>10 DEF IInv, ServiceTypeOK
<1> QED
  BY <1>7, <1>8, <1>9, <1>10, <1>11, <1>12, CallStep

\* A claim by an external worker.
LEMMA ExternalClaimStep ==
    ASSUME IInv, NEW w \in External, ClaimTask(w), UNCHANGED internalVars
    PROVE  IInv'
<1>1. PICK at \in LocalTime, t \in TaskId :
        /\ ClaimNextWithEvent(w, at, t)
        /\ held' = [held EXCEPT ![w] = @ \union withLeaseToken(t, tasks'[t])]
  BY DEF ClaimTask
<1>2. at \in Nat /\ w \in Worker
  BY LocalTimeType, ServiceAssumption DEF IInv
<1>3. StoreInv' /\ RowsAdvance /\ tasks'[t] \in Task
  BY <1>1, <1>2, ClaimStep DEF IInv
<1>4. /\ UNCHANGED <<now, calls, committed>> /\ ncalls' = ncalls + 1
  BY DEF ClaimTask
<1>5. held' \in [External -> SUBSET Token]
  BY <1>1, <1>3, TokenType DEF IInv, ServiceTypeOK
<1>6. ServiceTypeOK'
  BY <1>4, <1>5 DEF IInv, ServiceTypeOK
<1>7. InternalTypeOK'
  BY DEF IInv, InternalTypeOK, internalVars
<1>8. CopiesAreFenced'
  BY <1>3, <1>4, FencesSurvive DEF CopiesAreFenced, internalVars
<1> QED
  BY <1>3, <1>4, <1>6, <1>7, <1>8 DEF IInv

-----------------------------------------------------------------------------
(* The steps of the in-process workers, the reaper and the process.        *)

\* A claim by an in-process worker: the copy is the row it has just written.
LEMMA InternalClaimStep ==
    ASSUME IInv, NEW w \in Internal, ClaimInternal(w), UNCHANGED serviceVars
    PROVE  IInv'
<1>1. PICK at \in LocalTime, t \in TaskId :
        /\ ClaimNextWithEvent(w, at, t)
        /\ iw' = [iw EXCEPT ![w] = [pc |-> "execute", task |-> t,
                                    row |-> tasks'[t], lease |-> "ok"]]
  BY DEF ClaimInternal
<1>2. at \in Nat /\ w \in Worker
  BY LocalTimeType, InternalAssumption DEF IInv
<1>3. /\ StoreInv' /\ RowsAdvance /\ tasks'[t] \in Task
      /\ tasks'[t].status = "running" /\ tasks'[t].owner = w
  BY <1>1, <1>2, ClaimStep DEF IInv
<1> DEFINE new == [pc |-> "execute", task |-> t, row |-> tasks'[t], lease |-> "ok"]
<1>4. new \in Execution /\ new.row = tasks'[t] /\ new.task = t
  BY <1>3 DEF Execution
<1>5. iw' = [iw EXCEPT ![w] = new]
  BY <1>1
<1> HIDE DEF new
<1>6. ExecutionFenced(w, new, tasks'[new.task])
  BY <1>3, <1>4 DEF ExecutionFenced, Task
<1>7. UNCHANGED <<now, up, crashes>>
  BY DEF ClaimInternal
<1> QED
  BY <1>3, <1>4, <1>5, <1>6, <1>7, ExecutionStep DEF IInv, InternalTypeOK

\* A heartbeat that finds the lease lost, or the store broken, marks the copy.
LEMMA LeaseMarkStep ==
    ASSUME IInv, NEW w \in Internal, iw[w].pc = "execute",
           NEW lease \in {"lost", "store_error"},
           iw' = [iw EXCEPT ![w].lease = lease], UNCHANGED storeVars,
           UNCHANGED <<now, up, crashes>>, UNCHANGED serviceVars
    PROVE  IInv'
<1> DEFINE e == iw[w]
           new == [e EXCEPT !.lease = lease]
<1>1. e \in Execution /\ e.task \in TaskId
  BY ExecutionParts DEF IInv
<1>2. ExecutionFenced(w, e, tasks[e.task])
  BY DEF IInv, CopiesAreFenced
<1>3. iw' = [iw EXCEPT ![w] = new]
  OBVIOUS
<1> HIDE DEF e
<1>4. new \in Execution /\ new.row = e.row /\ new.task = e.task
  BY <1>1 DEF Execution
<1> HIDE DEF new
<1>5. StoreInv' /\ RowsAdvance /\ tasks' = tasks
  BY StoreUnchanged DEF storeVars
<1>6. ExecutionFenced(w, new, tasks'[new.task])
  BY <1>2, <1>4, <1>5 DEF ExecutionFenced
<1> QED
  BY <1>3, <1>4, <1>5, <1>6, ExecutionStep DEF IInv, InternalTypeOK

\* The heartbeat goroutine.
LEMMA MaintainStep ==
    ASSUME IInv, NEW w \in Internal, maintainLease(w), UNCHANGED serviceVars
    PROVE  IInv'
<1>1. iw[w].pc = "execute" /\ UNCHANGED <<now, up, crashes>>
  BY DEF maintainLease
<1>2. CASE \E at \in LocalTime : RenewLease(iw[w].task, w, at) /\ UNCHANGED iw
  <2>1. PICK at \in LocalTime : RenewLease(iw[w].task, w, at)
    BY <1>2
  <2>2. at \in Nat /\ iw[w].task \in TaskId
    BY <1>1, LocalTimeType, ExecutionParts DEF IInv
  <2>3. StoreInv' /\ RowsAdvance
    BY <2>1, <2>2, RenewStep DEF IInv
  <2>4. UNCHANGED internalVars
    BY <1>1, <1>2 DEF internalVars
  <2> QED
    BY <1>1, <2>3, <2>4, StoreStep DEF IInv
<1>3. CASE iw' = [iw EXCEPT ![w].lease = "lost"] /\ UNCHANGED storeVars
  BY <1>1, <1>3, LeaseMarkStep
<1>4. CASE iw' = [iw EXCEPT ![w].lease = "store_error"] /\ UNCHANGED storeVars
  BY <1>1, <1>4, LeaseMarkStep
<1> QED
  BY <1>2, <1>3, <1>4 DEF maintainLease

\* An in-process worker that passes the version check replaces a running
\* row by a copy that was made from it.
LEMMA FinishWrites ==
    ASSUME IInv, NEW w \in Internal, iw[w].pc = "execute", NEW at \in LocalTime,
           NEW o \in Endings(iw[w], at), NEW t, t = iw[w].task,
           UpdateTaskWithEvent(t, o[1], o[2])
    PROVE  /\ StoreInv' /\ RowsAdvance
           /\ t \in TaskId /\ tasks[t].status = "running"
           /\ o[1] \in Task /\ SavedFrom(o[1], tasks[t])
           /\ tasks' = [tasks EXCEPT ![t] =
                 [o[1] EXCEPT !.version = tasks[t].version + 1]]
<1>1. iw[w] \in Execution /\ t \in TaskId /\ iw[w].row \in Task /\ at \in Nat
  BY ExecutionParts, LocalTimeType DEF IInv
<1>2. tasks[t] \in Task /\ RowOK(tasks[t]) /\ StoreInv
  BY <1>1 DEF IInv, StoreInv
<1>3. Saveable(o, iw[w].row) /\ o[1].status # "running"
  BY <1>1, EndingSaveable
<1>4. Exists(t) /\ tasks[t].version = iw[w].row.version
  BY <1>3 DEF UpdateTaskWithEvent, updateTask, Saveable
<1>5. /\ tasks[t].owner = w
      /\ iw[w].row.retryCount = tasks[t].retryCount
      /\ iw[w].row.maxRetries = tasks[t].maxRetries
  BY <1>4 DEF IInv, CopiesAreFenced, ExecutionFenced
<1>6. tasks[t].status = "running"
  BY <1>2, <1>5, InternalAssumption, NoWorkerAssumption DEF RowOK
<1>7. SavedFrom(o[1], tasks[t])
  BY <1>3, <1>5 DEF Saveable, SavedFrom
<1>8. /\ o[1] \in Task /\ o[2] \in EventType /\ Announced(o[2]) = o[1].status
  BY <1>3 DEF Saveable
<1>9. RowOK(o[1]) /\ o[1].status # "absent"
  BY <1>2, <1>6, <1>7, <1>8, SavedFromOK
<1>10. SaveWithEvent(t, o[1], o[2])
  BY DEF UpdateTaskWithEvent
<1> QED
  BY <1>1, <1>2, <1>4, <1>6, <1>7, <1>8, <1>9, <1>10, SaveStep

\* Saving the result of an attempt, or stopping on a conflict.
LEMMA FinishStep ==
    ASSUME IInv, NEW w \in Internal, FinishExecution(w), UNCHANGED serviceVars
    PROVE  IInv'
<1>1. iw[w].pc = "execute" /\ UNCHANGED <<now, crashes>>
  BY DEF FinishExecution
<1>2. Polling.pc # "execute"
  BY DEF Polling
<1>3. CASE /\ \E at \in LocalTime : \E o \in Endings(iw[w], at) :
                UpdateTaskWithEvent(iw[w].task, o[1], o[2])
           /\ iw' = [iw EXCEPT ![w] = Polling]
           /\ UNCHANGED up
  <2>1. StoreInv' /\ RowsAdvance
    BY <1>1, <1>3, FinishWrites
  <2> QED
    BY <1>1, <1>2, <1>3, <2>1, ExecutionStep DEF IInv, InternalTypeOK
<1>4. CASE /\ iw' = [v \in Internal |-> Polling] /\ up' = FALSE /\ UNCHANGED storeVars
  <2>1. StoreInv' /\ RowsAdvance
    BY <1>4, StoreUnchanged
  <2>2. InternalTypeOK' /\ ServiceTypeOK'
    BY <1>1, <1>4 DEF IInv, InternalTypeOK, ServiceTypeOK, serviceVars
  <2>3. CopiesAreFenced'
    BY <1>2, <1>4, <2>1, FencesSurvive DEF CopiesAreFenced, serviceVars
  <2> QED
    BY <1>1, <2>1, <2>2, <2>3 DEF IInv
<1> QED
  BY <1>3, <1>4 DEF FinishExecution

\* Dropping an attempt whose lease was lost.
LEMMA AbandonStep ==
    ASSUME IInv, NEW w \in Internal, AbandonExecution(w), UNCHANGED serviceVars
    PROVE  IInv'
<1>1. StoreInv' /\ RowsAdvance
  BY StoreUnchanged DEF AbandonExecution
<1>2. Polling.pc # "execute"
  BY DEF Polling
<1> QED
  BY <1>1, <1>2, ExecutionStep DEF AbandonExecution, IInv, InternalTypeOK

\* A crash ends all executions and all calls.
LEMMA CrashStep ==
    ASSUME IInv, CrashProcess
    PROVE  IInv'
<1>1. /\ iw' = [w \in Internal |-> Polling] /\ calls' = [h \in Handler |-> Idle]
      /\ up' = FALSE /\ crashes' = crashes + 1 /\ now' = now
      /\ UNCHANGED storeVars /\ UNCHANGED <<held, ncalls, committed>>
  BY DEF CrashProcess, Crash
<1>2. StoreInv'
  BY <1>1, StoreUnchanged
<1>3. Polling.pc # "execute" /\ Idle.pc = "idle"
  BY DEF Polling, Idle
<1>4. ServiceTypeOK' /\ InternalTypeOK'
  <2>1. ServiceTypeOK'
    BY <1>1, <1>3 DEF IInv, ServiceTypeOK
  <2>2. InternalTypeOK'
    <3>1. up' \in BOOLEAN
      BY <1>1
    <3>2. crashes' \in Nat
      BY <1>1 DEF IInv, InternalTypeOK
    <3> QED
      BY <1>1, <3>1, <3>2 DEF InternalTypeOK
  <2> QED
    BY <2>1, <2>2
<1>5. CopiesAreFenced'
  BY <1>1, <1>3 DEF CopiesAreFenced
<1> QED
  BY <1>1, <1>2, <1>4, <1>5 DEF IInv

\* The process comes back with what the database holds.
LEMMA RestartStep ==
    ASSUME IInv, RestartProcess
    PROVE  IInv'
<1>1. /\ UNCHANGED storeVars /\ now' = now /\ iw' = iw /\ crashes' = crashes
      /\ up' = TRUE /\ UNCHANGED serviceVars
  BY DEF RestartProcess, Restart
<1>2. StoreInv' /\ RowsAdvance
  BY <1>1, StoreUnchanged
<1>3. ServiceTypeOK' /\ InternalTypeOK'
  <2>1. up' \in BOOLEAN
    BY <1>1
  <2>2. InternalTypeOK'
    BY <1>1, <2>1, Zenon DEF IInv, InternalTypeOK
  <2> QED
    BY <1>1, <2>2 DEF IInv, ServiceTypeOK, serviceVars
<1>4. CopiesAreFenced'
  BY <1>1, <1>2, FencesSurvive DEF CopiesAreFenced, serviceVars
<1> QED
  BY <1>1, <1>2, <1>3, <1>4 DEF IInv

-----------------------------------------------------------------------------
(* The invariant.                                                          *)

\* The empty store, no calls and no executions satisfy the invariant.
LEMMA InitInv == Init => IInv
<1> SUFFICES ASSUME Init PROVE IInv
  OBVIOUS
<1>1. StoreInv /\ now \in Nat
  <2>1. /\ tasks = [t \in TaskId |-> NoTask] /\ events = [t \in TaskId |-> <<>>]
        /\ granted = [t \in TaskId |-> NoTime] /\ now = 0
    BY DEF Init, StoreInit
  <2>2. TrailMatches(NoTask, <<>>)
    BY NoTaskType DEF TrailMatches
  <2> QED
    BY <2>1, <2>2, NoTaskType, NoTimeFacts DEF StoreInv
<1>2. Polling.pc # "execute" /\ Idle.pc = "idle"
  BY DEF Polling, Idle
<1>3. ServiceTypeOK /\ InternalTypeOK
  BY <1>2 DEF Init, ServiceInit, InternalInit, ServiceTypeOK, InternalTypeOK
<1>4. CopiesAreFenced
  BY <1>2 DEF Init, ServiceInit, InternalInit, CopiesAreFenced
<1> QED
  BY <1>1, <1>3, <1>4 DEF IInv

\* A step of a handler keeps the invariant.
LEMMA ServeStep ==
    ASSUME IInv, NEW h \in Handler, Serve(h)
    PROVE  IInv'
BY ReplayStep, ValidateStep, PrepareStep, CommitStep, RenewCallStep, RereadStep,
   RespondStep DEF Serve, HandlerStep

\* Every step keeps the invariant.
LEMMA NextInv == IInv /\ [Next]_vars => IInv'
<1> SUFFICES ASSUME IInv, [Next]_vars PROVE IInv'
  OBVIOUS
<1>1. ASSUME NEW t \in TaskId, CreateTask(t) PROVE IInv'
  <2>1. PICK at \in LocalTime : CreateTaskWithEvent(t, at)
    BY <1>1 DEF CreateTask
  <2>2. StoreInv' /\ RowsAdvance
    BY <2>1, LocalTimeType, CreateStep DEF IInv
  <2> QED
    BY <1>1, <2>2, StoreStep DEF CreateTask, IInv
<1>2. ASSUME NEW t \in TaskId, CancelTask(t) PROVE IInv'
  BY <1>2, CancelStep, StoreStep DEF CancelTask, IInv
<1>3. ASSUME NEW w \in External, ExternalClaim(w) PROVE IInv'
  BY <1>3, ExternalClaimStep DEF ExternalClaim
<1>4. ASSUME NEW h \in Handler, NEW w \in External, ExternalSend(h, w) PROVE IInv'
  BY <1>4, SendStep DEF ExternalSend
<1>5. ASSUME NEW h \in Handler, Serve(h) PROVE IInv'
  BY <1>5, ServeStep
<1>6. ASSUME NEW w \in Internal, InternalStep(w) PROVE IInv'
  BY <1>6, InternalClaimStep, MaintainStep, FinishStep, AbandonStep DEF InternalStep
<1>7. CASE ReaperStep
  <2>1. PICK at \in LocalTime, t \in TaskId : FailNextExpiredWithEvent(at, t)
    BY <1>7 DEF ReaperStep, Reap
  <2>2. StoreInv' /\ RowsAdvance
    BY <2>1, LocalTimeType, ReapStep DEF IInv
  <2>3. UNCHANGED internalVars /\ UNCHANGED serviceVars /\ now' = now
    BY <1>7 DEF ReaperStep, Reap, internalVars
  <2> QED
    BY <2>2, <2>3, StoreStep DEF IInv
<1>8. CASE CrashProcess
  BY <1>8, CrashStep
<1>9. CASE RestartProcess
  BY <1>9, RestartStep
<1>10. CASE Tick
  <2>1. StoreInv' /\ RowsAdvance
    BY <1>10, StoreUnchanged DEF Tick
  <2>2. now' \in Nat
    BY <1>10 DEF Tick, IInv
  <2> QED
    BY <1>10, <2>1, <2>2, StoreStep DEF Tick
<1>11. CASE UNCHANGED vars
  <2>1. StoreInv' /\ RowsAdvance
    BY <1>11, StoreUnchanged DEF vars
  <2> QED
    BY <1>11, <2>1, StoreStep DEF vars, IInv
<1> QED
  BY <1>1, <1>2, <1>3, <1>4, <1>5, <1>6, <1>7, <1>8, <1>9, <1>10, <1>11 DEF Next

\* The inductive invariant holds in every reachable state.
THEOREM InductiveInvariant == Spec => []IInv
BY InitInv, NextInv, PTL DEF Spec

\* Every variable keeps its type: rows, trails, calls, tokens and copies
\* stay within what the code can represent.
THEOREM TypeCorrect == Spec => []TypeOK
<1>1. IInv => TypeOK
  BY DEF IInv, StoreInv, TypeOK, StoreTypeOK
<1> QED
  BY <1>1, InductiveInvariant, PTL

\* A row has a lease exactly while it is running, for any number of tasks,
\* workers, handlers and processes (MoveTo, RequeueForRelease, renewals).
THEOREM LeaseSafety == Spec => []LeaseIffRunning
<1>1. IInv => LeaseIffRunning
  BY DEF IInv, StoreInv, RowOK, LeaseIffRunning
<1> QED
  BY <1>1, InductiveInvariant, PTL

\* Retries and recoveries never pass max_retries.
THEOREM RetryBudget == Spec => []RetryBudgetRespected
<1>1. IInv => RetryBudgetRespected
  BY DEF IInv, StoreInv, RowOK, RetryBudgetRespected
<1> QED
  BY <1>1, InductiveInvariant, PTL

\* One event per version of a row, and the last one tells its status.
THEOREM AuditTrail == Spec => []AuditTrailMatches
<1>1. IInv => AuditTrailMatches
  BY DEF IInv, StoreInv, AuditTrailMatches
<1> QED
  BY <1>1, InductiveInvariant, PTL

\* A copy of a row whose version is current was made from the row as it is.
THEOREM Fencing == Spec => []CopiesAreFenced
<1>1. IInv => CopiesAreFenced
  BY DEF IInv
<1> QED
  BY <1>1, InductiveInvariant, PTL

-----------------------------------------------------------------------------
(* ControlPlane implements TaskLifecycle.  The mapping forgets the clock,  *)
(* the versions, the copies, the calls in flight and the audit trail; a    *)
(* step then is one transition of one task, or nothing.  The fences of     *)
(* IInv are what makes the save of an old copy a transition of the task as *)
(* it is now.                                                              *)

LifecycleStep == Lifecycle!Next \/ UNCHANGED Lifecycle!lifecycleVars

EndedStays ==
    \A t \in TaskId : tasks[t].status \in terminalStatuses =>
      tasks'[t] = tasks[t] /\ events'[t] = events[t]

\* A step that leaves the mapped fields of every row alone maps to a stutter.
LEMMA MappedUnchanged ==
    ASSUME StoreInv, StoreInv',
           \A u \in TaskId : /\ tasks'[u].status = tasks[u].status
                             /\ tasks'[u].owner = tasks[u].owner
                             /\ tasks'[u].retryCount = tasks[u].retryCount
                             /\ tasks'[u].maxRetries = tasks[u].maxRetries
    PROVE  LifecycleStep
BY DEF LifecycleStep, Lifecycle!lifecycleVars

\* A write of one row that is a transition maps to a step of the lifecycle.
LEMMA TransitionStep ==
    ASSUME StoreInv, StoreInv', NEW t \in TaskId, NEW b \in Task,
           tasks' = [tasks EXCEPT ![t] = b], Transition(tasks[t], b)
    PROVE  LifecycleStep
<1> DEFINE a == tasks[t]
<1>1. /\ [u \in TaskId |-> tasks[u].status]' =
           [[u \in TaskId |-> tasks[u].status] EXCEPT ![t] = b.status]
      /\ [u \in TaskId |-> tasks[u].owner]' =
           [[u \in TaskId |-> tasks[u].owner] EXCEPT ![t] = b.owner]
      /\ [u \in TaskId |-> tasks[u].retryCount]' =
           [[u \in TaskId |-> tasks[u].retryCount] EXCEPT ![t] = b.retryCount]
      /\ [u \in TaskId |-> tasks[u].maxRetries]' = [u \in TaskId |-> tasks[u].maxRetries]
  BY DEF StoreInv, Transition
<1>2. CASE /\ a.status \in {"queued", "retrying"} /\ b.status = "running"
           /\ b.owner \in Worker /\ b.retryCount = a.retryCount
  <2>1. Lifecycle!Start(t, b.owner)
    BY <1>1, <1>2 DEF Lifecycle!Start, Lifecycle!Become
  <2> QED
    BY <1>2, <2>1 DEF LifecycleStep, Lifecycle!Next
<1>3. CASE /\ a.status = "running" /\ a.retryCount < a.maxRetries
           /\ b.status = "running" /\ b.owner \in Worker
           /\ b.retryCount = a.retryCount + 1
  <2>1. Lifecycle!Recover(t, b.owner)
    BY <1>1, <1>3 DEF Lifecycle!Recover, Lifecycle!Charge, Lifecycle!Become
  <2> QED
    BY <1>3, <2>1 DEF LifecycleStep, Lifecycle!Next
<1>4. CASE /\ a.status = "running" /\ a.retryCount < a.maxRetries
           /\ b.status = "retrying" /\ b.owner = NoWorker
           /\ b.retryCount = a.retryCount + 1
  <2>1. Lifecycle!Retry(t)
    BY <1>1, <1>4 DEF Lifecycle!Retry, Lifecycle!Charge, Lifecycle!Become
  <2> QED
    BY <2>1 DEF LifecycleStep, Lifecycle!Next
<1>5. CASE /\ a.status = "running"
           /\ b.status \in {"succeeded", "partially_succeeded", "failed", "queued"}
           /\ b.owner = NoWorker /\ b.retryCount = a.retryCount
  <2>1. CASE b.status = "queued"
    <3>1. Lifecycle!Release(t)
      BY <1>1, <1>5, <2>1 DEF Lifecycle!Release, Lifecycle!Become
    <3> QED
      BY <3>1 DEF LifecycleStep, Lifecycle!Next
  <2>2. CASE b.status # "queued"
    <3>1. b.status \in Lifecycle!Ended \ {"canceled"}
      BY <1>5, <2>2 DEF Lifecycle!Ended
    <3>2. Lifecycle!Finish(t, b.status)
      BY <1>1, <1>5 DEF Lifecycle!Finish, Lifecycle!Become
    <3> QED
      BY <3>1, <3>2 DEF LifecycleStep, Lifecycle!Next
  <2> QED
    BY <2>1, <2>2
<1>6. CASE /\ a.status \in {"queued", "retrying", "running"}
           /\ b.status = "canceled" /\ b.owner = NoWorker /\ b.retryCount = a.retryCount
  <2>1. Lifecycle!Cancel(t)
    BY <1>1, <1>6 DEF Lifecycle!Cancel, Lifecycle!Become
  <2> QED
    BY <2>1 DEF LifecycleStep, Lifecycle!Next
<1>7. CASE b.status = a.status /\ b.owner = a.owner /\ b.retryCount = a.retryCount
  BY <1>1, <1>7 DEF LifecycleStep, Lifecycle!lifecycleVars
<1> QED
  BY <1>2, <1>3, <1>4, <1>5, <1>6, <1>7 DEF Transition

-----------------------------------------------------------------------------
(* The writes.                                                             *)

\* A save in place of a row that has not ended, when the new row is a
\* transition of the old one.
LEMMA SaveLegal ==
    ASSUME StoreInv, StoreInv', NEW t \in TaskId, NEW row \in Task, NEW event,
           SaveWithEvent(t, row, event), tasks[t].status \notin terminalStatuses,
           Transition(tasks[t], row)
    PROVE  LifecycleStep /\ EndedStays
<1> DEFINE b == [row EXCEPT !.version = tasks[t].version + 1]
<1>1. tasks' = [tasks EXCEPT ![t] = b]
  BY DEF SaveWithEvent
<1>2. b \in Task
  BY <1>1 DEF StoreInv
<1>3. /\ b.status = row.status /\ b.owner = row.owner
      /\ b.retryCount = row.retryCount /\ b.maxRetries = row.maxRetries
  BY DEF Task
<1> HIDE DEF b
<1>4. Transition(tasks[t], b)
  BY <1>3 DEF Transition
<1>5. LifecycleStep
  BY <1>1, <1>2, <1>4, TransitionStep
<1>6. EndedStays
  BY <1>1 DEF EndedStays, SaveWithEvent, StoreInv
<1> QED
  BY <1>5, <1>6

\* A claim starts a waiting task or takes an expired one over.
LEMMA ClaimLegal ==
    ASSUME StoreInv, NEW w \in Worker, NEW at \in Nat, NEW t \in TaskId,
           ClaimNextWithEvent(w, at, t)
    PROVE  LifecycleStep /\ EndedStays
<1> DEFINE row == Claimed(tasks[t], w, at)
<1>1. tasks[t] \in Task
  BY DEF StoreInv
<1>2. /\ row \in Task /\ row.status = "running" /\ row.owner = w
      /\ row.maxRetries = tasks[t].maxRetries
      /\ tasks[t].status = "running" => row.retryCount = tasks[t].retryCount + 1
      /\ tasks[t].status # "running" => row.retryCount = tasks[t].retryCount
  BY <1>1, ClaimedType
<1>3. SaveWithEvent(t, row, ClaimedEvent(tasks[t]))
  BY DEF ClaimNextWithEvent
<1>4. StoreInv'
  BY ClaimStep
<1> HIDE DEF row
<1>5. \/ tasks[t].status = "running" /\ tasks[t].retryCount < tasks[t].maxRetries
      \/ tasks[t].status \in {"queued", "retrying"}
  BY ClaimableRows
<1>6. Transition(tasks[t], row)
  <2>1. CASE tasks[t].status = "running" /\ tasks[t].retryCount < tasks[t].maxRetries
    BY <1>2, <2>1 DEF Transition
  <2>2. CASE tasks[t].status \in {"queued", "retrying"}
    BY <1>2, <2>2 DEF Transition
  <2> QED
    BY <1>5, <2>1, <2>2
<1>7. tasks[t].status \notin terminalStatuses
  BY <1>5, NotEnded
<1> QED
  BY <1>2, <1>3, <1>4, <1>6, <1>7, SaveLegal

\* The reaper finishes a running task.
LEMMA ReapLegal ==
    ASSUME StoreInv, NEW at \in Nat, NEW t \in TaskId, FailNextExpiredWithEvent(at, t)
    PROVE  LifecycleStep /\ EndedStays
<1> DEFINE moved == MoveTo(tasks[t], "failed")
           row == [moved EXCEPT !.err = LeaseExpiredError]
<1>1. tasks[t] \in Task /\ "failed" \in Status /\ "failed" # "running"
  BY DEF StoreInv, Status
<1>2. /\ moved \in Task /\ moved.status = "failed" /\ moved.owner = NoWorker
      /\ moved.retryCount = tasks[t].retryCount /\ moved.maxRetries = tasks[t].maxRetries
  BY <1>1, MoveToType
<1>3. LeaseExpiredError \in ErrorMessage
  BY DEF LeaseExpiredError, ErrorMessage
<1>4. SaveWithEvent(t, row, "task_failed") /\ tasks[t].status = "running"
  BY DEF FailNextExpiredWithEvent, FirstUnlocked, Exhausted, Expired
<1> HIDE DEF moved
<1>5. row \in Task
  BY <1>2, <1>3, Zenon DEF Task
<1>6. /\ row.status = moved.status /\ row.owner = moved.owner
      /\ row.retryCount = moved.retryCount /\ row.maxRetries = moved.maxRetries
  BY <1>2 DEF Task
<1> HIDE DEF row
<1>7. Transition(tasks[t], row)
  BY <1>2, <1>4, <1>6 DEF Transition
<1>8. StoreInv' /\ tasks[t].status \notin terminalStatuses
  BY <1>4, ReapStep, NotEnded
<1> QED
  BY <1>4, <1>5, <1>7, <1>8, SaveLegal

\* A cancellation.
LEMMA CancelLegal ==
    ASSUME StoreInv, NEW t \in TaskId, CancelTaskWithEvent(t)
    PROVE  LifecycleStep /\ EndedStays
<1> DEFINE row == MoveTo(tasks[t], "canceled")
<1>1. tasks[t] \in Task /\ "canceled" \in Status /\ "canceled" # "running"
  BY DEF StoreInv, Status
<1>2. /\ row \in Task /\ row.status = "canceled" /\ row.owner = NoWorker
      /\ row.retryCount = tasks[t].retryCount /\ row.maxRetries = tasks[t].maxRetries
  BY <1>1, MoveToType
<1>3. /\ SaveWithEvent(t, row, "task_canceled")
      /\ tasks[t].status \in {"queued", "retrying", "running"}
  BY DEF CancelTaskWithEvent, Cancelable
<1> HIDE DEF row
<1>4. Transition(tasks[t], row)
  BY <1>2, <1>3 DEF Transition
<1>5. StoreInv' /\ tasks[t].status \notin terminalStatuses
  BY <1>3, CancelStep, NotEnded
<1> QED
  BY <1>2, <1>3, <1>4, <1>5, SaveLegal

\* A creation.
LEMMA CreateLegal ==
    ASSUME StoreInv, NEW t \in TaskId, NEW at \in Nat, CreateTaskWithEvent(t, at)
    PROVE  LifecycleStep /\ EndedStays
<1>1. PICK m \in MaxRetriesOf :
        /\ tasks' = [tasks EXCEPT ![t] = NewTask(m, at)]
        /\ events' = [events EXCEPT ![t] = Append(events[t], "task_created")]
  BY DEF CreateTaskWithEvent
<1> DEFINE new == NewTask(m, at)
<1>2. /\ new \in Task /\ new.status = "queued" /\ new.retryCount = 0
      /\ new.maxRetries = m /\ new.owner = NoWorker
  BY StoreAssumption, NewTaskType
<1>3. tasks' = [tasks EXCEPT ![t] = new] /\ tasks[t].status = "absent"
  BY <1>1 DEF CreateTaskWithEvent, Exists
<1> HIDE DEF new
<1>4. EndedStays
  BY <1>1, <1>3, NotEnded DEF EndedStays, StoreInv
<1>5. tasks[t].retryCount = 0
  BY <1>3 DEF StoreInv, RowOK
<1>6. /\ [u \in TaskId |-> tasks[u].status]' =
           [[u \in TaskId |-> tasks[u].status] EXCEPT ![t] = "queued"]
      /\ [u \in TaskId |-> tasks[u].owner]' =
           [[u \in TaskId |-> tasks[u].owner] EXCEPT ![t] = NoWorker]
      /\ [u \in TaskId |-> tasks[u].maxRetries]' =
           [[u \in TaskId |-> tasks[u].maxRetries] EXCEPT ![t] = m]
      /\ [u \in TaskId |-> tasks[u].retryCount]' = [u \in TaskId |-> tasks[u].retryCount]
  BY <1>2, <1>3, <1>5 DEF StoreInv
<1>7. Lifecycle!Create(t)
  BY <1>3, <1>6 DEF Lifecycle!Create, Lifecycle!Become
<1> QED
  BY <1>4, <1>7 DEF LifecycleStep, Lifecycle!Next

\* A renewal maps to a stutter.
LEMMA RenewLegal ==
    ASSUME StoreInv, NEW t \in TaskId, NEW w, NEW at \in Nat, RenewLease(t, w, at)
    PROVE  LifecycleStep /\ EndedStays
<1> DEFINE new == [tasks[t] EXCEPT !.leaseExp = at + LeaseDuration]
<1>1. tasks' = [tasks EXCEPT ![t] = new] /\ events' = events /\ tasks[t].status = "running"
  BY DEF RenewLease, Renewable
<1>2. tasks[t] \in Task
  BY DEF StoreInv
<1>3. /\ new.status = tasks[t].status /\ new.owner = tasks[t].owner
      /\ new.retryCount = tasks[t].retryCount /\ new.maxRetries = tasks[t].maxRetries
  BY <1>2 DEF Task
<1> HIDE DEF new
<1>4. LifecycleStep
  BY <1>1, <1>3, RenewStep, MappedUnchanged DEF StoreInv
<1>5. EndedStays
  BY <1>1, NotEnded DEF EndedStays, StoreInv
<1> QED
  BY <1>4, <1>5

\* A step that leaves the store alone maps to a stutter.
LEMMA UnchangedLegal ==
    ASSUME StoreInv, UNCHANGED storeVars
    PROVE  LifecycleStep /\ EndedStays
<1>1. tasks' = tasks /\ events' = events /\ granted' = granted
  BY DEF storeVars
<1>2. StoreInv'
  BY <1>1 DEF StoreInv
<1> QED
  BY <1>1, <1>2, MappedUnchanged DEF EndedStays

-----------------------------------------------------------------------------
(* The actions.                                                            *)

\* A handler changes the store only when it commits or renews.
LEMMA ServeLegal ==
    ASSUME IInv, NEW h \in Handler, HandlerStep(h)
    PROVE  LifecycleStep /\ EndedStays
<1> DEFINE c == calls[h]
           t == c.req.tok.task
<1>0. StoreInv
  BY DEF IInv
<1>1. CASE Commit(h)
  <2>1. CASE UpdateTaskWithEvent(t, c.row, c.event)
    <3>1. c.pc = "commit" /\ SaveWithEvent(t, c.row, c.event)
      BY <1>1, <2>1 DEF Commit, UpdateTaskWithEvent
    <3>2. /\ StoreInv' /\ t \in TaskId /\ tasks[t].status = "running"
          /\ c.row \in Task /\ SavedFrom(c.row, tasks[t])
      BY <2>1, <3>1, CommitWrites
    <3>3. tasks[t] \in Task /\ tasks[t].status \notin terminalStatuses
      BY <1>0, <3>2, NotEnded DEF StoreInv
    <3>4. Transition(tasks[t], c.row)
      BY <3>2, <3>3, SavedIsTransition
    <3> QED
      BY <1>0, <3>1, <3>2, <3>3, <3>4, SaveLegal
  <2>2. CASE UNCHANGED storeVars
    BY <1>0, <2>2, UnchangedLegal
  <2> QED
    BY <1>1, <2>1, <2>2 DEF Commit
<1>2. CASE Renew(h)
  <2>1. CASE RenewLease(t, c.req.worker, c.at)
    <3>1. c.pc # "idle"
      BY <1>2 DEF Renew
    <3>2. t \in TaskId /\ c.at \in Nat
      BY <3>1, CallParts DEF IInv
    <3> QED
      BY <1>0, <2>1, <3>2, RenewLegal
  <2>2. CASE UNCHANGED storeVars
    BY <1>0, <2>2, UnchangedLegal
  <2> QED
    BY <1>2, <2>1, <2>2 DEF Renew
<1>3. CASE ~Commit(h) /\ ~Renew(h)
  <2>1. UNCHANGED storeVars
    BY <1>3 DEF HandlerStep, replayWorkerOperation, validateLeaseToken,
                prepareRunningTask, Reread, Respond
  <2> QED
    BY <1>0, <2>1, UnchangedLegal
<1> QED
  BY <1>1, <1>2, <1>3

\* An in-process worker claims, renews and saves.
LEMMA InternalLegal ==
    ASSUME IInv, NEW w \in Internal, InternalStep(w)
    PROVE  LifecycleStep /\ EndedStays
<1>0. StoreInv /\ w \in Worker
  BY InternalAssumption DEF IInv
<1>1. CASE ClaimInternal(w)
  <2>1. PICK at \in LocalTime, t \in TaskId : ClaimNextWithEvent(w, at, t)
    BY <1>1 DEF ClaimInternal
  <2>2. at \in Nat
    BY LocalTimeType DEF IInv
  <2> QED
    BY <1>0, <2>1, <2>2, ClaimLegal
<1>2. CASE maintainLease(w)
  <2>1. iw[w].pc = "execute"
    BY <1>2 DEF maintainLease
  <2>2. iw[w].task \in TaskId
    BY <2>1, ExecutionParts DEF IInv
  <2>3. CASE \E at \in LocalTime : RenewLease(iw[w].task, w, at)
    <3>1. PICK at \in LocalTime : RenewLease(iw[w].task, w, at)
      BY <2>3
    <3>2. at \in Nat
      BY LocalTimeType DEF IInv
    <3> QED
      BY <1>0, <2>2, <3>1, <3>2, RenewLegal
  <2>4. CASE UNCHANGED storeVars
    BY <1>0, <2>4, UnchangedLegal
  <2> QED
    BY <1>2, <2>3, <2>4 DEF maintainLease
<1>3. CASE FinishExecution(w)
  <2> DEFINE t == iw[w].task
  <2>1. CASE \E at \in LocalTime : \E o \in Endings(iw[w], at) :
               UpdateTaskWithEvent(t, o[1], o[2])
    <3>1. iw[w].pc = "execute"
      BY <1>3 DEF FinishExecution
    <3>2. PICK at \in LocalTime : \E o \in Endings(iw[w], at) :
            UpdateTaskWithEvent(t, o[1], o[2])
      BY <2>1
    <3>3. PICK o \in Endings(iw[w], at) : UpdateTaskWithEvent(t, o[1], o[2])
      BY <3>2
    <3>4. /\ StoreInv' /\ t \in TaskId /\ tasks[t].status = "running"
          /\ o[1] \in Task /\ SavedFrom(o[1], tasks[t])
      BY <3>1, <3>3, FinishWrites
    <3>5. tasks[t] \in Task /\ tasks[t].status \notin terminalStatuses
      BY <1>0, <3>4, NotEnded DEF StoreInv
    <3>6. Transition(tasks[t], o[1])
      BY <3>4, <3>5, SavedIsTransition
    <3>7. SaveWithEvent(t, o[1], o[2])
      BY <3>3 DEF UpdateTaskWithEvent
    <3> QED
      BY <1>0, <3>4, <3>5, <3>6, <3>7, SaveLegal
  <2>2. CASE UNCHANGED storeVars
    BY <1>0, <2>2, UnchangedLegal
  <2> QED
    BY <1>3, <2>1, <2>2 DEF FinishExecution
<1>4. CASE AbandonExecution(w)
  BY <1>0, <1>4, UnchangedLegal DEF AbandonExecution
<1> QED
  BY <1>1, <1>2, <1>3, <1>4 DEF InternalStep

\* Every step of the system is a step of the lifecycle or a stutter, and
\* leaves ended tasks alone.
LEMMA NextLegal ==
    ASSUME IInv, [Next]_vars
    PROVE  LifecycleStep /\ EndedStays
<1>0. StoreInv
  BY DEF IInv
<1>1. ASSUME NEW t \in TaskId, CreateTask(t) PROVE LifecycleStep /\ EndedStays
  <2>1. PICK at \in LocalTime : CreateTaskWithEvent(t, at)
    BY <1>1 DEF CreateTask
  <2>2. at \in Nat
    BY LocalTimeType DEF IInv
  <2> QED
    BY <1>0, <2>1, <2>2, CreateLegal
<1>2. ASSUME NEW t \in TaskId, CancelTask(t) PROVE LifecycleStep /\ EndedStays
  BY <1>0, <1>2, CancelLegal DEF CancelTask
<1>3. ASSUME NEW w \in External, ExternalClaim(w) PROVE LifecycleStep /\ EndedStays
  <2>1. PICK at \in LocalTime, t \in TaskId : ClaimNextWithEvent(w, at, t)
    BY <1>3 DEF ExternalClaim, ClaimTask
  <2>2. at \in Nat /\ w \in Worker
    BY LocalTimeType, ServiceAssumption DEF IInv
  <2> QED
    BY <1>0, <2>1, <2>2, ClaimLegal
<1>4. ASSUME NEW h \in Handler, NEW w \in External, ExternalSend(h, w)
      PROVE  LifecycleStep /\ EndedStays
  BY <1>0, <1>4, UnchangedLegal DEF ExternalSend, Send
<1>5. ASSUME NEW h \in Handler, Serve(h) PROVE LifecycleStep /\ EndedStays
  BY <1>5, ServeLegal DEF Serve
<1>6. ASSUME NEW w \in Internal, InternalStep(w) PROVE LifecycleStep /\ EndedStays
  BY <1>6, InternalLegal
<1>7. CASE ReaperStep
  <2>1. PICK at \in LocalTime, t \in TaskId : FailNextExpiredWithEvent(at, t)
    BY <1>7 DEF ReaperStep, Reap
  <2>2. at \in Nat
    BY LocalTimeType DEF IInv
  <2> QED
    BY <1>0, <2>1, <2>2, ReapLegal
<1>8. CASE CrashProcess
  BY <1>0, <1>8, UnchangedLegal DEF CrashProcess, Crash
<1>9. CASE RestartProcess
  BY <1>0, <1>9, UnchangedLegal DEF RestartProcess, Restart
<1>10. CASE Tick
  BY <1>0, <1>10, UnchangedLegal DEF Tick
<1>11. CASE UNCHANGED vars
  BY <1>0, <1>11, UnchangedLegal DEF vars
<1> QED
  BY <1>1, <1>2, <1>3, <1>4, <1>5, <1>6, <1>7, <1>8, <1>9, <1>10, <1>11 DEF Next

\* A task that has ended stays as it is, row and audit trail, whatever late
\* call, renewal, claim, save or cancellation arrives.
THEOREM EndedTasksAreFinal == Spec => EndedIsFinal
<1>1. IInv /\ [Next]_vars =>
        [\A t \in TaskId : tasks[t].status \in terminalStatuses =>
           tasks'[t] = tasks[t] /\ events'[t] = events[t]]_vars
  BY NextLegal DEF EndedStays
<1> QED
  BY <1>1, InductiveInvariant, PTL DEF Spec, EndedIsFinal

\* The system implements the atomic task lifecycle: split reads and writes,
\* stale copies, crashes, replays and takeovers are invisible in it.
THEOREM Refinement == Spec => ImplementsLifecycle
<1>1. Init => Lifecycle!Init
  BY NoTaskType DEF Init, StoreInit, Lifecycle!Init, NoTask
<1>2. IInv /\ [Next]_vars => [Lifecycle!Next]_(Lifecycle!lifecycleVars)
  BY NextLegal DEF LifecycleStep
<1> QED
  BY <1>1, <1>2, InductiveInvariant, PTL DEF Spec, ImplementsLifecycle, Lifecycle!Spec

-----------------------------------------------------------------------------
(* The leases of the in-process workers.  Handlers write rows of external  *)
(* workers only, by the fences; an in-process worker renews with a clock   *)
(* reading of the step itself and never saves a running row.  So the       *)
(* stored expiry is the one granted last.                                  *)

\* What holds of a row and of the expiry granted to its holder last.
Covered(row, grant) ==
    row.status = "running" /\ row.owner \in Internal => grant = row.leaseExp

LeasesCovered == \A t \in TaskId : Covered(tasks[t], granted[t])

\* A row is taken from its holder, by a claim or by the reaper.
TakenAway(a, b) ==
    \/ b.status = "running" /\ b.retryCount > a.retryCount
    \/ b.status = "failed" /\ b.err = LeaseExpiredError

Honored(t) ==
    /\ tasks[t].status = "running" /\ tasks[t].owner \in Internal
    /\ TakenAway(tasks[t], tasks'[t])
    => granted[t] <= now + Skew

LeasesHonored == \A t \in TaskId : Honored(t)

\* A row of an external worker, and one that waits or has ended, is covered.
LEMMA OthersCovered ==
    ASSUME NEW row, NEW grant, row.status # "running" \/ row.owner \notin Internal
    PROVE  Covered(row, grant)
BY DEF Covered

\* The time a clock may read.
LEMMA ClockReads ==
    ASSUME now \in Nat, NEW at \in LocalTime
    PROVE  at \in Nat /\ now <= at + Skew /\ at <= now + Skew
BY StoreAssumption DEF LocalTime

\* A step that writes one row.
LEMMA OneRowCovered ==
    ASSUME StoreInv, LeasesCovered, now' = now, NEW t \in TaskId, NEW row, NEW grant,
           tasks' = [tasks EXCEPT ![t] = row],
           granted' = [granted EXCEPT ![t] = grant],
           Covered(row, grant), Honored(t)
    PROVE  LeasesCovered' /\ LeasesHonored
<1>1. tasks'[t] = row /\ granted'[t] = grant
  BY DEF StoreInv
<1>2. ASSUME NEW u \in TaskId, u # t
      PROVE  tasks'[u] = tasks[u] /\ granted'[u] = granted[u]
  BY <1>2 DEF StoreInv
<1>3. LeasesCovered'
  BY <1>1, <1>2 DEF LeasesCovered, Covered
<1>4. ASSUME NEW u \in TaskId, u # t
      PROVE  Honored(u)
  <2>1. tasks[u].retryCount \in Nat /\ tasks'[u] = tasks[u]
    BY <1>2, <1>4 DEF StoreInv, Task
  <2>2. tasks[u].status = "running" => ~TakenAway(tasks[u], tasks'[u])
    BY <2>1 DEF TakenAway
  <2> QED
    BY <2>2 DEF Honored
<1> QED
  BY <1>3, <1>4 DEF LeasesHonored

\* A save of a row that is not running.
LEMMA GivenUpCovered ==
    ASSUME StoreInv, StoreInv', LeasesCovered, now' = now, NEW t \in TaskId,
           NEW row \in Task, NEW event, SaveWithEvent(t, row, event),
           row.status # "running", Honored(t)
    PROVE  LeasesCovered' /\ LeasesHonored
<1> DEFINE new == [row EXCEPT !.version = tasks[t].version + 1]
<1>1. tasks' = [tasks EXCEPT ![t] = new]
  BY DEF SaveWithEvent
<1>2. granted' = [granted EXCEPT ![t] = NoTime]
  BY DEF SaveWithEvent
<1>3. new.status = row.status
  BY DEF Task
<1> HIDE DEF new
<1>4. Covered(new, NoTime)
  BY <1>3, OthersCovered
<1> QED
  BY <1>1, <1>2, <1>4, OneRowCovered

\* An expired lease of an in-process worker has run out for good.
LEMMA ExpiredIsOver ==
    ASSUME StoreInv, LeasesCovered, now \in Nat, NEW at \in LocalTime,
           NEW t \in TaskId, tasks[t].leaseExp <= at
    PROVE  Honored(t)
<1>1. PICK lease, grant : lease = tasks[t].leaseExp /\ grant = granted[t]
  OBVIOUS
<1>2. lease \in Int /\ grant \in Int /\ Skew \in Nat
  BY <1>1, StoreAssumption DEF StoreInv, Task
<1>3. at \in Nat /\ at <= now + Skew /\ lease <= at
  BY <1>1, ClockReads
<1>4. ASSUME tasks[t].status = "running", tasks[t].owner \in Internal
      PROVE  grant = lease
  BY <1>1, <1>4 DEF LeasesCovered, Covered
<1>5. grant = lease => grant <= now + Skew
  BY <1>2, <1>3
<1> QED
  BY <1>1, <1>4, <1>5 DEF Honored

\* A claim, first or repeated.
LEMMA ClaimCovered ==
    ASSUME StoreInv, LeasesCovered, now \in Nat, now' = now, NEW w \in Worker,
           NEW at \in LocalTime, NEW t \in TaskId, ClaimNextWithEvent(w, at, t)
    PROVE  LeasesCovered' /\ LeasesHonored
<1> DEFINE row == Claimed(tasks[t], w, at)
           new == [row EXCEPT !.version = tasks[t].version + 1]
           until == at + LeaseDuration
<1>1. at \in Nat /\ now <= at + Skew /\ at <= now + Skew /\ tasks[t] \in Task
  BY ClockReads DEF StoreInv
<1>2. until \in Int /\ "running" \in Status
  BY <1>1, StoreAssumption DEF Status
<1>3. row \in Task /\ row.status = "running" /\ row.leaseExp = until
  <2>1. row \in Task /\ row.status = "running"
    BY <1>1, ClaimedType
  <2>2. MoveTo(tasks[t], "running") \in Task
    BY <1>1, <1>2, MoveToType
  <2>3. row.leaseExp = until
    BY <1>1, <2>2 DEF Claimed, Task
  <2> QED
    BY <2>1, <2>3
<1>4. SaveWithEvent(t, row, ClaimedEvent(tasks[t])) /\ ClaimedEvent(tasks[t]) \in ClaimEvent
  BY DEF ClaimNextWithEvent, ClaimedEvent, ClaimEvent
<1> HIDE DEF row
<1>5. tasks' = [tasks EXCEPT ![t] = new] /\ granted' = [granted EXCEPT ![t] = until]
  BY <1>3, <1>4 DEF SaveWithEvent
<1>6. new.leaseExp = until
  BY <1>3 DEF Task
<1>7. Covered(new, until)
  BY <1>6 DEF Covered
<1>8. Honored(t)
  <2>1. CASE tasks[t].status = "running"
    <3>1. tasks[t].leaseExp <= at
      BY <2>1 DEF ClaimNextWithEvent, FirstUnlocked, Recoverable, Due, Expired
    <3> QED
      BY <3>1, ExpiredIsOver
  <2>2. CASE tasks[t].status # "running"
    BY <2>2 DEF Honored
  <2> QED
    BY <2>1, <2>2
<1> HIDE DEF new, until
<1> QED
  BY <1>5, <1>7, <1>8, OneRowCovered

\* A renewal by an in-process worker.
LEMMA RenewalCovered ==
    ASSUME StoreInv, LeasesCovered, now' = now, NEW w,
           NEW at \in LocalTime, NEW t \in TaskId, RenewLease(t, w, at)
    PROVE  LeasesCovered' /\ LeasesHonored
<1> DEFINE until == at + LeaseDuration
           new == [tasks[t] EXCEPT !.leaseExp = until]
<1>1. tasks[t] \in Task
  BY DEF StoreInv
<1>2. tasks' = [tasks EXCEPT ![t] = new] /\ granted' = [granted EXCEPT ![t] = until]
  BY DEF RenewLease
<1>3. /\ new.status = tasks[t].status /\ new.leaseExp = until
      /\ new.retryCount = tasks[t].retryCount
  BY <1>1 DEF Task
<1>4. Covered(new, until)
  BY <1>3 DEF Covered
<1>5. Honored(t)
  <2>1. tasks'[t] = new /\ tasks[t].retryCount \in Nat
    BY <1>1, <1>2 DEF StoreInv, Task
  <2> HIDE DEF new
  <2> QED
    BY <1>3, <2>1 DEF Honored, TakenAway
<1> HIDE DEF new, until
<1> QED
  BY <1>2, <1>4, <1>5, OneRowCovered

\* The reaper.
LEMMA ReapCovered ==
    ASSUME StoreInv, LeasesCovered, now \in Nat, now' = now,
           NEW at \in LocalTime, NEW t \in TaskId, FailNextExpiredWithEvent(at, t)
    PROVE  LeasesCovered' /\ LeasesHonored
<1> DEFINE moved == MoveTo(tasks[t], "failed")
           row == [moved EXCEPT !.err = LeaseExpiredError]
<1>1. moved \in Task /\ moved.status = "failed"
  BY MoveToType DEF StoreInv, Status
<1>2. LeaseExpiredError \in ErrorMessage
  BY DEF LeaseExpiredError, ErrorMessage
<1>3. SaveWithEvent(t, row, "task_failed") /\ tasks[t].leaseExp <= at
  BY DEF FailNextExpiredWithEvent, FirstUnlocked, Exhausted, Expired
<1> HIDE DEF moved
<1>4. row \in Task
  BY <1>1, <1>2, Zenon DEF Task
<1>5. row.status = "failed"
  BY <1>1 DEF Task
<1> HIDE DEF row
<1>6. Honored(t)
  BY <1>3, ExpiredIsOver
<1>7. StoreInv'
  BY ClockReads, ReapStep
<1> QED
  BY <1>3, <1>4, <1>5, <1>6, <1>7, GivenUpCovered

\* A cancellation.
LEMMA CancelCovered ==
    ASSUME StoreInv, LeasesCovered, now' = now, NEW t \in TaskId, CancelTaskWithEvent(t)
    PROVE  LeasesCovered' /\ LeasesHonored
<1> DEFINE row == MoveTo(tasks[t], "canceled")
<1>1. row \in Task /\ row.status = "canceled"
  BY MoveToType DEF StoreInv, Status
<1>2. SaveWithEvent(t, row, "task_canceled") /\ StoreInv'
  BY CancelStep DEF CancelTaskWithEvent
<1> HIDE DEF row
<1>3. tasks'[t].status = "canceled"
  BY <1>1, <1>2 DEF SaveWithEvent, StoreInv, Task
<1>4. Honored(t)
  BY <1>3 DEF Honored, TakenAway
<1> QED
  BY <1>1, <1>2, <1>4, GivenUpCovered

\* A creation.
LEMMA CreateCovered ==
    ASSUME StoreInv, LeasesCovered, now' = now, NEW t \in TaskId, NEW at \in Nat,
           CreateTaskWithEvent(t, at)
    PROVE  LeasesCovered' /\ LeasesHonored
<1>1. PICK m \in MaxRetriesOf : tasks' = [tasks EXCEPT ![t] = NewTask(m, at)]
  BY DEF CreateTaskWithEvent
<1> DEFINE new == NewTask(m, at)
<1>2. new.status = "queued"
  BY StoreAssumption, NewTaskType
<1>3. tasks[t].status = "absent" /\ granted' = granted
  BY DEF CreateTaskWithEvent, Exists
<1> HIDE DEF new
<1>4. tasks' = [tasks EXCEPT ![t] = new] /\ granted' = [granted EXCEPT ![t] = granted[t]]
  BY <1>1, <1>3 DEF new, StoreInv
<1>5. Covered(new, granted[t])
  BY <1>2, OthersCovered
<1>6. Honored(t)
  BY <1>3 DEF Honored
<1> QED
  BY <1>4, <1>5, <1>6, OneRowCovered

\* Time passes, or a step leaves the store alone.
LEMMA UnchangedCovered ==
    ASSUME StoreInv, LeasesCovered, now \in Nat, now' = now \/ now' = now + 1,
           UNCHANGED storeVars
    PROVE  LeasesCovered' /\ LeasesHonored
<1>1. tasks' = tasks /\ granted' = granted /\ StoreInv
  BY DEF storeVars
<1>2. ASSUME NEW t \in TaskId
      PROVE  Covered(tasks[t], granted[t])' /\ Honored(t)
  <2>1. tasks[t].retryCount \in Nat /\ Covered(tasks[t], granted[t])
    BY DEF StoreInv, Task, LeasesCovered
  <2>2. Covered(tasks[t], granted[t])'
    BY <1>1, <2>1 DEF Covered
  <2>3. Honored(t)
    BY <1>1, <2>1 DEF Honored, TakenAway
  <2> QED
    BY <2>2, <2>3
<1> QED
  BY <1>2 DEF LeasesCovered, LeasesHonored

\* No attempt ends with the error the reaper writes.
LEMMA EndingIsNoExpiry ==
    ASSUME NEW e \in Execution, NEW at \in Nat, NEW o \in Endings(e, at)
    PROVE  o[1].err # LeaseExpiredError
<1>1. e.row \in Task /\ {"succeeded", "partially_succeeded", "failed"} \subseteq Status
  BY DEF Execution, Status
<1>2. /\ NoError # LeaseExpiredError /\ FixedError # LeaseExpiredError
      /\ \A f : CodeOnly(f) # LeaseExpiredError
  BY DEF NoError, FixedError, CodeOnly, LeaseExpiredError
<1>3. ASSUME NEW s \in {"succeeded", "partially_succeeded", "failed"}, NEW r, NEW x
      PROVE  FinishedRow(e.row, s, r, x).err = x
  <2>1. MoveTo(e.row, s) \in Task
    BY <1>1, MoveToType
  <2> QED
    BY <2>1 DEF FinishedRow, Task
<1>4. ASSUME NEW x
      PROVE  FailureRow(e.row, x)[1].err = x
  <2>1. MoveTo(e.row, "failed") \in Task
    BY <1>1, MoveToType
  <2> QED
    BY <2>1 DEF FailureRow, Task
<1>5. ASSUME NEW f, NEW d \in RetryDelay
      PROVE  RetryRow(e.row, f, at + d).err = CodeOnly(f)
  <2>1. ScheduleRetry(e.row, at + d) \in Task
    BY <1>1, RetryAssumption, ScheduleRetryType
  <2> QED
    BY <2>1 DEF RetryRow, Task
<1>6. CASE o \in FinishOutcomes(e.row)
  BY <1>2, <1>3, <1>6 DEF FinishOutcomes
<1>7. CASE o = FailureRow(e.row, FixedError)
  BY <1>2, <1>4, <1>7
<1>8. ASSUME NEW f \in Failure, o \in ErrorOutcomes(e.row, f, at)
      PROVE  o[1].err # LeaseExpiredError
  <2>1. CASE o = FailureRow(e.row, CodeOnly(f))
    BY <1>2, <1>4, <2>1
  <2>2. CASE o \in Schedule(e.row, f, at)
    <3>1. PICK d \in RetryDelay : o = <<RetryRow(e.row, f, at + d), "task_retrying">>
      BY <2>2 DEF Schedule
    <3> QED
      BY <1>2, <1>5, <3>1
  <2> QED
    BY <1>8, <2>1, <2>2 DEF ErrorOutcomes
<1> QED
  BY <1>6, <1>7, <1>8 DEF Endings

\* Saving an attempt's end.
LEMMA FinishCovered ==
    ASSUME IInv, LeasesCovered, now' = now, NEW w \in Internal, iw[w].pc = "execute",
           NEW at \in LocalTime, NEW o \in Endings(iw[w], at),
           UpdateTaskWithEvent(iw[w].task, o[1], o[2])
    PROVE  LeasesCovered' /\ LeasesHonored
<1> DEFINE t == iw[w].task
<1>1. /\ StoreInv /\ StoreInv' /\ t \in TaskId /\ o[1] \in Task
      /\ tasks' = [tasks EXCEPT ![t] = [o[1] EXCEPT !.version = tasks[t].version + 1]]
  BY FinishWrites DEF IInv
<1>2. iw[w] \in Execution /\ at \in Nat
  BY ExecutionParts, ClockReads DEF IInv
<1>3. o[1].status # "running" /\ o[1].err # LeaseExpiredError
  BY <1>2, EndingSaveable, EndingIsNoExpiry
<1>4. SaveWithEvent(t, o[1], o[2])
  BY DEF UpdateTaskWithEvent
<1> HIDE DEF t
<1>5. tasks'[t].status = o[1].status /\ tasks'[t].err = o[1].err
  BY <1>1 DEF StoreInv, Task
<1>6. tasks'[t].status # "running" /\ tasks'[t].err # LeaseExpiredError
  BY <1>3, <1>5
<1>7. Honored(t)
  BY <1>6, Zenon DEF Honored, TakenAway
<1> QED
  BY <1>1, <1>3, <1>4, <1>7, GivenUpCovered

\* A handler writes rows of external workers only.
LEMMA ServeCovered ==
    ASSUME IInv, LeasesCovered, NEW h \in Handler, HandlerStep(h)
    PROVE  LeasesCovered' /\ LeasesHonored
<1> DEFINE c == calls[h]
           t == c.req.tok.task
<1>0. StoreInv /\ now \in Nat /\ now' = now
  BY DEF IInv, HandlerStep, replayWorkerOperation, validateLeaseToken,
         prepareRunningTask, Commit, Renew, Reread, Respond
<1>1. CASE Commit(h) /\ UpdateTaskWithEvent(t, c.row, c.event)
  <2> DEFINE new == [c.row EXCEPT !.version = tasks[t].version + 1]
  <2>1. c.pc = "commit"
    BY <1>1 DEF Commit
  <2>2. /\ t \in TaskId /\ c.row \in Task /\ SavedFrom(c.row, tasks[t])
        /\ tasks' = [tasks EXCEPT ![t] = new]
    BY <1>1, <2>1, CommitWrites, Zenon
  <2>3. tasks[t].owner = c.req.worker /\ c.req.worker \in External
    <3>1. tasks[t].version = c.row.version
      BY <1>1, Zenon DEF UpdateTaskWithEvent, updateTask
    <3>2. CallFenced(c, tasks[t])
      BY <2>1, Zenon DEF IInv, CopiesAreFenced
    <3>3. c.req.worker \in External
      BY <2>1, CallParts, Zenon DEF IInv
    <3> QED
      BY <3>1, <3>2, <3>3 DEF CallFenced
  <2>4. PICK grant : granted' = [granted EXCEPT ![t] = grant]
    BY <1>1 DEF UpdateTaskWithEvent, SaveWithEvent
  <2>5. new.status = c.row.status /\ new.owner = c.row.owner
    BY <2>2 DEF Task
  <2>6. new.status # "running" \/ new.owner \notin Internal
    BY <2>2, <2>3, <2>5, IdentityAssumption DEF SavedFrom
  <2>7. Honored(t)
    BY <2>3, IdentityAssumption DEF Honored
  <2> HIDE DEF new, t
  <2> QED
    BY <1>0, <2>2, <2>4, <2>6, <2>7, OthersCovered, OneRowCovered
<1>2. CASE Renew(h) /\ RenewLease(t, c.req.worker, c.at)
  <2> DEFINE new == [tasks[t] EXCEPT !.leaseExp = c.at + LeaseDuration]
  <2>1. c.pc # "idle"
    BY <1>2 DEF Renew
  <2>2. t \in TaskId /\ c.req.worker \in External
    BY <2>1, CallParts DEF IInv
  <2>3. tasks[t].owner = c.req.worker /\ tasks' = [tasks EXCEPT ![t] = new]
    BY <1>2, Zenon DEF RenewLease, Renewable
  <2>4. PICK grant : granted' = [granted EXCEPT ![t] = grant]
    BY <1>2 DEF RenewLease
  <2>5. new.owner = tasks[t].owner
    BY <1>0, <2>2 DEF StoreInv, Task
  <2>6. new.owner \notin Internal /\ Honored(t)
    BY <2>2, <2>3, <2>5, IdentityAssumption DEF Honored
  <2> HIDE DEF new, t
  <2> QED
    BY <1>0, <2>2, <2>3, <2>4, <2>6, OthersCovered, OneRowCovered
<1>3. CASE UNCHANGED storeVars
  BY <1>0, <1>3, UnchangedCovered
<1>4. CASE ~Commit(h) /\ ~Renew(h)
  <2>1. UNCHANGED storeVars
    BY <1>4 DEF HandlerStep, replayWorkerOperation, validateLeaseToken,
                prepareRunningTask, Reread, Respond
  <2> QED
    BY <1>3, <2>1
<1>5. CASE Commit(h)
  BY <1>1, <1>3, <1>5, Zenon DEF Commit
<1>6. CASE Renew(h)
  BY <1>2, <1>3, <1>6, Zenon DEF Renew
<1> QED
  BY <1>4, <1>5, <1>6

\* An in-process worker claims, renews and saves.
LEMMA InternalCovered ==
    ASSUME IInv, LeasesCovered, NEW w \in Internal, InternalStep(w)
    PROVE  LeasesCovered' /\ LeasesHonored
<1>0. StoreInv /\ w \in Worker /\ now \in Nat /\ now' = now
  BY InternalAssumption
     DEF IInv, InternalStep, ClaimInternal, maintainLease, FinishExecution, AbandonExecution
<1>1. CASE ClaimInternal(w)
  <2>1. PICK at \in LocalTime, t \in TaskId : ClaimNextWithEvent(w, at, t)
    BY <1>1 DEF ClaimInternal
  <2> QED
    BY <1>0, <2>1, ClaimCovered
<1>2. CASE maintainLease(w)
  <2>1. iw[w].task \in TaskId
    BY <1>2, ExecutionParts DEF IInv, maintainLease
  <2>2. CASE \E at \in LocalTime : RenewLease(iw[w].task, w, at)
    BY <1>0, <2>1, <2>2, RenewalCovered
  <2>3. CASE UNCHANGED storeVars
    BY <1>0, <2>3, UnchangedCovered
  <2> QED
    BY <1>2, <2>2, <2>3 DEF maintainLease
<1>3. CASE FinishExecution(w)
  <2>1. CASE \E at \in LocalTime : \E o \in Endings(iw[w], at) :
               UpdateTaskWithEvent(iw[w].task, o[1], o[2])
    <3>1. PICK at \in LocalTime : \E o \in Endings(iw[w], at) :
            UpdateTaskWithEvent(iw[w].task, o[1], o[2])
      BY <2>1
    <3>2. PICK o \in Endings(iw[w], at) : UpdateTaskWithEvent(iw[w].task, o[1], o[2])
      BY <3>1
    <3>3. iw[w].pc = "execute"
      BY <1>3 DEF FinishExecution
    <3> QED
      BY <1>0, <3>2, <3>3, FinishCovered
  <2>2. CASE UNCHANGED storeVars
    BY <1>0, <2>2, UnchangedCovered
  <2> QED
    BY <1>3, <2>1, <2>2 DEF FinishExecution
<1>4. CASE AbandonExecution(w)
  BY <1>0, <1>4, UnchangedCovered DEF AbandonExecution
<1> QED
  BY <1>1, <1>2, <1>3, <1>4 DEF InternalStep

\* Every step keeps the in-process leases covered and honours them.
LEMMA NextCovered ==
    ASSUME IInv, LeasesCovered, [Next]_vars
    PROVE  LeasesCovered' /\ LeasesHonored
<1>0. StoreInv /\ now \in Nat
  BY DEF IInv
<1>1. ASSUME NEW t \in TaskId, CreateTask(t) PROVE LeasesCovered' /\ LeasesHonored
  <2>1. PICK at \in LocalTime : CreateTaskWithEvent(t, at)
    BY <1>1 DEF CreateTask
  <2>2. at \in Nat /\ now' = now
    BY <1>0, <1>1, LocalTimeType DEF CreateTask
  <2> QED
    BY <1>0, <2>1, <2>2, CreateCovered
<1>2. ASSUME NEW t \in TaskId, CancelTask(t) PROVE LeasesCovered' /\ LeasesHonored
  BY <1>0, <1>2, CancelCovered DEF CancelTask
<1>3. ASSUME NEW w \in External, ExternalClaim(w) PROVE LeasesCovered' /\ LeasesHonored
  <2>1. PICK at \in LocalTime, t \in TaskId : ClaimNextWithEvent(w, at, t)
    BY <1>3 DEF ExternalClaim, ClaimTask
  <2>2. w \in Worker /\ now' = now
    BY <1>3, ServiceAssumption DEF ExternalClaim, ClaimTask
  <2> QED
    BY <1>0, <2>1, <2>2, ClaimCovered
<1>4. ASSUME NEW h \in Handler, NEW w \in External, ExternalSend(h, w)
      PROVE  LeasesCovered' /\ LeasesHonored
  BY <1>0, <1>4, UnchangedCovered DEF ExternalSend, Send
<1>5. ASSUME NEW h \in Handler, Serve(h) PROVE LeasesCovered' /\ LeasesHonored
  BY <1>5, ServeCovered DEF Serve
<1>6. ASSUME NEW w \in Internal, InternalStep(w) PROVE LeasesCovered' /\ LeasesHonored
  BY <1>6, InternalCovered
<1>7. CASE ReaperStep
  <2>1. PICK at \in LocalTime, t \in TaskId : FailNextExpiredWithEvent(at, t)
    BY <1>7 DEF ReaperStep, Reap
  <2>2. now' = now
    BY <1>7 DEF ReaperStep, Reap
  <2> QED
    BY <1>0, <2>1, <2>2, ReapCovered
<1>8. CASE CrashProcess
  BY <1>0, <1>8, UnchangedCovered DEF CrashProcess, Crash
<1>9. CASE RestartProcess
  BY <1>0, <1>9, UnchangedCovered DEF RestartProcess, Restart
<1>10. CASE Tick
  BY <1>0, <1>10, UnchangedCovered DEF Tick
<1>11. CASE UNCHANGED vars
  BY <1>0, <1>11, UnchangedCovered DEF vars
<1> QED
  BY <1>1, <1>2, <1>3, <1>4, <1>5, <1>6, <1>7, <1>8, <1>9, <1>10, <1>11 DEF Next

\* No claim and no reaper takes a task from an in-process worker before the
\* lease granted to it last has run out, but for what the clock of the one
\* who takes it may be off: what an external worker's progress report undoes
\* holds for in-process workers.
THEOREM InternalLeases == Spec => InternalLeaseHonored
<1>1. Init => LeasesCovered
  <2>1. NoTask.status # "running"
    BY NoTaskType
  <2> QED
    BY <2>1, OthersCovered DEF Init, StoreInit, LeasesCovered
<1>2. IInv /\ LeasesCovered /\ [Next]_vars => LeasesCovered'
  BY NextCovered
<1>3. IInv /\ LeasesCovered /\ [Next]_vars =>
        [\A t \in TaskId :
           /\ tasks[t].status = "running" /\ tasks[t].owner \in Internal
           /\ \/ tasks'[t].status = "running" /\ tasks'[t].retryCount > tasks[t].retryCount
              \/ tasks'[t].status = "failed" /\ tasks'[t].err = LeaseExpiredError
           => granted[t] <= now + Skew]_vars
  BY NextCovered DEF LeasesHonored, Honored, TakenAway
<1> QED
  BY <1>1, <1>2, <1>3, InductiveInvariant, PTL DEF Spec, InternalLeaseHonored

=============================================================================
