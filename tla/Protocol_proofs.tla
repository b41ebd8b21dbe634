--------------------------- MODULE Protocol_proofs ---------------------------
(***************************************************************************)
(* The worker protocol: lease tokens, committed calls and replays.         *)
(*                                                                         *)
(* TokenInv says of every token in the system, wherever it is, that it     *)
(* still fits the row of its task, and who made the version that follows   *)
(* it.  A step adds only tokens of the current row, and a row that gets a  *)
(* new version got it from the holder of the old one, from another claim,  *)
(* or from the reaper or a cancellation, which leave other traces.         *)
(***************************************************************************)
EXTENDS ControlPlane_proofs, FiniteSetTheorems

\* The row still allows what the token says: it exists, and while it has the
\* token's version the token's worker holds it.
Fits(tok, row) ==
    /\ row.status # "absent"
    /\ tok.version <= row.version
    /\ tok.version = row.version => row.owner = tok.worker

\* The tokens an answer is about to carry.
Offered(c) == IF c.pc = "reply" THEN withLeaseToken(c.req.tok.task, c.row) ELSE {}

\* Every token in the system: held by workers, sent in calls, in answers.
Tokens ==
    (UNION {held[w] : w \in External}) \union
    (UNION {{calls[h].req.tok} \union Offered(calls[h]) :
               h \in {g \in Handler : calls[g].pc # "idle"}})

\* If the row is one version past the token, then what it says of the
\* attempt was said by the token's worker, in a call with that token.  An
\* error text may stand for several failures; one of them was reported.
Signed(tok, row, done) ==
    tok.version + 1 = row.version /\ tok.worker \in External =>
      /\ row.status = "succeeded" =>
           [op |-> "complete", worker |-> tok.worker, tok |-> tok, arg |-> row.result] \in done
      /\ row.status = "queued" =>
           [op |-> "release", worker |-> tok.worker, tok |-> tok, arg |-> NoOutput] \in done
      /\ \A f \in Failure : row.status = "failed" /\ row.err = CodeAndMessage(f) =>
           \E g \in Failure :
             /\ FailureText[g] = FailureText[f]
             /\ [op |-> "fail", worker |-> tok.worker, tok |-> tok, arg |-> g] \in done

\* The request, or one the stored row cannot tell from it.
SeenIn(req, done) == \E r \in done : SameRequest(r, req)

\* The row says what the request reported, and the event what was done.
Reports(row, event, req) ==
    \/ /\ req.op = "complete" /\ event = "task_succeeded"
       /\ row.status = "succeeded" /\ row.result = req.arg
    \/ /\ req.op = "progress" /\ event = "task_progress" /\ row.status = "running"
    \/ /\ req.op = "release" /\ event = "task_released" /\ row.status = "queued"
    \/ /\ req.op = "fail" /\ event = "task_retrying" /\ row.status = "retrying"
       /\ req.arg \in Retryable /\ row.err = CodeOnly(req.arg)
    \/ /\ req.op = "fail" /\ event = "task_failed" /\ row.status = "failed"
       /\ row.err = CodeAndMessage(req.arg)

\* What the handler of call c has established by the time it got to c.pc.
CallOK(c, done) ==
    /\ c.pc = "replay" => c.req.op \in {"complete", "fail", "release"}
    /\ c.pc \in {"prepare", "renew", "commit"} => c.req.tok.worker = c.req.worker
    /\ c.pc = "commit" => /\ c.row.version = c.req.tok.version
                          /\ Reports(c.row, c.event, c.req)
    /\ c.reply = "replayed" => SeenIn(c.req, done)

\* A committed call has used its token up, and the next version says so.
Spent(req, row) ==
    /\ req.tok.worker = req.worker
    /\ row.status # "absent" /\ req.tok.version < row.version
    /\ row.version = req.tok.version + 1 => \E event \in EventType : Reports(row, event, req)

\* A retry keeps the bare error code.
CodeWhileRetrying(row) ==
    row.status = "retrying" => \A f \in Failure : row.err # CodeAndMessage(f)

TokensInOrder ==
    \A tok \in Tokens : Fits(tok, tasks[tok.task]) /\ Signed(tok, tasks[tok.task], committed)

CallsInOrder == \A h \in Handler : calls[h].pc # "idle" => CallOK(calls[h], committed)

CommittedAreSpent == \A req \in committed : Spent(req, tasks[req.tok.task])

TokenInv ==
    /\ TokensInOrder
    /\ CallsInOrder
    /\ CommittedAreSpent
    /\ \A t \in TaskId : CodeWhileRetrying(tasks[t])

-----------------------------------------------------------------------------
(* How a row changes in one step, as far as tokens are concerned.          *)

Kept(a, b) ==
    /\ b.status = a.status /\ b.owner = a.owner /\ b.version = a.version
    /\ b.err = a.err /\ b.result = a.result

\* The token of the row's present holder.
TokenOf(t, row) == [task |-> t, worker |-> row.owner, version |-> row.version]

Written(t, a, b, done) ==
    /\ a.status # "absent" /\ b.status # "absent"
    /\ b.version = a.version + 1
    /\ a.status = "running" => Signed(TokenOf(t, a), b, done)
    /\ CodeWhileRetrying(b)

RowEffect(t) ==
    \/ Kept(tasks[t], tasks'[t])
    \/ tasks[t].status = "absent" /\ CodeWhileRetrying(tasks'[t])
    \/ Written(t, tasks[t], tasks'[t], committed')

RowEffects == \A t \in TaskId : RowEffect(t)

\* A save, when the saved row is signed by the holder or not a report at all.
LEMMA SaveEffect ==
    ASSUME StoreInv, NEW t \in TaskId, NEW row \in Task, NEW event,
           SaveWithEvent(t, row, event), Exists(t), row.status # "absent",
           CodeWhileRetrying(row),
           tasks[t].status = "running" =>
             Signed(TokenOf(t, tasks[t]), [row EXCEPT !.version = tasks[t].version + 1],
                    committed')
    PROVE  RowEffects
<1> DEFINE new == [row EXCEPT !.version = tasks[t].version + 1]
<1>1. /\ new.status = row.status /\ new.err = row.err
      /\ new.version = tasks[t].version + 1
  BY DEF Task
<1>2. tasks' = [tasks EXCEPT ![t] = new]
  BY DEF SaveWithEvent
<1>3. tasks[t].status = "running" => Signed(TokenOf(t, tasks[t]), new, committed')
  OBVIOUS
<1> HIDE DEF new
<1>4. Written(t, tasks[t], new, committed')
  BY <1>1, <1>3 DEF Written, Exists, CodeWhileRetrying
<1>5. \A u \in TaskId : Kept(tasks[u], tasks[u])
  BY DEF Kept
<1> QED
  BY <1>2, <1>4, <1>5 DEF RowEffects, RowEffect, StoreInv

\* A row that reports no outcome of an attempt needs no signature.
LEMMA PlainSaveEffect ==
    ASSUME StoreInv, NEW t \in TaskId, NEW row \in Task, NEW event,
           SaveWithEvent(t, row, event), Exists(t),
           \/ row.status \in {"running", "canceled"}
           \/ row.status = "failed" /\ \A f \in Failure : row.err # CodeAndMessage(f)
    PROVE  RowEffects
<1> DEFINE new == [row EXCEPT !.version = tasks[t].version + 1]
<1>1. new.status = row.status /\ new.err = row.err
  BY DEF Task
<1> HIDE DEF new
<1>2. Signed(TokenOf(t, tasks[t]), new, committed')
  BY <1>1 DEF Signed
<1>3. CodeWhileRetrying(row) /\ row.status # "absent"
  BY DEF CodeWhileRetrying
<1> QED
  BY <1>2, <1>3, SaveEffect DEF new

\* A claim gives the row to another attempt.
LEMMA ClaimEffect ==
    ASSUME StoreInv, NEW w \in Worker, NEW at \in Nat, NEW t \in TaskId,
           ClaimNextWithEvent(w, at, t)
    PROVE  RowEffects
<1>1. Claimed(tasks[t], w, at) \in Task /\ Claimed(tasks[t], w, at).status = "running"
  BY ClaimedType DEF StoreInv
<1>2. SaveWithEvent(t, Claimed(tasks[t], w, at), ClaimedEvent(tasks[t]))
  BY DEF ClaimNextWithEvent
<1>3. Exists(t)
  BY ClaimStep
<1> QED
  BY <1>1, <1>2, <1>3, PlainSaveEffect

\* The reaper's error is not one that a worker can report.
LEMMA ReapEffect ==
    ASSUME StoreInv, NEW at \in Nat, NEW t \in TaskId, FailNextExpiredWithEvent(at, t)
    PROVE  RowEffects
<1> DEFINE moved == MoveTo(tasks[t], "failed")
           row == [moved EXCEPT !.err = LeaseExpiredError]
<1>1. tasks[t] \in Task /\ "failed" \in Status
  BY DEF StoreInv, Status
<1>2. moved \in Task /\ moved.status = "failed"
  BY <1>1, MoveToType
<1>3. LeaseExpiredError \in ErrorMessage
  BY DEF LeaseExpiredError, ErrorMessage
<1>4. SaveWithEvent(t, row, "task_failed") /\ Exists(t)
  BY DEF FailNextExpiredWithEvent, FirstUnlocked, Exhausted, Expired, Exists
<1> HIDE DEF moved
<1>5. row \in Task
  BY <1>2, <1>3, Zenon DEF Task
<1>6. row.status = "failed" /\ row.err = LeaseExpiredError
  BY <1>2 DEF Task
<1>7. \A f \in Failure : LeaseExpiredError # CodeAndMessage(f)
  BY DEF LeaseExpiredError, CodeAndMessage
<1> HIDE DEF row
<1> QED
  BY <1>4, <1>5, <1>6, <1>7, PlainSaveEffect

\* A cancellation.
LEMMA CancelEffect ==
    ASSUME StoreInv, NEW t \in TaskId, CancelTaskWithEvent(t)
    PROVE  RowEffects
<1>1. tasks[t] \in Task /\ "canceled" \in Status
  BY DEF StoreInv, Status
<1>2. MoveTo(tasks[t], "canceled") \in Task /\ MoveTo(tasks[t], "canceled").status = "canceled"
  BY <1>1, MoveToType
<1>3. SaveWithEvent(t, MoveTo(tasks[t], "canceled"), "task_canceled") /\ Exists(t)
  BY DEF CancelTaskWithEvent, Cancelable, Exists
<1> QED
  BY <1>2, <1>3, PlainSaveEffect

\* A creation.
LEMMA CreateEffect ==
    ASSUME StoreInv, NEW t \in TaskId, NEW at \in Nat, CreateTaskWithEvent(t, at)
    PROVE  RowEffects
<1>1. PICK m \in MaxRetriesOf : tasks' = [tasks EXCEPT ![t] = NewTask(m, at)]
  BY DEF CreateTaskWithEvent
<1>2. NewTask(m, at).status = "queued" /\ tasks[t].status = "absent"
  BY StoreAssumption, NewTaskType DEF CreateTaskWithEvent, Exists
<1>3. CodeWhileRetrying(NewTask(m, at))
  BY <1>2 DEF CodeWhileRetrying
<1>4. \A u \in TaskId : Kept(tasks[u], tasks[u])
  BY DEF Kept
<1> QED
  BY <1>1, <1>2, <1>3, <1>4 DEF RowEffects, RowEffect, StoreInv

\* A renewal changes the expiry alone.
LEMMA RenewEffect ==
    ASSUME StoreInv, NEW t \in TaskId, NEW w, NEW at \in Nat, RenewLease(t, w, at)
    PROVE  RowEffects
<1> DEFINE new == [tasks[t] EXCEPT !.leaseExp = at + LeaseDuration]
<1>1. tasks' = [tasks EXCEPT ![t] = new]
  BY DEF RenewLease
<1>2. tasks[t] \in Task
  BY DEF StoreInv
<1>3. Kept(tasks[t], new)
  BY <1>2 DEF Kept, Task
<1> HIDE DEF new
<1>4. \A u \in TaskId : Kept(tasks[u], tasks[u])
  BY DEF Kept
<1> QED
  BY <1>1, <1>3, <1>4 DEF RowEffects, RowEffect, StoreInv

\* A step that leaves the store alone.
LEMMA NoEffect == ASSUME UNCHANGED storeVars PROVE RowEffects
BY DEF storeVars, RowEffects, RowEffect, Kept

\* A retry keeps the bare code, which no replay of a Fail accepts.
LEMMA ScheduledError ==
    ASSUME NEW row \in Task, NEW f \in Failure, NEW at \in Nat, NEW o \in Schedule(row, f, at)
    PROVE  /\ f \in Retryable /\ o[2] = "task_retrying"
           /\ o[1].status = "retrying" /\ o[1].err = CodeOnly(f)
           /\ CodeWhileRetrying(o[1])
<1>1. PICK d \in RetryDelay : o = <<RetryRow(row, f, at + d), "task_retrying">>
  BY DEF Schedule
<1>2. at + d \in Int
  BY RetryAssumption
<1> DEFINE moved == ScheduleRetry(row, at + d)
<1>3. moved \in Task
  BY <1>2, ScheduleRetryType
<1>4. o[1] = [moved EXCEPT !.err = CodeOnly(f)] /\ o[2] = "task_retrying"
  BY <1>1 DEF RetryRow
<1> HIDE DEF moved
<1>5. o[1].err = CodeOnly(f)
  BY <1>3, <1>4 DEF Task
<1>6. \A g \in Failure : CodeOnly(f) # CodeAndMessage(g)
  BY DEF CodeOnly, CodeAndMessage
<1>7. f \in Retryable
  BY DEF Schedule
<1>8. o[1].status = "retrying"
  BY <1>1, <1>2, <1>3, ScheduleRetryType, <1>4 DEF Task, moved
<1> QED
  BY <1>4, <1>5, <1>6, <1>7, <1>8 DEF CodeWhileRetrying

\* What the end of an in-process attempt writes.
LEMMA EndingKinds ==
    ASSUME NEW e \in Execution, NEW at \in Nat, NEW o \in Endings(e, at)
    PROVE  /\ CodeWhileRetrying(o[1])
           /\ o[2] \in {"task_succeeded", "task_partially_succeeded", "task_failed",
                        "task_retrying"}
<1>1. e.row \in Task
  BY DEF Execution
<1>2. Announced(o[2]) = o[1].status
  BY EndingSaveable DEF Saveable
<1>3. CASE \E f \in Failure : o \in Schedule(e.row, f, at)
  BY <1>1, <1>3, ScheduledError
<1>4. CASE o[2] \in {"task_succeeded", "task_partially_succeeded", "task_failed"}
  BY <1>2, <1>4, Announcements DEF CodeWhileRetrying
<1>5. CASE o \in FinishOutcomes(e.row)
  BY <1>4, <1>5 DEF FinishOutcomes
<1>6. ASSUME NEW x, o = FailureRow(e.row, x) PROVE o[2] = "task_failed"
  BY <1>6 DEF FailureRow
<1>7. CASE \E f \in Failure : o \in ErrorOutcomes(e.row, f, at)
  BY <1>3, <1>4, <1>6, <1>7 DEF ErrorOutcomes
<1> QED
  BY <1>4, <1>5, <1>6, <1>7 DEF Endings

\* An in-process worker saves over a row that it holds itself, and no token
\* of an external worker is about such a row.
LEMMA FinishEffect ==
    ASSUME IInv, NEW w \in Internal, iw[w].pc = "execute", NEW at \in LocalTime,
           NEW o \in Endings(iw[w], at), NEW t, t = iw[w].task,
           UpdateTaskWithEvent(t, o[1], o[2])
    PROVE  RowEffects
<1>1. iw[w] \in Execution /\ at \in Nat
  BY ExecutionParts, LocalTimeType DEF IInv
<1>2. /\ StoreInv /\ t \in TaskId /\ tasks[t].status = "running" /\ o[1] \in Task
      /\ o[1].status # "absent"
  BY FinishWrites DEF IInv, SavedFrom
<1>3. tasks[t].version = iw[w].row.version
  BY <1>1, EndingSaveable DEF UpdateTaskWithEvent, updateTask, Saveable
<1>4. tasks[t].owner = w
  BY <1>3 DEF IInv, CopiesAreFenced, ExecutionFenced
<1>5. \A row : Signed(TokenOf(t, tasks[t]), row, committed')
  BY <1>4, IdentityAssumption DEF Signed, TokenOf
<1>6. CodeWhileRetrying(o[1])
  BY <1>1, EndingKinds
<1>7. SaveWithEvent(t, o[1], o[2]) /\ Exists(t)
  BY DEF UpdateTaskWithEvent, updateTask
<1> QED
  BY <1>2, <1>5, <1>6, <1>7, SaveEffect

\* A commit: the call's token is the one of the row it replaces.
LEMMA CommitToken ==
    ASSUME IInv, TokenInv, NEW h \in Handler, calls[h].pc = "commit",
           NEW t, t = calls[h].req.tok.task,
           UpdateTaskWithEvent(t, calls[h].row, calls[h].event)
    PROVE  /\ t \in TaskId /\ tasks[t].status = "running"
           /\ calls[h].req.tok = TokenOf(t, tasks[t])
           /\ calls[h].req.worker = tasks[t].owner
           /\ Reports(calls[h].row, calls[h].event, calls[h].req)
<1>1. calls[h].req.tok \in Token /\ t \in TaskId
  BY CallParts DEF IInv
<1>2. CallOK(calls[h], committed)
  BY DEF TokenInv, CallsInOrder
<1>3. tasks[t].version = calls[h].row.version
  BY DEF UpdateTaskWithEvent, updateTask
<1>4. tasks[t].status = "running" /\ tasks[t].owner = calls[h].req.worker
  BY <1>3 DEF IInv, CopiesAreFenced, CallFenced
<1>5. /\ calls[h].req.tok.worker = calls[h].req.worker
      /\ calls[h].req.tok.version = calls[h].row.version
      /\ Reports(calls[h].row, calls[h].event, calls[h].req)
  BY <1>2 DEF CallOK
<1>6. calls[h].req.tok = TokenOf(t, tasks[t])
  BY <1>1, <1>3, <1>4, <1>5 DEF Token, TokenOf
<1> QED
  BY <1>1, <1>4, <1>5, <1>6

\* What a row reports, it reports of one request.
LEMMA ReportsSigns ==
    ASSUME NEW tok \in Token, NEW row, NEW event, NEW req \in Request, NEW done,
           req.arg \in ArgumentOf(req.op), req.tok = tok, req.worker = tok.worker,
           Reports(row, event, req), req \in done
    PROVE  Signed(tok, row, done) /\ (CodeWhileRetrying(row))
<1>1. ASSUME row.status = "succeeded"
      PROVE  [op |-> "complete", worker |-> tok.worker, tok |-> tok, arg |-> row.result] = req
  BY <1>1 DEF Reports, Request
<1>2. ASSUME row.status = "queued"
      PROVE  [op |-> "release", worker |-> tok.worker, tok |-> tok, arg |-> NoOutput] = req
  <2>1. req.op = "release"
    BY <1>2 DEF Reports
  <2>2. req.arg = NoOutput
    BY <2>1 DEF ArgumentOf
  <2> QED
    BY <2>1, <2>2 DEF Request
<1>3. ASSUME NEW f \in Failure, row.status = "failed", row.err = CodeAndMessage(f)
      PROVE  \E g \in Failure :
               /\ FailureText[g] = FailureText[f]
               /\ [op |-> "fail", worker |-> tok.worker, tok |-> tok, arg |-> g] = req
  <2>1. req.op = "fail" /\ CodeAndMessage(f) = CodeAndMessage(req.arg)
    BY <1>3 DEF Reports
  <2>2. FailureText[req.arg] = FailureText[f] /\ req.arg \in Failure
    BY <2>1 DEF CodeAndMessage, ArgumentOf
  <2>3. [op |-> "fail", worker |-> tok.worker, tok |-> tok, arg |-> req.arg] = req
    BY <2>1 DEF Request
  <2> QED
    BY <2>2, <2>3
<1>4. ASSUME row.status = "retrying", NEW f \in Failure PROVE row.err # CodeAndMessage(f)
  BY <1>4 DEF Reports, CodeOnly, CodeAndMessage
<1> QED
  BY <1>1, <1>2, <1>3, <1>4 DEF Signed, CodeWhileRetrying

\* The commit signs the new version with the call.
LEMMA CommitEffect ==
    ASSUME IInv, TokenInv, NEW h \in Handler, calls[h].pc = "commit",
           NEW t, t = calls[h].req.tok.task,
           UpdateTaskWithEvent(t, calls[h].row, calls[h].event),
           committed' = committed \union {calls[h].req}
    PROVE  RowEffects /\ Spent(calls[h].req, tasks'[t])
<1> DEFINE c == calls[h]
           new == [c.row EXCEPT !.version = tasks[t].version + 1]
<1>1. /\ t \in TaskId /\ tasks[t].status = "running" /\ c.req.tok = TokenOf(t, tasks[t])
      /\ c.req.worker = tasks[t].owner /\ Reports(c.row, c.event, c.req)
  BY CommitToken
<1>2. /\ c.req \in Request /\ c.req.tok \in Token /\ c.req.arg \in ArgumentOf(c.req.op)
      /\ c.event \in EventType /\ c.row \in Task
  BY CallParts DEF IInv
<1>3. /\ new.status = c.row.status /\ new.err = c.row.err /\ new.result = c.row.result
      /\ new.version = tasks[t].version + 1
  BY <1>2 DEF Task
<1>4. SaveWithEvent(t, c.row, c.event) /\ Exists(t)
  BY DEF UpdateTaskWithEvent, updateTask
<1>5. tasks' = [tasks EXCEPT ![t] = new] /\ c.req \in committed'
  BY <1>4 DEF SaveWithEvent
<1> HIDE DEF c, new
<1>6. Reports(new, c.event, c.req)
  BY <1>1, <1>3 DEF Reports
<1>7. c.req.worker = c.req.tok.worker /\ c.req.tok.version = tasks[t].version
  BY <1>1 DEF TokenOf
<1>8. Signed(c.req.tok, new, committed') /\ CodeWhileRetrying(c.row)
  BY <1>1, <1>2, <1>5, <1>6, <1>7, ReportsSigns
<1>9. c.row.status # "absent"
  BY <1>1 DEF Reports
<1>10. StoreInv /\ tasks[t].version \in Nat
  BY <1>1 DEF IInv, StoreInv, Task
<1>11. RowEffects
  BY <1>1, <1>2, <1>4, <1>8, <1>9, <1>10, SaveEffect DEF new
<1>12. Spent(c.req, new)
  BY <1>2, <1>3, <1>6, <1>7, <1>9, <1>10 DEF Spent
<1> QED
  BY <1>1, <1>5, <1>10, <1>11, <1>12 DEF c, StoreInv

-----------------------------------------------------------------------------
(* Tokens survive the changes of the rows.                                 *)

\* Tokens made from a row as it is now.
FreshTokens ==
    {tok \in Token : /\ tasks[tok.task].status # "absent"
                     /\ tok.version = tasks[tok.task].version
                     /\ tok.worker = tasks[tok.task].owner}

\* All tokens are tokens.
LEMMA TokensType == ASSUME ServiceTypeOK PROVE Tokens \subseteq Token
<1>1. ASSUME NEW h \in Handler, calls[h].pc # "idle"
      PROVE  calls[h].req.tok \in Token /\ Offered(calls[h]) \subseteq Token
  <2>1. calls[h].req.tok \in Token /\ calls[h].req.tok.task \in TaskId /\ calls[h].row \in Task
    BY <1>1, CallParts
  <2> QED
    BY <2>1, TokenType DEF Offered
<1>2. \A w \in External : held[w] \subseteq Token
  BY DEF ServiceTypeOK
<1> QED
  BY <1>1, <1>2 DEF Tokens

\* The token a row gives rise to is fresh.
LEMMA FreshToken ==
    ASSUME StoreInv, NEW t \in TaskId, Exists(t)
    PROVE  withLeaseToken(t, tasks[t]) \subseteq FreshTokens
<1>1. tasks[t] \in Task
  BY DEF StoreInv
<1>2. withLeaseToken(t, tasks[t]) \subseteq Token
  BY <1>1, TokenType
<1> QED
  BY <1>2 DEF withLeaseToken, FreshTokens, Exists

\* A token still fits after the row has changed.
LEMMA TokenSurvives ==
    ASSUME IInv, IInv', RowEffects, committed \subseteq committed', NEW tok \in Token,
           Fits(tok, tasks[tok.task]), Signed(tok, tasks[tok.task], committed)
    PROVE  Fits(tok, tasks'[tok.task]) /\ Signed(tok, tasks'[tok.task], committed')
<1> DEFINE t == tok.task
           a == tasks[t]
           b == tasks'[t]
<1>1. t \in TaskId /\ tok.version \in Nat /\ tok.worker \in Worker
  BY DEF Token
<1>2. /\ a \in Task /\ b \in Task /\ RowOK(a) /\ a.version \in Nat /\ b.version \in Nat
  BY <1>1 DEF IInv, StoreInv, Task
<1>3. tok = [task |-> t, worker |-> tok.worker, version |-> tok.version]
  BY DEF Token
<1>4. Kept(a, b) \/ Written(t, a, b, committed')
  BY <1>1 DEF RowEffects, RowEffect, Fits
<1> SUFFICES Fits(tok, b) /\ Signed(tok, b, committed')
  OBVIOUS
<1> HIDE DEF a, b
<1>5. Fits(tok, a) /\ Signed(tok, a, committed)
  BY DEF a
<1>6. CASE Kept(a, b)
  BY <1>5, <1>6 DEF Kept, Fits, Signed
<1>7. CASE Written(t, a, b, committed')
  <2>1. b.version = a.version + 1 /\ tok.version <= a.version /\ b.status # "absent"
    BY <1>5, <1>7 DEF Written, Fits
  <2>2. Fits(tok, b)
    BY <1>1, <1>2, <2>1 DEF Fits
  <2>3. ASSUME tok.version + 1 = b.version, tok.worker \in External
        PROVE  Signed(tok, b, committed')
    <3>1. tok.version = a.version
      BY <1>1, <1>2, <2>1, <2>3
    <3>2. a.owner = tok.worker /\ a.owner # NoWorker
      BY <1>1, <1>5, <3>1, NoWorkerAssumption DEF Fits
    <3>3. a.status = "running"
      BY <1>2, <3>2 DEF RowOK
    <3>4. tok = TokenOf(t, a)
      BY <1>3, <3>1, <3>2 DEF TokenOf
    <3> QED
      BY <1>7, <3>3, <3>4 DEF Written
  <2>4. Signed(tok, b, committed')
    BY <2>3 DEF Signed
  <2> QED
    BY <2>2, <2>4
<1> QED
  BY <1>4, <1>6, <1>7

\* A committed call stays spent.
LEMMA SpentSurvives ==
    ASSUME IInv, IInv', RowEffects, NEW req \in Request, Spent(req, tasks[req.tok.task])
    PROVE  Spent(req, tasks'[req.tok.task])
<1> DEFINE t == req.tok.task
           a == tasks[t]
           b == tasks'[t]
<1>1. t \in TaskId /\ req.tok.version \in Nat
  BY DEF Request, Token
<1>2. a.version \in Nat /\ b.version \in Nat
  BY <1>1 DEF IInv, StoreInv, Task
<1>3. Kept(a, b) \/ Written(t, a, b, committed')
  BY <1>1 DEF RowEffects, RowEffect, Spent
<1> SUFFICES Spent(req, b)
  OBVIOUS
<1> HIDE DEF a, b
<1>4. Spent(req, a)
  BY DEF a
<1>5. CASE Kept(a, b)
  BY <1>4, <1>5 DEF Kept, Spent, Reports
<1>6. CASE Written(t, a, b, committed')
  BY <1>1, <1>2, <1>4, <1>6 DEF Written, Spent
<1> QED
  BY <1>3, <1>5, <1>6

\* A step that writes rows as above, adds fresh tokens only, and leaves the
\* calls in order keeps the invariant.
LEMMA TokenStep ==
    ASSUME IInv, IInv', TokenInv, RowEffects, committed \subseteq committed',
           Tokens' \subseteq Tokens \union FreshTokens',
           \A req \in committed' \ committed : Spent(req, tasks'[req.tok.task]),
           CallsInOrder'
    PROVE  TokenInv'
<1>1. TokensInOrder'
  <2> SUFFICES ASSUME NEW tok \in Tokens'
               PROVE  Fits(tok, tasks'[tok.task]) /\ Signed(tok, tasks'[tok.task], committed')
    BY DEF TokensInOrder
  <2>1. CASE tok \in Tokens
    <3>1. tok \in Token
      BY <2>1, TokensType DEF IInv
    <3>2. Fits(tok, tasks[tok.task]) /\ Signed(tok, tasks[tok.task], committed)
      BY <2>1 DEF TokenInv, TokensInOrder
    <3> QED
      BY <3>1, <3>2, TokenSurvives
  <2>2. CASE tok \in FreshTokens'
    <3>1. /\ tok \in Token /\ tasks'[tok.task].status # "absent"
          /\ tok.version = tasks'[tok.task].version
          /\ tok.worker = tasks'[tok.task].owner
      BY <2>2 DEF FreshTokens
    <3>2. tok.version \in Nat
      BY <3>1 DEF Token
    <3> QED
      BY <3>1, <3>2 DEF Fits, Signed
  <2> QED
    BY <2>1, <2>2
<1>2. CommittedAreSpent'
  <2> SUFFICES ASSUME NEW req \in committed' PROVE Spent(req, tasks'[req.tok.task])
    BY DEF CommittedAreSpent
  <2>1. CASE req \in committed
    <3>1. req \in Request /\ Spent(req, tasks[req.tok.task])
      BY <2>1 DEF IInv, ServiceTypeOK, TokenInv, CommittedAreSpent
    <3> QED
      BY <3>1, SpentSurvives
  <2> QED
    BY <2>1
<1>3. ASSUME NEW t \in TaskId PROVE CodeWhileRetrying(tasks'[t])
  BY DEF TokenInv, RowEffects, RowEffect, Written, Kept, CodeWhileRetrying
<1> QED
  BY <1>1, <1>2, <1>3 DEF TokenInv

\* A step of the store that touches no call and no token.
LEMMA QuietStep ==
    ASSUME IInv, IInv', TokenInv, RowEffects, UNCHANGED serviceVars
    PROVE  TokenInv'
<1>1. calls' = calls /\ held' = held /\ committed' = committed
  BY DEF serviceVars
<1>2. Tokens' = Tokens
  BY <1>1 DEF Tokens, Offered, withLeaseToken
<1>3. CallsInOrder'
  BY <1>1 DEF TokenInv, CallsInOrder
<1> QED
  BY <1>1, <1>2, <1>3, TokenStep

\* A step that changes one call, which keeps or borrows a known token.
LEMMA OneCallStep ==
    ASSUME IInv, IInv', TokenInv, RowEffects, committed \subseteq committed',
           \A req \in committed' \ committed : Spent(req, tasks'[req.tok.task]),
           NEW h \in Handler, NEW new, calls' = [calls EXCEPT ![h] = new], held' = held,
           new.pc # "idle", new.req.tok \in Tokens,
           Offered(new) \subseteq Tokens \union FreshTokens',
           CallOK(new, committed')
    PROVE  TokenInv'
<1>0. /\ calls'[h] = new /\ \A g \in Handler \ {h} : calls'[g] = calls[g]
  BY DEF IInv, ServiceTypeOK
<1>1. ASSUME NEW g \in Handler \ {h}, calls[g].pc # "idle" PROVE CallOK(calls[g], committed')
  BY <1>1 DEF TokenInv, CallsInOrder, CallOK, SeenIn
<1>2. CallsInOrder'
  BY <1>0, <1>1 DEF CallsInOrder
<1>3. ASSUME NEW g \in Handler, calls'[g].pc # "idle"
      PROVE  /\ calls'[g].req.tok \in Tokens
             /\ Offered(calls'[g]) \subseteq Tokens \union FreshTokens'
  <2>1. CASE g = h
    BY <1>0, <2>1
  <2>2. CASE g # h
    BY <1>0, <1>3, <2>2 DEF Tokens
  <2> QED
    BY <2>1, <2>2
<1>4. \A w \in External : held'[w] \subseteq Tokens
  BY DEF Tokens
<1>5. Tokens' \subseteq Tokens \union FreshTokens'
  <2>1. \A g \in Handler : Offered(calls[g])' = Offered(calls'[g])
    BY DEF Offered, withLeaseToken
  <2> QED
    BY <1>3, <1>4, <2>1 DEF Tokens
<1> QED
  BY <1>2, <1>5, TokenStep

-----------------------------------------------------------------------------
(* The steps of the worker service.                                        *)

\* The token of a call is known, and fits the row of its task.
LEMMA CallTokens ==
    ASSUME TokenInv, NEW h \in Handler, calls[h].pc # "idle"
    PROVE  /\ calls[h].req.tok \in Tokens /\ Offered(calls[h]) \subseteq Tokens
           /\ Fits(calls[h].req.tok, tasks[calls[h].req.tok.task])
           /\ Signed(calls[h].req.tok, tasks[calls[h].req.tok.task], committed)
           /\ CallOK(calls[h], committed)
<1>1. calls[h].req.tok \in Tokens /\ Offered(calls[h]) \subseteq Tokens
  BY DEF Tokens
<1> QED
  BY <1>1 DEF TokenInv, TokensInOrder, CallsInOrder

\* The row of an answer without a row carries no token.
LEMMA NothingOffered == ASSUME NEW t PROVE withLeaseToken(t, NoTask) = {}
BY DEF withLeaseToken, NoTask

\* Answering without a row.
LEMMA AnswerTokens ==
    ASSUME IInv, IInv', TokenInv, NEW h \in Handler, calls[h].pc # "idle", NEW reply,
           Answer(h, reply), reply = "replayed" => SeenIn(calls[h].req, committed),
           UNCHANGED <<held, committed>>, UNCHANGED storeVars
    PROVE  TokenInv'
<1> DEFINE c == calls[h]
           new == [c EXCEPT !.pc = "reply", !.reply = reply, !.row = NoTask]
<1>1. c \in Call /\ c.req.tok \in Tokens
  BY CallParts, CallTokens DEF IInv
<1>2. calls' = [calls EXCEPT ![h] = new]
  BY DEF Answer
<1>3. reply = "replayed" => SeenIn(c.req, committed')
  OBVIOUS
<1> HIDE DEF c
<1>4. new.req = c.req /\ new.pc = "reply" /\ new.row = NoTask /\ new.reply = reply
  BY <1>1 DEF Call
<1> HIDE DEF new
<1>5. Offered(new) = {}
  BY <1>4, NothingOffered DEF Offered
<1>6. CallOK(new, committed')
  BY <1>3, <1>4 DEF CallOK
<1>7. new.pc # "idle" /\ new.req.tok \in Tokens
  BY <1>1, <1>4
<1> QED
  BY <1>2, <1>5, <1>6, <1>7, NoEffect, OneCallStep

\* Going on with the call.
LEMMA GotoTokens ==
    ASSUME IInv, IInv', TokenInv, NEW h \in Handler, calls[h].pc # "idle",
           NEW pc \in {"validate", "prepare", "renew"}, Goto(h, pc),
           pc # "validate" => calls[h].req.tok.worker = calls[h].req.worker,
           UNCHANGED <<held, committed>>, UNCHANGED storeVars
    PROVE  TokenInv'
<1> DEFINE c == calls[h]
           new == [c EXCEPT !.pc = pc]
<1>1. c \in Call /\ c.req.tok \in Tokens /\ CallOK(c, committed)
  BY CallParts, CallTokens DEF IInv
<1>2. calls' = [calls EXCEPT ![h] = new]
  BY DEF Goto
<1>3. pc # "validate" => c.req.tok.worker = c.req.worker
  OBVIOUS
<1> HIDE DEF c
<1>4. new.req = c.req /\ new.pc = pc /\ new.reply = c.reply
  BY <1>1 DEF Call
<1> HIDE DEF new
<1>5. Offered(new) = {}
  BY <1>4 DEF Offered
<1>6. CallOK(new, committed')
  BY <1>1, <1>3, <1>4 DEF CallOK
<1>7. new.pc # "idle" /\ new.req.tok \in Tokens
  BY <1>1, <1>4
<1> QED
  BY <1>2, <1>5, <1>6, <1>7, NoEffect, OneCallStep

\* What is recognized as a replay was committed: the row is one version past
\* the token, so its holder wrote it, and the row names the call as far as
\* a row can.
LEMMA ReplayIsSigned ==
    ASSUME IInv, TokenInv, NEW h \in Handler, calls[h].pc # "idle",
           calls[h].req.tok.worker = calls[h].req.worker,
           Replayable(tasks[calls[h].req.tok.task], calls[h].req,
                      ReplayStatuses(calls[h].req.op)),
           SameOutcome(tasks[calls[h].req.tok.task], calls[h].req)
    PROVE  SeenIn(calls[h].req, committed)
<1> DEFINE req == calls[h].req
           tok == req.tok
           row == tasks[tok.task]
<1>1. /\ req \in Request /\ tok \in Token /\ tok.task \in TaskId
      /\ req.worker \in External /\ req.arg \in ArgumentOf(req.op)
  BY CallParts DEF IInv
<1>2. Signed(tok, row, committed) /\ CodeWhileRetrying(row)
  BY <1>1, CallTokens DEF TokenInv
<1>3. /\ row.version = tok.version + 1 /\ row.status \in ReplayStatuses(req.op)
      /\ SameOutcome(row, req) /\ tok.worker = req.worker
  BY DEF Replayable
<1> SUFFICES SeenIn(req, committed)
  OBVIOUS
<1> HIDE DEF req, row
<1>0. req \in committed => SeenIn(req, committed)
  BY DEF SeenIn, SameRequest
<1>4. CASE req.op = "complete"
  <2>1. row.status = "succeeded" /\ row.result = req.arg
    BY <1>3, <1>4 DEF ReplayStatuses, SameOutcome
  <2>2. [op |-> "complete", worker |-> tok.worker, tok |-> tok, arg |-> row.result] \in committed
    BY <1>1, <1>2, <1>3, <2>1 DEF Signed
  <2>3. req = [op |-> "complete", worker |-> tok.worker, tok |-> tok, arg |-> row.result]
    BY <1>1, <1>3, <1>4, <2>1 DEF Request
  <2> QED
    BY <1>0, <2>2, <2>3
<1>5. CASE req.op = "fail"
  <2>1. req.arg \in Failure
    BY <1>1, <1>5 DEF ArgumentOf
  <2>2. row.status \in {"retrying", "failed"} /\ row.err = CodeAndMessage(req.arg)
    BY <1>3, <1>5 DEF ReplayStatuses, SameOutcome
  <2>3. row.status = "failed"
    BY <1>2, <2>1, <2>2 DEF CodeWhileRetrying
  <2>4. PICK g \in Failure :
          /\ FailureText[g] = FailureText[req.arg]
          /\ [op |-> "fail", worker |-> tok.worker, tok |-> tok, arg |-> g] \in committed
    BY <1>1, <1>2, <1>3, <2>1, <2>2, <2>3 DEF Signed
  <2>5. SameRequest([op |-> "fail", worker |-> tok.worker, tok |-> tok, arg |-> g], req)
    BY <1>3, <1>5, <2>4 DEF SameRequest
  <2> QED
    BY <2>4, <2>5 DEF SeenIn
<1>6. CASE req.op = "release"
  <2>1. row.status = "queued" /\ req.arg = NoOutput
    BY <1>1, <1>3, <1>6 DEF ReplayStatuses, ArgumentOf
  <2>2. [op |-> "release", worker |-> tok.worker, tok |-> tok, arg |-> NoOutput] \in committed
    BY <1>1, <1>2, <1>3, <2>1 DEF Signed
  <2>3. req = [op |-> "release", worker |-> tok.worker, tok |-> tok, arg |-> NoOutput]
    BY <1>1, <1>3, <1>6, <2>1 DEF Request
  <2> QED
    BY <1>0, <2>2, <2>3
<1>7. req.op \in {"complete", "fail", "release"}
  BY <1>3 DEF ReplayStatuses
<1> QED
  BY <1>4, <1>5, <1>6, <1>7

\* The read that looks for a replay.
LEMMA ReplayTokens ==
    ASSUME IInv, IInv', TokenInv, NEW h \in Handler, replayWorkerOperation(h)
    PROVE  TokenInv'
<1> DEFINE req == calls[h].req
           row == tasks[req.tok.task]
<1>1. /\ calls[h].pc # "idle" /\ UNCHANGED <<held, committed>> /\ UNCHANGED storeVars
  BY DEF replayWorkerOperation
<1>2. CASE Answer(h, "lease_lost") \/ Answer(h, "conflict")
  BY <1>1, <1>2, AnswerTokens
<1>3. CASE /\ req.tok.worker = req.worker
           /\ Replayable(row, req, ReplayStatuses(req.op))
           /\ SameOutcome(row, req)
           /\ Answer(h, "replayed")
  BY <1>1, <1>3, ReplayIsSigned, AnswerTokens
<1>4. CASE Goto(h, "validate")
  BY <1>1, <1>4, GotoTokens
<1> QED
  BY <1>2, <1>3, <1>4 DEF replayWorkerOperation

\* The read that validates the token.
LEMMA ValidateTokens ==
    ASSUME IInv, IInv', TokenInv, NEW h \in Handler, validateLeaseToken(h)
    PROVE  TokenInv'
<1> DEFINE req == calls[h].req
<1>1. /\ calls[h].pc # "idle" /\ UNCHANGED <<held, committed>> /\ UNCHANGED storeVars
  BY DEF validateLeaseToken
<1>2. CASE Answer(h, "lease_lost")
  BY <1>1, <1>2, AnswerTokens
<1>3. CASE req.tok.worker = req.worker /\ \E pc \in {"renew", "prepare"} : Goto(h, pc)
  BY <1>1, <1>3, GotoTokens
<1> QED
  BY <1>2, <1>3 DEF validateLeaseToken

\* Every copy a handler prepares reports what the request says.
LEMMA OutcomeReports ==
    ASSUME NEW row \in Task, row.status = "running", NEW req \in Request,
           req.arg \in ArgumentOf(req.op), NEW at \in Nat, NEW o \in Outcomes(row, req, at)
    PROVE  Reports(o[1], o[2], req)
<1>1. CASE req.op = "complete"
  <2> DEFINE moved == MoveTo(row, "succeeded")
             copy == [moved EXCEPT !.result = req.arg, !.progress = 100]
  <2>1. moved \in Task /\ moved.status = "succeeded"
    BY MoveToType DEF Status
  <2>2. o = <<copy, "task_succeeded">>
    BY <1>1 DEF Outcomes, CompletedRow
  <2> HIDE DEF moved
  <2>3. copy.status = "succeeded" /\ copy.result = req.arg
    BY <2>1 DEF Task
  <2> HIDE DEF copy
  <2> QED
    BY <1>1, <2>2, <2>3 DEF Reports
<1>2. CASE req.op = "progress"
  <2> DEFINE copy == [row EXCEPT !.progress = req.arg]
  <2>1. o = <<copy, "task_progress">>
    BY <1>2 DEF Outcomes, ProgressRow
  <2>2. copy.status = "running"
    BY DEF Task
  <2> HIDE DEF copy
  <2> QED
    BY <1>2, <2>1, <2>2 DEF Reports
<1>3. CASE req.op = "release"
  <2>1. o = <<RequeueForRelease(row, at), "task_released">>
    BY <1>3 DEF Outcomes
  <2>2. RequeueForRelease(row, at).status = "queued"
    BY RequeueType
  <2> QED
    BY <1>3, <2>1, <2>2 DEF Reports
<1>4. CASE req.op = "fail"
  <2>1. req.arg \in Failure
    BY <1>4 DEF ArgumentOf
  <2>2. CASE o \in Schedule(row, req.arg, at)
    BY <1>4, <2>1, <2>2, ScheduledError DEF Reports
  <2>3. CASE o = <<FailedRow(row, req), "task_failed">>
    <3> DEFINE moved == MoveTo(row, "failed")
               copy == [moved EXCEPT !.err = CodeAndMessage(req.arg)]
    <3>1. moved \in Task /\ moved.status = "failed"
      BY MoveToType DEF Status
    <3>2. o = <<copy, "task_failed">>
      BY <2>3 DEF FailedRow
    <3> HIDE DEF moved
    <3>3. copy.status = "failed" /\ copy.err = CodeAndMessage(req.arg)
      BY <3>1 DEF Task
    <3> HIDE DEF copy
    <3> QED
      BY <1>4, <3>2, <3>3 DEF Reports
  <2> QED
    BY <1>4, <2>2, <2>3 DEF Outcomes
<1>5. req.op \in {"complete", "progress", "release", "fail"}
  BY DEF Outcomes
<1> QED
  BY <1>1, <1>2, <1>3, <1>4, <1>5

\* The read that takes the copy: its version is the token's.
LEMMA PrepareTokens ==
    ASSUME IInv, IInv', TokenInv, NEW h \in Handler, prepareRunningTask(h)
    PROVE  TokenInv'
<1> DEFINE c == calls[h]
           t == c.req.tok.task
<1>1. /\ c.pc = "prepare" /\ c.pc # "idle" /\ UNCHANGED <<held, committed>>
      /\ UNCHANGED storeVars
  BY DEF prepareRunningTask
<1>2. /\ c \in Call /\ c.req \in Request /\ t \in TaskId
      /\ c.req.arg \in ArgumentOf(c.req.op)
  BY <1>1, CallParts DEF IInv
<1>3. c.req.tok \in Tokens /\ CallOK(c, committed) /\ c.req.tok.worker = c.req.worker
  BY <1>1, CallTokens DEF CallOK
<1>4. tasks[t] \in Task /\ RowOK(tasks[t])
  BY <1>2 DEF IInv, StoreInv
<1>5. PICK at \in LocalTime :
        \/ \E reply \in {"lease_lost", "conflict"} : Answer(h, reply)
        \/ /\ Prepared(tasks[t], c.req, at)
           /\ tasks[t].version = c.req.tok.version
           /\ \E o \in Outcomes(tasks[t], c.req, at) :
                calls' = [calls EXCEPT ![h].pc = "commit", ![h].row = o[1],
                                       ![h].event = o[2]]
  BY DEF prepareRunningTask
<1>6. CASE \E reply \in {"lease_lost", "conflict"} : Answer(h, reply)
  BY <1>1, <1>6, AnswerTokens
<1>7. CASE /\ Prepared(tasks[t], c.req, at)
           /\ tasks[t].version = c.req.tok.version
           /\ \E o \in Outcomes(tasks[t], c.req, at) :
                calls' = [calls EXCEPT ![h].pc = "commit", ![h].row = o[1],
                                       ![h].event = o[2]]
  <2>1. PICK o \in Outcomes(tasks[t], c.req, at) :
          calls' = [calls EXCEPT ![h].pc = "commit", ![h].row = o[1], ![h].event = o[2]]
    BY <1>7
  <2>2. tasks[t].status = "running" /\ at \in Nat
    BY <1>7, LocalTimeType DEF Prepared, IInv
  <2>3. o[1].version = c.req.tok.version
    <3>1. Saveable(o, tasks[t])
      BY <1>2, <1>4, <2>2, OutcomeSaveable
    <3> QED
      BY <1>7, <3>1 DEF Saveable
  <2>4. Reports(o[1], o[2], c.req)
    BY <1>2, <1>4, <2>2, OutcomeReports
  <2> DEFINE new == [c EXCEPT !.pc = "commit", !.row = o[1], !.event = o[2]]
  <2>5. calls' = [calls EXCEPT ![h] = new]
    BY <2>1
  <2> HIDE DEF c
  <2>6. /\ new.req = c.req /\ new.pc = "commit" /\ new.row = o[1] /\ new.event = o[2]
        /\ new.reply = c.reply
    BY <1>2 DEF Call
  <2> HIDE DEF new
  <2>7. CallOK(new, committed')
    BY <1>1, <1>3, <2>3, <2>4, <2>6 DEF CallOK
  <2>8. Offered(new) = {} /\ new.pc # "idle" /\ new.req.tok \in Tokens
    BY <1>3, <2>6 DEF Offered
  <2> QED
    BY <1>1, <2>5, <2>7, <2>8, NoEffect, OneCallStep
<1> QED
  BY <1>5, <1>6, <1>7

\* The versioned update spends the token, or the conflict leaves it.
LEMMA CommitTokens ==
    ASSUME IInv, IInv', TokenInv, NEW h \in Handler, Commit(h)
    PROVE  TokenInv'
<1> DEFINE c == calls[h]
           t == c.req.tok.task
<1>1. c.pc = "commit" /\ c.pc # "idle" /\ held' = held
  BY DEF Commit
<1>2. CASE Answer(h, "conflict") /\ UNCHANGED <<storeVars, committed>>
  BY <1>1, <1>2, AnswerTokens
<1>3. CASE /\ UpdateTaskWithEvent(t, c.row, c.event)
           /\ calls' = [calls EXCEPT ![h].pc = AfterCommit(c.event),
                                     ![h].reply = "ok", ![h].row = NoTask]
           /\ committed' = committed \union {c.req}
  <2> DEFINE new == [c EXCEPT !.pc = AfterCommit(c.event), !.reply = "ok",
                              !.row = NoTask]
  <2>1. RowEffects /\ Spent(c.req, tasks'[t])
    BY <1>1, <1>3, CommitEffect
  <2>2. c \in Call /\ c.req.tok \in Tokens
    BY <1>1, CallParts, CallTokens DEF IInv
  <2>3. calls' = [calls EXCEPT ![h] = new]
    BY <1>3
  <2>4. AfterCommit(c.event) \in {"reply", "reread"}
    BY DEF AfterCommit
  <2>5. \A req \in committed' \ committed : Spent(req, tasks'[req.tok.task])
    BY <1>3, <2>1
  <2> HIDE DEF c
  <2>6. /\ new.req = c.req /\ new.pc \in {"reply", "reread"} /\ new.row = NoTask
        /\ new.reply = "ok"
    BY <2>2, <2>4 DEF Call
  <2> HIDE DEF new
  <2>7. CallOK(new, committed')
    BY <2>6 DEF CallOK
  <2>8. Offered(new) = {}
    BY <2>6, NothingOffered DEF Offered
  <2>9. new.pc # "idle" /\ new.req.tok \in Tokens
    BY <2>2, <2>6
  <2> QED
    BY <1>1, <1>3, <2>1, <2>3, <2>5, <2>7, <2>8, <2>9, OneCallStep
<1> QED
  BY <1>2, <1>3 DEF Commit

\* The renewal leaves the version, and so every token, as it is.
LEMMA RenewTokens ==
    ASSUME IInv, IInv', TokenInv, NEW h \in Handler, Renew(h)
    PROVE  TokenInv'
<1> DEFINE c == calls[h]
           t == c.req.tok.task
<1>1. c.pc = "renew" /\ c.pc # "idle" /\ UNCHANGED <<held, committed>>
  BY DEF Renew
<1>2. c \in Call /\ t \in TaskId /\ c.at \in Nat /\ c.req.tok \in Tokens
  BY <1>1, CallParts, CallTokens DEF IInv
<1>3. CASE Answer(h, "lease_lost") /\ UNCHANGED storeVars
  BY <1>1, <1>3, AnswerTokens
<1>4. CASE /\ RenewLease(t, c.req.worker, c.at)
           /\ calls' = [calls EXCEPT ![h].pc = "reread", ![h].reply = "ok"]
  <2> DEFINE new == [c EXCEPT !.pc = "reread", !.reply = "ok"]
  <2>1. RowEffects
    BY <1>2, <1>4, RenewEffect DEF IInv
  <2>2. calls' = [calls EXCEPT ![h] = new]
    BY <1>4
  <2> HIDE DEF c
  <2>3. new.req = c.req /\ new.pc = "reread" /\ new.reply = "ok"
    BY <1>2 DEF Call
  <2> HIDE DEF new
  <2>4. CallOK(new, committed') /\ Offered(new) = {} /\ new.pc # "idle"
    BY <2>3 DEF CallOK, Offered
  <2>5. new.req.tok \in Tokens
    BY <1>2, <2>3
  <2> QED
    BY <1>1, <2>1, <2>2, <2>4, <2>5, OneCallStep
<1> QED
  BY <1>3, <1>4 DEF Renew

\* The second read: the answer's token is made from the row as it is now.
LEMMA RereadTokens ==
    ASSUME IInv, IInv', TokenInv, NEW h \in Handler, Reread(h)
    PROVE  TokenInv'
<1> DEFINE c == calls[h]
           t == c.req.tok.task
           row == tasks[t]
           new == [c EXCEPT !.pc = "reply", !.row = row]
<1>1. /\ c.pc = "reread" /\ c.pc # "idle" /\ UNCHANGED <<held, committed>>
      /\ UNCHANGED storeVars /\ calls' = [calls EXCEPT ![h] = new]
  BY DEF Reread
<1>2. /\ c \in Call /\ t \in TaskId /\ c.req.tok \in Tokens /\ Exists(t)
      /\ CallOK(c, committed)
  BY <1>1, CallParts, CallTokens DEF IInv, Fits, Exists
<1>3. withLeaseToken(t, row) \subseteq FreshTokens'
  <2>1. FreshTokens' = FreshTokens
    BY <1>1 DEF FreshTokens, storeVars
  <2> QED
    BY <1>2, <2>1, FreshToken DEF IInv
<1> HIDE DEF c, row
<1>4. /\ new.req = c.req /\ new.pc = "reply" /\ new.row = row /\ new.reply = c.reply
  BY <1>2 DEF Call
<1> HIDE DEF new
<1>5. Offered(new) \subseteq FreshTokens'
  BY <1>3, <1>4 DEF Offered
<1>6. CallOK(new, committed')
  BY <1>1, <1>2, <1>4 DEF CallOK
<1>7. new.pc # "idle" /\ new.req.tok \in Tokens
  BY <1>2, <1>4
<1> QED
  BY <1>1, <1>5, <1>6, <1>7, NoEffect, OneCallStep

\* The answer hands out the token it carries.
LEMMA RespondTokens ==
    ASSUME IInv, IInv', TokenInv, NEW h \in Handler, Respond(h)
    PROVE  TokenInv'
<1> DEFINE c == calls[h]
           tokens == IF c.reply = "ok" /\ c.req.op \in {"heartbeat", "progress"}
                       THEN withLeaseToken(c.req.tok.task, c.row) ELSE {}
<1>1. /\ c.pc = "reply" /\ c.pc # "idle" /\ committed' = committed
      /\ UNCHANGED storeVars
      /\ calls' = [calls EXCEPT ![h] = Idle]
      /\ held' = [held EXCEPT ![c.req.worker] = @ \union tokens]
  BY DEF Respond
<1>2. c.req.worker \in External
  BY <1>1, CallParts DEF IInv
<1>3. tokens \subseteq Tokens
  <2>1. tokens \subseteq Offered(c)
    BY <1>1 DEF Offered
  <2> QED
    BY <1>1, <2>1, CallTokens
<1> HIDE DEF tokens
<1>4. \A w \in External : held'[w] \subseteq Tokens
  BY <1>1, <1>2, <1>3 DEF IInv, ServiceTypeOK, Tokens
<1>5. /\ calls'[h] = Idle /\ Idle.pc = "idle"
      /\ \A g \in Handler \ {h} : calls'[g] = calls[g]
  BY <1>1 DEF IInv, ServiceTypeOK, Idle
<1>6. ASSUME NEW g \in Handler, calls'[g].pc # "idle"
      PROVE  calls'[g].req.tok \in Tokens /\ Offered(calls'[g]) \subseteq Tokens
  <2>1. g # h /\ calls'[g] = calls[g]
    BY <1>5, <1>6
  <2> QED
    BY <1>6, <2>1, CallTokens
<1>7. Tokens' \subseteq Tokens
  <2>1. \A g \in Handler : Offered(calls[g])' = Offered(calls'[g])
    BY DEF Offered, withLeaseToken
  <2> QED
    BY <1>4, <1>6, <2>1 DEF Tokens
<1>8. CallsInOrder'
  BY <1>1, <1>5 DEF TokenInv, CallsInOrder
<1> QED
  BY <1>1, <1>7, <1>8, NoEffect, TokenStep

\* A worker sends a call with one of its tokens.
LEMMA SendTokens ==
    ASSUME IInv, IInv', TokenInv, NEW h \in Handler, NEW w \in External, Send(h, w)
    PROVE  TokenInv'
<1>1. PICK tok \in held[w], op \in Operation, at \in LocalTime :
        \E arg \in ArgumentOf(op) :
          calls' = [calls EXCEPT ![h] =
             [pc |-> IF op \in {"heartbeat", "progress"} THEN "validate" ELSE "replay",
              req |-> [op |-> op, worker |-> w, tok |-> tok, arg |-> arg],
              at |-> IF op = "heartbeat" THEN at ELSE 0, row |-> NoTask,
              event |-> "task_progress", reply |-> "none"]]
  BY DEF Send
<1>2. PICK arg \in ArgumentOf(op) :
          calls' = [calls EXCEPT ![h] =
             [pc |-> IF op \in {"heartbeat", "progress"} THEN "validate" ELSE "replay",
              req |-> [op |-> op, worker |-> w, tok |-> tok, arg |-> arg],
              at |-> IF op = "heartbeat" THEN at ELSE 0, row |-> NoTask,
              event |-> "task_progress", reply |-> "none"]]
  BY <1>1
<1> DEFINE pc == IF op \in {"heartbeat", "progress"} THEN "validate" ELSE "replay"
           time == IF op = "heartbeat" THEN at ELSE 0
           new == [pc |-> pc, req |-> [op |-> op, worker |-> w, tok |-> tok, arg |-> arg],
                   at |-> time, row |-> NoTask, event |-> "task_progress",
                   reply |-> "none"]
<1>3. calls' = [calls EXCEPT ![h] = new]
  BY <1>2
<1>4. /\ pc \in {"validate", "replay"}
      /\ pc = "replay" => op \in {"complete", "fail", "release"}
  BY ServiceAssumption DEF AllOperations
<1> HIDE DEF pc, time
<1>5. new.pc = pc /\ new.req.op = op /\ new.req.tok = tok /\ new.reply = "none"
  OBVIOUS
<1> HIDE DEF new
<1>6. CallOK(new, committed') /\ Offered(new) = {} /\ new.pc # "idle"
  BY <1>4, <1>5 DEF CallOK, Offered
<1>7. new.req.tok \in Tokens
  BY <1>5 DEF Tokens
<1>8. held' = held /\ committed' = committed /\ UNCHANGED storeVars
  BY DEF Send
<1> QED
  BY <1>3, <1>6, <1>7, <1>8, NoEffect, OneCallStep

\* A claim hands out the token of the row it has written.
LEMMA ClaimTokens ==
    ASSUME IInv, IInv', TokenInv, NEW w \in External, ClaimTask(w)
    PROVE  TokenInv'
<1>1. PICK at \in LocalTime, t \in TaskId :
        /\ ClaimNextWithEvent(w, at, t)
        /\ held' = [held EXCEPT ![w] = @ \union withLeaseToken(t, tasks'[t])]
  BY DEF ClaimTask
<1>2. at \in Nat /\ w \in Worker /\ StoreInv
  BY LocalTimeType, ServiceAssumption DEF IInv
<1>3. RowEffects
  BY <1>1, <1>2, ClaimEffect
<1>4. tasks'[t].status = "running" /\ tasks'[t] \in Task
  BY <1>1, <1>2, ClaimStep
<1>5. withLeaseToken(t, tasks'[t]) \subseteq FreshTokens'
  BY <1>4, TokenType DEF FreshTokens, withLeaseToken
<1>6. calls' = calls /\ committed' = committed
  BY DEF ClaimTask
<1>7. \A v \in External : held'[v] \subseteq Tokens \union FreshTokens'
  BY <1>1, <1>5 DEF IInv, ServiceTypeOK, Tokens
<1>8. ASSUME NEW g \in Handler, calls'[g].pc # "idle"
      PROVE  calls'[g].req.tok \in Tokens /\ Offered(calls'[g]) \subseteq Tokens
  BY <1>6, <1>8, CallTokens
<1>9. Tokens' \subseteq Tokens \union FreshTokens'
  <2>1. \A g \in Handler : Offered(calls[g])' = Offered(calls'[g])
    BY DEF Offered, withLeaseToken
  <2> QED
    BY <1>7, <1>8, <2>1 DEF Tokens
<1>10. CallsInOrder'
  BY <1>6 DEF TokenInv, CallsInOrder
<1> QED
  BY <1>3, <1>6, <1>9, <1>10, TokenStep

\* A crash loses calls and the tokens in their answers.
LEMMA CrashTokens ==
    ASSUME IInv, IInv', TokenInv, CrashProcess
    PROVE  TokenInv'
<1>1. /\ calls' = [h \in Handler |-> Idle] /\ held' = held /\ committed' = committed
      /\ UNCHANGED storeVars /\ Idle.pc = "idle"
  BY DEF CrashProcess, Crash, Idle
<1>2. Tokens' \subseteq Tokens
  BY <1>1 DEF Tokens
<1>3. CallsInOrder'
  BY <1>1 DEF CallsInOrder
<1> QED
  BY <1>1, <1>2, <1>3, NoEffect, TokenStep

-----------------------------------------------------------------------------
(* The invariant.                                                          *)

\* No tokens, no calls and an empty store are in order.
LEMMA TokenInit == Init => TokenInv
<1> SUFFICES ASSUME Init PROVE TokenInv
  OBVIOUS
<1>1. /\ calls = [h \in Handler |-> Idle] /\ held = [w \in External |-> {}]
      /\ committed = {} /\ tasks = [t \in TaskId |-> NoTask] /\ Idle.pc = "idle"
  BY DEF Init, ServiceInit, StoreInit, Idle
<1>2. Tokens = {}
  BY <1>1 DEF Tokens
<1>3. TokensInOrder /\ CallsInOrder /\ CommittedAreSpent
  BY <1>1, <1>2 DEF TokensInOrder, CallsInOrder, CommittedAreSpent
<1>4. CodeWhileRetrying(NoTask)
  BY DEF CodeWhileRetrying, NoTask
<1> QED
  BY <1>1, <1>3, <1>4 DEF TokenInv

\* What an in-process worker does to the rows.
LEMMA InternalEffect ==
    ASSUME IInv, NEW w \in Internal, InternalStep(w)
    PROVE  RowEffects
<1>1. ASSUME ClaimInternal(w) PROVE RowEffects
  <2>1. PICK at \in LocalTime, t \in TaskId : ClaimNextWithEvent(w, at, t)
    BY <1>1 DEF ClaimInternal
  <2> QED
    BY <2>1, LocalTimeType, InternalAssumption, ClaimEffect DEF IInv
<1>2. ASSUME maintainLease(w) PROVE RowEffects
  <2>1. iw[w].task \in TaskId
    BY <1>2, ExecutionParts DEF maintainLease, IInv
  <2>2. ASSUME NEW at \in LocalTime, RenewLease(iw[w].task, w, at) PROVE RowEffects
    BY <2>1, <2>2, LocalTimeType, RenewEffect DEF IInv
  <2> QED
    BY <1>2, <2>2, NoEffect DEF maintainLease
<1>3. ASSUME FinishExecution(w) PROVE RowEffects
  <2>1. iw[w].pc = "execute"
    BY <1>3 DEF FinishExecution
  <2>2. CASE UNCHANGED storeVars
    BY <2>2, NoEffect
  <2>3. CASE \E at \in LocalTime : \E o \in Endings(iw[w], at) :
               UpdateTaskWithEvent(iw[w].task, o[1], o[2])
    BY <2>1, <2>3, FinishEffect
  <2> QED
    BY <1>3, <2>2, <2>3 DEF FinishExecution
<1>4. ASSUME AbandonExecution(w) PROVE RowEffects
  BY <1>4, NoEffect DEF AbandonExecution
<1> QED
  BY <1>1, <1>2, <1>3, <1>4 DEF InternalStep

\* A step of a handler keeps the tokens in order.
LEMMA ServeTokens ==
    ASSUME IInv, IInv', TokenInv, NEW h \in Handler, Serve(h)
    PROVE  TokenInv'
BY ReplayTokens, ValidateTokens, PrepareTokens, CommitTokens, RenewTokens, RereadTokens,
   RespondTokens DEF Serve, HandlerStep

\* Every step keeps the tokens in order.
LEMMA NextTokens == IInv /\ TokenInv /\ [Next]_vars => TokenInv'
<1> SUFFICES ASSUME IInv, TokenInv, [Next]_vars PROVE TokenInv'
  OBVIOUS
<1>0. IInv' /\ StoreInv
  BY NextInv DEF IInv
<1>1. ASSUME NEW t \in TaskId, CreateTask(t) PROVE TokenInv'
  <2>1. PICK at \in LocalTime : CreateTaskWithEvent(t, at)
    BY <1>1 DEF CreateTask
  <2>2. RowEffects
    BY <1>0, <2>1, LocalTimeType, CreateEffect DEF IInv
  <2> QED
    BY <1>0, <1>1, <2>2, QuietStep DEF CreateTask
<1>2. ASSUME NEW t \in TaskId, CancelTask(t) PROVE TokenInv'
  BY <1>0, <1>2, CancelEffect, QuietStep DEF CancelTask
<1>3. ASSUME NEW w \in External, ExternalClaim(w) PROVE TokenInv'
  BY <1>0, <1>3, ClaimTokens DEF ExternalClaim
<1>4. ASSUME NEW h \in Handler, NEW w \in External, ExternalSend(h, w) PROVE TokenInv'
  BY <1>0, <1>4, SendTokens DEF ExternalSend
<1>5. ASSUME NEW h \in Handler, Serve(h) PROVE TokenInv'
  BY <1>0, <1>5, ServeTokens
<1>6. ASSUME NEW w \in Internal, InternalStep(w) PROVE TokenInv'
  <2>1. UNCHANGED serviceVars
    BY <1>6 DEF InternalStep
  <2> QED
    BY <1>0, <1>6, <2>1, InternalEffect, QuietStep
<1>7. CASE ReaperStep
  <2>1. PICK at \in LocalTime, t \in TaskId : FailNextExpiredWithEvent(at, t)
    BY <1>7 DEF ReaperStep, Reap
  <2>2. RowEffects
    BY <1>0, <2>1, LocalTimeType, ReapEffect DEF IInv
  <2> QED
    BY <1>0, <1>7, <2>2, QuietStep DEF ReaperStep
<1>8. CASE CrashProcess
  BY <1>0, <1>8, CrashTokens
<1>9. CASE RestartProcess
  BY <1>0, <1>9, NoEffect, QuietStep DEF RestartProcess, Restart
<1>10. CASE Tick
  BY <1>0, <1>10, NoEffect, QuietStep DEF Tick
<1>11. CASE UNCHANGED vars
  BY <1>0, <1>11, NoEffect, QuietStep DEF vars
<1> QED
  BY <1>1, <1>2, <1>3, <1>4, <1>5, <1>6, <1>7, <1>8, <1>9, <1>10, <1>11 DEF Next

\* Tokens, calls and commits are in order in every reachable state.
THEOREM TokenInvariant == Spec => []TokenInv
BY InductiveInvariant, TokenInit, NextTokens, PTL DEF Spec

\* A token with the row's current version names the holder of the lease,
\* although an answer is made from a row read after the write (withLeaseToken).
THEOREM HolderTokens == Spec => []TokenNamesHolder
<1>1. TokenInv => TokenNamesHolder
  BY DEF TokenInv, TokensInOrder, Tokens, Fits, TokenNamesHolder
<1> QED
  BY <1>1, TokenInvariant, PTL

\* A replay answer is given only for a call that was committed: the same
\* operation and token with the same result or error text.
THEOREM TruthfulReplay == Spec => []ReplayIsTruthful
<1>1. TokenInv => ReplayIsTruthful
  BY DEF TokenInv, CallsInOrder, CallOK, SeenIn, ReplayIsTruthful
<1> QED
  BY <1>1, TokenInvariant, PTL

-----------------------------------------------------------------------------
(* The steps of a call that is being served.                               *)

\* A call in progress goes on in a step of its own handler, or is lost in a
\* crash.
LEMMA OwnStep ==
    ASSUME IInv, [Next]_vars, NEW h \in Handler, calls[h].pc # "idle",
           calls'[h] # calls[h], calls'[h].pc # "idle"
    PROVE  HandlerStep(h)
<1>1. calls \in [Handler -> Call \union {Idle}]
  BY DEF IInv, ServiceTypeOK
<1>2. ASSUME NEW g \in Handler, Serve(g) PROVE HandlerStep(h)
  <2>1. CASE g # h
    <3>1. calls'[h] = calls[h]
      BY <1>1, <1>2, <2>1
         DEF Serve, HandlerStep, replayWorkerOperation, validateLeaseToken,
             prepareRunningTask, Commit, Renew, Reread, Respond, Answer, Goto
    <3> QED
      BY <3>1
  <2>2. CASE g = h
    BY <1>2, <2>2 DEF Serve
  <2> QED
    BY <2>1, <2>2
<1>3. CASE calls' = calls
  BY <1>3
<1>4. CASE \E t \in TaskId : CreateTask(t) \/ CancelTask(t)
  BY <1>3, <1>4 DEF CreateTask, CancelTask, serviceVars
<1>5. CASE \E w \in External : ExternalClaim(w)
  BY <1>3, <1>5 DEF ExternalClaim, ClaimTask
<1>6. ASSUME NEW g \in Handler, NEW w \in External, ExternalSend(g, w)
      PROVE  calls'[h] = calls[h]
  <2>1. calls[g].pc = "idle" /\ \E new : calls' = [calls EXCEPT ![g] = new]
    BY <1>6 DEF ExternalSend, Send
  <2> QED
    BY <1>1, <2>1
<1>7. CASE \E w \in Internal : InternalStep(w)
  BY <1>3, <1>7 DEF InternalStep, serviceVars
<1>8. CASE ReaperStep \/ RestartProcess \/ Tick \/ UNCHANGED vars
  BY <1>3, <1>8 DEF ReaperStep, RestartProcess, Tick, vars, serviceVars
<1>9. CASE CrashProcess
  <2>1. calls'[h].pc = "idle"
    BY <1>9 DEF CrashProcess, Idle
  <2> QED
    BY <2>1
<1> QED
  BY <1>2, <1>4, <1>5, <1>6, <1>7, <1>8, <1>9 DEF Next

-----------------------------------------------------------------------------
(* A token is spent once.                                                  *)

\* A second commit with a token would need the row at the token's version,
\* and the first one has moved it past that.
LEMMA CommitOnce ==
    ASSUME IInv, TokenInv, [Next]_vars, NEW h \in Handler, Commits(h), NEW r \in committed
    PROVE  r.tok # calls[h].req.tok
<1> DEFINE req == calls[h].req
           t == req.tok.task
<1>1. /\ calls[h].pc = "commit" /\ calls'[h].pc \in {"reply", "reread"}
      /\ calls'[h].reply = "ok"
  BY DEF Commits
<1>2. Commit(h)
  <2>1. HandlerStep(h)
    BY <1>1, OwnStep
  <2> QED
    BY <1>1, <2>1 DEF HandlerStep, replayWorkerOperation, validateLeaseToken,
                      prepareRunningTask, Renew, Reread, Respond
<1>3. ~Answer(h, "conflict")
  <2>1. calls[h] \in Call
    BY <1>1, CallParts DEF IInv
  <2>2. ASSUME Answer(h, "conflict") PROVE calls'[h].reply = "conflict"
    BY <2>1, <2>2 DEF Answer, IInv, ServiceTypeOK, Call
  <2> QED
    BY <1>1, <2>2
<1>4. UpdateTaskWithEvent(t, calls[h].row, calls[h].event)
  BY <1>2, <1>3 DEF Commit
<1>5. t \in TaskId /\ req.tok = TokenOf(t, tasks[t])
  BY <1>1, <1>4, CommitToken
<1>6. req.tok.version = tasks[t].version /\ tasks[t].version \in Nat
  BY <1>5 DEF TokenOf, IInv, StoreInv, Task
<1> QED
  BY <1>6 DEF TokenInv, CommittedAreSpent, Spent

\* A lease token is spent at most once, whatever is retransmitted, delayed
\* or sent twice, the same call included: updateTask takes a version once.
THEOREM OneSpend == Spec => TokenSpentOnce
<1>1. IInv /\ TokenInv /\ [Next]_vars =>
        [\A h \in Handler : Commits(h) =>
           \A r \in committed : r.tok # calls[h].req.tok]_vars
  BY CommitOnce
<1> QED
  BY <1>1, InductiveInvariant, TokenInvariant, PTL DEF Spec, TokenSpentOnce

-----------------------------------------------------------------------------
(* A retransmission is recognized.                                         *)

\* What a committed call left in the row is what the replay check looks for,
\* unless the row waits for a retry.
LEMMA SpentIsReplayable ==
    ASSUME NEW req, NEW row, req.op \in {"complete", "fail", "release"},
           row.status # "retrying",
           Spent(req, row), row.version = req.tok.version + 1
    PROVE  /\ req.tok.worker = req.worker
           /\ Replayable(row, req, ReplayStatuses(req.op)) /\ SameOutcome(row, req)
<1>1. PICK event \in EventType : Reports(row, event, req)
  BY DEF Spent
<1>2. CASE req.op = "complete"
  BY <1>1, <1>2 DEF Reports, Replayable, ReplayStatuses, SameOutcome, Spent
<1>3. CASE req.op = "fail"
  BY <1>1, <1>3 DEF Reports, Replayable, ReplayStatuses, SameOutcome, Spent
<1>4. CASE req.op = "release"
  BY <1>1, <1>4 DEF Reports, Replayable, ReplayStatuses, SameOutcome, Spent
<1> QED
  BY <1>2, <1>3, <1>4

\* Retransmitting a committed Complete, Release or final Fail, of a permanent
\* failure or of a retryable one whose budget was used up, is recognized as
\* long as the task has not moved on (replayWorkerOperation).
THEOREM RecognizedReplay == Spec => ReplayIsRecognized
<1> DEFINE Step ==
      \A h \in Handler :
         Recognized(h) /\ tasks[calls[h].req.tok.task].status # "retrying"
           => calls'[h].reply = "replayed"
<1>1. IInv /\ TokenInv /\ [Next]_vars => [Step]_vars
  <2> SUFFICES ASSUME IInv, TokenInv, [Next]_vars, NEW h \in Handler, Recognized(h),
                      tasks[calls[h].req.tok.task].status # "retrying"
               PROVE  calls'[h].reply = "replayed"
    OBVIOUS
  <2> DEFINE req == calls[h].req
             row == tasks[req.tok.task]
  <2>1. /\ calls[h].pc = "replay" /\ req \in committed
        /\ row.version = req.tok.version + 1
        /\ calls'[h].pc \in {"reply", "validate"}
    BY DEF Recognized
  <2>2. replayWorkerOperation(h)
    <3>1. HandlerStep(h)
      BY <2>1, OwnStep
    <3> QED
      BY <2>1, <3>1 DEF HandlerStep, validateLeaseToken, prepareRunningTask, Commit,
                        Renew, Reread, Respond
  <2>3. req.op \in {"complete", "fail", "release"} /\ Spent(req, row)
    BY <2>1 DEF TokenInv, CallsInOrder, CallOK, CommittedAreSpent
  <2>4. /\ req.tok.worker = req.worker
        /\ Replayable(row, req, ReplayStatuses(req.op)) /\ SameOutcome(row, req)
    BY <2>1, <2>3, SpentIsReplayable
  <2>5. Answer(h, "replayed")
    BY <2>2, <2>4 DEF replayWorkerOperation
  <2>6. calls[h] \in Call
    BY <2>1, CallParts DEF IInv
  <2> QED
    BY <2>5, <2>6 DEF Answer, IInv, ServiceTypeOK, Call
<1> QED
  BY <1>1, InductiveInvariant, TokenInvariant, PTL DEF Spec, ReplayIsRecognized

-----------------------------------------------------------------------------
(* The attempts of a task, counted in its audit trail.                     *)

Num(trail, types) == Cardinality({i \in DOMAIN trail : trail[i] \in types})

ChargeEvent == {"task_retrying", "task_recovered"}

Waiting == {"queued", "retrying"}

\* The bound is one less while the task waits to be handed out again: that
\* is what makes it inductive.
Accounted(row, trail) ==
    /\ row.retryCount = Num(trail, ChargeEvent)
    /\ Num(trail, ClaimEvent) <=
         (IF row.status \in Waiting THEN 0 ELSE 1) + row.retryCount
         + Num(trail, {"task_released"})

AttemptsInv == \A t \in TaskId : Accounted(tasks[t], events[t])

\* How an event pays for what happens to the row.
Charged(a, b, event) ==
    \/ /\ event \in {"task_started", "task_retry_started"}
       /\ a.status \in Waiting /\ b.status \notin Waiting /\ b.retryCount = a.retryCount
    \/ /\ event = "task_recovered"
       /\ a.status \notin Waiting /\ b.status \notin Waiting
       /\ b.retryCount = a.retryCount + 1
    \/ /\ event = "task_retrying"
       /\ a.status \notin Waiting /\ b.retryCount = a.retryCount + 1
    \/ /\ event = "task_released"
       /\ b.retryCount = a.retryCount
    \/ /\ event \in EventType \ (ClaimEvent \union {"task_retrying", "task_released"})
       /\ b.status \notin Waiting /\ b.retryCount = a.retryCount

\* A trail has finitely many events of any kind; none when it is empty.
LEMMA NumType ==
    ASSUME NEW trail \in Seq(EventType), NEW types
    PROVE  /\ IsFiniteSet({i \in DOMAIN trail : trail[i] \in types})
           /\ Num(trail, types) \in Nat
           /\ trail = <<>> => Num(trail, types) = 0
<1> DEFINE S == {i \in DOMAIN trail : trail[i] \in types}
<1>1. DOMAIN trail = 1..Len(trail) /\ Len(trail) \in Nat
  OBVIOUS
<1>2. IsFiniteSet(1..Len(trail))
  BY <1>1, FS_Interval
<1>3. S \in SUBSET (1..Len(trail))
  BY <1>1
<1>4. IsFiniteSet(S)
  BY <1>2, <1>3, FS_Subset
<1>5. Cardinality(S) \in Nat
  BY <1>4, FS_CardinalityType
<1>6. trail = <<>> => S = {}
  BY <1>1
<1> QED
  BY <1>4, <1>5, <1>6, FS_EmptySet DEF Num

\* An event more is one more of its kind.
LEMMA NumAppend ==
    ASSUME NEW trail \in Seq(EventType), NEW event \in EventType, NEW types
    PROVE  Num(Append(trail, event), types) =
             IF event \in types THEN Num(trail, types) + 1 ELSE Num(trail, types)
<1> DEFINE S == {i \in DOMAIN trail : trail[i] \in types}
           longer == Append(trail, event)
           T == {i \in DOMAIN longer : longer[i] \in types}
           n == Len(trail) + 1
<1>1. /\ DOMAIN trail = 1..Len(trail) /\ Len(trail) \in Nat
      /\ DOMAIN longer = 1..n /\ longer[n] = event
      /\ \A i \in 1..Len(trail) : longer[i] = trail[i]
  OBVIOUS
<1>2. IsFiniteSet(S)
  BY NumType
<1> HIDE DEF longer
<1>3. T = IF event \in types THEN S \cup {n} ELSE S
  BY <1>1
<1>4. n \notin S
  BY <1>1
<1>5. Cardinality(S \cup {n}) = Cardinality(S) + 1
  BY <1>2, <1>4, FS_AddElement
<1>6. Num(longer, types) = Cardinality(T) /\ Num(trail, types) = Cardinality(S)
  BY DEF Num
<1> QED
  BY <1>3, <1>5, <1>6 DEF longer

\* A row that changes as its event says stays accounted for.
LEMMA ChargedStaysAccounted ==
    ASSUME NEW a \in Task, NEW b \in Task, NEW trail \in Seq(EventType),
           NEW event \in EventType, Accounted(a, trail), Charged(a, b, event)
    PROVE  Accounted(b, Append(trail, event))
<1> DEFINE claims == Num(trail, ClaimEvent)
           charges == Num(trail, ChargeEvent)
           releases == Num(trail, {"task_released"})
<1>1. claims \in Nat /\ charges \in Nat /\ releases \in Nat
  BY NumType
<1>2. a.retryCount \in Nat /\ b.retryCount \in Nat
  BY DEF Task
<1>3. /\ a.retryCount = charges
      /\ claims <= (IF a.status \in Waiting THEN 0 ELSE 1) + a.retryCount + releases
  BY DEF Accounted
<1>4. /\ Num(Append(trail, event), ClaimEvent) =
           IF event \in ClaimEvent THEN claims + 1 ELSE claims
      /\ Num(Append(trail, event), ChargeEvent) =
           IF event \in ChargeEvent THEN charges + 1 ELSE charges
      /\ Num(Append(trail, event), {"task_released"}) =
           IF event \in {"task_released"} THEN releases + 1 ELSE releases
  BY NumAppend
<1> HIDE DEF claims, charges, releases
<1> USE DEF ClaimEvent, ChargeEvent
<1>5. CASE /\ event \in {"task_started", "task_retry_started"}
           /\ a.status \in Waiting /\ b.status \notin Waiting /\ b.retryCount = a.retryCount
  BY <1>1, <1>2, <1>3, <1>4, <1>5 DEF Accounted
<1>6. CASE /\ event = "task_recovered"
           /\ a.status \notin Waiting /\ b.status \notin Waiting
           /\ b.retryCount = a.retryCount + 1
  BY <1>1, <1>2, <1>3, <1>4, <1>6 DEF Accounted
<1>7. CASE /\ event = "task_retrying"
           /\ a.status \notin Waiting /\ b.retryCount = a.retryCount + 1
  BY <1>1, <1>2, <1>3, <1>4, <1>7 DEF Accounted
<1>8. CASE event = "task_released" /\ b.retryCount = a.retryCount
  BY <1>1, <1>2, <1>3, <1>4, <1>8 DEF Accounted
<1>9. CASE /\ event \in EventType \ (ClaimEvent \union {"task_retrying", "task_released"})
           /\ b.status \notin Waiting /\ b.retryCount = a.retryCount
  BY <1>1, <1>2, <1>3, <1>4, <1>9 DEF Accounted
<1> QED
  BY <1>5, <1>6, <1>7, <1>8, <1>9 DEF Charged

\* A save that its event pays for.
LEMMA ChargedSave ==
    ASSUME StoreInv, AttemptsInv, NEW t \in TaskId, NEW row \in Task, NEW event \in EventType,
           SaveWithEvent(t, row, event), Charged(tasks[t], row, event)
    PROVE  AttemptsInv'
<1> DEFINE new == [row EXCEPT !.version = tasks[t].version + 1]
<1>1. /\ tasks[t] \in Task /\ events[t] \in Seq(EventType) /\ tasks[t].version + 1 \in Nat
      /\ Accounted(tasks[t], events[t])
  BY DEF StoreInv, Task, AttemptsInv
<1>2. new \in Task
  BY <1>1, Zenon DEF Task
<1>3. new.status = row.status /\ new.retryCount = row.retryCount
  BY DEF Task
<1>4. /\ tasks' = [tasks EXCEPT ![t] = new]
      /\ events' = [events EXCEPT ![t] = Append(events[t], event)]
  BY DEF SaveWithEvent
<1> HIDE DEF new
<1>5. Charged(tasks[t], new, event)
  BY <1>3 DEF Charged
<1>6. Accounted(new, Append(events[t], event))
  BY <1>1, <1>2, <1>5, ChargedStaysAccounted
<1> QED
  BY <1>4, <1>6 DEF AttemptsInv, StoreInv

\* A renewal and a step that leaves the store alone change no count.
LEMMA UncountedStep ==
    ASSUME StoreInv, AttemptsInv, events' = events,
           \A t \in TaskId : /\ tasks'[t].status = tasks[t].status
                             /\ tasks'[t].retryCount = tasks[t].retryCount
    PROVE  AttemptsInv'
BY DEF AttemptsInv, Accounted

\* A renewal changes no count.
LEMMA RenewAttempts ==
    ASSUME StoreInv, AttemptsInv, NEW t \in TaskId, NEW w, NEW at, RenewLease(t, w, at)
    PROVE  AttemptsInv'
<1>1. /\ tasks' = [tasks EXCEPT ![t].leaseExp = at + LeaseDuration] /\ events' = events
      /\ \A u \in TaskId : tasks[u] \in Task
  BY DEF RenewLease, StoreInv
<1>2. ASSUME NEW u \in TaskId
      PROVE  /\ tasks'[u].status = tasks[u].status
             /\ tasks'[u].retryCount = tasks[u].retryCount
  BY <1>1 DEF StoreInv, Task
<1> QED
  BY <1>1, <1>2, UncountedStep

\* A step that leaves the store alone changes no count.
LEMMA NoAttempts ==
    ASSUME StoreInv, AttemptsInv, UNCHANGED storeVars
    PROVE  AttemptsInv'
BY UncountedStep DEF storeVars

\* A claim: a waiting task is started, an expired one recovered and charged.
LEMMA ClaimAttempts ==
    ASSUME StoreInv, AttemptsInv, NEW w \in Worker, NEW at \in Nat, NEW t \in TaskId,
           ClaimNextWithEvent(w, at, t)
    PROVE  AttemptsInv'
<1> DEFINE row == Claimed(tasks[t], w, at)
           event == ClaimedEvent(tasks[t])
<1>1. tasks[t] \in Task
  BY DEF StoreInv
<1>2. SaveWithEvent(t, row, event) /\ row \in Task /\ row.status = "running"
  BY <1>1, ClaimedType DEF ClaimNextWithEvent
<1>3. row.retryCount = IF tasks[t].status = "running" THEN tasks[t].retryCount + 1
                       ELSE tasks[t].retryCount
  BY <1>1, ClaimedType
<1>4. tasks[t].status \in {"running", "queued", "retrying"}
  BY ClaimableRows
<1>5. event = CASE tasks[t].status = "queued" -> "task_started"
                [] tasks[t].status = "retrying" -> "task_retry_started"
                [] OTHER -> "task_recovered"
  BY DEF ClaimedEvent
<1>6. event \in EventType
  BY <1>4, <1>5 DEF EventType
<1> SUFFICES Charged(tasks[t], row, event)
  BY <1>2, <1>6, ChargedSave
<1> HIDE DEF row, event
<1> QED
  BY <1>2, <1>3, <1>4, <1>5 DEF Charged, Waiting

\* The reaper and a cancellation end a task and charge nothing.
LEMMA EndAttempts ==
    ASSUME StoreInv, AttemptsInv, NEW t \in TaskId, NEW row \in Task,
           NEW event \in {"task_failed", "task_canceled"}, SaveWithEvent(t, row, event),
           row.status \notin Waiting, row.retryCount = tasks[t].retryCount
    PROVE  AttemptsInv'
<1>1. event \in EventType \ (ClaimEvent \union {"task_retrying", "task_released"})
  BY DEF EventType, ClaimEvent
<1> QED
  BY <1>1, ChargedSave DEF Charged

\* A creation starts the account.
LEMMA CreateAttempts ==
    ASSUME StoreInv, AttemptsInv, NEW t \in TaskId, NEW at \in Nat,
           CreateTaskWithEvent(t, at)
    PROVE  AttemptsInv'
<1>1. PICK m \in MaxRetriesOf :
        /\ tasks' = [tasks EXCEPT ![t] = NewTask(m, at)]
        /\ events' = [events EXCEPT ![t] = Append(events[t], "task_created")]
  BY DEF CreateTaskWithEvent
<1>2. /\ NewTask(m, at).retryCount = 0 /\ NewTask(m, at) \in Task
      /\ tasks[t].status = "absent"
  BY StoreAssumption, NewTaskType DEF CreateTaskWithEvent, Exists
<1>3. events[t] = <<>> /\ events[t] \in Seq(EventType)
  BY <1>2 DEF StoreInv, TrailMatches
<1>4. "task_created" \in EventType \ (ClaimEvent \union ChargeEvent \union {"task_released"})
  BY DEF EventType, ClaimEvent, ChargeEvent
<1>5. ASSUME NEW types, "task_created" \notin types
      PROVE  Num(Append(events[t], "task_created"), types) = 0
  <2>1. Num(events[t], types) = 0
    BY <1>3, NumType
  <2>2. "task_created" \in EventType
    BY <1>4
  <2>3. Num(Append(events[t], "task_created"), types) = Num(events[t], types)
    <3>1. PICK trail \in Seq(EventType) : trail = events[t]
      BY <1>3, Zenon
    <3>2. Num(Append(trail, "task_created"), types) =
            IF "task_created" \in types THEN Num(trail, types) + 1 ELSE Num(trail, types)
      BY <2>2, NumAppend, Zenon
    <3> QED
      BY <1>5, <3>1, <3>2, Zenon
  <2> QED
    BY <2>1, <2>3
<1>6. Accounted(NewTask(m, at), Append(events[t], "task_created"))
  BY <1>2, <1>4, <1>5 DEF Accounted
<1> QED
  BY <1>1, <1>6 DEF AttemptsInv, StoreInv

\* What a handler commits is paid for by the event it saves.
LEMMA CommitAttempts ==
    ASSUME IInv, TokenInv, AttemptsInv, NEW h \in Handler, Commit(h)
    PROVE  AttemptsInv'
<1> DEFINE c == calls[h]
           t == c.req.tok.task
<1>1. c.pc = "commit" /\ StoreInv
  BY DEF Commit, IInv
<1>2. CASE UNCHANGED storeVars
  BY <1>1, <1>2, NoAttempts
<1>3. CASE UpdateTaskWithEvent(t, c.row, c.event)
  <2>1. /\ t \in TaskId /\ tasks[t].status = "running" /\ c.row \in Task
        /\ SavedFrom(c.row, tasks[t])
    BY <1>1, <1>3, CommitWrites
  <2>2. Reports(c.row, c.event, c.req) /\ c.event \in EventType
    BY <1>1, <1>3, CommitToken, CallParts DEF IInv
  <2>3. SaveWithEvent(t, c.row, c.event)
    BY <1>3 DEF UpdateTaskWithEvent
  <2> HIDE DEF c
  <2>4. Charged(tasks[t], c.row, c.event)
    BY <2>1, <2>2 DEF Reports, SavedFrom, Charged, Waiting, ClaimEvent
  <2> QED
    BY <1>1, <2>1, <2>2, <2>3, <2>4, ChargedSave
<1> QED
  BY <1>2, <1>3 DEF Commit

\* What an in-process attempt ends in is paid for by its event.
LEMMA FinishAttempts ==
    ASSUME IInv, AttemptsInv, NEW w \in Internal, iw[w].pc = "execute", NEW at \in LocalTime,
           NEW o \in Endings(iw[w], at), UpdateTaskWithEvent(iw[w].task, o[1], o[2])
    PROVE  AttemptsInv'
<1> DEFINE t == iw[w].task
<1>1. /\ t \in TaskId /\ tasks[t].status = "running" /\ o[1] \in Task
      /\ SavedFrom(o[1], tasks[t])
  BY FinishWrites
<1>2. iw[w] \in Execution /\ at \in Nat
  BY ExecutionParts, LocalTimeType DEF IInv
<1>3. o[2] \in {"task_succeeded", "task_partially_succeeded", "task_failed", "task_retrying"}
  BY <1>2, EndingKinds
<1>4. Announced(o[2]) = o[1].status /\ o[2] \in EventType
  BY <1>2, EndingSaveable DEF Saveable
<1>5. SaveWithEvent(t, o[1], o[2])
  BY DEF UpdateTaskWithEvent
<1> SUFFICES Charged(tasks[t], o[1], o[2])
  BY <1>1, <1>4, <1>5, ChargedSave DEF IInv
<1>6. CASE o[2] = "task_retrying"
  BY <1>1, <1>4, <1>6, Announcements DEF SavedFrom, Charged, Waiting
<1>7. CASE o[2] # "task_retrying"
  <2>1. o[1].status \in {"succeeded", "partially_succeeded", "failed"}
    BY <1>3, <1>4, <1>7, Announcements
  <2>2. o[1].retryCount = tasks[t].retryCount
    BY <1>1, <2>1 DEF SavedFrom
  <2> QED
    BY <1>3, <1>4, <1>7, <2>1, <2>2 DEF Charged, Waiting, ClaimEvent
<1> QED
  BY <1>6, <1>7

\* What an in-process worker does to the accounts.
LEMMA InternalAttempts ==
    ASSUME IInv, AttemptsInv, NEW w \in Internal, InternalStep(w)
    PROVE  AttemptsInv'
<1>0. StoreInv
  BY DEF IInv
<1>1. ASSUME ClaimInternal(w) PROVE AttemptsInv'
  <2>1. PICK at \in LocalTime, t \in TaskId : ClaimNextWithEvent(w, at, t)
    BY <1>1 DEF ClaimInternal
  <2> QED
    BY <1>0, <2>1, LocalTimeType, InternalAssumption, ClaimAttempts DEF IInv
<1>2. ASSUME maintainLease(w) PROVE AttemptsInv'
  <2>1. iw[w].task \in TaskId
    BY <1>2, ExecutionParts DEF maintainLease, IInv
  <2>2. ASSUME NEW at \in LocalTime, RenewLease(iw[w].task, w, at) PROVE AttemptsInv'
    BY <1>0, <2>1, <2>2, RenewAttempts
  <2> QED
    BY <1>0, <1>2, <2>2, NoAttempts DEF maintainLease
<1>3. ASSUME FinishExecution(w) PROVE AttemptsInv'
  <2>1. iw[w].pc = "execute"
    BY <1>3 DEF FinishExecution
  <2>2. CASE UNCHANGED storeVars
    BY <1>0, <2>2, NoAttempts
  <2>3. CASE \E at \in LocalTime : \E o \in Endings(iw[w], at) :
               UpdateTaskWithEvent(iw[w].task, o[1], o[2])
    BY <2>1, <2>3, FinishAttempts
  <2> QED
    BY <1>3, <2>2, <2>3 DEF FinishExecution
<1>4. ASSUME AbandonExecution(w) PROVE AttemptsInv'
  BY <1>0, <1>4, NoAttempts DEF AbandonExecution
<1> QED
  BY <1>1, <1>2, <1>3, <1>4 DEF InternalStep

\* What a handler does to the accounts.
LEMMA ServeAttempts ==
    ASSUME IInv, TokenInv, AttemptsInv, NEW h \in Handler, Serve(h)
    PROVE  AttemptsInv'
<1>0. StoreInv
  BY DEF IInv
<1>1. ASSUME Renew(h) PROVE AttemptsInv'
  <2>1. calls[h].req.tok.task \in TaskId
    BY <1>1, CallParts DEF Renew, IInv
  <2> QED
    BY <1>0, <1>1, <2>1, RenewAttempts, NoAttempts DEF Renew
<1>2. CASE UNCHANGED storeVars
  BY <1>0, <1>2, NoAttempts
<1> QED
  BY <1>1, <1>2, CommitAttempts
     DEF Serve, HandlerStep, replayWorkerOperation, validateLeaseToken, prepareRunningTask,
         Reread, Respond

\* Every step keeps the accounts.
LEMMA NextAttempts == IInv /\ TokenInv /\ AttemptsInv /\ [Next]_vars => AttemptsInv'
<1> SUFFICES ASSUME IInv, TokenInv, AttemptsInv, [Next]_vars PROVE AttemptsInv'
  OBVIOUS
<1>0. StoreInv /\ now \in Nat
  BY DEF IInv
<1>1. ASSUME NEW t \in TaskId, CreateTask(t) PROVE AttemptsInv'
  BY <1>0, <1>1, LocalTimeType, CreateAttempts DEF CreateTask
<1>2. ASSUME NEW t \in TaskId, CancelTask(t) PROVE AttemptsInv'
  <2>1. tasks[t] \in Task /\ "canceled" \in Status
    BY <1>0 DEF StoreInv, Status
  <2>2. SaveWithEvent(t, MoveTo(tasks[t], "canceled"), "task_canceled")
    BY <1>2 DEF CancelTask, CancelTaskWithEvent
  <2>3. /\ MoveTo(tasks[t], "canceled") \in Task
        /\ MoveTo(tasks[t], "canceled").status = "canceled"
        /\ MoveTo(tasks[t], "canceled").retryCount = tasks[t].retryCount
    BY <2>1, MoveToType
  <2> QED
    BY <1>0, <2>2, <2>3, EndAttempts DEF Waiting
<1>3. ASSUME NEW w \in External, ExternalClaim(w) PROVE AttemptsInv'
  <2>1. PICK at \in LocalTime, t \in TaskId : ClaimNextWithEvent(w, at, t)
    BY <1>3 DEF ExternalClaim, ClaimTask
  <2> QED
    BY <1>0, <2>1, LocalTimeType, ServiceAssumption, ClaimAttempts
<1>4. ASSUME NEW h \in Handler, NEW w \in External, ExternalSend(h, w) PROVE AttemptsInv'
  BY <1>0, <1>4, NoAttempts DEF ExternalSend, Send
<1>5. ASSUME NEW h \in Handler, Serve(h) PROVE AttemptsInv'
  BY <1>5, ServeAttempts
<1>6. ASSUME NEW w \in Internal, InternalStep(w) PROVE AttemptsInv'
  BY <1>6, InternalAttempts
<1>7. CASE ReaperStep
  <2>1. PICK at \in LocalTime, t \in TaskId : FailNextExpiredWithEvent(at, t)
    BY <1>7 DEF ReaperStep, Reap
  <2> DEFINE moved == MoveTo(tasks[t], "failed")
             row == [moved EXCEPT !.err = LeaseExpiredError]
  <2>2. tasks[t] \in Task /\ "failed" \in Status /\ LeaseExpiredError \in ErrorMessage
    BY <1>0 DEF StoreInv, Status, LeaseExpiredError, ErrorMessage
  <2>3. moved \in Task /\ moved.status = "failed" /\ moved.retryCount = tasks[t].retryCount
    BY <2>2, MoveToType
  <2>4. SaveWithEvent(t, row, "task_failed")
    BY <2>1 DEF FailNextExpiredWithEvent
  <2> HIDE DEF moved
  <2>5. row \in Task
    BY <2>2, <2>3, Zenon DEF Task
  <2>6. row.status = "failed" /\ row.retryCount = tasks[t].retryCount
    BY <2>3 DEF Task
  <2> HIDE DEF row
  <2> QED
    BY <1>0, <2>4, <2>5, <2>6, EndAttempts DEF Waiting
<1>8. CASE CrashProcess \/ RestartProcess \/ Tick \/ UNCHANGED vars
  BY <1>0, <1>8, NoAttempts DEF CrashProcess, Crash, RestartProcess, Restart, Tick, vars
<1> QED
  BY <1>1, <1>2, <1>3, <1>4, <1>5, <1>6, <1>7, <1>8 DEF Next

\* A task is handed out once, plus once per retry or recovery charged to its
\* budget, plus once per release, in whatever order claims, retries,
\* releases, recoveries and the reaper meet (ClaimedEvent, ScheduleRetry).
THEOREM AttemptsCounted == Spec => []AttemptsAccounted
<1>1. Init => AttemptsInv
  <2> SUFFICES ASSUME Init, NEW t \in TaskId PROVE Accounted(tasks[t], events[t])
    BY DEF AttemptsInv
  <2>1. tasks[t].retryCount = 0 /\ events[t] = <<>>
    BY DEF Init, StoreInit, NoTask
  <2>2. <<>> \in Seq(EventType)
    OBVIOUS
  <2>3. \A types : Num(<<>>, types) = 0
    BY <2>2, NumType
  <2> QED
    BY <2>1, <2>3 DEF Accounted
<1>2. IInv /\ AttemptsInv => AttemptsAccounted
  <2> SUFFICES ASSUME IInv, NEW t \in TaskId, Accounted(tasks[t], events[t])
               PROVE  /\ tasks[t].retryCount =
                           NumEvents(t, {"task_retrying", "task_recovered"})
                      /\ NumEvents(t, ClaimEvent) <=
                           1 + tasks[t].retryCount + NumEvents(t, {"task_released"})
    BY DEF AttemptsInv, AttemptsAccounted
  <2>1. \A types : NumEvents(t, types) = Num(events[t], types)
    BY DEF NumEvents, Num
  <2>2. events[t] \in Seq(EventType) /\ tasks[t].retryCount \in Nat
    BY DEF IInv, StoreInv, Task
  <2>3. Num(events[t], ClaimEvent) \in Nat /\ Num(events[t], {"task_released"}) \in Nat
    BY <2>2, NumType
  <2> QED
    BY <2>1, <2>2, <2>3 DEF Accounted, ChargeEvent
<1> QED
  BY <1>1, <1>2, NextAttempts, InductiveInvariant, TokenInvariant, PTL DEF Spec

=============================================================================
