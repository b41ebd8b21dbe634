---------------------------- MODULE ControlPlane ----------------------------
(***************************************************************************)
(* The running system: clients that create and cancel tasks, external      *)
(* workers behind the worker service, in-process workers, the reaper, the  *)
(* clock, crashes and restarts, all over one database.                     *)
(***************************************************************************)
EXTENDS WorkerService, InternalWorker, FiniteSets

\* The id of an in-process worker is made when it starts, from its clock and a
\* counter; external workers name themselves.
ASSUME IdentityAssumption == External \cap Internal = {}

vars == <<now, storeVars, serviceVars, internalVars>>

TypeOK == StoreTypeOK /\ ServiceTypeOK /\ InternalTypeOK

Init == StoreInit /\ ServiceInit /\ InternalInit

-----------------------------------------------------------------------------

\* POST /tasks with a fresh id.
CreateTask(t) ==
    /\ up
    /\ \E at \in LocalTime : CreateTaskWithEvent(t, at)
    /\ UNCHANGED <<now, serviceVars, internalVars>>

\* POST /tasks/{id}/cancel.
CancelTask(t) ==
    /\ up
    /\ CancelTaskWithEvent(t)
    /\ UNCHANGED <<now, serviceVars, internalVars>>

ExternalClaim(w) == up /\ ClaimTask(w) /\ UNCHANGED internalVars

ExternalSend(h, w) == up /\ Send(h, w) /\ UNCHANGED internalVars

Serve(h) == HandlerStep(h) /\ UNCHANGED internalVars

InternalStep(w) ==
    /\ \/ ClaimInternal(w)
       \/ maintainLease(w)
       \/ FinishExecution(w)
       \/ AbandonExecution(w)
    /\ UNCHANGED serviceVars

ReaperStep == Reap /\ UNCHANGED serviceVars

\* A crash also ends the handlers; a stop after an error lets them finish.
CrashProcess ==
    /\ Crash
    /\ calls' = [h \in Handler |-> Idle]
    /\ UNCHANGED <<held, ncalls, committed>>

RestartProcess == Restart /\ UNCHANGED serviceVars

PendingDeadline ==
    \E t \in TaskId :
      \/ tasks[t].status = "running" /\ tasks[t].leaseExp + Skew > now
      \/ tasks[t].status = "retrying" /\ tasks[t].availableAt + Skew > now

Tick ==
    /\ now < MaxNow \/ PendingDeadline
    /\ now' = now + 1
    /\ UNCHANGED <<storeVars, serviceVars, internalVars>>

Next ==
    \/ \E t \in TaskId : CreateTask(t) \/ CancelTask(t)
    \/ \E w \in External : ExternalClaim(w)
    \/ \E h \in Handler, w \in External : ExternalSend(h, w)
    \/ \E h \in Handler : Serve(h)
    \/ \E w \in Internal : InternalStep(w)
    \/ ReaperStep
    \/ CrashProcess
    \/ RestartProcess
    \/ Tick

Spec == Init /\ [][Next]_vars

\* The goroutines keep running, executors return, the supervisor restarts the
\* process and time passes.  Nothing is assumed of the external workers.
Fairness ==
    /\ \A w \in Internal :
         /\ WF_vars(ClaimInternal(w) /\ UNCHANGED serviceVars)
         /\ WF_vars(FinishExecution(w) /\ UNCHANGED serviceVars)
         /\ WF_vars(AbandonExecution(w) /\ UNCHANGED serviceVars)
    /\ \A h \in Handler : WF_vars(Serve(h))
    /\ WF_vars(ReaperStep)
    /\ WF_vars(RestartProcess)
    /\ WF_vars(Tick)

FairSpec == Spec /\ Fairness

-----------------------------------------------------------------------------
(* Safety.                                                                 *)

\* A row has a lease exactly while it is running.  Stale copies, late
\* renewals and takeovers never leave a lease behind or run a task without
\* one (MoveTo, RequeueForRelease, renewLeaseQuery, claimNextInTx).
LeaseIffRunning ==
    \A t \in TaskId :
      /\ tasks[t].status = "running" <=> tasks[t].owner # NoWorker
      /\ tasks[t].status = "running" <=> tasks[t].leaseExp # NoTime

\* Retries and recoveries together never pass max_retries, although the
\* claim query, the scheduler and the reaper each check it on their own.
RetryBudgetRespected == \A t \in TaskId : tasks[t].retryCount <= tasks[t].maxRetries

\* Row and event commit together: the audit trail has one event for every
\* version of the row, and its last event tells the row's status.
AuditTrailMatches == \A t \in TaskId : TrailMatches(tasks[t], events[t])

NumEvents(t, types) ==
    Cardinality({i \in DOMAIN events[t] : events[t][i] \in types})

\* A task is handed out once, plus once per retry or recovery charged to
\* its budget, plus once per graceful release; nothing else starts it again.
AttemptsAccounted ==
    \A t \in TaskId :
      /\ tasks[t].retryCount = NumEvents(t, {"task_retrying", "task_recovered"})
      /\ NumEvents(t, ClaimEvent) <= 1 + tasks[t].retryCount + NumEvents(t, {"task_released"})

\* A token that carries the row's current version names the worker that
\* holds the lease now, whichever read of a changing row it was made from.
TokenNamesHolder ==
    \A w \in External : \A tok \in held[w] :
      /\ tok.version <= tasks[tok.task].version
      /\ tok.version = tasks[tok.task].version => tasks[tok.task].owner = tok.worker

\* What a handler that is about to commit call c may rely on, given the row.
CallFenced(c, row) ==
    /\ row.status # "absent"
    /\ c.row.version <= row.version
    /\ c.row.version = row.version =>
         /\ row.status = "running"
         /\ row.owner = c.req.worker
         /\ SavedFrom(c.row, row)
         /\ Announced(c.event) = c.row.status

\* A copy whose version is still current was made from the row as it is now:
\* the writer holds the lease, and no retry, release, takeover, cancellation
\* or reaping has happened between its read and its write.
CopiesAreFenced ==
    /\ \A h \in Handler : calls[h].pc = "commit" =>
         CallFenced(calls[h], tasks[calls[h].req.tok.task])
    /\ \A w \in Internal : iw[w].pc = "execute" =>
         ExecutionFenced(w, iw[w], tasks[iw[w].task])

\* The step of handler h that commits its call.
Commits(h) ==
    /\ calls[h].pc = "commit"
    /\ calls'[h].pc \in {"reply", "reread"}
    /\ calls'[h].reply = "ok"

\* A lease token is spent at most once: no call is committed with a token
\* that was spent before, neither another call nor a second copy of the same
\* call that runs next to it.
TokenSpentOnce ==
    [][\A h \in Handler : Commits(h) => \A r \in committed : r.tok # calls[h].req.tok]_vars

\* Two requests the stored row cannot tell apart: of a failure it keeps the
\* code and the message, not whether it was retryable.
SameRequest(a, b) ==
    /\ a.op = b.op /\ a.worker = b.worker /\ a.tok = b.tok
    /\ IF a.op = "fail" THEN FailureText[a.arg] = FailureText[b.arg] ELSE a.arg = b.arg

\* A call is answered as a replay only if such a call was committed before:
\* the same operation with the same token, and the same result or the same
\* error code and message.
ReplayIsTruthful ==
    \A h \in Handler :
      calls[h].pc = "reply" /\ calls[h].reply = "replayed" =>
        \E r \in committed : SameRequest(r, calls[h].req)

\* The answer of handler h to the retransmission of a committed call whose
\* task has not moved on since.
Recognized(h) ==
    /\ calls[h].pc = "replay"
    /\ calls[h].req \in committed
    /\ tasks[calls[h].req.tok.task].version = calls[h].req.tok.version + 1
    /\ calls'[h].pc = "reply" \/ calls'[h].pc = "validate"

\* Retransmitting a committed Complete, Release or final Fail, of a permanent
\* failure or of a retryable one whose budget was used up, is recognized as
\* long as the task has not moved on.  Only a row that waits for a retry is
\* left out.
ReplayIsRecognized ==
    [][\A h \in Handler :
         Recognized(h) /\ tasks[calls[h].req.tok.task].status # "retrying"
           => calls'[h].reply = "replayed"]_vars

\* A task that has ended stays as it is, row and audit trail, whatever
\* late completion, failure, renewal, claim or cancellation arrives.
EndedIsFinal ==
    [][\A t \in TaskId : tasks[t].status \in terminalStatuses =>
         tasks'[t] = tasks[t] /\ events'[t] = events[t]]_vars

\* Docs: a lost response may be retransmitted for Fail as for Complete and
\* Release.  The retry scheduler stores the bare code, the replay check
\* expects code and message.
EveryReplayIsRecognized ==
    [][\A h \in Handler : Recognized(h) => calls'[h].reply = "replayed"]_vars

\* Docs: a worker whose lease has expired cannot change the task.  The
\* handler looks at the lease before it writes, the update does not.
ExpiredWorkerCannotWrite ==
    [][\A h \in Handler : Commits(h) => ~Expired(calls[h].req.tok.task, now)]_vars

\* Docs: another worker can claim a task only once the renewed lease has run
\* out, the one granted last.  Saving a copy writes back the expiry it was
\* read with.
NoEarlyTakeover ==
    [][\A t \in TaskId :
         /\ tasks[t].status = "running" /\ tasks'[t].status = "running"
         /\ tasks'[t].owner # tasks[t].owner
         => granted[t] <= now]_vars

\* An in-process worker keeps the lease it was granted last: no claim takes
\* its task over and no reaper fails it before that expiry, but for what the
\* clock of the one who does may be off.  Only external workers save a
\* running row, so only theirs can be set back (maintainLease).
InternalLeaseHonored ==
    [][\A t \in TaskId :
         /\ tasks[t].status = "running" /\ tasks[t].owner \in Internal
         /\ \/ tasks'[t].status = "running" /\ tasks'[t].retryCount > tasks[t].retryCount
            \/ tasks'[t].status = "failed" /\ tasks'[t].err = LeaseExpiredError
         => granted[t] <= now + Skew]_vars

\* The system implements the lifecycle in which operations are atomic.
Lifecycle == INSTANCE TaskLifecycle WITH
    status <- [t \in TaskId |-> tasks[t].status],
    retries <- [t \in TaskId |-> tasks[t].retryCount],
    budget <- [t \in TaskId |-> tasks[t].maxRetries],
    holder <- [t \in TaskId |-> tasks[t].owner]

ImplementsLifecycle == Lifecycle!Spec

-----------------------------------------------------------------------------
(* Liveness, under FairSpec.                                               *)

\* A running task whose lease has run out and whose budget is used up does
\* not stay running for ever: the reaper or its late worker ends it.
ExhaustedConverges ==
    \A t \in TaskId :
      /\ tasks[t].status = "running"
      /\ tasks[t].leaseExp <= now
      /\ tasks[t].retryCount = tasks[t].maxRetries
      ~> tasks[t].status \in terminalStatuses

\* Every task ends, through crashes, lost workers, retries and releases.
EveryTaskEnds ==
    \A t \in TaskId : Exists(t) ~> tasks[t].status \in terminalStatuses

=============================================================================
