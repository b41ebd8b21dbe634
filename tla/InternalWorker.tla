---------------------------- MODULE InternalWorker ----------------------------
(***************************************************************************)
(* The background processors of the control plane: the in-process workers  *)
(* of internal/worker/worker.go, the reaper, and main's rule that the      *)
(* process stops when one of them returns.  A worker keeps the row its     *)
(* claim returned and saves that copy when its executor ends; it checks no *)
(* lease then, only the version of the copy.                               *)
(***************************************************************************)
EXTENDS RetryScheduler

CONSTANTS
    Internal,   \* ids of the in-process workers
    MaxCrashes  \* bound on process crashes

ASSUME InternalAssumption ==
    /\ Internal \subseteq Worker
    /\ MaxCrashes \in Nat

VARIABLES
    iw,      \* internal worker -> what its goroutines hold
    up,      \* the control-plane process runs
    crashes  \* crashes so far

internalVars == <<iw, up, crashes>>

Polling == [pc |-> "poll"]

\* lease: "ok", or why the heartbeat goroutine cancelled the executor.
Execution == [pc : {"execute"}, task : TaskId, row : Task,
              lease : {"ok", "lost", "store_error"}]

InternalTypeOK ==
    /\ iw \in [Internal -> Execution \union {Polling}]
    /\ up \in BOOLEAN
    /\ crashes \in Nat

InternalInit ==
    /\ iw = [w \in Internal |-> Polling]
    /\ up = TRUE
    /\ crashes = 0

-----------------------------------------------------------------------------

\* ProcessNext claims from every workflow and keeps the returned row.
ClaimInternal(w) ==
    /\ up
    /\ iw[w].pc = "poll"
    /\ \E at \in LocalTime, t \in TaskId :
         /\ ClaimNextWithEvent(w, at, t)
         /\ iw' = [iw EXCEPT ![w] = [pc |-> "execute", task |-> t,
                                     row |-> tasks'[t], lease |-> "ok"]]
    /\ UNCHANGED <<now, up, crashes>>

\* maintainLease: a refused renewal or a store error cancels the executor.
\* The bound on now ends the renewals of an executor that never returns.
maintainLease(w) ==
    /\ up
    /\ iw[w].pc = "execute"
    /\ iw[w].lease = "ok"
    /\ now <= MaxNow
    /\ \/ \E at \in LocalTime :
            \/ /\ RenewLease(iw[w].task, w, at)
               /\ UNCHANGED iw
            \/ /\ ~Renewable(iw[w].task, w, at)
               /\ iw' = [iw EXCEPT ![w].lease = "lost"]
               /\ UNCHANGED storeVars
       \/ /\ iw' = [iw EXCEPT ![w].lease = "store_error"]
          /\ UNCHANGED storeVars
    /\ UNCHANGED <<now, up, crashes>>

\* The rows finishWithResult, finishFailed and Schedule save.
FinishedRow(row, status, result, err) ==
    [MoveTo(row, status) EXCEPT !.result = result, !.progress = 100, !.err = err]

FinishOutcomes(row) ==
    {<<FinishedRow(row, "succeeded", o, NoError), "task_succeeded">> : o \in Output}
    \union {<<FinishedRow(row, "partially_succeeded", o, FixedError),
              "task_partially_succeeded">> : o \in Output}
    \union {<<FinishedRow(row, "failed", o, FixedError), "task_failed">> : o \in Output}

FailureRow(row, err) == <<[MoveTo(row, "failed") EXCEPT !.err = err], "task_failed">>

\* A transient failure is rescheduled, any other or an exhausted one is final.
ErrorOutcomes(row, f, at) ==
    IF Schedule(row, f, at) # {} THEN Schedule(row, f, at)
      ELSE {FailureRow(row, CodeOnly(f))}

\* What the attempt ends in when its lease was not found lost; a workflow
\* without an executor and a failed heartbeat end in a plain failure.
Endings(e, at) ==
    IF e.lease = "store_error" THEN {FailureRow(e.row, FixedError)}
    ELSE FinishOutcomes(e.row) \union {FailureRow(e.row, FixedError)}
         \union UNION {ErrorOutcomes(e.row, f, at) : f \in Failure}

\* Saving the copy; a version conflict makes Run return and main stop.
FinishExecution(w) ==
    LET e == iw[w]
    IN  /\ up
        /\ e.pc = "execute"
        /\ e.lease # "lost"
        /\ \/ /\ \E at \in LocalTime : \E o \in Endings(e, at) :
                   UpdateTaskWithEvent(e.task, o[1], o[2])
              /\ iw' = [iw EXCEPT ![w] = Polling]
              /\ UNCHANGED up
           \/ /\ ~updateTask(e.task, e.row)
              /\ iw' = [v \in Internal |-> Polling]
              /\ up' = FALSE
              /\ UNCHANGED storeVars
        /\ UNCHANGED <<now, crashes>>

\* ErrLeaseLost: Run drops the attempt and polls again.
AbandonExecution(w) ==
    /\ up
    /\ iw[w].pc = "execute"
    /\ iw[w].lease = "lost"
    /\ iw' = [iw EXCEPT ![w] = Polling]
    /\ UNCHANGED <<now, storeVars, up, crashes>>

\* The reaper's ProcessNext.
Reap ==
    /\ up
    /\ \E at \in LocalTime, t \in TaskId : FailNextExpiredWithEvent(at, t)
    /\ UNCHANGED <<now, iw, up, crashes>>

\* The process dies between any two steps and takes its copies with it.
Crash ==
    /\ up
    /\ crashes < MaxCrashes
    /\ crashes' = crashes + 1
    /\ up' = FALSE
    /\ iw' = [w \in Internal |-> Polling]
    /\ UNCHANGED <<now, storeVars>>

\* The supervisor starts the process again; its state is the database.
Restart ==
    /\ ~up
    /\ up' = TRUE
    /\ UNCHANGED <<now, storeVars, iw, crashes>>

\* What worker w may rely on when it saves the copy of the row it took when
\* it claimed it, given the row.
ExecutionFenced(w, e, row) ==
    /\ row.status # "absent"
    /\ e.row.status = "running"
    /\ e.row.version <= row.version
    /\ e.row.version = row.version =>
         /\ row.owner = w
         /\ e.row.retryCount = row.retryCount
         /\ e.row.maxRetries = row.maxRetries

=============================================================================
