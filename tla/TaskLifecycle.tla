---------------------------- MODULE TaskLifecycle ----------------------------
(***************************************************************************)
(* What the system promises about a task, with no clock, no version, no    *)
(* copy of a row and no request in flight: every operation acts at once on *)
(* the task's current state.  The transitions are those of CanTransition   *)
(* in internal/domain/task.go, plus the two that go around it: Release     *)
(* (RequeueForRelease) and the takeover of an expired lease.               *)
(***************************************************************************)
EXTENDS Naturals

CONSTANTS TaskId, Worker, NoWorker, MaxRetriesOf

VARIABLES
    status,   \* id -> status
    retries,  \* id -> extra attempts used
    budget,   \* id -> max_retries
    holder    \* id -> the worker entitled to execute, or NoWorker

lifecycleVars == <<status, retries, budget, holder>>

Ended == {"succeeded", "partially_succeeded", "failed", "canceled"}

Init ==
    /\ status = [t \in TaskId |-> "absent"]
    /\ retries = [t \in TaskId |-> 0]
    /\ budget = [t \in TaskId |-> 0]
    /\ holder = [t \in TaskId |-> NoWorker]

Become(t, s, w) ==
    /\ status' = [status EXCEPT ![t] = s]
    /\ holder' = [holder EXCEPT ![t] = w]

Create(t) ==
    /\ status[t] = "absent"
    /\ Become(t, "queued", NoWorker)
    /\ \E m \in MaxRetriesOf : budget' = [budget EXCEPT ![t] = m]
    /\ UNCHANGED retries

Start(t, w) ==
    /\ status[t] \in {"queued", "retrying"}
    /\ Become(t, "running", w)
    /\ UNCHANGED <<retries, budget>>

\* An extra attempt, charged to the budget.
Charge(t) ==
    /\ status[t] = "running"
    /\ retries[t] < budget[t]
    /\ retries' = [retries EXCEPT ![t] = @ + 1]
    /\ UNCHANGED budget

Recover(t, w) == Charge(t) /\ Become(t, "running", w)

Retry(t) == Charge(t) /\ Become(t, "retrying", NoWorker)

Finish(t, s) ==
    /\ status[t] = "running"
    /\ Become(t, s, NoWorker)
    /\ UNCHANGED <<retries, budget>>

Cancel(t) ==
    /\ status[t] \in {"queued", "retrying", "running"}
    /\ Become(t, "canceled", NoWorker)
    /\ UNCHANGED <<retries, budget>>

Release(t) ==
    /\ status[t] = "running"
    /\ Become(t, "queued", NoWorker)
    /\ UNCHANGED <<retries, budget>>

Next ==
    \E t \in TaskId :
      \/ Create(t)
      \/ \E w \in Worker : Start(t, w) \/ Recover(t, w)
      \/ Retry(t)
      \/ \E s \in Ended \ {"canceled"} : Finish(t, s)
      \/ Cancel(t)
      \/ Release(t)

Spec == Init /\ [][Next]_lifecycleVars

=============================================================================
