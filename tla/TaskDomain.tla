----------------------------- MODULE TaskDomain -----------------------------
(***************************************************************************)
(* The task aggregate of internal/domain: its status machine, the value    *)
(* transformations the services apply to an in-memory copy of a row, and   *)
(* the types of the audit events.  There is no state here.  A row keeps    *)
(* the fields that control depends on; started_at, finished_at,            *)
(* updated_at, last_heartbeat_at, input and workflow are left out.         *)
(***************************************************************************)
EXTENDS Integers

CONSTANTS
    Worker,     \* worker ids, external and internal
    NoWorker,   \* lease_owner IS NULL
    Output,     \* task results, up to JSON equality, numbers as float64
    NoOutput,   \* result IS NULL
    Failure,    \* what a failing attempt reports: code, message, retryable or not
    NoFailure,
    FailureText \* the failure that stands for all with the same code and message

ASSUME NoWorkerAssumption == NoWorker \notin Worker

ASSUME TextAssumption == FailureText \in [Failure -> Failure]

NoTime == -1    \* a NULL timestamp

Status == {"queued", "running", "succeeded", "partially_succeeded", "failed",
           "canceled", "retrying"}

terminalStatuses == {"succeeded", "partially_succeeded", "failed", "canceled"}

EventType == {"task_created", "task_started", "task_retry_started",
              "task_recovered", "task_retrying", "task_released",
              "task_progress", "task_succeeded", "task_partially_succeeded",
              "task_failed", "task_canceled"}

ClaimEvent == {"task_started", "task_retry_started", "task_recovered"}

\* error_message: empty, a bare code, "code: message", or a fixed text.  Codes
\* are taken to hold no ": ", so that a bare code is never the other form.
ErrorMessage == [form : {"empty", "code", "code_and_message", "expired", "fixed"},
                 of : Failure \union {NoFailure}]
NoError == [form |-> "empty", of |-> NoFailure]
CodeOnly(f) == [form |-> "code", of |-> f]

\* Whether the failure may be retried, and when, is not part of the text.
CodeAndMessage(f) == [form |-> "code_and_message", of |-> FailureText[f]]

LeaseExpiredError == [form |-> "expired", of |-> NoFailure]
FixedError == [form |-> "fixed", of |-> NoFailure]

\* A row of the tasks table; "absent" marks an id not inserted yet.
Task == [status : Status \union {"absent"},
         progress : 0..100,
         retryCount : Nat,
         maxRetries : Nat,
         availableAt : Int,
         createdAt : Int,
         owner : Worker \union {NoWorker},
         leaseExp : Int,
         err : ErrorMessage,
         result : Output \union {NoOutput},
         version : Nat]

NoTask == [status |-> "absent", progress |-> 0, retryCount |-> 0,
           maxRetries |-> 0, availableAt |-> 0, createdAt |-> 0,
           owner |-> NoWorker, leaseExp |-> NoTime, err |-> NoError,
           result |-> NoOutput, version |-> 0]

NewTask(maxRetries, at) ==
    [NoTask EXCEPT !.status = "queued", !.maxRetries = maxRetries,
                   !.availableAt = at, !.createdAt = at]

-----------------------------------------------------------------------------
(* Mutants: what a plausible slip in task.go would do.                     *)

\* Hands the task back but forgets to count the retry.
MutantScheduleRetry(task, availableAt) ==
    [task EXCEPT !.status = "retrying", !.owner = NoWorker,
                 !.leaseExp = NoTime, !.availableAt = availableAt]

-----------------------------------------------------------------------------

CanTransition(from, to) ==
    \/ from = "queued" /\ to \in {"running", "canceled"}
    \/ from = "running" /\ to \in terminalStatuses \union {"retrying"}
    \/ from = "retrying" /\ to \in {"running", "failed", "canceled"}

\* An error unless CanTransition(task.status, next).
MoveTo(task, next) ==
    IF next = "running"
      THEN [task EXCEPT !.status = next]
      ELSE [task EXCEPT !.status = next, !.owner = NoWorker, !.leaseExp = NoTime]

\* Defined when the budget is not exhausted; the scheduler guards it.
ScheduleRetry(task, availableAt) ==
    [MoveTo(task, "retrying") EXCEPT !.retryCount = @ + 1,
                                     !.availableAt = availableAt]

RequeueForRelease(task, at) ==
    [task EXCEPT !.status = "queued", !.progress = 0, !.err = NoError,
                 !.availableAt = at, !.owner = NoWorker, !.leaseExp = NoTime]

\* NewTaskClaimedEvent: the claim kind is read off the row before the claim.
ClaimedEvent(task) ==
    CASE task.status = "queued" -> "task_started"
      [] task.status = "retrying" -> "task_retry_started"
      [] OTHER -> "task_recovered"

=============================================================================
