--------------------------- MODULE RetryScheduler ---------------------------
(***************************************************************************)
(* internal/worker/retry_scheduler.go, used by the in-process workers and, *)
(* through cmd/taskpulse's externalRetryScheduler, by the worker service.  *)
(* The delay the backoff calculator returns is any member of RetryDelay.   *)
(***************************************************************************)
EXTENDS TaskStore

CONSTANTS
    Retryable,        \* the failures reported as transient
    RetryDelay,       \* delays the backoff calculator may return
    PolicyMaxRetries  \* limit of the workflow's retry policy

ASSUME RetryAssumption ==
    /\ Retryable \subseteq Failure
    /\ RetryDelay \subseteq Nat \ {0}
    /\ PolicyMaxRetries \in Nat

\* Schedules whenever the failure is transient.
MutantBudgetLeft(row) == TRUE

\* The task's own budget and the workflow policy both count.
BudgetLeft(row) ==
    row.retryCount + 1 <= row.maxRetries /\ row.retryCount + 1 <= PolicyMaxRetries

\* The stored error keeps the code and drops the message.
RetryRow(row, f, availableAt) ==
    [ScheduleRetry(row, availableAt) EXCEPT !.err = CodeOnly(f)]

\* The <<row, event>> pairs Schedule may save; none for a failure that is
\* permanent or a budget that is exhausted.
Schedule(row, f, at) ==
    IF f \in Retryable /\ BudgetLeft(row)
      THEN {<<RetryRow(row, f, at + d), "task_retrying">> : d \in RetryDelay}
      ELSE {}

=============================================================================
