# A verification project for TaskPulse

TaskPulse is a control plane for long-running tasks. Clients create tasks over
HTTP, workers claim them under a lease, renew the lease, report progress and
end the task; a task whose worker vanished is taken over or reaped. MySQL is
the system of record; a backend in memory can take its place. This directory
holds TLA+ modules of the parts that carry this protocol, TLC configurations
for small instances, and TLAPS proofs for every value of the constants. `PROJECT.json` maps each definition to its
source lines, lists the runs, the mutants, the hazards and the theorems.

## 1. Inventory

| Part | State it keeps | Operations | Hard behaviour | What makes it correct |
|---|---|---|---|---|
| Task domain (`internal/domain`) | the row of a task | NewTask, MoveTo, ScheduleRetry, RequeueForRelease | two operations go around CanTransition | lease fields and status agree |
| MySQL store (`internal/store/mysqlstore`) | `tasks`, `task_events` | create, claim, update with event, renew, cancel, fail expired | row locks, SKIP LOCKED, optimistic version, clocks of several processes | row and event commit together; version fences; budget |
| Idempotent creation | rows with a key | insert, commit, read after a refused insert | two inserts of one key, lost answers | one key names one task |
| Retry scheduler and backoff (`internal/worker`) | none | Schedule, Delay | boundaries of the budget, int64 doubling | budget never exceeded, bounded delay |
| Worker service (`internal/application/worker_task_service.go`) | none of its own | Claim, Heartbeat, Progress, Complete, Fail, Release | read, check, write in separate transactions; retransmission | tokens fence, are spent once, replays are truthful |
| In-process workers, reaper (`internal/worker`) | a copy of the claimed row | claim, renew, end, abandon, reap | copy saved minutes later; crash | stale copies are refused |
| Control-plane process (`cmd/taskpulse`) | up or down | stop when a processor returns, restart | crash between any two steps | every task still ends |
| SDK runtime (`pkg/taskpulseworker`) | token, contexts, goroutines | Run, execute, heartbeat, Report, release | three goroutines, selects, SIGTERM, timeouts | no attempt dropped, always stops |
| HTTP transport and client | none | handlers, `doJSON` | calls lost, delayed, answered late | covered by the two rows above |
| Task service: detail, list, statistics | none | GetTaskDetail, ListTasks, GetTaskStats | one answer from several reads; pages under concurrent inserts | answers are truthful about what did not change meanwhile |
| Memory store (`internal/store`) | two maps, a lock each | the store's operations | row changed before the event exists, two locks, error paths | locked steps are one transition; no deadlock |
| Executors, metrics, dashboard, benchmark, scripts | - | - | - | not modelled: outcomes are nondeterministic, the rest is I/O |

The parts interact only through the database and through HTTP calls: services
and workers never call each other. A service reads a row, decides, and writes
it in a later transaction; in between, everybody else runs.

## 2. Modules

```
TaskDomain                 rows and their transformations
  TaskStore                tables, WHERE clauses, transactions, clock
    RetryScheduler         budget, policy, stored error
      WorkerService        handlers of the worker protocol, tokens
      InternalWorker       in-process workers, reaper, crash and restart
        ControlPlane       all of it together; properties
          WorkerRuntime    workers that use the SDK
    TaskQueries            what list, statistics and detail compute
      Storage              (with InternalWorker) one process over either backend
TaskLifecycle              what ControlPlane and Storage implement
TaskCreation               POST /tasks with an idempotency key
AtomicCreation             what TaskCreation implements
Backoff                    the two backoff loops
MC*                        constants for TLC
*_proofs                   theorems
```

**TaskDomain.** `Task` is the row, without columns nothing reads back
(`updated_at`, `started_at`, `last_heartbeat_at`, the input). `NoTask` stands
for no row. Error texts are what the code stores: a code, a code with message,
or a fixed text, because the replay check compares them. Code and message do
not say whether a failure may be retried or when, so several failures can have
one text; `FailureText` names the one that stands for them all.

**TaskStore.** `tasks` and `events` are the tables. A transaction is one step;
it locks its row with its first read, so nobody can come between. Queries are
sets (`Due`, `Recoverable`, `Exhausted`) and an order; `FirstUnlocked` picks
the first row that no other transaction holds (SKIP LOCKED). Every timestamp
comes from a process's clock: `LocalTime` is `now` plus or minus `Skew`.
`granted` is a history variable: the expiry the holder was granted last.

**RetryScheduler.** `Schedule` is the set of row/event pairs it may save,
empty when the failure is permanent or the budget is used up. The delay is
any member of `RetryDelay`, positive by `Backoff_proofs!BackoffBounded`.

**WorkerService.** Every handler is a little program: `replay`, `validate`,
`prepare`, `commit`, `renew`, `reread`, `reply`; each read and the write is a
step. A worker may send any operation with any token it was ever given, so
lost answers, retransmissions and sleeping workers need no extra actions.
`committed` is a history variable.

**InternalWorker.** A worker keeps the row its claim returned and saves it when
the executor returns; only the version is compared. A refused save makes
`Run` return an error and `main` stop the process. `Crash` drops everything but
the database.

**ControlPlane.** The composition, its properties and its fairness.

**WorkerRuntime.** A record per runtime: where `execute` stands, the contexts
(`stop`, `canceled`, `deadline`), the token, the heartbeat goroutine, the error
channel (`hbErr`), the executor and its progress report. A select that is
blocked takes the first event (`Wake`); one that is entered late takes any
ready case. A call can fail at any time while its handler runs on. An executor
that ignores its context and outlives its attempt is not followed; since
RuntimeSpec implements ControlPlane's specification, which allows any call
with any old token, safety does not depend on it.

**TaskQueries.** Pages (`ListTasks` reads one row more than it returns, the
cursor names the last row returned), counts, and the scans of a task's events
from the end. `stamps` holds the `created_at` of each event. Equal timestamps
are listed by id in MySQL (made before the insertion, so in any order), in the
order of insertion in memory.

**Storage.** The same rows and workers as ControlPlane, looked at from inside
one process. `backend` is what `openRuntimeStores` opened. Every call reads its
clock (`Start*`) and reaches the store later. With `mysql` a call is then one
transaction, which may also fail. With `memory` it takes the task lock
(`Lock`), takes the event lock and writes the row (`WriteRow`; taking the
second lock and deciding is one step because nobody can see between them),
appends the event and releases (`AppendEvent`), or puts the snapshot back
(`RollBack`, on the three paths that build the event after the row was
changed). Readers take one lock at a time. `Committed` is what everyone who
respects the locks sees of the rows. A detail, a walk through the pages and a
statistics request keep what they have read, and, for the properties, the
versions of the rows when they began. Only in-process workers take part;
external ones are in ControlPlane.

**TaskCreation.** Insert, event and commit are one transaction, whose row is
visible to others only as a lock on its key. A refused insert rolls back and
reads outside the transaction. Any step may fail instead. What the table gives
back is not what it was given: `Stored` is what the `JSON` column makes of an
input (MySQL reads `1.10` back as `1.1`), `Collated` equates workflows as the
collation of their column does, which ignores case. Go compares the stored
input with the one that was sent number by number as text, and the workflows
to the letter. AtomicCreation has both constants too: with the identity for
them it is the store in memory.

**Backoff.** `Delay` and `claimRetryDelay` as a loop over integers that wrap at
`MaxInt`.

## 3. Runs

| Run | Instance | Distinct states | Shows |
|---|---|---|---|
| `control_plane` | 1 task, 2 external workers, 1 in-process, 2 handlers, clocks off by 1, 1 crash, 2 external calls | 778,846 | types, leases, budget, audit trail, attempts, fencing, finality, refinement of TaskLifecycle |
| `worker_protocol` | 1 task, 2 external workers, 2 handlers, 4 calls, 3 failures of which 2 have one text | 1,096,788 | tokens name the holder and no commit uses one twice; replays are truthful and recognized |
| `convergence` | 1 task, 1 external and 1 in-process worker, 3 calls, 1 crash, fair | 366,262 | exhausted tasks are ended; every task ends; in-process leases are honoured |
| `sdk_runtime` | 1 runtime and 1 other worker, 2 calls, fair | 84,666 | attempts have a cause to report and get to their Complete or Fail; SIGTERM ends Run |
| `backoff` | 5-bit durations, counts -1..6 | 302k | both loops compute the capped exponential; bounds |
| `creation` | 2 clients, 3 workflows of which 2 collate, key or none, 3 bodies of which one is rewritten to another, 4 requests | 615,435 | one key, one task; truthful conflicts; atomic; nobody waits for ever |
| `storage` | 3 tasks, 1 worker, reaper, 2 HTTP handlers (one reads, one creates and cancels), both backends, 5 transitions, 2 calls at once, pages of 1 row | 1,448,980 | lock discipline, atomic transitions, no deadlock, refinement of TaskLifecycle; details, pages, statistics and event order |
| `fail_replay`, `expired_write`, `early_takeover`, `token_regression`, `shutdown_handback` | as above | - | the five findings of section 6 |

**Bounds.** `MaxCalls` bounds the calls of external workers, `MaxCrashes` the
crashes, `MaxSends` the creation requests. `MaxNow` bounds time: later the
clock moves only while a deadline is ahead, so that leases and retries always
run out. One task is enough for the properties of `control_plane`, which are
about single rows; rows do not share state. The order between tasks and the
locked rows of `FirstUnlocked` are exercised by `storage` (and the proofs hold
for any number of tasks). Two external calls
and an in-process worker give a call in flight during a takeover, a
cancellation or a reaping; four calls give a claim, a commit, its
retransmission and a call of another worker. A lease of two ticks lets a
renewal fall between claim and expiry. In `sdk_runtime` the second call is the
heartbeat, the report or the final call; its safety properties are proved for
any number. In `creation` four requests let both clients repeat after a lost
answer. In `storage` three tasks and pages of one row let a task be
inserted, be canceled or move while a client stands between two pages, and five
transitions are a creation and two attempts that both fail and are retried.
`MaxEvents` counts the transitions, `MaxCalls` the calls in progress;
`SideTasks` keeps the second and third task short, so that only the first goes
through retries. `OneReadsOneWrites` names the handlers: one serves who reads,
the other who creates and cancels, so that each can be in the middle of its
call while the other is (that a task is inserted, and one canceled, between
two pages was confirmed by asking TLC for such a step). Two readers at once
would add nothing, since handlers share nothing; two writers at once are the
handler with the worker or the reaper. `ListsAreShort` lets walks and
statistics see at most four of the five transitions, walks through the queued
tasks and statistics of all.
The clocks of `storage` and `convergence` are exact, to keep them small; what
skew does to the order of events and to in-process leases is proved
(`Order_proofs`, `InternalLeases`).
`MCNext` takes an answer that is ready before anything else happens; this
commutes with every other step. `HolderCanProceed` is the safety half of
"every call returns"; the other half is that Go's mutexes are starvation-free.
All runs set `CHECK_DEADLOCK FALSE`: when the bounds are reached, all
tasks have ended, or a runtime has stopped, nothing is left to do.

**Fairness.** `convergence`: goroutines of a running process are scheduled,
executors return, the supervisor (compose, Kubernetes) restarts the process,
time passes, the reaper ticks. External workers may go silent for ever.
`EveryTaskEnds` also rests on the bound on calls: a worker that releases and
claims again without end keeps a task alive, and the code allows it.
`sdk_runtime`: the execute goroutine and its timers run, and
`ExecutionTimeout` is configured (with 0 an executor may run for ever).
Executor, heartbeat and control plane get no fairness. A call is given up for
sure only where the code bounds it (`CallIsBounded`): Release has a deadline of
`ShutdownTimeout`, and SIGTERM ends the context of Complete and Fail; before
that nothing does, since `http.DefaultClient`, which the client falls back to,
has no timeout. `AttemptIsReported` therefore ends at the Complete or Fail of
an attempt, and says nothing of its answer. `creation`: handlers run.

**Mutants.** Every property of a passing run has a definition with a plausible
slip (next to the code it would be a slip of) that makes TLC refute it.

## 4. Proofs

All proofs are for any sets of tasks, workers, handlers and runtimes, any
budgets, lease duration, page size and clock skew.
Assumptions are the named
`ASSUME`s of the modules:

- external and in-process workers are workers, `NoWorker` is none, durations
  are positive naturals;
- no external worker bears the id of an in-process one (`IdentityAssumption`):
  worker.go:100 makes its id with `identity.New`, of time and sequence number;
- a goroutine has one job and a free lock no holder (`GoroutineAssumption`);
- ids are finitely many (`QueryAssumption`): they fit a VARCHAR(64);
- every failure has a text (`TextAssumption`), every body a stored form and
  every workflow a class (`ColumnAssumption`): functions of any kind.

Every inductive invariant below was checked by TLC as an invariant of the run
of its module before it was proved.

```
TaskStore_proofs           rows, transactions, copies
  ControlPlane_proofs      IInv: types, leases, budget, audit trail, fencing;
                           finality, refinement of TaskLifecycle;
                           LeasesCovered: in-process leases
    Runtime_proofs         SDK runtimes are workers; attempts are reported
    Protocol_proofs        TokenInv, AttemptsInv: tokens, replays, attempts
  Storage_proofs           SInv: both backends; refinement of TaskLifecycle
    Order_proofs           TimeInv: timestamps of events
TaskCreation_proofs        CreationInv; refinement of AtomicCreation
Backoff_proofs             LoopInv, PowerInv
```

- **TaskStore_proofs**: lemmas about rows (`RowOK`), about transactions and
  copies, `Advances`, how a row changes in one step, and `Transition`, what a
  save may do to it.
- **ControlPlane_proofs**: `IInv`, the conjunction of types, `RowOK` of every
  row, the match with its trail, and `CopiesAreFenced`. None of
  `LeaseIffRunning`, `RetryBudgetRespected` and `AuditTrailMatches` is
  inductive alone: a handler saves a copy it made earlier, and only the fence
  says that a copy which passes the version check was made from the row as it
  is now. The fence in turn survives every step because each write raises the
  version (a renewal does not, but changes only the expiry). Theorems:
  `InductiveInvariant`, `TypeCorrect`, `LeaseSafety`, `RetryBudget`,
  `AuditTrail`, `Fencing`. From `IInv`, a step is one `Transition` of one row
  or nothing: `EndedTasksAreFinal` and `Refinement` (ControlPlane implements
  TaskLifecycle). `InternalLeases` bounds finding 3: it concerns external
  workers only. `LeasesCovered` says that the stored expiry of an in-process
  worker's row is the one granted last: by the fences no handler writes such a
  row, and its own worker never saves it while it runs. So whoever takes it
  over or reaps it is wrong by the error of its own clock at most.
- **Protocol_proofs**: `HolderTokens`, `OneSpend`, `TruthfulReplay` and
  `RecognizedReplay`, from `TokenInv` on top of `IInv`: every token, held or in
  a call, fits its row, and if the row is one version past the token and shows
  what a call would write, that call, or a Fail with the same text, is
  committed (`TokensInOrder`); what a
  handler has established at each step (`CallsInOrder`); the token of a
  committed call is older than its row, and while the row is still at the next
  version it says what the call reported (`CommittedAreSpent`); a retry keeps
  the bare code (`CodeWhileRetrying`). The third ties the history variable
  `committed` to the row, which is all the replay check of the code can see.
  `OneSpend` is about commits, not about calls: a commit needs the row at the
  version of its token (`CommitOnce`), and every committed call's token is
  older than that. `RecognizedReplay` leaves out nothing but rows that wait
  for a retry, which is finding 1.
  `AttemptsCounted`, from `AttemptsInv`: the bound is one less while the task
  waits, which a claim then uses up.
- **Runtime_proofs**: `RuntimesAreWorkers` (every step of the system with SDK
  runtimes is a step of ControlPlane, so all of the above carries over);
  `RuntimeTypes`; `AttemptsAreReported`, from `RuntimeInv`: the heartbeat
  goroutine cancels only with its error in the channel, and nothing of an
  attempt is left when the next one starts.
- **TaskCreation_proofs**: `CreationTypes`, `IdempotentCreation`,
  `TruthfulConflict` and `CreationRefinement`, from `CreationInv`: ids are
  used once, at most one row or uncommitted insert per key, a refused insert
  has a row that refuses it, every answer is backed by the row its key still
  holds, and one request per key is told it created the task. All four hold
  for every `Stored` and `Collated`; what they promise a client whose input the
  column does not preserve is one task per key, but not that it gets it back.
- **Storage_proofs**: everything is said about `Committed`, the rows as whoever
  respects the locks sees them: they change in one step only, when an event is
  appended or a transaction commits, and then by one `Transition` (`Replaces`).
  `SInv` holds the lock discipline, what every call has established so far
  (`WriteOK`: a written row replaces the snapshot the call keeps; a save in
  flight is fenced; `DetailOK`, `WalkOK`, `StatsOK`: what a request that
  combines several reads knows about rows that moved on since), the match of
  rows and events, and the fences of the workers' copies. `StepKeeps` shows
  once and for all that a step which changes one call and moves `Committed` by
  at most one transition (`StepOK`) keeps `SInv`; each action is then shown to
  be such a step. Pages need that a non-empty finite list has a first and a
  last row; ranks in the list and the least number of a set take the place of
  an induction. Theorems: `StorageInvariant`, `StorageTypes`, `StoresInStep`,
  `DetailCurrent`, `WalkOnce`, `WalkComplete`, `StatsBracketed`,
  `BackendRefinement`, and `LockOrder`: whoever holds the task lock finds the
  event lock free or its own, and nobody holds the event lock alone.
- **Order_proofs**: `TimeInvariant`, `EventsInOrder` and `DiagnosticsCurrent`,
  for clocks that are off by any `Skew`. That stamps grow is not inductive: a
  call reads the clock, waits for a lock or a connection, and may write when
  others have written since. `TimeInv` on top of `SInv` says what the row
  remembers of them: no stamp is later than `available_at` while the task
  waits, nor than the lease while it runs, by more than `Spread`, what two
  clocks differ. A claim and the reaper compare their own time with just that
  column. An attempt that ends compares the version instead; if it still fits,
  nothing was stored since the call read the clock (`EndsInTime`). A
  cancellation compares neither, which is why it may be late, but it ends the
  task. `DiagnosticsCurrent` needs more: that two claims, or two retries, are
  stamped in their order. It has the hypothesis that the lease and every retry
  delay are longer than `Spread`, and says what the detail shows of a task that
  failed for good: the last retry that was scheduled (section 6). `TimeInv` carries the strict bounds that
  follow (`Apart => ...`), and the scan by timestamp meets claims and retries
  in the order in which they were stored (`ScanFindsLast`). With clocks that
  agree the hypothesis always holds. It cannot be weakened: on `Storage` with
  one task, `mysql`, `Skew = 1`, a budget of 2 and `MaxNow = 4`, TLC finds no
  error for a lease and a delay of 3 (1.3 million states) and refutes
  `DiagnosticsAreLatest` for 2.
- **Backoff_proofs**: `BackoffBounded`, from the loop invariant that the delay
  lies between base and maximum, so that a doubling never wraps;
  `BackoffExponential`, from `PowerInv`: the delay is the base times the power
  of the passes made. That `PowerOfTwo` satisfies its recursion, is positive
  and grows is shown by least counterexamples.

**Only model-checked.** Liveness and everything under fairness, and
`HolderCanProceed`, which uses ENABLED (both outside the prover's reach);
`LockOrder` proves the guards of the steps `HolderCanProceed` asks for.

## 5. Not modelled

Executors (nondeterministic outcomes); the memory store's single-store methods
that no service calls; the oldest age of the statistics and the durations of
the detail (arithmetic on timestamps nothing else reads); decoding, status
codes, authentication; configuration; metrics, dashboard, benchmark, deployment and scripts; several workflows at once (a claim by
workflow is the claim of that workflow's rows); MySQL failures inside a
transaction of ControlPlane other than a crash (they leave no trace but an
error answer, which the worker cannot tell from a lost one).

## 6. Findings

1. `fail_replay`: a Fail that scheduled a retry is not recognized when it is
   sent again, because the scheduler stores the bare code and the replay check
   expects code and message.
2. `expired_write`: the lease is compared with the clock before the write, the
   write compares the version only; an expired worker can still complete.
3. `early_takeover`: a renewal leaves the version alone, so a progress report
   read before it writes the old expiry back, and another worker claims the
   task inside the lease granted last. In-process workers are not affected
   (`InternalLeases`).
4. `token_regression`: the runtime stores tokens in the order of arrival; an
   old one can replace a new one.
5. `shutdown_handback`: the executor has returned and its Complete is in
   flight; SIGTERM aborts it and no release follows. Fail runs under the same
   context.

Met while modelling, without a run of their own:

- `docs/adr/0006-generic-retry-semantics.md` asks that events record the error
  code, the final `failed` included. `finishFailed` (worker.go:369-410) writes
  an empty payload and the reaper only a reason, so the detail of a task that
  failed for good shows the code of an earlier retry with `retryable: true`
  (`populateFailureDiagnostics` skips events without a code). The property
  `DiagnosticsAreLatest` states this as its exception. The final Fail of an
  external worker does write a code (worker_task_service.go:334-338).
- `docs/adr/0007-idempotent-task-creation.md:26-38` and
  `docs/API_REFERENCE.md:45-46` promise the original task to who repeats a
  request with its key. An input that holds a number the `JSON` column rewrites
  (`{"x":1.10}`) is compared with what was read back by the text of its
  numbers (`UseNumber`), so its repetition is answered with 409. And two
  workflows that differ in case share a key, since only `idempotency_key` was
  made binary: the second gets 409 for its own first request. The store in
  memory does neither. `ConflictIsTruthful` and `AtomicCreation` say what is
  left of the promise.
- A heartbeat reads its clock before it reads the row, so of two that overlap
  the slower one can set the expiry back (worker_task_service.go:161); the
  lease granted last is then the shorter one.
- Complete and Fail have no deadline before SIGTERM, and the samples of the
  SDK's documentation give the client no timeout either: a control plane that
  takes the call and does not answer holds the runtime for as long.
- The memory store breaks ties between expired leases by id alone, the MySQL
  query by `created_at` and id. Both orders are in the model; no property
  tells them apart.
- A cancellation checks neither lease nor clock, so it can be listed before
  the event it followed; every other transition is listed in commit order
  (`OnlyCancellationIsLate`), up to what two clocks differ.

## 7. Plan

Done in this order: domain and store; worker service; in-process workers and
the composition; its invariant and refinement; the runtime; creation; backoff;
both backends with detail, list and statistics; the proofs of the worker
protocol, of creation, of both backends, of the order of events under clock skew, of
the in-process leases and of the backoff. Left: the pool of the URL-check executor.
