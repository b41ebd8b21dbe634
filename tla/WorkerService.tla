---------------------------- MODULE WorkerService ----------------------------
(***************************************************************************)
(* internal/application/worker_task_service.go: the worker protocol of the *)
(* control plane.  An HTTP handler that serves Heartbeat, Progress,        *)
(* Complete, Fail or Release reads the row up to three times and writes it *)
(* at most once; every read and the write is a step of its own, so calls   *)
(* of several workers, cancellations, recoveries and the reaper run        *)
(* between them.                                                           *)
(*                                                                         *)
(* Workers are outside: a worker may send any call with any lease token it *)
(* was ever given, at any time and any number of times.  That covers lost  *)
(* responses, retransmissions, delayed and reordered requests, and workers *)
(* that sleep past the end of their lease.                                 *)
(***************************************************************************)
EXTENDS RetryScheduler

CONSTANTS
    External,          \* the workers that speak the HTTP protocol
    Handler,           \* HTTP handler goroutines
    Operation,         \* the operations the workers use in this instance
    Progress,          \* progress values reported
    MaxCalls           \* bound on the calls of the external workers

AllOperations == {"heartbeat", "progress", "complete", "fail", "release"}

ASSUME ServiceAssumption ==
    /\ External \subseteq Worker
    /\ Operation \subseteq AllOperations
    /\ Progress \subseteq 0..99
    /\ MaxCalls \in Nat

VARIABLES
    calls,     \* handler -> the call it serves
    held,      \* worker -> lease tokens it was given
    ncalls,    \* calls sent so far
    committed  \* history: the calls whose update was committed

serviceVars == <<calls, held, ncalls, committed>>

Token == [task : TaskId, worker : Worker, version : Nat]

ArgumentOf(op) ==
    CASE op = "complete" -> Output
      [] op = "fail" -> Failure
      [] op = "progress" -> Progress
      [] OTHER -> {NoOutput}

Argument == UNION {ArgumentOf(op) : op \in AllOperations}

Request == [op : AllOperations, worker : External, tok : Token, arg : Argument]

Reply == {"none", "ok", "replayed", "lease_lost", "conflict"}

\* row is the handler's copy of the task; event goes with it.
Call == [pc : {"replay", "validate", "prepare", "commit", "renew", "reread", "reply"},
         req : Request, at : Nat, row : Task, event : EventType, reply : Reply]

Idle == [pc |-> "idle"]

ServiceTypeOK ==
    /\ calls \in [Handler -> Call \union {Idle}]
    /\ \A h \in Handler : calls[h].pc # "idle" =>
         calls[h].req.arg \in ArgumentOf(calls[h].req.op)
    /\ held \in [External -> SUBSET Token]
    /\ ncalls \in Nat
    /\ committed \subseteq Request

ServiceInit ==
    /\ calls = [h \in Handler |-> Idle]
    /\ held = [w \in External |-> {}]
    /\ ncalls = 0
    /\ committed = {}

\* Mutant: makes a token for a row that has no lease as well.
MutantWithLeaseToken(t, row) ==
    {[task |-> t, worker |-> row.owner, version |-> row.version]}

\* withLeaseToken: a row without a lease carries no token.
withLeaseToken(t, row) ==
    IF row.owner = NoWorker THEN {}
    ELSE {[task |-> t, worker |-> row.owner, version |-> row.version]}

\* An answer without a row.
Answer(h, reply) ==
    calls' = [calls EXCEPT ![h].pc = "reply", ![h].reply = reply, ![h].row = NoTask]

Goto(h, pc) == calls' = [calls EXCEPT ![h].pc = pc]

-----------------------------------------------------------------------------
(* Mutants.                                                                *)

\* Trusts the status alone and not the version next to it.
MutantReplayable(row, req, statuses) == row.status \in statuses

\* Refuses to recognize a released task.
MutantReplayStatuses(op) ==
    CASE op = "complete" -> {"succeeded"}
      [] op = "fail" -> {"retrying", "failed"}
      [] OTHER -> {}

-----------------------------------------------------------------------------
(* ClaimTask: one transaction, answered with a token.                      *)

ClaimTask(w) ==
    /\ ncalls < MaxCalls
    /\ ncalls' = ncalls + 1
    /\ \E at \in LocalTime, t \in TaskId :
         /\ ClaimNextWithEvent(w, at, t)
         /\ held' = [held EXCEPT ![w] = @ \union withLeaseToken(t, tasks'[t])]
    /\ UNCHANGED <<now, calls, committed>>

\* A worker sends a request; HeartbeatTask reads its clock first.
Send(h, w) ==
    /\ calls[h].pc = "idle"
    /\ ncalls < MaxCalls
    /\ ncalls' = ncalls + 1
    /\ \E tok \in held[w], op \in Operation, at \in LocalTime :
         \E arg \in ArgumentOf(op) :
           calls' = [calls EXCEPT ![h] =
             [pc |-> IF op \in {"heartbeat", "progress"} THEN "validate" ELSE "replay",
              req |-> [op |-> op, worker |-> w, tok |-> tok, arg |-> arg],
              at |-> IF op = "heartbeat" THEN at ELSE 0, row |-> NoTask, event |-> "task_progress",
              reply |-> "none"]]
    /\ UNCHANGED <<now, storeVars, held, committed>>

-----------------------------------------------------------------------------
(* replayWorkerOperation and the callers' comparison with the stored row.  *)

ReplayStatuses(op) ==
    CASE op = "complete" -> {"succeeded"}
      [] op = "fail" -> {"retrying", "failed"}
      [] op = "release" -> {"queued"}
      [] OTHER -> {}

Replayable(row, req, statuses) ==
    row.version = req.tok.version + 1 /\ row.status \in statuses

SameOutcome(row, req) ==
    CASE req.op = "complete" -> row.result = req.arg
      [] req.op = "fail" -> row.err = CodeAndMessage(req.arg)
      [] OTHER -> TRUE

replayWorkerOperation(h) ==
    LET req == calls[h].req
        row == tasks[req.tok.task]
    IN  /\ calls[h].pc = "replay"
        /\ IF req.tok.worker # req.worker
             THEN Answer(h, "lease_lost")
             ELSE IF Replayable(row, req, ReplayStatuses(req.op))
             THEN Answer(h, IF SameOutcome(row, req) THEN "replayed" ELSE "conflict")
             ELSE Goto(h, "validate")
        /\ UNCHANGED <<now, storeVars, held, ncalls, committed>>

\* validateLeaseToken, on its own or from resolveLeaseVersion.
validateLeaseToken(h) ==
    LET req == calls[h].req
        row == tasks[req.tok.task]
    IN  /\ calls[h].pc = "validate"
        /\ IF /\ req.tok.worker = req.worker
              /\ row.version = req.tok.version
              /\ row.owner = req.worker
             THEN Goto(h, IF req.op = "heartbeat" THEN "renew" ELSE "prepare")
             ELSE Answer(h, "lease_lost")
        /\ UNCHANGED <<now, storeVars, held, ncalls, committed>>

-----------------------------------------------------------------------------
(* The in-memory copies the operations are about to save.                  *)

Prepared(row, req, at) ==
    /\ row.status = "running"
    /\ row.owner = req.worker
    /\ row.leaseExp # NoTime
    /\ row.leaseExp > at

CompletedRow(row, req) ==
    [MoveTo(row, "succeeded") EXCEPT !.result = req.arg, !.progress = 100]

ProgressRow(row, req) == [row EXCEPT !.progress = req.arg]

FailedRow(row, req) == [MoveTo(row, "failed") EXCEPT !.err = CodeAndMessage(req.arg)]

\* <<row, event>> pairs one of which the handler saves.
Outcomes(row, req, at) ==
    CASE req.op = "complete" -> {<<CompletedRow(row, req), "task_succeeded">>}
      [] req.op = "progress" -> {<<ProgressRow(row, req), "task_progress">>}
      [] req.op = "release" -> {<<RequeueForRelease(row, at), "task_released">>}
      [] req.op = "fail" ->
           IF Schedule(row, req.arg, at) # {} THEN Schedule(row, req.arg, at)
             ELSE {<<FailedRow(row, req), "task_failed">>}
      [] OTHER -> {}

\* prepareRunningTask, then the changes to the copy it returns.
prepareRunningTask(h) ==
    LET req == calls[h].req
        row == tasks[req.tok.task]
    IN  /\ calls[h].pc = "prepare"
        /\ \E at \in LocalTime :
             IF ~Prepared(row, req, at) THEN Answer(h, "lease_lost")
             ELSE IF row.version # req.tok.version THEN Answer(h, "conflict")
             ELSE \E o \in Outcomes(row, req, at) :
                    calls' = [calls EXCEPT ![h].pc = "commit", ![h].row = o[1],
                                           ![h].event = o[2]]
        /\ UNCHANGED <<now, storeVars, held, ncalls, committed>>

\* Complete and a final Fail answer with their copy, the others read again.
AfterCommit(event) ==
    IF event \in {"task_succeeded", "task_failed"} THEN "reply" ELSE "reread"

Commit(h) ==
    LET c == calls[h]
        t == c.req.tok.task
    IN  /\ c.pc = "commit"
        /\ \/ /\ UpdateTaskWithEvent(t, c.row, c.event)
              /\ calls' = [calls EXCEPT ![h].pc = AfterCommit(c.event),
                                        ![h].reply = "ok", ![h].row = NoTask]
              /\ committed' = committed \union {c.req}
           \/ /\ ~updateTask(t, c.row)
              /\ Answer(h, "conflict")
              /\ UNCHANGED <<storeVars, committed>>
        /\ UNCHANGED <<now, held, ncalls>>

\* The renewal uses the clock reading taken when the request came in.
Renew(h) ==
    LET c == calls[h]
        t == c.req.tok.task
    IN  /\ c.pc = "renew"
        /\ \/ /\ RenewLease(t, c.req.worker, c.at)
              /\ calls' = [calls EXCEPT ![h].pc = "reread", ![h].reply = "ok"]
           \/ /\ ~Renewable(t, c.req.worker, c.at)
              /\ Answer(h, "lease_lost")
              /\ UNCHANGED storeVars
        /\ UNCHANGED <<now, held, ncalls, committed>>

Reread(h) ==
    /\ calls[h].pc = "reread"
    /\ calls' = [calls EXCEPT ![h].pc = "reply", ![h].row = tasks[calls[h].req.tok.task]]
    /\ UNCHANGED <<now, storeVars, held, ncalls, committed>>

\* Only Heartbeat and Progress answer with a token, whoever holds the lease now.
Respond(h) ==
    LET c == calls[h]
        tokens == IF c.reply = "ok" /\ c.req.op \in {"heartbeat", "progress"}
                    THEN withLeaseToken(c.req.tok.task, c.row) ELSE {}
    IN  /\ c.pc = "reply"
        /\ calls' = [calls EXCEPT ![h] = Idle]
        /\ held' = [held EXCEPT ![c.req.worker] = @ \union tokens]
        /\ UNCHANGED <<now, storeVars, ncalls, committed>>

HandlerStep(h) ==
    \/ replayWorkerOperation(h)
    \/ validateLeaseToken(h)
    \/ prepareRunningTask(h)
    \/ Commit(h)
    \/ Renew(h)
    \/ Reread(h)
    \/ Respond(h)

=============================================================================
