---------------------------- MODULE WorkerRuntime ----------------------------
(***************************************************************************)
(* pkg/taskpulseworker/runtime.go against the real control plane: workers  *)
(* that use the SDK.  A runtime is three goroutines per attempt: execute   *)
(* (the one that selects and reports), heartbeat, and the executor, which  *)
(* may report progress.  They share the lease state (the token) and the    *)
(* contexts.  Each has its own HTTP handler, so that the three can have a  *)
(* call in flight at once.                                                 *)
(*                                                                         *)
(* A call can fail at any time: refused, timed out, or answered too late;  *)
(* the handler that serves it then goes on by itself.                      *)
(***************************************************************************)
EXTENDS ControlPlane

CONSTANTS
    Runtime,           \* the external workers that use the SDK
    HeartbeatFailure,  \* Retryable("heartbeat_failed", ...)
    TimeoutFailure,    \* Retryable("execution_timeout", ...)
    NotFoundFailure    \* Permanent("executor_not_found", ...)

ASSUME RuntimeAssumption ==
    /\ Runtime \subseteq External
    /\ Handler = Runtime \X {"main", "heartbeat", "report"}
    /\ {HeartbeatFailure, TimeoutFailure} \subseteq Retryable
    /\ NotFoundFailure \in Failure \ Retryable

VARIABLE rt  \* runtime -> its goroutines

runtimeVars == <<vars, rt>>

\* pc: "poll" in Run; "enter" before the select of execute and "blocked" in
\* it; "outcome", "grace" and "ended" are its three cases; "call" is about to
\* make the call op, "wait" waits for its answer.
RuntimeState ==
    [pc : {"poll", "enter", "blocked", "outcome", "grace", "ended", "call",
           "wait", "stopped"},
     op : {"none", "complete", "fail", "release"},
     arg : Argument,
     registered : BOOLEAN,      \* there is an executor for the workflow
     stop : BOOLEAN,            \* the parent context is done
     canceled : BOOLEAN,        \* cancel() was called
     deadline : BOOLEAN,        \* the execution timeout passed before that
     tok : SUBSET Token,        \* leaseState.token, {} when empty
     hb : {"off", "idle", "sent", "failed", "cancel"},
     hbErr : BOOLEAN,           \* an error is in heartbeatErrors
     exec : {"none", "running", "returned"},
     result : Output \union Failure \union {NoOutput},
     report : {"idle", "sent"}]

RuntimeTypeOK ==
    /\ TypeOK
    /\ rt \in [Runtime -> RuntimeState]
    /\ \A r \in Runtime : \A a, b \in rt[r].tok : a = b

Between(registered, stop) ==
    [pc |-> "poll", op |-> "none", arg |-> NoOutput,
     registered |-> registered, stop |-> stop, canceled |-> FALSE,
     deadline |-> FALSE, tok |-> {}, hb |-> "off", hbErr |-> FALSE,
     exec |-> "none", result |-> NoOutput, report |-> "idle"]

RuntimeInit ==
    /\ Init
    /\ rt \in [Runtime -> {Between(registered, FALSE) : registered \in BOOLEAN}]

Become(r, s) == rt' = [rt EXCEPT ![r] = s]

\* ctx.Err() # nil, and executionCtx.Err() # nil.
CtxDone(s) == s.stop \/ s.canceled
ExecutionCtxDone(s) == CtxDone(s) \/ s.deadline

\* execute returns; what is left of the attempt is cancelled and ignored.
Return(r) == Become(r, Between(rt[r].registered, rt[r].stop))

\* The first event to arrive decides a select that is blocked.
Wake(s, case) == IF s.pc = "blocked" THEN [s EXCEPT !.pc = case] ELSE s

-----------------------------------------------------------------------------
(* Mutants.                                                                *)

\* Cancels before the error is in the channel.
MutantSendHeartbeatError(s) == [Wake(s, "ended") EXCEPT !.canceled = TRUE, !.hb = "cancel"]

\* Waits for the executor without a timer.
MutantGraceTimesOut(r) == FALSE

\* The timeout cancels the executor but does not wake the select.
MutantTimedOut(s) == [s EXCEPT !.deadline = TRUE]

-----------------------------------------------------------------------------
(* Calls.                                                                  *)

Slot(r, goroutine) == <<r, goroutine>>

\* A request with the token read from the lease state.
SendRequest(r, goroutine, op, arg) ==
    /\ ExternalSend(Slot(r, goroutine), r)
    /\ calls'[Slot(r, goroutine)].req.op = op
    /\ calls'[Slot(r, goroutine)].req.arg = arg
    /\ calls'[Slot(r, goroutine)].req.tok \in rt[r].tok

\* The answer reaches the goroutine that waits for it.
Answered(h) == Respond(h) /\ UNCHANGED internalVars

Calling(s, op, arg) == [s EXCEPT !.pc = "call", !.op = op, !.arg = arg]

-----------------------------------------------------------------------------
(* Run.                                                                    *)

validateClaimedTask(t, row) == row.status = "running" /\ withLeaseToken(t, row) # {}

\* execute up to its select: the goroutines start.
Started(s, t, row) ==
    [s EXCEPT !.pc = "enter", !.tok = withLeaseToken(t, row), !.hb = "idle",
              !.exec = "running"]

Claim(r) ==
    /\ rt[r].pc = "poll"
    /\ ~rt[r].stop
    /\ ExternalClaim(r)
    /\ \E t \in TaskId :
         /\ tasks'[t] # tasks[t]
         /\ \/ /\ validateClaimedTask(t, tasks'[t])
               /\ Become(r, IF rt[r].registered THEN Started(rt[r], t, tasks'[t])
                            ELSE [Calling(rt[r], "fail", NotFoundFailure)
                                    EXCEPT !.tok = withLeaseToken(t, tasks'[t])])
            \/ UNCHANGED rt  \* the answer is lost, Run backs off and polls again

\* An error of Claim that is not temporary, or an answer that
\* validateClaimedTask refuses: Run gives up.
RunFails(r) ==
    /\ rt[r].pc = "poll"
    /\ ~rt[r].stop
    /\ Become(r, [rt[r] EXCEPT !.pc = "stopped"])
    /\ UNCHANGED vars

\* SIGTERM: the parent context is done, and with it its children.
Shutdown(r) ==
    /\ ~rt[r].stop
    /\ rt[r].pc # "stopped"
    /\ Become(r, [Wake(rt[r], "grace") EXCEPT !.stop = TRUE])
    /\ UNCHANGED vars

RunReturns(r) ==
    /\ rt[r].pc = "poll"
    /\ rt[r].stop
    /\ Become(r, [rt[r] EXCEPT !.pc = "stopped"])
    /\ UNCHANGED vars

-----------------------------------------------------------------------------
(* execute.                                                                *)

\* The cases of the select that are ready.
Ready(s) ==
    (IF s.exec = "returned" THEN {"outcome"} ELSE {})
    \union (IF s.stop THEN {"grace"} ELSE {})
    \union (IF ExecutionCtxDone(s) THEN {"ended"} ELSE {})

Select(r) ==
    /\ rt[r].pc = "enter"
    /\ \E case \in (IF Ready(rt[r]) = {} THEN {"blocked"} ELSE Ready(rt[r])) :
         Become(r, [rt[r] EXCEPT !.pc = case])
    /\ UNCHANGED vars

\* case outcome = <-executionDone, and what follows the select.
Outcome(r) ==
    LET s == [rt[r] EXCEPT !.canceled = TRUE, !.exec = "none"]
    IN  /\ s.pc = "outcome"
        /\ Become(r, IF s.stop THEN Calling(s, "release", NoOutput)
                     ELSE IF s.hbErr THEN Calling(s, "fail", HeartbeatFailure)
                     ELSE IF s.result \in Failure THEN Calling(s, "fail", s.result)
                     ELSE Calling(s, "complete", s.result))
        /\ UNCHANGED vars

\* case <-parent.Done(): cancel, wait for the executor or a timer, release.
GraceTimesOut(r) ==
    /\ rt[r].pc = "grace"
    /\ Become(r, [Calling(rt[r], "release", NoOutput) EXCEPT !.canceled = TRUE])
    /\ UNCHANGED vars

GraceSuffices(r) ==
    /\ rt[r].pc = "grace"
    /\ rt[r].exec = "returned"
    /\ Become(r, [Calling(rt[r], "release", NoOutput) EXCEPT !.canceled = TRUE,
                                                            !.exec = "none"])
    /\ UNCHANGED vars

\* case <-executionCtx.Done()
ContextEnded(r) ==
    LET s == rt[r]
    IN  /\ s.pc = "ended"
        /\ IF s.stop THEN Become(r, [Calling(s, "release", NoOutput) EXCEPT !.canceled = TRUE])
           ELSE IF s.hbErr THEN Become(r, Calling(s, "fail", HeartbeatFailure))
           ELSE IF s.deadline
             THEN Become(r, [Calling(s, "fail", TimeoutFailure) EXCEPT !.canceled = TRUE])
           ELSE Return(r)
        /\ UNCHANGED vars

\* Complete and Fail run under the parent context, Release does not.
Submit(r) ==
    /\ rt[r].pc = "call"
    /\ rt[r].op = "release" \/ ~rt[r].stop
    /\ SendRequest(r, "main", rt[r].op, rt[r].arg)
    /\ Become(r, [rt[r] EXCEPT !.pc = "wait"])

Submitted(r) ==
    /\ rt[r].pc = "wait"
    /\ Answered(Slot(r, "main"))
    /\ Return(r)

\* An error of the call is logged and the attempt is over.
SubmitFails(r) ==
    /\ rt[r].pc \in {"call", "wait"}
    /\ Return(r)
    /\ UNCHANGED vars

\* The call is over at last, answered or not: the context of Release has
\* ShutdownTimeout, that of Complete and Fail is sure to end with SIGTERM only.
CallIsBounded(s) == s.pc = "call" \/ s.stop \/ s.op = "release"

GiveUpCall(r) == CallIsBounded(rt[r]) /\ SubmitFails(r)

\* ExecutionTimeout.
TimedOut(s) == [Wake(s, "ended") EXCEPT !.deadline = TRUE]

Timeout(r) ==
    /\ rt[r].exec # "none"
    /\ ~ExecutionCtxDone(rt[r])
    /\ Become(r, TimedOut(rt[r]))
    /\ UNCHANGED vars

-----------------------------------------------------------------------------
(* The executor and its progress reports.                                  *)

Execute(r) ==
    /\ rt[r].exec = "running"
    /\ rt[r].report = "idle"
    /\ \E result \in Output \union Failure :
         Become(r, [Wake(rt[r], "outcome") EXCEPT !.exec = "returned", !.result = result])
    /\ UNCHANGED vars

Report(r) ==
    /\ rt[r].exec = "running"
    /\ rt[r].report = "idle"
    /\ \E p \in Progress : SendRequest(r, "report", "progress", p)
    /\ Become(r, [rt[r] EXCEPT !.report = "sent"])

\* The token of the answer replaces the one in the lease state.
NewToken(h) == withLeaseToken(calls[h].req.tok.task, calls[h].row)

ReportAnswered(r) ==
    LET h == Slot(r, "report")
    IN  /\ rt[r].report = "sent"
        /\ Answered(h)
        /\ Become(r, [rt[r] EXCEPT !.report = "idle",
                                   !.tok = IF calls[h].reply = "ok" THEN NewToken(h) ELSE @])

ReportLost(r) ==
    /\ rt[r].report = "sent"
    /\ Become(r, [rt[r] EXCEPT !.report = "idle"])
    /\ UNCHANGED vars

-----------------------------------------------------------------------------
(* heartbeat.                                                              *)

Heartbeat(r) ==
    /\ rt[r].hb = "idle"
    /\ ~CtxDone(rt[r])
    /\ SendRequest(r, "heartbeat", "heartbeat", NoOutput)
    /\ Become(r, [rt[r] EXCEPT !.hb = "sent"])

\* After an error: silence if the context is done, otherwise report it.
HeartbeatStops(s) == [s EXCEPT !.hb = IF CtxDone(s) THEN "off" ELSE "failed"]

HeartbeatAnswered(r) ==
    LET h == Slot(r, "heartbeat")
    IN  /\ rt[r].hb = "sent"
        /\ Answered(h)
        /\ Become(r, IF calls[h].reply = "ok"
                       THEN [rt[r] EXCEPT !.hb = "idle", !.tok = NewToken(h)]
                       ELSE HeartbeatStops(rt[r]))

\* The call fails, or the context is done between two calls.
HeartbeatLost(r) ==
    /\ rt[r].hb \in {"idle", "sent"}
    /\ Become(r, HeartbeatStops(rt[r]))
    /\ UNCHANGED vars

\* errorsOut <- err
SendHeartbeatError(s) == [s EXCEPT !.hbErr = TRUE, !.hb = "cancel"]

HeartbeatFails(r) ==
    /\ rt[r].hb = "failed"
    /\ Become(r, SendHeartbeatError(rt[r]))
    /\ UNCHANGED vars

\* cancel()
HeartbeatCancels(r) ==
    /\ rt[r].hb = "cancel"
    /\ Become(r, [Wake(rt[r], "ended") EXCEPT !.canceled = TRUE, !.hb = "off"])
    /\ UNCHANGED vars

-----------------------------------------------------------------------------

\* A goroutine still waits for the answer that handler h has.
Awaited(h) ==
    \/ h[2] = "main" /\ rt[h[1]].pc = "wait"
    \/ h[2] = "heartbeat" /\ rt[h[1]].hb = "sent"
    \/ h[2] = "report" /\ rt[h[1]].report = "sent"

\* The handlers run, and answer to nobody once their caller has given up.
ServeRuntime(h) ==
    /\ Serve(h)
    /\ calls[h].pc = "reply" => ~Awaited(h)
    /\ UNCHANGED rt

\* The rest of the system: clients, another worker, the reaper, time.
Elsewhere ==
    /\ \/ \E t \in TaskId : CreateTask(t) \/ CancelTask(t)
       \/ \E w \in External \ Runtime : ExternalClaim(w)
       \/ ReaperStep
       \/ Tick
    /\ UNCHANGED rt

MainStep(r) ==
    RunReturns(r) \/ Select(r) \/ Outcome(r) \/ GraceTimesOut(r)
    \/ GraceSuffices(r) \/ ContextEnded(r) \/ Submit(r) \/ Submitted(r) \/ SubmitFails(r)

ExecutorStep(r) == Execute(r) \/ Report(r) \/ ReportAnswered(r) \/ ReportLost(r)

HeartbeatStep(r) ==
    Heartbeat(r) \/ HeartbeatAnswered(r) \/ HeartbeatLost(r) \/ HeartbeatFails(r)
    \/ HeartbeatCancels(r)

RuntimeNext ==
    \/ Elsewhere
    \/ \E h \in Handler : ServeRuntime(h)
    \/ \E r \in Runtime :
         Claim(r) \/ RunFails(r) \/ Shutdown(r) \/ Timeout(r) \/ MainStep(r)
         \/ ExecutorStep(r) \/ HeartbeatStep(r)

RuntimeSpec == RuntimeInit /\ [][RuntimeNext]_runtimeVars

\* What the execute goroutine does without an answer of the control plane.
LocalStep(r) ==
    RunReturns(r) \/ Select(r) \/ Outcome(r) \/ GraceTimesOut(r)
    \/ GraceSuffices(r) \/ ContextEnded(r) \/ Submit(r) \/ GiveUpCall(r)

\* The execute goroutine and its timers run.  The executor, the heartbeat and
\* the control plane may hang for ever: http.DefaultClient has no timeout.
RuntimeFairness == \A r \in Runtime : WF_runtimeVars(LocalStep(r)) /\ WF_runtimeVars(Timeout(r))

FairRuntimeSpec == RuntimeSpec /\ RuntimeFairness

-----------------------------------------------------------------------------
(* Properties.                                                             *)

\* When the execution context ends an attempt there is a reason to report:
\* execute never leaves an attempt without Complete, Fail or Release, so that
\* its lease is not held until it expires.  It relies on the heartbeat
\* goroutine filling the channel before it cancels.
EndedHasCause ==
    \A r \in Runtime : rt[r].pc = "ended" => rt[r].stop \/ rt[r].hbErr \/ rt[r].deadline

\* An attempt is over, or waits for the answer to its Complete or Fail, sooner
\* or later, although its executor, its heartbeat and the control plane may
\* hang: the timeout wakes the select of execute.
Reporting(s) == s.pc = "wait" /\ s.op # "release"

AttemptIsReported ==
    \A r \in Runtime :
      rt[r].pc = "blocked" ~> rt[r].pc \in {"poll", "stopped"} \/ Reporting(rt[r])

\* Run returns after SIGTERM, whatever the executor, the heartbeat and the
\* control plane do.
ShutdownCompletes == \A r \in Runtime : rt[r].stop ~> rt[r].pc = "stopped"

\* SDK README: a worker uses the newest token it was given, which the runtime
\* takes care of.  The answers of a heartbeat and of a progress report are
\* stored in the order they arrive, not in the order of their versions.
TokenNeverGoesBack ==
    [][\A r \in Runtime :
         rt[r].pc # "poll" /\ rt'[r].pc # "poll" =>
           \A old \in rt[r].tok, new \in rt'[r].tok : new.version >= old.version]_runtimeVars

\* SDK docs: after SIGTERM only a kill, a hanging executor or a failed
\* release leaves a task to lease expiry.  A Complete in flight that SIGTERM
\* aborts is not followed by a release.
StopHandsLeaseBack ==
    [][\A r \in Runtime :
         /\ rt[r].stop /\ rt'[r].pc = "poll"
         /\ rt[r].pc = "wait" /\ rt[r].op = "complete"
         => \A tok \in rt[r].tok : tasks[tok.task].owner # r]_runtimeVars

=============================================================================
