---------------------------- MODULE Runtime_proofs ----------------------------
(***************************************************************************)
(* Workers that use the SDK run the control plane's specification, so that *)
(* everything proved of ControlPlane holds for them; and the runtime never *)
(* drops an attempt without reporting it.                                  *)
(***************************************************************************)
EXTENDS WorkerRuntime, ControlPlane_proofs

\* The handlers belong to the goroutines of the runtimes.
LEMMA SlotType ==
    ASSUME NEW r \in Runtime
    PROVE  /\ r \in External
           /\ \A g \in {"main", "heartbeat", "report"} : Slot(r, g) \in Handler
BY RuntimeAssumption DEF Slot

\* What a step of a runtime does to the rest of the system: it sends a
\* request, receives an answer, claims, or does nothing.
LEMMA RuntimeStepServes ==
    ASSUME NEW r \in Runtime,
           Claim(r) \/ RunFails(r) \/ Shutdown(r) \/ Timeout(r) \/ MainStep(r)
             \/ ExecutorStep(r) \/ HeartbeatStep(r)
    PROVE  [Next]_vars
<1>1. CASE UNCHANGED vars
  BY <1>1
<1>2. ASSUME NEW g \in {"main", "heartbeat", "report"}, NEW op, NEW arg,
             SendRequest(r, g, op, arg)
      PROVE  Next
  BY <1>2, SlotType DEF SendRequest, Next
<1>3. ASSUME NEW g \in {"main", "heartbeat", "report"}, Answered(Slot(r, g))
      PROVE  Next
  BY <1>3, SlotType DEF Answered, Serve, HandlerStep, Next
<1>4. CASE Claim(r)
  BY <1>4, SlotType DEF Claim, Next
<1>5. CASE MainStep(r)
  BY <1>1, <1>2, <1>3, <1>5 DEF MainStep, RunReturns, Select, Outcome, GraceTimesOut,
     GraceSuffices, ContextEnded, Submit, Submitted, SubmitFails
<1>6. CASE ExecutorStep(r)
  BY <1>1, <1>2, <1>3, <1>6 DEF ExecutorStep, Execute, Report, ReportAnswered, ReportLost
<1>7. CASE HeartbeatStep(r)
  BY <1>1, <1>2, <1>3, <1>7 DEF HeartbeatStep, Heartbeat, HeartbeatAnswered, HeartbeatLost,
     HeartbeatFails, HeartbeatCancels
<1> QED
  BY <1>1, <1>4, <1>5, <1>6, <1>7 DEF RunFails, Shutdown, Timeout

\* Every step of the system with runtimes is a step of the control plane.
LEMMA RuntimeStepIsStep == [RuntimeNext]_runtimeVars => [Next]_vars
<1>1. CASE Elsewhere
  BY <1>1 DEF Elsewhere, Next
<1>2. ASSUME NEW h \in Handler, ServeRuntime(h) PROVE Next
  BY <1>2 DEF ServeRuntime, Next
<1> QED
  BY <1>1, <1>2, RuntimeStepServes DEF RuntimeNext, runtimeVars

\* The control plane with SDK workers is an instance of the control plane
\* with arbitrary workers: leases, budgets, audit trails and fencing are safe
\* whatever the runtimes do.
THEOREM RuntimesAreWorkers == RuntimeSpec => Spec
BY RuntimeStepIsStep, PTL DEF RuntimeSpec, RuntimeInit, Spec

-----------------------------------------------------------------------------

\* Why an attempt was cancelled is known before anybody can see that it was,
\* and nothing of an attempt is left between two attempts.
Caused(s) ==
    /\ s.pc = "ended" => s.stop \/ s.hbErr \/ s.deadline
    /\ s.hb = "cancel" => s.hbErr
    /\ s.pc \in {"enter", "blocked"} /\ s.canceled => s.hbErr
    /\ s.pc = "poll" => s.hb = "off" /\ ~s.canceled

RuntimeOK(s) == s \in RuntimeState /\ (\A a, b \in s.tok : a = b) /\ Caused(s)

RuntimeInv == rt \in [Runtime -> RuntimeState] /\ \A r \in Runtime : RuntimeOK(rt[r])

\* A step of runtime r that leaves its state in order keeps the invariant.
LEMMA BecomeStep ==
    ASSUME RuntimeInv, NEW r \in Runtime, NEW s, RuntimeOK(s), Become(r, s)
    PROVE  RuntimeInv'
BY DEF RuntimeInv, Become, RuntimeOK

\* What the runtime sends are arguments of the protocol.
LEMMA FailureArguments ==
    /\ Output \subseteq Argument /\ Failure \subseteq Argument /\ NoOutput \in Argument
    /\ {HeartbeatFailure, TimeoutFailure, NotFoundFailure} \subseteq Argument
<1>1. /\ "complete" \in AllOperations /\ ArgumentOf("complete") = Output
      /\ "fail" \in AllOperations /\ ArgumentOf("fail") = Failure
      /\ "release" \in AllOperations /\ ArgumentOf("release") = {NoOutput}
  BY DEF AllOperations, ArgumentOf
<1> QED
  BY <1>1, RuntimeAssumption, RetryAssumption DEF Argument

\* The state in which execute is about to report.
LEMMA CallingOK ==
    ASSUME NEW s \in RuntimeState, \A a, b \in s.tok : a = b, s.hb = "cancel" => s.hbErr,
           NEW op \in {"complete", "fail", "release"}, NEW arg \in Argument
    PROVE  RuntimeOK(Calling(s, op, arg))
<1>1. Calling(s, op, arg) \in RuntimeState
  BY Zenon DEF RuntimeState, Calling
<1>2. /\ Calling(s, op, arg).pc = "call" /\ Calling(s, op, arg).tok = s.tok
      /\ Calling(s, op, arg).hb = s.hb /\ Calling(s, op, arg).hbErr = s.hbErr
  BY SMT DEF RuntimeState, Calling
<1> QED
  BY <1>1, <1>2 DEF RuntimeOK, Caused

\* Cancelling the attempt, once execute has left its select.
LEMMA CancelOK ==
    ASSUME NEW s, RuntimeOK(s), s.pc \notin {"poll", "enter", "blocked"},
           NEW exec \in {"none", "running", "returned"}
    PROVE  /\ RuntimeOK([s EXCEPT !.canceled = TRUE])
           /\ RuntimeOK([s EXCEPT !.canceled = TRUE, !.exec = exec])
<1> DEFINE c == [s EXCEPT !.canceled = TRUE]
           d == [s EXCEPT !.canceled = TRUE, !.exec = exec]
<1>1. s \in RuntimeState
  BY DEF RuntimeOK
<1>2. c \in RuntimeState /\ d \in RuntimeState
  BY <1>1, Zenon DEF RuntimeState
<1>3. /\ c.pc = s.pc /\ c.tok = s.tok /\ c.hb = s.hb /\ c.hbErr = s.hbErr /\ c.stop = s.stop
      /\ c.deadline = s.deadline
      /\ d.pc = s.pc /\ d.tok = s.tok /\ d.hb = s.hb /\ d.hbErr = s.hbErr /\ d.stop = s.stop
      /\ d.deadline = s.deadline
  BY <1>1, SMT DEF RuntimeState
<1> HIDE DEF c, d
<1>4. RuntimeOK(c) /\ RuntimeOK(d)
  BY <1>2, <1>3 DEF RuntimeOK, Caused
<1> QED
  BY <1>4 DEF c, d

\* Between two attempts.
LEMMA BetweenOK ==
    ASSUME NEW registered \in BOOLEAN, NEW stop \in BOOLEAN
    PROVE  RuntimeOK(Between(registered, stop))
<1>1. Between(registered, stop) \in RuntimeState
  BY FailureArguments DEF Between, RuntimeState
<1>2. /\ Between(registered, stop).pc = "poll" /\ Between(registered, stop).tok = {}
      /\ Between(registered, stop).hb = "off" /\ ~Between(registered, stop).canceled
  BY DEF Between
<1> QED
  BY <1>1, <1>2 DEF RuntimeOK, Caused

\* An event wakes a select that is blocked.
LEMMA WakeOK ==
    ASSUME NEW s \in RuntimeState, NEW case \in {"outcome", "grace", "ended"}
    PROVE  /\ Wake(s, case) \in RuntimeState
           /\ Wake(s, case).tok = s.tok /\ Wake(s, case).hb = s.hb
           /\ Wake(s, case).hbErr = s.hbErr /\ Wake(s, case).stop = s.stop
           /\ Wake(s, case).deadline = s.deadline /\ Wake(s, case).canceled = s.canceled
           /\ s.pc = "blocked" => Wake(s, case).pc = case
           /\ s.pc # "blocked" => Wake(s, case).pc = s.pc
<1>1. [s EXCEPT !.pc = case] \in RuntimeState
  BY Zenon DEF RuntimeState
<1>2. [s EXCEPT !.pc = case].pc = case
  BY SMT DEF RuntimeState
<1>3. /\ [s EXCEPT !.pc = case].tok = s.tok /\ [s EXCEPT !.pc = case].hb = s.hb
      /\ [s EXCEPT !.pc = case].hbErr = s.hbErr /\ [s EXCEPT !.pc = case].stop = s.stop
      /\ [s EXCEPT !.pc = case].deadline = s.deadline
      /\ [s EXCEPT !.pc = case].canceled = s.canceled
  BY SMT DEF RuntimeState
<1> QED
  BY <1>1, <1>2, <1>3, Zenon DEF Wake

-----------------------------------------------------------------------------
(* One lemma per step of a runtime.                                        *)

\* execute leaves the attempt.
LEMMA ReturnStep ==
    ASSUME RuntimeInv, NEW r \in Runtime, Return(r)
    PROVE  RuntimeInv'
<1>1. rt[r].registered \in BOOLEAN /\ rt[r].stop \in BOOLEAN
  BY DEF RuntimeInv, RuntimeState
<1> QED
  BY <1>1, BetweenOK, BecomeStep DEF Return

\* SIGTERM is a cause of its own.
LEMMA ShutdownStep ==
    ASSUME RuntimeInv, NEW r \in Runtime, Shutdown(r)
    PROVE  RuntimeInv'
<1> DEFINE s == rt[r]
           w == Wake(s, "grace")
           n == [w EXCEPT !.stop = TRUE]
<1>1. RuntimeOK(s) /\ s \in RuntimeState
  BY DEF RuntimeInv, RuntimeOK
<1>2. /\ w \in RuntimeState /\ w.tok = s.tok /\ w.hb = s.hb /\ w.hbErr = s.hbErr
      /\ w.canceled = s.canceled
      /\ s.pc = "blocked" => w.pc = "grace"
      /\ s.pc # "blocked" => w.pc = s.pc
  BY <1>1, WakeOK
<1> HIDE DEF w
<1>3. n \in RuntimeState
  BY <1>2, Zenon DEF RuntimeState
<1>4. /\ n.pc = w.pc /\ n.tok = w.tok /\ n.hb = w.hb /\ n.hbErr = w.hbErr
      /\ n.canceled = w.canceled /\ n.stop
  BY <1>2, SMT DEF RuntimeState
<1>5. Become(r, n)
  BY DEF Shutdown, w
<1> HIDE DEF n, s
<1>6. RuntimeOK(n)
  BY <1>1, <1>2, <1>3, <1>4 DEF RuntimeOK, Caused
<1> QED
  BY <1>5, <1>6, BecomeStep

\* So is the execution timeout.
LEMMA TimeoutStep ==
    ASSUME RuntimeInv, NEW r \in Runtime, Timeout(r)
    PROVE  RuntimeInv'
<1> DEFINE s == rt[r]
           w == Wake(s, "ended")
           n == [w EXCEPT !.deadline = TRUE]
<1>1. RuntimeOK(s) /\ s \in RuntimeState
  BY DEF RuntimeInv, RuntimeOK
<1>2. /\ w \in RuntimeState /\ w.tok = s.tok /\ w.hb = s.hb /\ w.hbErr = s.hbErr
      /\ w.canceled = s.canceled
      /\ s.pc = "blocked" => w.pc = "ended"
      /\ s.pc # "blocked" => w.pc = s.pc
  BY <1>1, WakeOK
<1> HIDE DEF w
<1>3. n \in RuntimeState
  BY <1>2, Zenon DEF RuntimeState
<1>4. /\ n.pc = w.pc /\ n.tok = w.tok /\ n.hb = w.hb /\ n.hbErr = w.hbErr
      /\ n.canceled = w.canceled /\ n.deadline
  BY <1>2, SMT DEF RuntimeState
<1>5. Become(r, n)
  BY DEF Timeout, TimedOut, w
<1> HIDE DEF n, s
<1>6. RuntimeOK(n)
  BY <1>1, <1>2, <1>3, <1>4 DEF RuntimeOK, Caused
<1> QED
  BY <1>5, <1>6, BecomeStep

\* Moves of execute between its own stages: what the select saw is a cause.
LEMMA PcOK ==
    ASSUME NEW s, RuntimeOK(s),
           NEW pc \in {"blocked", "outcome", "grace", "ended", "wait", "stopped"},
           pc = "blocked" => s.pc = "enter",
           pc = "ended" => s.stop \/ s.hbErr \/ s.deadline
    PROVE  RuntimeOK([s EXCEPT !.pc = pc])
<1> DEFINE n == [s EXCEPT !.pc = pc]
<1>1. s \in RuntimeState
  BY DEF RuntimeOK
<1>2. n \in RuntimeState
  BY <1>1, Zenon DEF RuntimeState
<1>3. n.pc = pc
  BY <1>1, SMT DEF RuntimeState
<1>4. /\ n.tok = s.tok /\ n.hb = s.hb /\ n.hbErr = s.hbErr
      /\ n.canceled = s.canceled /\ n.deadline = s.deadline /\ n.stop = s.stop
  BY <1>1, SMT DEF RuntimeState
<1> HIDE DEF n
<1>5. RuntimeOK(n)
  BY <1>2, <1>3, <1>4 DEF RuntimeOK, Caused
<1> QED
  BY <1>5 DEF n

\* The select takes the context's case only for a cause it can report.
LEMMA SelectStep ==
    ASSUME RuntimeInv, NEW r \in Runtime, Select(r)
    PROVE  RuntimeInv'
<1>1. RuntimeOK(rt[r]) /\ rt[r].pc = "enter"
  BY DEF RuntimeInv, Select
<1>2. PICK case \in (IF Ready(rt[r]) = {} THEN {"blocked"} ELSE Ready(rt[r])) :
        Become(r, [rt[r] EXCEPT !.pc = case])
  BY DEF Select
<1>3. case \in {"blocked", "outcome", "grace", "ended"}
  BY <1>2, Zenon DEF Ready
<1>4. case = "ended" => ExecutionCtxDone(rt[r])
  BY <1>2 DEF Ready
<1>5. case = "ended" => rt[r].stop \/ rt[r].hbErr \/ rt[r].deadline
  BY <1>1, <1>4 DEF ExecutionCtxDone, CtxDone, RuntimeOK, Caused
<1> QED
  BY <1>1, <1>2, <1>3, <1>5, PcOK, BecomeStep

\* The executor returned: what follows is a report.
LEMMA OutcomeStep ==
    ASSUME RuntimeInv, NEW r \in Runtime, Outcome(r)
    PROVE  RuntimeInv'
<1> DEFINE s == [rt[r] EXCEPT !.canceled = TRUE, !.exec = "none"]
<1>1. RuntimeOK(rt[r]) /\ rt[r] \in RuntimeState
  BY DEF RuntimeInv, RuntimeOK
<1>2. rt[r].pc = "outcome"
  <2>1. s.pc = "outcome"
    BY DEF Outcome
  <2>2. s.pc = rt[r].pc
    BY <1>1, SMT DEF RuntimeState
  <2> QED
    BY <2>1, <2>2
<1>3. RuntimeOK(s)
  BY <1>1, <1>2, CancelOK
<1>4. Become(r, IF s.stop THEN Calling(s, "release", NoOutput)
                ELSE IF s.hbErr THEN Calling(s, "fail", HeartbeatFailure)
                ELSE IF s.result \in Failure THEN Calling(s, "fail", s.result)
                ELSE Calling(s, "complete", s.result))
  BY DEF Outcome
<1> HIDE DEF s
<1>5. s \in RuntimeState /\ (\A a, b \in s.tok : a = b) /\ (s.hb = "cancel" => s.hbErr)
  BY <1>3 DEF RuntimeOK, Caused
<1>6. s.result \in Argument
  <2>1. s.result \in Output \union Failure \union {NoOutput}
    BY <1>5 DEF RuntimeState
  <2> QED
    BY <2>1, FailureArguments
<1>7. /\ RuntimeOK(Calling(s, "release", NoOutput))
      /\ RuntimeOK(Calling(s, "fail", HeartbeatFailure))
      /\ RuntimeOK(Calling(s, "fail", s.result))
      /\ RuntimeOK(Calling(s, "complete", s.result))
  BY <1>5, <1>6, CallingOK, FailureArguments
<1> QED
  BY <1>4, <1>7, BecomeStep

\* The end of the grace period: the lease is given back.
LEMMA GraceStep ==
    ASSUME RuntimeInv, NEW r \in Runtime, GraceTimesOut(r) \/ GraceSuffices(r)
    PROVE  RuntimeInv'
<1> DEFINE c == Calling(rt[r], "release", NoOutput)
<1>1. RuntimeOK(c) /\ c.pc = "call"
  <2>1. rt[r] \in RuntimeState /\ RuntimeOK(rt[r])
    BY DEF RuntimeInv, RuntimeOK
  <2>2. RuntimeOK(c)
    BY <2>1, CallingOK, FailureArguments DEF RuntimeOK, Caused
  <2>3. c.pc = "call"
    BY <2>1, SMT DEF RuntimeState, Calling
  <2> QED
    BY <2>2, <2>3
<1>2. \/ Become(r, [c EXCEPT !.canceled = TRUE])
      \/ Become(r, [c EXCEPT !.canceled = TRUE, !.exec = "none"])
  BY DEF GraceTimesOut, GraceSuffices
<1> HIDE DEF c
<1>3. /\ RuntimeOK([c EXCEPT !.canceled = TRUE])
      /\ RuntimeOK([c EXCEPT !.canceled = TRUE, !.exec = "none"])
  BY <1>1, CancelOK
<1> QED
  BY <1>2, <1>3, BecomeStep

\* The context ended: a report, or the return that EndedHasCause excludes.
LEMMA ContextEndedStep ==
    ASSUME RuntimeInv, NEW r \in Runtime, ContextEnded(r)
    PROVE  RuntimeInv'
<1> DEFINE s == rt[r]
           a == Calling(s, "release", NoOutput)
           b == Calling(s, "fail", HeartbeatFailure)
           c == Calling(s, "fail", TimeoutFailure)
<1>1. s \in RuntimeState /\ RuntimeOK(s)
  BY DEF RuntimeInv, RuntimeOK
<1>2. RuntimeOK(a) /\ RuntimeOK(b) /\ RuntimeOK(c)
  BY <1>1, CallingOK, FailureArguments DEF RuntimeOK, Caused
<1>3. a.pc = "call" /\ c.pc = "call"
  BY <1>1, SMT DEF RuntimeState, Calling
<1>4. \/ Become(r, [a EXCEPT !.canceled = TRUE])
      \/ Become(r, b)
      \/ Become(r, [c EXCEPT !.canceled = TRUE])
      \/ Return(r)
  BY DEF ContextEnded
<1> HIDE DEF a, b, c
<1>5. RuntimeOK([a EXCEPT !.canceled = TRUE]) /\ RuntimeOK([c EXCEPT !.canceled = TRUE])
  BY <1>2, <1>3, CancelOK
<1> QED
  BY <1>2, <1>4, <1>5, BecomeStep, ReturnStep

\* Sending and hearing of the call that ends the attempt.
LEMMA SubmitStep ==
    ASSUME RuntimeInv, NEW r \in Runtime,
           RunFails(r) \/ RunReturns(r) \/ Submit(r) \/ Submitted(r) \/ SubmitFails(r)
    PROVE  RuntimeInv'
<1>1. RuntimeOK(rt[r])
  BY DEF RuntimeInv
<1>2. /\ RuntimeOK([rt[r] EXCEPT !.pc = "stopped"])
      /\ RuntimeOK([rt[r] EXCEPT !.pc = "wait"])
  BY <1>1, PcOK
<1> QED
  BY <1>2, BecomeStep, ReturnStep DEF RunFails, RunReturns, Submit, Submitted, SubmitFails

\* All steps of the execute goroutine.
LEMMA MainStepOK ==
    ASSUME RuntimeInv, NEW r \in Runtime, MainStep(r)
    PROVE  RuntimeInv'
BY SelectStep, OutcomeStep, GraceStep, ContextEndedStep, SubmitStep DEF MainStep

\* A token of a row is one token.
LEMMA OneToken ==
    ASSUME NEW t, NEW row
    PROVE  \A a, b \in withLeaseToken(t, row) : a = b
BY DEF withLeaseToken

\* The token of an answer.
LEMMA NewTokenOK ==
    ASSUME IInv, NEW h \in Handler, Answered(h)
    PROVE  NewToken(h) \subseteq Token /\ \A a, b \in NewToken(h) : a = b
<1>1. calls[h].pc # "idle"
  BY DEF Answered, Respond
<1>2. calls[h].req.tok.task \in TaskId /\ calls[h].row \in Task
  BY <1>1, CallParts DEF IInv
<1> QED
  BY <1>2, TokenType, OneToken DEF NewToken

\* A change of the token, the heartbeat's stage or the report's.
LEMMA GoroutineOK ==
    ASSUME NEW s, RuntimeOK(s), s.pc = "poll" => s.hb = "off",
           NEW tok \in SUBSET Token, \A a, b \in tok : a = b,
           NEW hb \in {"off", "idle", "sent", "failed"}, NEW report \in {"idle", "sent"}
    PROVE  /\ s.hb # "off" => RuntimeOK([s EXCEPT !.hb = hb])
           /\ s.hb # "off" => RuntimeOK([s EXCEPT !.hb = hb, !.tok = tok])
           /\ RuntimeOK([s EXCEPT !.report = report])
           /\ RuntimeOK([s EXCEPT !.report = report, !.tok = tok])
<1> DEFINE n1 == [s EXCEPT !.hb = hb]
           n2 == [s EXCEPT !.hb = hb, !.tok = tok]
           n3 == [s EXCEPT !.report = report]
           n4 == [s EXCEPT !.report = report, !.tok = tok]
<1>1. s \in RuntimeState
  BY DEF RuntimeOK
<1>2. n1 \in RuntimeState /\ n2 \in RuntimeState /\ n3 \in RuntimeState /\ n4 \in RuntimeState
  <2>1. n1 \in RuntimeState
    BY <1>1, Zenon DEF RuntimeState
  <2>2. n2 \in RuntimeState
    BY <1>1, Zenon DEF RuntimeState
  <2>3. n3 \in RuntimeState
    BY <1>1, Zenon DEF RuntimeState
  <2>4. n4 \in RuntimeState
    BY <1>1, Zenon DEF RuntimeState
  <2> QED
    BY <2>1, <2>2, <2>3, <2>4, Zenon
<1>3. /\ n1.pc = s.pc /\ n1.stop = s.stop /\ n1.hbErr = s.hbErr /\ n1.deadline = s.deadline
      /\ n1.canceled = s.canceled /\ n1.hb = hb /\ n1.tok = s.tok
  BY <1>1, SMT DEF RuntimeState
<1>4. /\ n2.pc = s.pc /\ n2.stop = s.stop /\ n2.hbErr = s.hbErr /\ n2.deadline = s.deadline
      /\ n2.canceled = s.canceled /\ n2.hb = hb /\ n2.tok = tok
  BY <1>1, SMT DEF RuntimeState
<1>5. /\ n3.pc = s.pc /\ n3.stop = s.stop /\ n3.hbErr = s.hbErr /\ n3.deadline = s.deadline
      /\ n3.canceled = s.canceled /\ n3.hb = s.hb /\ n3.tok = s.tok
  BY <1>1, SMT DEF RuntimeState
<1>6. /\ n4.pc = s.pc /\ n4.stop = s.stop /\ n4.hbErr = s.hbErr /\ n4.deadline = s.deadline
      /\ n4.canceled = s.canceled /\ n4.hb = s.hb /\ n4.tok = tok
  BY <1>1, SMT DEF RuntimeState
<1> HIDE DEF n1, n2, n3, n4
<1>7. s.hb # "off" => RuntimeOK(n1) /\ RuntimeOK(n2)
  BY <1>2, <1>3, <1>4 DEF RuntimeOK, Caused
<1>8. RuntimeOK(n3) /\ RuntimeOK(n4)
  BY <1>2, <1>5, <1>6 DEF RuntimeOK, Caused
<1> QED
  BY <1>7, <1>8 DEF n1, n2, n3, n4

\* The executor returns.
LEMMA ExecuteStep ==
    ASSUME RuntimeInv, NEW r \in Runtime, Execute(r)
    PROVE  RuntimeInv'
<1>1. PICK result \in Output \union Failure :
        Become(r, [Wake(rt[r], "outcome") EXCEPT !.exec = "returned", !.result = result])
  BY DEF Execute
<1> DEFINE s == rt[r]
           w == Wake(s, "outcome")
           n == [w EXCEPT !.exec = "returned", !.result = result]
<1>2. RuntimeOK(s) /\ s \in RuntimeState
  BY DEF RuntimeInv, RuntimeOK
<1>3. /\ w \in RuntimeState /\ w.tok = s.tok /\ w.hb = s.hb /\ w.hbErr = s.hbErr
      /\ w.stop = s.stop /\ w.deadline = s.deadline /\ w.canceled = s.canceled
      /\ s.pc = "blocked" => w.pc = "outcome"
      /\ s.pc # "blocked" => w.pc = s.pc
  BY <1>2, WakeOK
<1>4. Become(r, n)
  BY <1>1
<1> HIDE DEF w
<1>5. n \in RuntimeState
  BY <1>3, Zenon DEF RuntimeState
<1>6. /\ n.pc = w.pc /\ n.tok = w.tok /\ n.hb = w.hb /\ n.hbErr = w.hbErr
      /\ n.canceled = w.canceled /\ n.stop = w.stop /\ n.deadline = w.deadline
  BY <1>3, SMT DEF RuntimeState
<1> HIDE DEF n, s
<1>7. RuntimeOK(n)
  BY <1>2, <1>3, <1>5, <1>6 DEF RuntimeOK, Caused
<1> QED
  BY <1>4, <1>7, BecomeStep

\* All steps of the executor and its reports.
LEMMA ExecutorStepOK ==
    ASSUME IInv, RuntimeInv, NEW r \in Runtime, ExecutorStep(r)
    PROVE  RuntimeInv'
<1> DEFINE h == Slot(r, "report")
<1>1. RuntimeOK(rt[r]) /\ (rt[r].pc = "poll" => rt[r].hb = "off") /\ rt[r] \in RuntimeState
  BY DEF RuntimeInv, RuntimeOK, Caused
<1>2. /\ RuntimeOK([rt[r] EXCEPT !.report = "sent"])
      /\ RuntimeOK([rt[r] EXCEPT !.report = "idle"])
  <2>1. rt[r].tok \in SUBSET Token /\ \A a, b \in rt[r].tok : a = b
    BY <1>1 DEF RuntimeOK, RuntimeState
  <2> QED
    BY <1>1, <2>1, GoroutineOK
<1>3. CASE Execute(r)
  BY <1>3, ExecuteStep
<1>4. CASE Report(r) \/ ReportLost(r)
  BY <1>2, <1>4, BecomeStep DEF Report, ReportLost
<1>5. CASE ReportAnswered(r)
  <2>1. PICK tok : /\ tok = (IF calls[h].reply = "ok" THEN NewToken(h) ELSE rt[r].tok)
                   /\ Become(r, [rt[r] EXCEPT !.report = "idle", !.tok = tok])
    <3> DEFINE tok == IF calls[h].reply = "ok" THEN NewToken(h) ELSE rt[r].tok
    <3>1. [rt[r] EXCEPT !.report = "idle"].tok = rt[r].tok
      BY <1>1, SMT DEF RuntimeState
    <3>2. Become(r, [rt[r] EXCEPT !.report = "idle",
                                  !.tok = IF calls[h].reply = "ok" THEN NewToken(h) ELSE @])
      BY <1>5 DEF ReportAnswered
    <3>3. Become(r, [rt[r] EXCEPT !.report = "idle", !.tok = tok])
      BY <3>1, <3>2
    <3> QED
      BY <3>3
  <2>2. tok \in SUBSET Token /\ \A a, b \in tok : a = b
    <3>1. h \in Handler /\ Answered(h)
      BY <1>5, SlotType DEF ReportAnswered
    <3>2. rt[r].tok \in SUBSET Token /\ \A a, b \in rt[r].tok : a = b
      BY <1>1 DEF RuntimeOK, RuntimeState
    <3> QED
      BY <2>1, <3>1, <3>2, NewTokenOK
  <2>3. RuntimeOK([rt[r] EXCEPT !.report = "idle", !.tok = tok])
    BY <1>1, <2>2, GoroutineOK
  <2> QED
    BY <2>1, <2>3, BecomeStep
<1> QED
  BY <1>3, <1>4, <1>5 DEF ExecutorStep

\* The error is in the channel before the context is cancelled.
LEMMA HeartbeatFailsStep ==
    ASSUME RuntimeInv, NEW r \in Runtime, HeartbeatFails(r)
    PROVE  RuntimeInv'
<1> DEFINE s == rt[r]
           n == [s EXCEPT !.hbErr = TRUE, !.hb = "cancel"]
<1>1. RuntimeOK(s) /\ s \in RuntimeState /\ s.hb = "failed"
  BY DEF RuntimeInv, RuntimeOK, HeartbeatFails
<1>2. n \in RuntimeState
  BY <1>1, Zenon DEF RuntimeState
<1>3. n.pc = s.pc /\ n.tok = s.tok /\ n.hbErr /\ n.canceled = s.canceled
  BY <1>1, SMT DEF RuntimeState
<1>4. Become(r, n)
  BY DEF HeartbeatFails, SendHeartbeatError
<1> HIDE DEF n, s
<1>5. RuntimeOK(n)
  BY <1>1, <1>2, <1>3 DEF RuntimeOK, Caused
<1> QED
  BY <1>4, <1>5, BecomeStep

\* cancel() wakes the select, which finds the error in the channel.
LEMMA HeartbeatCancelsStep ==
    ASSUME RuntimeInv, NEW r \in Runtime, HeartbeatCancels(r)
    PROVE  RuntimeInv'
<1> DEFINE s == rt[r]
           w == Wake(s, "ended")
           n == [w EXCEPT !.canceled = TRUE, !.hb = "off"]
<1>1. RuntimeOK(s) /\ s \in RuntimeState /\ s.hb = "cancel"
  BY DEF RuntimeInv, RuntimeOK, HeartbeatCancels
<1>2. /\ w \in RuntimeState /\ w.tok = s.tok /\ w.hbErr = s.hbErr
      /\ s.pc = "blocked" => w.pc = "ended"
      /\ s.pc # "blocked" => w.pc = s.pc
  BY <1>1, WakeOK
<1>3. Become(r, n)
  BY DEF HeartbeatCancels
<1> HIDE DEF w
<1>4. n \in RuntimeState
  BY <1>2, Zenon DEF RuntimeState
<1>5. n.pc = w.pc /\ n.tok = w.tok /\ n.hbErr = w.hbErr /\ n.hb = "off"
  BY <1>2, SMT DEF RuntimeState
<1> HIDE DEF n, s
<1>6. RuntimeOK(n)
  BY <1>1, <1>2, <1>4, <1>5 DEF RuntimeOK, Caused
<1> QED
  BY <1>3, <1>6, BecomeStep

\* All steps of the heartbeat goroutine.
LEMMA HeartbeatStepOK ==
    ASSUME IInv, RuntimeInv, NEW r \in Runtime, HeartbeatStep(r)
    PROVE  RuntimeInv'
<1> DEFINE h == Slot(r, "heartbeat")
<1>1. RuntimeOK(rt[r]) /\ (rt[r].pc = "poll" => rt[r].hb = "off")
  BY DEF RuntimeInv, RuntimeOK, Caused
<1>2. CASE rt[r].hb \in {"idle", "sent"}
  <2>1. \A hb \in {"off", "idle", "sent", "failed"} : RuntimeOK([rt[r] EXCEPT !.hb = hb])
    <3>1. rt[r].tok \in SUBSET Token /\ \A a, b \in rt[r].tok : a = b
      BY <1>1 DEF RuntimeOK, RuntimeState
    <3> QED
      BY <1>1, <1>2, <3>1, GoroutineOK
  <2>2. RuntimeOK(HeartbeatStops(rt[r]))
    BY <2>1 DEF HeartbeatStops
  <2>3. CASE Heartbeat(r) \/ HeartbeatLost(r)
    BY <2>1, <2>2, <2>3, BecomeStep DEF Heartbeat, HeartbeatLost
  <2>4. CASE HeartbeatAnswered(r)
    <3>1. h \in Handler /\ Answered(h)
      BY <2>4, SlotType DEF HeartbeatAnswered
    <3>2. RuntimeOK([rt[r] EXCEPT !.hb = "idle", !.tok = NewToken(h)])
      BY <1>1, <1>2, <3>1, NewTokenOK, GoroutineOK
    <3>3. \/ Become(r, [rt[r] EXCEPT !.hb = "idle", !.tok = NewToken(h)])
          \/ Become(r, HeartbeatStops(rt[r]))
      BY <2>4 DEF HeartbeatAnswered
    <3> QED
      BY <2>2, <3>2, <3>3, BecomeStep
  <2>5. ~HeartbeatFails(r) /\ ~HeartbeatCancels(r)
    BY <1>2 DEF HeartbeatFails, HeartbeatCancels
  <2> QED
    BY <2>3, <2>4, <2>5 DEF HeartbeatStep
<1>3. CASE rt[r].hb \notin {"idle", "sent"}
  <2>1. HeartbeatFails(r) \/ HeartbeatCancels(r)
    BY <1>3 DEF HeartbeatStep, Heartbeat, HeartbeatLost, HeartbeatAnswered
  <2> QED
    BY <2>1, HeartbeatFailsStep, HeartbeatCancelsStep
<1> QED
  BY <1>2, <1>3

\* A claim starts an attempt from a clean state.
LEMMA ClaimStepOK ==
    ASSUME IInv', RuntimeInv, NEW r \in Runtime, Claim(r)
    PROVE  RuntimeInv'
<1> DEFINE s == rt[r]
           c == Calling(s, "fail", NotFoundFailure)
<1>1. RuntimeOK(s) /\ s \in RuntimeState /\ s.pc = "poll"
  BY DEF RuntimeInv, RuntimeOK, Claim
<1>2. s.hb = "off" /\ ~s.canceled
  BY <1>1 DEF RuntimeOK, Caused
<1>3. CASE UNCHANGED rt
  BY <1>3 DEF RuntimeInv
<1>4. ASSUME NEW t \in TaskId,
             Become(r, IF s.registered THEN Started(s, t, tasks'[t])
                       ELSE [c EXCEPT !.tok = withLeaseToken(t, tasks'[t])])
      PROVE  RuntimeInv'
  <2> DEFINE tok == withLeaseToken(t, tasks'[t])
             n == [s EXCEPT !.pc = "enter", !.tok = tok, !.hb = "idle", !.exec = "running"]
             m == [c EXCEPT !.tok = tok]
  <2>1. tok \subseteq Token /\ \A a, b \in tok : a = b
    <3>1. tasks'[t] \in Task
      BY DEF IInv, StoreInv, StoreTypeOK
    <3> QED
      BY <3>1, TokenType, OneToken
  <2>2. Become(r, n) \/ Become(r, m)
    BY <1>4 DEF Started
  <2> HIDE DEF tok
  <2>3. RuntimeOK(n)
    <3>1. n \in RuntimeState
      BY <1>1, <2>1, Zenon DEF RuntimeState
    <3>2. n.pc = "enter" /\ n.tok = tok /\ n.hb = "idle" /\ n.canceled = s.canceled
      BY <1>1, SMT DEF RuntimeState
    <3> QED
      BY <1>2, <2>1, <3>1, <3>2 DEF RuntimeOK, Caused
  <2>4. RuntimeOK(m)
    <3>1. RuntimeOK(c) /\ c \in RuntimeState
      BY <1>1, CallingOK, FailureArguments DEF RuntimeOK, Caused
    <3>2. c.pc = "call"
      BY <1>1, SMT DEF RuntimeState, Calling
    <3> HIDE DEF c
    <3>3. m \in RuntimeState
      BY <2>1, <3>1, Zenon DEF RuntimeState
    <3>4. m.pc = c.pc /\ m.tok = tok /\ m.hb = c.hb /\ m.hbErr = c.hbErr
      BY <3>1, SMT DEF RuntimeState
    <3> QED
      BY <2>1, <3>1, <3>2, <3>3, <3>4 DEF RuntimeOK, Caused
  <2> QED
    BY <2>2, <2>3, <2>4, BecomeStep
<1> QED
  BY <1>3, <1>4 DEF Claim

-----------------------------------------------------------------------------

\* Initially no attempt runs.
LEMMA RuntimeInitOK == RuntimeInit => RuntimeInv
<1>1. \A registered \in BOOLEAN : RuntimeOK(Between(registered, FALSE))
  BY BetweenOK
<1>2. \A registered \in BOOLEAN : Between(registered, FALSE) \in RuntimeState
  BY <1>1 DEF RuntimeOK
<1> QED
  BY <1>1, <1>2 DEF RuntimeInit, RuntimeInv

\* Every step keeps the runtimes in order.
LEMMA RuntimeNextOK ==
    IInv /\ IInv' /\ RuntimeInv /\ [RuntimeNext]_runtimeVars => RuntimeInv'
<1> SUFFICES ASSUME IInv, IInv', RuntimeInv, [RuntimeNext]_runtimeVars
             PROVE  RuntimeInv'
  OBVIOUS
<1>1. CASE UNCHANGED rt
  BY <1>1 DEF RuntimeInv
<1>2. ASSUME NEW r \in Runtime,
             Claim(r) \/ RunFails(r) \/ Shutdown(r) \/ Timeout(r) \/ MainStep(r)
               \/ ExecutorStep(r) \/ HeartbeatStep(r)
      PROVE  RuntimeInv'
  BY <1>2, ClaimStepOK, SubmitStep, ShutdownStep, TimeoutStep, MainStepOK, ExecutorStepOK,
     HeartbeatStepOK
<1> QED
  BY <1>1, <1>2 DEF RuntimeNext, Elsewhere, ServeRuntime, runtimeVars

\* The invariant that carries the theorems below, next to the control plane's.
THEOREM RuntimeInvariant == RuntimeSpec => [](IInv /\ RuntimeInv)
<1>1. RuntimeSpec => []IInv
  BY RuntimesAreWorkers, InductiveInvariant, PTL
<1> QED
  BY <1>1, RuntimeInitOK, RuntimeNextOK, PTL DEF RuntimeSpec

\* The runtimes' variables keep their types, and a runtime holds one token.
THEOREM RuntimeTypes == RuntimeSpec => []RuntimeTypeOK
<1>1. TypeOK /\ RuntimeInv => RuntimeTypeOK
  BY DEF RuntimeInv, RuntimeOK, RuntimeTypeOK
<1> QED
  BY <1>1, RuntimesAreWorkers, TypeCorrect, RuntimeInvariant, PTL

\* execute ends every attempt with a report: when it sees the execution
\* context done, shutdown, a heartbeat error or the deadline tells it which.
THEOREM AttemptsAreReported == RuntimeSpec => []EndedHasCause
<1>1. RuntimeInv => EndedHasCause
  BY DEF RuntimeInv, RuntimeOK, Caused, EndedHasCause
<1> QED
  BY <1>1, RuntimeInvariant, PTL
=============================================================================
