------------------------------- MODULE Backoff -------------------------------
(***************************************************************************)
(* The two exponential backoffs: BackoffCalculator.Delay of                *)
(* internal/worker/retry_policy.go (kind "retry", whose result is a        *)
(* RetryDelay of RetryScheduler) and claimRetryDelay of                    *)
(* pkg/taskpulseworker/runtime.go (kind "claim").  Both double a delay in  *)
(* a loop; a duration is an int64, so a doubling may wrap around.          *)
(***************************************************************************)
EXTENDS Integers

CONSTANTS
    MaxInt,       \* largest duration
    Second,       \* time.Second, the default of claimRetryDelay
    Duration,     \* durations in policies, configurations and Retry-After
    Count         \* retry counts and budgets

ASSUME BackoffAssumption ==
    /\ MaxInt \in Nat
    /\ Second \in 1..MaxInt
    /\ Duration \subseteq Int
    /\ \A d \in Duration : d <= MaxInt
    /\ Count \subseteq Int

VARIABLES
    input,    \* the arguments
    pc,       \* "validate", "double", "jitter", "done" or "rejected"
    attempt,  \* the loop variable
    cap,      \* capDelay, or delay of claimRetryDelay
    result

vars == <<input, pc, attempt, cap, result>>

Input == [kind : {"retry", "claim"}, base : Duration, max : Duration,
          limit : Count, count : Count, after : Duration]

Init ==
    /\ input \in Input
    /\ pc = "validate"
    /\ attempt = 1
    /\ cap = 0
    /\ result = 0

\* Two's complement.
Wrap(x) == ((x + MaxInt + 1) % (2 * (MaxInt + 1))) - (MaxInt + 1)

Larger(a, b) == IF a >= b THEN a ELSE b
Smaller(a, b) == IF a <= b THEN a ELSE b

-----------------------------------------------------------------------------
(* Mutants.                                                                *)

\* Doubles while the delay is below the maximum.
MutantPastHalf(delay, max) == FALSE

\* Full jitter instead of the upper half.
MutantJittered(delay) == 0..delay

-----------------------------------------------------------------------------

\* RetryPolicy.Validate and the checks of Delay.
Valid(i) ==
    /\ i.limit >= 0
    /\ i.base > 0
    /\ i.max >= i.base
    /\ i.count \in 1..i.limit
    /\ i.after >= 0

Validate ==
    /\ pc = "validate"
    /\ input.kind = "retry"
    /\ IF Valid(input)
         THEN pc' = "double" /\ cap' = input.base
         ELSE pc' = "rejected" /\ UNCHANGED cap
    /\ UNCHANGED <<input, attempt, result>>

\* claimRetryDelay replaces what it cannot use.
Normalize ==
    /\ pc = "validate"
    /\ input.kind = "claim"
    /\ LET base == IF input.base <= 0 THEN Second ELSE input.base
       IN  /\ input' = [input EXCEPT !.base = base, !.max = Larger(base, @)]
           /\ cap' = base
    /\ pc' = "double"
    /\ UNCHANGED <<attempt, result>>

\* The guard of the doubling.
PastHalf(delay, max) == delay > max \div 2

Looping == attempt < input.count /\ cap < input.max

Double ==
    /\ pc = "double"
    /\ Looping
    /\ IF PastHalf(cap, input.max)
         THEN pc' = "jitter" /\ cap' = input.max /\ UNCHANGED attempt
         ELSE cap' = Wrap(2 * cap) /\ attempt' = attempt + 1 /\ UNCHANGED pc
    /\ UNCHANGED <<input, result>>

LoopEnds ==
    /\ pc = "double"
    /\ ~Looping
    /\ pc' = "jitter"
    /\ UNCHANGED <<input, attempt, cap, result>>

\* Half of the delay plus a random part of the other half.
Jittered(delay) ==
    IF delay \div 2 > 0 THEN (delay \div 2)..(2 * (delay \div 2)) ELSE {delay}

Finish ==
    /\ pc = "jitter"
    /\ \/ /\ input.kind = "retry"
          /\ \E delay \in Jittered(cap) : result' = Larger(input.after, delay)
       \/ /\ input.kind = "claim"
          /\ result' = cap
    /\ pc' = "done"
    /\ UNCHANGED <<input, attempt, cap>>

Next == Validate \/ Normalize \/ Double \/ LoopEnds \/ Finish

Spec == Init /\ [][Next]_vars

-----------------------------------------------------------------------------

\* 2^n, as a function: the provers know nothing of exponentiation.
PowerOfTwo[n \in Nat] == IF n = 0 THEN 1 ELSE 2 * PowerOfTwo[n - 1]

\* The loop computes base * 2^(count - 1) cut off at max, for every base,
\* max and count, without ever leaving the range of a duration.
CapIsExponential ==
    pc = "jitter" =>
      cap = Smaller(input.base * PowerOfTwo[Larger(input.count - 1, 0)], input.max)

\* A delay is positive, honours Retry-After, and otherwise lies between half
\* the cap and the cap, which never passes the configured maximum: no retry
\* storm, no wrapped and no overlong delay.
DelayIsBounded ==
    pc = "done" =>
      /\ result > 0
      /\ input.base <= cap /\ cap <= input.max
      /\ input.kind = "claim" => result = cap
      /\ input.kind = "retry" =>
           /\ result >= input.after
           /\ 2 * result + 1 >= cap
           /\ result <= Larger(input.after, input.max)

=============================================================================
