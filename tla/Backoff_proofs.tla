---------------------------- MODULE Backoff_proofs ----------------------------
(***************************************************************************)
(* The delays of both backoffs are bounded, for every width of a duration  *)
(* and every argument.  The loop invariant: the delay is at least the base *)
(* and at most the maximum, so the doubling it allows never wraps around.  *)
(*                                                                         *)
(* That the loop computes the power needs the recursion of PowerOfTwo and  *)
(* its monotonicity.  Both are shown by least counterexamples instead of   *)
(* induction.                                                              *)
(***************************************************************************)
EXTENDS Backoff, TLAPS, WellFoundedInduction

\* The arguments as the loop uses them, after validation or normalization.
Usable(i) ==
    /\ i.kind \in {"retry", "claim"}
    /\ i.base \in Int /\ i.max \in Int /\ i.count \in Int /\ i.after \in Int
    /\ 0 < i.base /\ i.base <= i.max /\ i.max <= MaxInt

LoopInv ==
    /\ pc \in {"validate", "double", "jitter", "done", "rejected"}
    /\ pc = "validate" => input \in Input
    /\ pc \in {"double", "jitter", "done"} =>
         /\ Usable(input)
         /\ cap \in Int /\ input.base <= cap /\ cap <= input.max
    /\ DelayIsBounded

-----------------------------------------------------------------------------

\* Doubling a delay that the guard lets through gives the exact double.
LEMMA NoWrap ==
    ASSUME NEW delay \in Int, NEW max \in Int,
           0 < delay, max <= MaxInt, ~PastHalf(delay, max)
    PROVE  Wrap(2 * delay) = 2 * delay /\ 2 * delay <= max
<1>1. MaxInt \in Nat
  BY BackoffAssumption
<1>2. 2 * delay <= max
  BY DEF PastHalf
<1>3. /\ 2 * delay + MaxInt + 1 \in Int
      /\ 0 <= 2 * delay + MaxInt + 1
      /\ 2 * delay + MaxInt + 1 < 2 * (MaxInt + 1)
  BY <1>1, <1>2
<1>4. \A x, m \in Int : 0 <= x /\ x < m => x % m = x
  OBVIOUS
<1>5. (2 * delay + MaxInt + 1) % (2 * (MaxInt + 1)) = 2 * delay + MaxInt + 1
  BY <1>1, <1>3, <1>4
<1> QED
  BY <1>1, <1>2, <1>5 DEF Wrap

\* A jittered delay lies between half the cap and the cap, and is positive.
LEMMA JitterRange ==
    ASSUME NEW delay \in Int, 0 < delay, NEW j \in Jittered(delay)
    PROVE  j \in Int /\ 0 < j /\ j <= delay /\ 2 * j + 1 >= delay
  BY DEF Jittered

LEMMA InitLoop == Init => LoopInv
  BY DEF Init, LoopInv, DelayIsBounded

LEMMA ValidateStep == LoopInv /\ Validate => LoopInv'
<1> SUFFICES ASSUME LoopInv, Validate PROVE LoopInv'
  OBVIOUS
<1>1. CASE ~Valid(input)
  BY <1>1 DEF LoopInv, Validate, DelayIsBounded
<1>2. CASE Valid(input)
  <2>1. input \in Input /\ input' = input
    BY DEF LoopInv, Validate
  <2>2. input.base \in Int /\ input.max \in Int /\ input.count \in Int /\ input.after \in Int
        /\ input.max <= MaxInt
    BY <2>1, BackoffAssumption DEF Input
  <2>3. Usable(input)
    BY <1>2, <2>1, <2>2 DEF Usable, Valid, Input
  <2> QED
    BY <1>2, <2>1, <2>2, <2>3 DEF LoopInv, Validate, DelayIsBounded, Usable
<1> QED
  BY <1>1, <1>2

LEMMA NormalizeStep == LoopInv /\ Normalize => LoopInv'
<1> SUFFICES ASSUME LoopInv, Normalize PROVE LoopInv'
  OBVIOUS
<1> DEFINE base == IF input.base <= 0 THEN Second ELSE input.base
<1>1. input \in Input
  BY DEF LoopInv, Normalize
<1>2. input.base \in Int /\ input.max \in Int /\ input.count \in Int /\ input.after \in Int
      /\ input.max <= MaxInt /\ input.base <= MaxInt /\ input.kind \in {"retry", "claim"}
  BY <1>1, BackoffAssumption DEF Input
<1>3. base \in Int /\ 0 < base /\ base <= MaxInt
  BY <1>2, BackoffAssumption
<1>4. input' = [input EXCEPT !.base = base, !.max = Larger(base, input.max)] /\ cap' = base
      /\ pc' = "double"
  BY DEF Normalize
<1> HIDE DEF base
<1>5. /\ input'.base = base /\ input'.max = Larger(base, input.max)
      /\ input'.kind = input.kind /\ input'.count = input.count /\ input'.after = input.after
  BY <1>1, <1>4 DEF Input
<1>6. Larger(base, input.max) \in Int /\ base <= Larger(base, input.max)
      /\ Larger(base, input.max) <= MaxInt
  BY <1>2, <1>3 DEF Larger
<1>7. Usable(input)'
  BY <1>2, <1>3, <1>5, <1>6 DEF Usable
<1> QED
  BY <1>3, <1>4, <1>5, <1>6, <1>7 DEF LoopInv, DelayIsBounded

LEMMA DoubleStep == LoopInv /\ Double => LoopInv'
<1> SUFFICES ASSUME LoopInv, Double PROVE LoopInv'
  OBVIOUS
<1>1. Usable(input) /\ input' = input /\ cap \in Int /\ input.base <= cap /\ cap <= input.max
  BY DEF LoopInv, Double
<1>2. CASE PastHalf(cap, input.max)
  BY <1>1, <1>2 DEF LoopInv, Double, DelayIsBounded, Usable
<1>3. CASE ~PastHalf(cap, input.max)
  <2>1. 0 < cap /\ input.max \in Int /\ input.max <= MaxInt /\ input.base \in Int
    BY <1>1 DEF Usable
  <2>2. cap' = 2 * cap /\ 2 * cap <= input.max
    BY <1>1, <1>3, <2>1, NoWrap DEF Double
  <2> QED
    BY <1>1, <1>3, <2>1, <2>2 DEF LoopInv, Double, DelayIsBounded
<1> QED
  BY <1>2, <1>3

LEMMA FinishStep == LoopInv /\ Finish => LoopInv'
<1> SUFFICES ASSUME LoopInv, Finish PROVE LoopInv'
  OBVIOUS
<1>1. Usable(input) /\ input' = input /\ cap' = cap /\ pc' = "done"
      /\ cap \in Int /\ input.base <= cap /\ cap <= input.max
  BY DEF LoopInv, Finish
<1>2. 0 < cap /\ input.max \in Int /\ input.after \in Int /\ input.base \in Int
  BY <1>1 DEF Usable
<1>3. CASE input.kind = "claim"
  BY <1>1, <1>2, <1>3 DEF LoopInv, Finish, DelayIsBounded
<1>4. CASE input.kind = "retry"
  <2>1. PICK j \in Jittered(cap) : result' = Larger(input.after, j)
    BY <1>4 DEF Finish
  <2>2. j \in Int /\ 0 < j /\ j <= cap /\ 2 * j + 1 >= cap
    BY <1>1, <1>2, JitterRange
  <2>3. /\ result' > 0 /\ result' >= input.after /\ 2 * result' + 1 >= cap
        /\ result' <= Larger(input.after, input.max)
    BY <1>1, <1>2, <2>1, <2>2 DEF Larger
  <2> QED
    BY <1>1, <1>4, <2>3 DEF LoopInv, DelayIsBounded
<1> QED
  BY <1>1, <1>3, <1>4 DEF Usable

LEMMA NextLoop == LoopInv /\ [Next]_vars => LoopInv'
<1> SUFFICES ASSUME LoopInv, [Next]_vars PROVE LoopInv'
  OBVIOUS
<1>1. CASE LoopEnds
  BY <1>1 DEF LoopInv, LoopEnds, DelayIsBounded, Usable
<1>2. CASE UNCHANGED vars
  BY <1>2 DEF LoopInv, vars, DelayIsBounded, Usable
<1> QED
  BY <1>1, <1>2, ValidateStep, NormalizeStep, DoubleStep, FinishStep DEF Next

\* Delay and claimRetryDelay return positive, bounded delays for every
\* policy, count and Retry-After, and never double past the maximum.
THEOREM BackoffBounded == Spec => []DelayIsBounded
<1>1. LoopInv => DelayIsBounded
  BY DEF LoopInv
<1> QED
  BY <1>1, InitLoop, NextLoop, PTL DEF Spec

-----------------------------------------------------------------------------
(* Powers of two.                                                          *)

\* A non-empty set of numbers has a least one.
LEMMA LeastNumber ==
    ASSUME NEW S \in SUBSET Nat, S # {}
    PROVE  \E n \in S : \A m \in S : n <= m
<1> DEFINE R == OpToRel(<, Nat)
<1>1. IsWellFoundedOn(R, Nat)
  BY NatLessThanWellFounded
<1>2. \A x, y \in Nat : x < y => <<x, y>> \in R
  BY DEF OpToRel
<1> HIDE DEF R
<1>3. PICK n \in S : \A m \in S : ~(<<m, n>> \in R)
  BY <1>1, WFMin
<1>4. ASSUME NEW m \in S PROVE n <= m
  <2>1. m \in Nat /\ n \in Nat
    OBVIOUS
  <2>2. ~(m < n)
    BY <1>2, <1>3, <2>1
  <2> QED
    BY <2>1, <2>2
<1> QED
  BY <1>4

\* The first n powers of two.
Powers(n) == {p \in [0..n -> Nat] : p[0] = 1 /\ \A k \in 1..n : p[k] = 2 * p[k - 1]}

\* They exist for every n: extend the powers up to n - 1.
LEMMA PowersExist == \A n \in Nat : Powers(n) # {}
<1> SUFFICES ASSUME {n \in Nat : Powers(n) = {}} # {} PROVE FALSE
  OBVIOUS
<1> DEFINE Bad == {m \in Nat : Powers(m) = {}}
<1>0. Bad \in SUBSET Nat /\ Bad # {}
  OBVIOUS
<1> HIDE DEF Bad
<1>1. PICK n \in Bad : \A m \in Bad : n <= m
  BY <1>0, LeastNumber
<1>2. n \in Nat /\ Powers(n) = {}
  BY DEF Bad
<1>3. CASE n = 0
  <2>1. [k \in 0..0 |-> 1] \in Powers(0)
    BY DEF Powers
  <2> QED
    BY <1>2, <1>3, <2>1
<1>4. CASE n # 0
  <2>1. n - 1 \in Nat /\ n - 1 \notin Bad
    BY <1>1, <1>2, <1>4
  <2>2. PICK p : p \in Powers(n - 1)
    BY <2>1 DEF Bad
  <2>3. /\ p \in [0..(n - 1) -> Nat] /\ p[0] = 1
        /\ \A k \in 1..(n - 1) : p[k] = 2 * p[k - 1]
    BY <2>2 DEF Powers
  <2> DEFINE q == [k \in 0..n |-> IF k = n THEN 2 * p[n - 1] ELSE p[k]]
  <2>4. \A k \in 0..n : k # n => k \in 0..(n - 1)
    BY <1>2
  <2>5. q \in [0..n -> Nat]
    <3>1. n - 1 \in 0..(n - 1)
      BY <2>1
    <3>2. p[n - 1] \in Nat
      BY <2>3, <3>1
    <3> QED
      BY <2>3, <2>4, <3>2
  <2>6. q[0] = 1
    BY <1>2, <1>4, <2>3
  <2>7. ASSUME NEW k \in 1..n PROVE q[k] = 2 * q[k - 1]
    <3>1. k - 1 \in 0..n /\ k - 1 # n /\ k \in 0..n
      BY <1>2
    <3>2. q[k - 1] = p[k - 1]
      BY <3>1
    <3>3. CASE k = n
      BY <3>1, <3>2, <3>3
    <3>4. CASE k # n
      <4>1. k \in 1..(n - 1)
        BY <1>2, <3>4
      <4> QED
        BY <2>3, <3>1, <3>2, <3>4, <4>1
    <3> QED
      BY <3>3, <3>4
  <2>8. q \in Powers(n)
    BY <2>5, <2>6, <2>7 DEF Powers
  <2> QED
    BY <1>2, <2>8
<1> QED
  BY <1>3, <1>4

\* Two lists of powers agree where both are defined.
LEMMA PowersAgree ==
    ASSUME NEW n \in Nat, NEW m \in Nat, NEW p \in Powers(n), NEW q \in Powers(m)
    PROVE  \A k \in Nat : k <= n /\ k <= m => p[k] = q[k]
<1> DEFINE Bad == {j \in Nat : j <= n /\ j <= m /\ p[j] # q[j]}
<1> SUFFICES ASSUME Bad # {} PROVE FALSE
  OBVIOUS
<1>0. Bad \in SUBSET Nat
  OBVIOUS
<1> HIDE DEF Bad
<1>1. PICK k \in Bad : \A j \in Bad : k <= j
  BY <1>0, LeastNumber
<1>2. k \in Nat /\ k <= n /\ k <= m /\ p[k] # q[k]
  BY DEF Bad
<1>3. /\ p[0] = 1 /\ \A j \in 1..n : p[j] = 2 * p[j - 1]
      /\ q[0] = 1 /\ \A j \in 1..m : q[j] = 2 * q[j - 1]
  BY DEF Powers
<1>4. k # 0
  BY <1>2, <1>3
<1>5. k \in 1..n /\ k \in 1..m /\ k - 1 \in Nat
  BY <1>2, <1>4
<1>6. k - 1 \notin Bad
  BY <1>1, <1>2, <1>5
<1>7. p[k - 1] = q[k - 1]
  BY <1>2, <1>5, <1>6 DEF Bad
<1> QED
  BY <1>2, <1>3, <1>5, <1>7

\* PowerOfTwo satisfies its recursion.
LEMMA PowerRecursion ==
    PowerOfTwo = [n \in Nat |-> IF n = 0 THEN 1 ELSE 2 * PowerOfTwo[n - 1]]
<1> DEFINE P(n) == CHOOSE p : p \in Powers(n)
           F == [n \in Nat |-> P(n)[n]]
<1>1. \A n \in Nat : P(n) \in Powers(n)
  BY PowersExist
<1> HIDE DEF P
<1>2. F[0] = 1
  BY <1>1 DEF Powers
<1>3. ASSUME NEW n \in Nat, n # 0 PROVE F[n] = 2 * F[n - 1]
  <2>1. n - 1 \in Nat /\ n \in 1..n /\ n - 1 <= n
    BY <1>3
  <2>2. P(n)[n] = 2 * P(n)[n - 1]
    BY <1>1, <2>1 DEF Powers
  <2>3. PICK p, q : p = P(n) /\ q = P(n - 1)
    OBVIOUS
  <2>4. p \in Powers(n) /\ q \in Powers(n - 1)
    BY <1>1, <2>1, <2>3
  <2>5. p[n - 1] = q[n - 1]
    BY <2>1, <2>4, PowersAgree
  <2> QED
    BY <2>1, <2>2, <2>3, <2>5
<1>4. F = [n \in Nat |-> IF n = 0 THEN 1 ELSE 2 * F[n - 1]]
  BY <1>2, <1>3
<1> HIDE DEF F
<1>5. \E f : f = [n \in Nat |-> IF n = 0 THEN 1 ELSE 2 * f[n - 1]]
  BY <1>4
<1>6. PowerOfTwo = CHOOSE f : f = [n \in Nat |-> IF n = 0 THEN 1 ELSE 2 * f[n - 1]]
  BY DEF PowerOfTwo
<1> QED
  BY <1>5, <1>6

\* The first power, and each from the one before.
LEMMA PowerSteps ==
    /\ PowerOfTwo[0] = 1
    /\ \A n \in Nat : PowerOfTwo[n + 1] = 2 * PowerOfTwo[n]
<1>1. \A n \in Nat : n + 1 \in Nat /\ n + 1 # 0 /\ (n + 1) - 1 = n
  OBVIOUS
<1> QED
  BY <1>1, PowerRecursion

\* Powers are positive integers.
LEMMA PowerPositive == \A n \in Nat : PowerOfTwo[n] \in Nat /\ PowerOfTwo[n] >= 1
<1> DEFINE Bad == {m \in Nat : ~(PowerOfTwo[m] \in Nat /\ PowerOfTwo[m] >= 1)}
<1> SUFFICES ASSUME Bad # {} PROVE FALSE
  OBVIOUS
<1>0. Bad \in SUBSET Nat
  OBVIOUS
<1> HIDE DEF Bad
<1>1. PICK n \in Bad : \A m \in Bad : n <= m
  BY <1>0, LeastNumber
<1>2. n \in Nat /\ n # 0
  BY PowerSteps DEF Bad
<1>3. n - 1 \in Nat /\ n - 1 \notin Bad /\ (n - 1) + 1 = n
  BY <1>1, <1>2
<1>4. PowerOfTwo[n - 1] \in Nat /\ PowerOfTwo[n - 1] >= 1
  BY <1>3 DEF Bad
<1>5. PowerOfTwo[n] = 2 * PowerOfTwo[n - 1]
  BY <1>3, PowerSteps
<1> QED
  BY <1>4, <1>5 DEF Bad

\* Powers grow.
LEMMA PowerMonotone ==
    ASSUME NEW i \in Nat, NEW n \in Nat, i <= n
    PROVE  PowerOfTwo[i] <= PowerOfTwo[n]
<1> DEFINE Bad == {m \in Nat : i <= m /\ ~(PowerOfTwo[i] <= PowerOfTwo[m])}
<1> SUFFICES ASSUME Bad # {} PROVE FALSE
  OBVIOUS
<1>0. Bad \in SUBSET Nat
  OBVIOUS
<1> HIDE DEF Bad
<1>1. PICK k \in Bad : \A m \in Bad : k <= m
  BY <1>0, LeastNumber
<1>2. k \in Nat /\ i <= k /\ ~(PowerOfTwo[i] <= PowerOfTwo[k])
  BY DEF Bad
<1>3. k # i
  BY <1>2, PowerPositive
<1>4. k - 1 \in Nat /\ i <= k - 1 /\ k - 1 \notin Bad /\ (k - 1) + 1 = k
  BY <1>1, <1>2, <1>3
<1>5. PowerOfTwo[i] <= PowerOfTwo[k - 1]
  BY <1>4 DEF Bad
<1>6. PowerOfTwo[k] = 2 * PowerOfTwo[k - 1]
  BY <1>4, PowerSteps
<1>7. PowerOfTwo[k - 1] \in Nat /\ PowerOfTwo[i] \in Nat
  BY <1>4, PowerPositive
<1> QED
  BY <1>2, <1>5, <1>6, <1>7

-----------------------------------------------------------------------------
(* What the loop computes.                                                 *)

\* A delay doubled so often.
Doubled(i, n) == i.base * PowerOfTwo[n]

\* How often the base is to be doubled.
Doublings(i) == Larger(i.count - 1, 0)

\* While it runs, the loop has doubled the base once per pass.
PowerInv ==
    /\ LoopInv
    /\ pc = "validate" => attempt = 1
    /\ pc = "double" =>
         /\ attempt \in Nat /\ 1 <= attempt /\ attempt - 1 <= Doublings(input)
         /\ cap = Doubled(input, attempt - 1)
    /\ CapIsExponential

\* More doublings give no smaller delay.
LEMMA DoubledGrows ==
    ASSUME NEW i, i.base \in Nat, NEW n \in Nat, NEW m \in Nat, n <= m
    PROVE  /\ Doubled(i, n) \in Nat /\ Doubled(i, m) \in Nat
           /\ Doubled(i, n) <= Doubled(i, m)
           /\ Doubled(i, n + 1) = 2 * Doubled(i, n)
<1>1. PICK b \in Nat, x \in Nat, y \in Nat :
        b = i.base /\ x = PowerOfTwo[n] /\ y = PowerOfTwo[m]
  BY PowerPositive
<1>2. x <= y /\ PowerOfTwo[n + 1] = 2 * x
  BY <1>1, PowerMonotone, PowerSteps
<1>3. b * x \in Nat /\ b * y \in Nat /\ b * x <= b * y /\ b * (2 * x) = 2 * (b * x)
  BY <1>2
<1> QED
  BY <1>1, <1>2, <1>3 DEF Doubled

\* The loop begins with the base, not doubled.
LEMMA LoopBegins ==
    ASSUME NEW i, i.base \in Nat, i.count \in Int
    PROVE  /\ 0 <= Doublings(i) /\ Doublings(i) \in Nat
           /\ Doubled(i, 0) = i.base
  BY PowerSteps DEF Doublings, Larger, Doubled

\* The loop begins.
LEMMA BeginStep ==
    ASSUME PowerInv, LoopInv', Validate \/ Normalize
    PROVE  PowerInv'
<1>1. pc' = "rejected" \/ (pc' = "double" /\ cap' = input'.base)
  <2>1. CASE Validate
    BY <2>1 DEF Validate
  <2>2. CASE Normalize
    <3> DEFINE base == IF input.base <= 0 THEN Second ELSE input.base
    <3>1. input \in Input
      BY <2>2 DEF PowerInv, LoopInv, Normalize
    <3>2. /\ input' = [input EXCEPT !.base = base, !.max = Larger(base, input.max)]
          /\ cap' = base /\ pc' = "double"
      BY <2>2 DEF Normalize
    <3> HIDE DEF base
    <3> QED
      BY <3>1, <3>2 DEF Input
  <2> QED
    BY <2>1, <2>2
<1>2. attempt' = 1
  BY DEF PowerInv, Validate, Normalize
<1>3. CASE pc' = "rejected"
  BY <1>3 DEF PowerInv, CapIsExponential
<1>4. CASE pc' = "double"
  <2>1. input'.base \in Nat /\ input'.count \in Int
    BY <1>4 DEF LoopInv, Usable
  <2>2. PICK i : i = input'
    OBVIOUS
  <2>3. 0 <= Doublings(i) /\ Doubled(i, 0) = i.base
    BY <2>1, <2>2, LoopBegins
  <2>4. attempt' - 1 = 0
    BY <1>2
  <2>5. attempt' - 1 <= Doublings(input') /\ cap' = Doubled(input', attempt' - 1)
    BY <1>1, <1>4, <2>2, <2>3, <2>4
  <2> QED
    BY <1>2, <1>4, <2>5 DEF PowerInv, CapIsExponential, Doublings, Doubled
<1> QED
  BY <1>1, <1>3, <1>4

\* What a pass of the loop knows.
LEMMA LoopFacts ==
    ASSUME PowerInv, pc = "double"
    PROVE  /\ Usable(input) /\ input.base \in Nat /\ input.count \in Int
           /\ input.max \in Int /\ input.max <= MaxInt
           /\ cap \in Int /\ 0 < cap /\ cap <= input.max
           /\ attempt \in Nat /\ 1 <= attempt /\ attempt - 1 \in Nat
           /\ attempt - 1 <= Doublings(input) /\ Doublings(input) \in Nat
           /\ cap = Doubled(input, attempt - 1)
<1>1. /\ Usable(input) /\ cap \in Int /\ input.base <= cap /\ cap <= input.max
      /\ attempt \in Nat /\ 1 <= attempt /\ attempt - 1 <= Doublings(input)
      /\ cap = Doubled(input, attempt - 1)
  BY DEF PowerInv, LoopInv
<1>2. /\ input.base \in Nat /\ input.count \in Int /\ input.max \in Int
      /\ input.max <= MaxInt /\ 0 < input.base
  BY <1>1 DEF Usable
<1>3. Doublings(input) \in Nat
  BY <1>2, LoopBegins
<1> QED
  BY <1>1, <1>2, <1>3

\* A pass: an exact doubling, or the maximum, which more doublings only pass.
LEMMA PassStep ==
    ASSUME PowerInv, LoopInv', Double
    PROVE  PowerInv'
<1>1. pc = "double" /\ attempt < input.count /\ cap < input.max /\ input' = input
  BY DEF Double, Looping
<1>2. PICK i, n, d : i = input /\ n = attempt - 1 /\ d = Doublings(input)
  OBVIOUS
<1>3. /\ i.base \in Nat /\ i.count \in Int /\ i.max \in Int /\ i.max <= MaxInt
      /\ cap \in Int /\ 0 < cap /\ n \in Nat /\ d \in Nat /\ attempt \in Nat
      /\ cap = Doubled(i, n) /\ attempt = n + 1
  BY <1>1, <1>2, LoopFacts
<1>4. n + 1 <= d /\ d = i.count - 1
  BY <1>1, <1>2, <1>3 DEF Doublings, Larger
<1>5. /\ Doubled(i, n + 1) = 2 * cap
      /\ Doubled(i, d) \in Nat /\ Doubled(i, n + 1) <= Doubled(i, d)
  BY <1>3, <1>4, DoubledGrows
<1>6. CASE PastHalf(cap, input.max)
  <2>1. pc' = "jitter" /\ cap' = i.max
    BY <1>2, <1>6 DEF Double
  <2>2. 2 * cap > i.max
    BY <1>2, <1>3, <1>6 DEF PastHalf
  <2>3. Smaller(Doubled(i, d), i.max) = i.max
    BY <1>3, <1>5, <2>2 DEF Smaller
  <2>4. CapIsExponential'
    BY <1>1, <1>2, <2>1, <2>3 DEF CapIsExponential, Doubled, Doublings
  <2> QED
    BY <2>1, <2>4 DEF PowerInv
<1>7. CASE ~PastHalf(cap, input.max)
  <2>1. pc' = "double" /\ cap' = 2 * cap /\ attempt' = attempt + 1
    BY <1>1, <1>2, <1>3, <1>7, NoWrap DEF Double
  <2>2. attempt' - 1 = n + 1
    BY <1>3, <2>1
  <2>3. /\ attempt' \in Nat /\ 1 <= attempt' /\ attempt' - 1 <= Doublings(input')
        /\ cap' = Doubled(input', attempt' - 1)
    BY <1>1, <1>2, <1>3, <1>4, <1>5, <2>1, <2>2
  <2> QED
    BY <2>1, <2>3 DEF PowerInv, CapIsExponential, Doublings, Doubled
<1> QED
  BY <1>6, <1>7

\* The loop ends at the last doubling or at the maximum.
LEMMA LoopEndsStep ==
    ASSUME PowerInv, LoopInv', LoopEnds
    PROVE  PowerInv'
<1>1. /\ pc = "double" /\ ~(attempt < input.count /\ cap < input.max)
      /\ pc' = "jitter" /\ input' = input /\ cap' = cap
  BY DEF LoopEnds, Looping
<1>2. PICK i, n, d : i = input /\ n = attempt - 1 /\ d = Doublings(input)
  OBVIOUS
<1>3. /\ i.base \in Nat /\ i.count \in Int /\ i.max \in Int
      /\ cap \in Int /\ cap <= i.max /\ n \in Nat /\ d \in Nat /\ attempt \in Nat
      /\ cap = Doubled(i, n) /\ attempt = n + 1 /\ n <= d
  BY <1>1, <1>2, LoopFacts
<1>4. cap = Smaller(Doubled(i, d), i.max)
  <2>1. CASE ~(attempt < input.count)
    <3>1. n = d
      BY <1>2, <1>3, <2>1 DEF Doublings, Larger
    <3> QED
      BY <1>3, <3>1 DEF Smaller
  <2>2. CASE ~(cap < input.max)
    <3>1. Doubled(i, n) <= Doubled(i, d) /\ Doubled(i, d) \in Nat
      BY <1>3, DoubledGrows
    <3> QED
      BY <1>2, <1>3, <2>2, <3>1 DEF Smaller
  <2> QED
    BY <1>1, <2>1, <2>2
<1>5. CapIsExponential'
  BY <1>1, <1>2, <1>4 DEF CapIsExponential, Doubled, Doublings
<1> QED
  BY <1>1, <1>5 DEF PowerInv

\* Every step keeps the loop's account.
LEMMA NextPower == PowerInv /\ [Next]_vars => PowerInv'
<1> SUFFICES ASSUME PowerInv, [Next]_vars PROVE PowerInv'
  OBVIOUS
<1>1. LoopInv'
  BY NextLoop DEF PowerInv
<1>2. CASE Finish
  BY <1>1, <1>2 DEF PowerInv, CapIsExponential, Finish
<1>3. CASE UNCHANGED vars
  BY <1>1, <1>3 DEF PowerInv, CapIsExponential, Doublings, Doubled, vars
<1> QED
  BY <1>1, <1>2, <1>3, BeginStep, PassStep, LoopEndsStep DEF Next

\* Delay and claimRetryDelay compute base * 2^(count - 1), cut off at the
\* maximum, for every width of a duration and every argument: stopping before
\* the doubling that would pass the maximum loses nothing.
THEOREM BackoffExponential == Spec => []CapIsExponential
<1>1. Init => PowerInv
  <2>1. Init => LoopInv
    BY InitLoop
  <2> QED
    BY <2>1 DEF Init, PowerInv, CapIsExponential
<1>2. PowerInv => CapIsExponential
  BY DEF PowerInv
<1> QED
  BY <1>1, <1>2, NextPower, PTL DEF Spec

=============================================================================
