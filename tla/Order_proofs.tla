----------------------------- MODULE Order_proofs -----------------------------
(***************************************************************************)
(* The timestamps of events, for clocks that are off by up to Skew.  Calls *)
(* read a clock before they queue for a lock or a connection, so a slow    *)
(* call carries an old time; what keeps the trail of a task in order all   *)
(* the same is what a call must find in the row before it may write:       *)
(*                                                                         *)
(*   a claim    available_at, or a lease, that has passed by its own time; *)
(*   an ending  the version it was given with the claim, so nothing was    *)
(*              stored since a moment that lies before its own time.       *)
(*                                                                         *)
(* The invariant therefore bounds the stamps of a task by the row: by      *)
(* available_at while it waits, by the lease while it runs.  Two clocks    *)
(* differ by at most Spread, and so do the bounds.  When the delays and    *)
(* the lease are longer than that, they keep the events that one kind of   *)
(* diagnostics looks for strictly apart.                                   *)
(***************************************************************************)
EXTENDS Storage_proofs

-----------------------------------------------------------------------------
(* The inductive invariant.                                                *)

\* How far the clocks of two calls that are made at one moment may differ.
Spread == 2 * Skew

\* Clocks differ by less than a lease and than every backoff delay.
Apart == Spread < LeaseDuration /\ \A d \in RetryDelay : Spread < d

Waits(row) == row.status \in {"queued", "retrying"}

\* The events the diagnostics look for.
Marks(event) == event = "task_retrying" \/ event \in ClaimEvent

OneKind(a, b) ==
    \/ a = "task_retrying" /\ b = "task_retrying"
    \/ a \in ClaimEvent /\ b \in ClaimEvent

\* Only cancellations are late by more than the clocks differ, and events of
\* one kind follow each other in time.
TrailInOrder(trail, times) ==
    /\ \A i, j \in 1..Len(trail) :
         i < j /\ trail[j] # "task_canceled" => times[i] <= times[j] + Spread
    /\ Apart => \A i, j \in 1..Len(trail) :
         i < j /\ OneKind(trail[i], trail[j]) => times[i] < times[j]

\* What the row says about the times of the events stored so far.
RowBounds(row, trail, times) ==
    /\ Waits(row) => \A i \in 1..Len(trail) :
         /\ times[i] <= row.availableAt + Spread
         /\ Apart => /\ times[i] <= row.availableAt
                     /\ Marks(trail[i]) => times[i] < row.availableAt
                     /\ trail[i] = "task_retrying" => times[i] + Spread < row.availableAt
    /\ row.status = "running" => \A i \in 1..Len(trail) :
         /\ times[i] <= row.leaseExp + Spread
         /\ Apart => /\ times[i] < row.leaseExp
                     /\ trail[i] = "task_retrying"
                          => times[i] + Spread < times[Len(trail)]

Timely(row, trail, times) == TrailInOrder(trail, times) /\ RowBounds(row, trail, times)

\* The event may be stored at this time after the trail, together with row.
InTime(row, event, at, trail, times) ==
    /\ event # "task_canceled" => \A i \in 1..Len(trail) :
         /\ times[i] <= at + Spread
         /\ Apart /\ OneKind(trail[i], event) => times[i] < at
    /\ Waits(row) =>
         \/ /\ event = "task_retrying" /\ at < row.availableAt
            /\ Apart => /\ at + Spread < row.availableAt
                        /\ \A i \in 1..Len(trail) :
                             trail[i] = "task_retrying" => times[i] < at
         \/ at = row.availableAt /\ trail = <<>> /\ event = "task_created"
    /\ row.status = "running" =>
         /\ event # "task_canceled" /\ event # "task_retrying" /\ at < row.leaseExp
         /\ Apart => \A i \in 1..Len(trail) :
              /\ times[i] <= at
              /\ trail[i] = "task_retrying" => times[i] + Spread < at

\* Nothing is stamped later than clock.
Past(times, clock) == \A i \in 1..Len(times) : times[i] <= clock

\* The time at which a retried task becomes available again.
Delayed(at, row) ==
    row.status = "retrying" =>
      at < row.availableAt /\ (Apart => at + Spread < row.availableAt)

\* An attempt that is about to be ended, given the row and its stamps.
EndsInTime(c, row, times) ==
    /\ c.row.status \notin {"queued", "running"}
    /\ Delayed(c.at, c.row)
    /\ row.version = c.row.version => Past(times, c.at + Spread)

\* The diagnostics that a detail took from the events it saw.
TookLatest(c, trail) ==
    /\ c.seen <= Len(trail)
    /\ c.failure = LastIn({i \in DOMAIN trail : trail[i] = "task_retrying"}
                          \intersect 1..c.seen)
    /\ c.owner = NoWorker =>
         c.claim = LastIn({i \in DOMAIN trail : trail[i] \in ClaimEvent}
                          \intersect 1..c.seen)

CallInTime(c) ==
    /\ c.op \in WriteOp => c.at <= now + Skew
    /\ c.op = "update" /\ c.pc # "written" =>
         EndsInTime(c, Committed[c.task], stamps[c.task])
    /\ c.op \in WriteOp /\ c.pc = "written" =>
         InTime(tasks[c.task], c.event, c.at, events[c.task], stamps[c.task])
    /\ Apart /\ c.op = "detail" /\ c.pc = "done" => TookLatest(c, events[c.task])

TimeInv ==
    /\ \A t \in TaskId : /\ Timely(Committed[t], events[t], stamps[t])
                         /\ Past(stamps[t], now + Skew)
    /\ \A g \in Goroutine : CallInTime(calls[g])

-----------------------------------------------------------------------------
(* Trails grow in order.                                                   *)

\* The items of an extended list.
LEMMA AppendItems ==
    ASSUME NEW S, NEW s \in Seq(S), NEW x \in S
    PROVE  /\ Len(Append(s, x)) = Len(s) + 1 /\ Len(s) \in Nat
           /\ \A i \in 1..Len(s) : Append(s, x)[i] = s[i]
           /\ Append(s, x)[Len(s) + 1] = x
  OBVIOUS

\* Clocks differ by some amount.
LEMMA SpreadNat == Spread \in Nat /\ Skew \in Nat /\ Spread = Skew + Skew
  BY StoreAssumption DEF Spread

\* Nothing that was stamped by now is later than a lease renewed now.
LEMMA RenewedPastStamps ==
    ASSUME NEW x \in Nat, NEW clock \in Nat, NEW lease \in Int,
           x <= clock + Skew, clock + LeaseDuration <= lease + Skew
    PROVE  x <= lease + Spread /\ (Apart => x < lease)
<1>1. LeaseDuration \in Nat /\ (Apart => Spread < LeaseDuration)
  BY StoreAssumption DEF Apart
<1> QED
  BY <1>1, SpreadNat

\* What is no later than one moment, up to the skew, is no later than the next.
LEMMA LaterClock ==
    ASSUME NEW clock \in Nat, NEW next \in Nat, clock <= next
    PROVE  /\ clock + Skew \in Nat /\ next + Skew \in Nat /\ clock + Skew <= next + Skew
           /\ \A x \in Nat : x <= clock + Skew => x <= next + Skew
  BY SpreadNat

\* An event that is in time keeps the trail in order and within the bounds
\* that the new row sets.
LEMMA AppendTimely ==
    ASSUME NEW b \in Task, NEW event \in EventType, NEW at \in Nat,
           NEW trail \in Seq(EventType), NEW times \in Seq(Nat), Len(times) = Len(trail),
           TrailInOrder(trail, times), InTime(b, event, at, trail, times)
    PROVE  Timely(b, Append(trail, event), Append(times, at))
<1>0. /\ Len(trail) \in Nat
      /\ Append(trail, event) \in Seq(EventType) /\ Append(times, at) \in Seq(Nat)
  OBVIOUS
<1>1. PICK n \in Nat, more \in Seq(EventType), later \in Seq(Nat) :
        n = Len(trail) /\ more = Append(trail, event) /\ later = Append(times, at)
  BY <1>0, Zenon
<1>2. /\ Len(more) = n + 1 /\ Len(later) = n + 1
      /\ \A i \in 1..n : more[i] = trail[i] /\ later[i] = times[i]
      /\ more[n + 1] = event /\ later[n + 1] = at
  BY <1>1, AppendItems
<1>3. \A i \in 1..n : times[i] \in Nat
  BY <1>1
<1>4. b.availableAt \in Int /\ b.leaseExp \in Int /\ Spread \in Nat
  BY SpreadNat DEF Task
<1>5. /\ event # "task_canceled" => \A i \in 1..n :
           /\ times[i] <= at + Spread
           /\ Apart /\ OneKind(trail[i], event) => times[i] < at
      /\ Waits(b) =>
           \/ /\ event = "task_retrying" /\ at < b.availableAt
              /\ Apart => /\ at + Spread < b.availableAt
                          /\ \A i \in 1..n : trail[i] = "task_retrying" => times[i] < at
           \/ at = b.availableAt /\ n = 0 /\ event = "task_created"
      /\ b.status = "running" =>
           /\ event # "task_canceled" /\ event # "task_retrying" /\ at < b.leaseExp
           /\ Apart => \A i \in 1..n :
                /\ times[i] <= at
                /\ trail[i] = "task_retrying" => times[i] + Spread < at
  BY <1>1 DEF InTime
<1>6. /\ \A i, j \in 1..n :
           i < j /\ trail[j] # "task_canceled" => times[i] <= times[j] + Spread
      /\ Apart => \A i, j \in 1..n :
           i < j /\ OneKind(trail[i], trail[j]) => times[i] < times[j]
  BY <1>1 DEF TrailInOrder
<1>7. ASSUME NEW i \in 1..(n + 1), NEW j \in 1..(n + 1), i < j, more[j] # "task_canceled"
      PROVE  later[i] <= later[j] + Spread
  <2>1. i \in 1..n
    BY <1>7
  <2>2. CASE j = n + 1
    BY <1>2, <1>5, <1>7, <2>1, <2>2
  <2>3. CASE j # n + 1
    <3>1. j \in 1..n
      BY <2>3
    <3> QED
      BY <1>2, <1>6, <1>7, <2>1, <3>1
  <2> QED
    BY <2>2, <2>3
<1>8. ASSUME Apart, NEW i \in 1..(n + 1), NEW j \in 1..(n + 1), i < j,
             OneKind(more[i], more[j])
      PROVE  later[i] < later[j]
  <2>1. i \in 1..n
    BY <1>8
  <2>2. CASE j = n + 1
    <3>1. event # "task_canceled"
      BY <1>2, <1>8, <2>2 DEF OneKind, ClaimEvent
    <3> QED
      BY <1>2, <1>5, <1>8, <2>1, <2>2, <3>1
  <2>3. CASE j # n + 1
    <3>1. j \in 1..n
      BY <2>3
    <3> QED
      BY <1>2, <1>6, <1>8, <2>1, <3>1
  <2> QED
    BY <2>2, <2>3
<1>9. TrailInOrder(more, later)
  BY <1>2, <1>7, <1>8 DEF TrailInOrder
<1>10. ASSUME NEW i \in 1..(n + 1), Waits(b)
       PROVE  /\ later[i] <= b.availableAt + Spread
              /\ Apart => /\ later[i] <= b.availableAt
                          /\ Marks(more[i]) => later[i] < b.availableAt
                          /\ more[i] = "task_retrying"
                               => later[i] + Spread < b.availableAt
  <2>1. CASE i = n + 1
    <3>1. more[i] = event /\ later[i] = at
      BY <1>2, <2>1
    <3>2. event = "task_created" => ~Marks(event)
      BY DEF Marks, ClaimEvent
    <3> QED
      BY <1>4, <1>5, <1>10, <3>1, <3>2
  <2>2. CASE i # n + 1
    <3>1. i \in 1..n /\ event = "task_retrying" /\ at < b.availableAt
      BY <1>5, <1>10, <2>2
    <3>2. /\ later[i] <= at + Spread /\ later[i] \in Nat
          /\ Apart => at + Spread < b.availableAt
          /\ Apart /\ more[i] = "task_retrying" => later[i] < at
      BY <1>2, <1>3, <1>5, <1>10, <3>1
    <3> QED
      BY <1>4, <3>1, <3>2
  <2> QED
    BY <2>1, <2>2
<1>11. ASSUME NEW i \in 1..(n + 1), b.status = "running"
       PROVE  /\ later[i] <= b.leaseExp + Spread
              /\ Apart => /\ later[i] < b.leaseExp
                          /\ more[i] = "task_retrying"
                               => later[i] + Spread < later[n + 1]
  <2>1. CASE i = n + 1
    BY <1>2, <1>4, <1>5, <1>11, <2>1
  <2>2. CASE i # n + 1
    <3>1. i \in 1..n
      BY <2>2
    <3>2. /\ later[i] = times[i] /\ times[i] \in Nat /\ times[i] <= at + Spread
          /\ Apart => /\ times[i] <= at
                      /\ more[i] = "task_retrying" => times[i] + Spread < at
      BY <1>2, <1>3, <1>5, <1>11, <3>1
    <3>3. at < b.leaseExp /\ later[n + 1] = at
      BY <1>2, <1>5, <1>11
    <3>4. PICK x \in Nat, lease \in Int : x = times[i] /\ lease = b.leaseExp
      BY <1>4, <3>2
    <3>5. x <= lease + Spread /\ (x <= at => x < lease)
      <4>1. x <= at + Spread /\ at < lease
        BY <3>2, <3>3, <3>4
      <4> QED
        BY <1>4, <4>1
    <3> QED
      BY <3>2, <3>3, <3>4, <3>5
  <2> QED
    BY <2>1, <2>2
<1>12. RowBounds(b, more, later)
  BY <1>2, <1>10, <1>11 DEF RowBounds
<1> QED
  BY <1>1, <1>9, <1>12 DEF Timely

\* Nothing is stamped later than the clock.
LEMMA AppendPast ==
    ASSUME NEW at \in Nat, NEW times \in Seq(Nat), NEW clock \in Nat, NEW next \in Nat,
           Past(times, clock), at <= next, clock <= next
    PROVE  Past(Append(times, at), next)
<1>0. Len(times) \in Nat /\ Append(times, at) \in Seq(Nat)
  OBVIOUS
<1>1. PICK n \in Nat, later \in Seq(Nat) : n = Len(times) /\ later = Append(times, at)
  BY <1>0, Zenon
<1>2. Len(later) = n + 1 /\ later[n + 1] = at /\ \A i \in 1..n : later[i] = times[i]
  BY <1>1, AppendItems
<1>3. \A i \in 1..n : times[i] \in Nat /\ times[i] <= clock
  BY <1>1 DEF Past
<1>4. ASSUME NEW i \in 1..(n + 1) PROVE later[i] <= next
  <2>1. CASE i = n + 1
    BY <1>2, <2>1
  <2>2. CASE i # n + 1
    <3>1. i \in 1..n
      BY <2>2
    <3> QED
      BY <1>2, <1>3, <3>1
  <2> QED
    BY <2>1, <2>2
<1> QED
  BY <1>1, <1>2, <1>4 DEF Past

\* The last event of a kind among those a detail saw stays the last of them.
LEMMA AppendLatest ==
    ASSUME NEW trail \in Seq(EventType), NEW event \in EventType, NEW c,
           c.seen \in Nat, TookLatest(c, trail)
    PROVE  TookLatest(c, Append(trail, event))
<1>0. Len(trail) \in Nat /\ Append(trail, event) \in Seq(EventType)
  OBVIOUS
<1>1. PICK n \in Nat, more \in Seq(EventType) : n = Len(trail) /\ more = Append(trail, event)
  BY <1>0, Zenon
<1>2. Len(more) = n + 1 /\ \A i \in 1..n : more[i] = trail[i]
  BY <1>1, AppendItems
<1>3. DOMAIN trail = 1..n /\ DOMAIN more = 1..(n + 1) /\ c.seen <= n
  BY <1>1, <1>2 DEF TookLatest
<1>4. /\ {i \in DOMAIN more : more[i] = "task_retrying"} \intersect 1..c.seen
           = {i \in DOMAIN trail : trail[i] = "task_retrying"} \intersect 1..c.seen
      /\ {i \in DOMAIN more : more[i] \in ClaimEvent} \intersect 1..c.seen
           = {i \in DOMAIN trail : trail[i] \in ClaimEvent} \intersect 1..c.seen
  BY <1>2, <1>3
<1>5. c.seen <= Len(more)
  BY <1>2, <1>3
<1>6. TookLatest(c, more)
  BY <1>4, <1>5, Zenon DEF TookLatest
<1> QED
  BY <1>1, <1>6

-----------------------------------------------------------------------------
(* The induction step.                                                     *)

\* A renewal moves the lease past the present, by the clock of its worker.
LeaseKept(t) ==
    \/ Committed'[t].leaseExp = Committed[t].leaseExp
    \/ now + LeaseDuration <= Committed'[t].leaseExp + Skew

SavesInTime(t, event, at) ==
    /\ Saves(t, event, at) /\ at <= now + Skew
    /\ InTime(Committed'[t], event, at, events[t], stamps[t])

\* A step of goroutine g, as far as time is concerned.
TimedStep(g) ==
    /\ now <= now'
    /\ \/ events' = events /\ stamps' = stamps /\ \A t \in TaskId : LeaseKept(t)
       \/ \E t \in TaskId, event \in EventType, at \in Nat : SavesInTime(t, event, at)
    /\ Leaves(g) \/ CallInTime(calls[g])'

\* Types of the rows and lists of a task, before and after.
LEMMA ListTypes ==
    ASSUME SInv, NEW t \in TaskId
    PROVE  /\ events[t] \in Seq(EventType) /\ stamps[t] \in Seq(Nat)
           /\ Len(stamps[t]) = Len(events[t]) /\ now \in Nat
           /\ Committed[t] \in Task /\ RowInOrder(Committed[t])
           /\ TrailMatches(Committed[t], events[t])
  BY DEF SInv, TypesOK, StoreTypeOK, RowsInStep

\* The lists of the task that is saved.
LEMMA SavedLists ==
    ASSUME SInv, NEW t \in TaskId, NEW event, NEW at, Saves(t, event, at)
    PROVE  events'[t] = Append(events[t], event) /\ stamps'[t] = Append(stamps[t], at)
  BY DEF Saves, SInv, TypesOK, StoreTypeOK

\* A step that stores no event saves no row.
LEMMA NoEventNoSave ==
    ASSUME SInv, Moves, events' = events, NEW t \in TaskId
    PROVE  Same(Committed[t], Committed'[t])
<1>1. ASSUME NEW u \in TaskId, NEW event \in EventType, NEW at \in Nat,
             Saves(u, event, at)
      PROVE  FALSE
  <2>1. events'[u] = Append(events[u], event) /\ events[u] \in Seq(EventType)
    BY <1>1, ListTypes, SavedLists
  <2>2. Len(events'[u]) = Len(events[u]) + 1 /\ Len(events[u]) \in Nat
    BY <2>1, AppendItems
  <2> QED
    BY <2>2
<1> QED
  BY <1>1 DEF Moves, Quiet

\* The lists of the other tasks stay as they are.
LEMMA OtherLists ==
    ASSUME SInv, NEW t \in TaskId, NEW u \in TaskId, t # u, NEW event, NEW at,
           Saves(u, event, at)
    PROVE  events'[t] = events[t] /\ stamps'[t] = stamps[t] /\ Committed'[t] = Committed[t]
  BY DEF Saves, SInv, TypesOK, StoreTypeOK

\* Trails stay in order.
LEMMA TrailsStayTimely ==
    ASSUME SInv, SInv', TimeInv, NEW g \in Goroutine, StepOK(g), TimedStep(g),
           NEW t \in TaskId
    PROVE  Timely(Committed'[t], events'[t], stamps'[t]) /\ Past(stamps'[t], now' + Skew)
<1>1. /\ events[t] \in Seq(EventType) /\ stamps[t] \in Seq(Nat) /\ now \in Nat
      /\ Len(stamps[t]) = Len(events[t]) /\ Committed[t] \in Task
  BY ListTypes
<1>2. now' \in Nat /\ now <= now' /\ Committed'[t] \in Task
  BY DEF SInv, TypesOK, StoreTypeOK, RowsInStep, TimedStep
<1>3. Timely(Committed[t], events[t], stamps[t]) /\ Past(stamps[t], now + Skew)
  BY DEF TimeInv
<1>4. PICK n \in Nat : n = Len(events[t])
  BY <1>1
<1>5. \A i \in 1..n : stamps[t][i] \in Nat /\ stamps[t][i] <= now + Skew
  BY <1>1, <1>3, <1>4 DEF Past
<1>6. Past(stamps[t], now' + Skew)
  <2>1. ASSUME NEW i \in 1..n PROVE stamps[t][i] <= now' + Skew
    BY <1>1, <1>2, <1>5, LaterClock
  <2> QED
    BY <1>1, <1>4, <2>1 DEF Past
<1>7. CASE events' = events /\ stamps' = stamps /\ \A u \in TaskId : LeaseKept(u)
  <2>1. PICK a \in Task, b \in Task : a = Committed[t] /\ b = Committed'[t]
    BY <1>1, <1>2
  <2>2. /\ b.status = a.status /\ b.availableAt = a.availableAt
        /\ b.leaseExp = a.leaseExp \/ now + LeaseDuration <= b.leaseExp + Skew
    BY <1>7, <2>1, NoEventNoSave DEF StepOK, Same, LeaseKept
  <2>3. a.leaseExp \in Int /\ b.leaseExp \in Int
    BY DEF Task
  <2>4. RowBounds(a, events[t], stamps[t])
    BY <1>3, <2>1 DEF Timely
  <2>5. ASSUME NEW i \in 1..n, b.status = "running"
        PROVE  /\ stamps[t][i] <= b.leaseExp + Spread
               /\ Apart => stamps[t][i] < b.leaseExp
    <3>1. /\ stamps[t][i] <= a.leaseExp + Spread
          /\ Apart => stamps[t][i] < a.leaseExp
      BY <1>4, <2>2, <2>4, <2>5 DEF RowBounds
    <3>2. stamps[t][i] \in Nat /\ stamps[t][i] <= now + Skew
      BY <1>5
    <3>3. CASE b.leaseExp = a.leaseExp
      BY <3>1, <3>3
    <3>4. CASE now + LeaseDuration <= b.leaseExp + Skew
      BY <1>1, <2>3, <3>2, <3>4, RenewedPastStamps
    <3> QED
      BY <2>2, <3>3, <3>4
  <2>6. RowBounds(b, events[t], stamps[t])
    <3>1. Waits(b) <=> Waits(a)
      BY <2>2 DEF Waits
    <3> QED
      BY <1>4, <2>2, <2>4, <2>5, <3>1 DEF RowBounds
  <2> QED
    BY <1>3, <1>6, <1>7, <2>1, <2>6 DEF Timely
<1>8. ASSUME NEW u \in TaskId, NEW event \in EventType, NEW at \in Nat,
             SavesInTime(u, event, at)
      PROVE  Timely(Committed'[t], events'[t], stamps'[t]) /\ Past(stamps'[t], now' + Skew)
  <2>1. CASE t # u
    BY <1>3, <1>6, <1>8, <2>1, OtherLists DEF SavesInTime
  <2>2. CASE t = u
    <3>1. /\ events'[t] = Append(events[t], event) /\ stamps'[t] = Append(stamps[t], at)
          /\ at <= now + Skew /\ InTime(Committed'[t], event, at, events[t], stamps[t])
      BY <1>8, <2>2, SavedLists DEF SavesInTime
    <3>2. TrailInOrder(events[t], stamps[t])
      BY <1>3 DEF Timely
    <3>3. Timely(Committed'[t], events'[t], stamps'[t])
      BY <1>1, <1>2, <3>1, <3>2, AppendTimely
    <3>4. PICK clock \in Nat, next \in Nat : clock = now + Skew /\ next = now' + Skew
      BY <1>1, <1>2, LaterClock
    <3>5. at <= next /\ clock <= next
      BY <1>1, <1>2, <3>1, <3>4, LaterClock
    <3>6. Past(Append(stamps[t], at), next)
      BY <1>1, <1>3, <3>4, <3>5, AppendPast
    <3> QED
      BY <3>1, <3>3, <3>4, <3>6
  <2> QED
    BY <2>1, <2>2
<1> QED
  BY <1>7, <1>8 DEF TimedStep

\* A call in time stays in time while others take their steps.
LEMMA CallStaysInTime ==
    ASSUME SInv, SInv', TimeInv, NEW g \in Goroutine, StepOK(g), TimedStep(g),
           NEW h \in Goroutine, Leaves(h)
    PROVE  CallInTime(calls[h])'
<1>1. PICK c : c = calls[h]
  OBVIOUS
<1>2. calls'[h] = c /\ CallInTime(c) /\ CallOK(h)
  BY <1>1 DEF Leaves, TimeInv, SInv
<1>3. now \in Nat /\ now' \in Nat /\ now <= now' /\ Moves
  BY DEF SInv, TypesOK, StoreTypeOK, TimedStep, StepOK
<1>4. c.op \in WriteOp => c.at <= now' + Skew
  BY <1>1, <1>2, <1>3, WritingCall, LaterClock DEF CallInTime
<1>5. ASSUME c.op = "update", c.pc # "written"
      PROVE  EndsInTime(c, Committed'[c.task], stamps'[c.task])
  <2>1. WriteOK(h, c) /\ c \in WriteCall
    BY <1>1, <1>5, WritingCall DEF WriteOp
  <2>2. PICK t \in TaskId : t = c.task
    BY <1>5, <2>1 DEF WriteOK
  <2>3. c.row.version <= Committed[t].version /\ c.row.version \in Nat
    BY <1>5, <2>1, <2>2 DEF WriteOK, UpdateFenced, WriteCall, Task
  <2>4. EndsInTime(c, Committed[t], stamps[t])
    BY <1>2, <1>5, <2>2 DEF CallInTime
  <2>5. ASSUME Committed'[t].version = c.row.version
        PROVE  Committed[t].version = c.row.version /\ stamps'[t] = stamps[t]
    <3>1. CASE events' = events /\ stamps' = stamps
      BY <1>3, <2>5, <3>1, NoEventNoSave DEF Same
    <3>2. ASSUME NEW u \in TaskId, NEW event \in EventType, NEW at \in Nat,
                 Saves(u, event, at)
          PROVE  Committed[t].version = c.row.version /\ stamps'[t] = stamps[t]
      <4>1. CASE u # t
        BY <2>5, <3>2, <4>1, OtherLists
      <4>2. CASE u = t
        <5>1. Replaces(Committed'[t], Committed[t], event) /\ Committed[t].status # "absent"
          BY <1>5, <2>1, <2>2, <3>2, <4>2 DEF Saves, WriteOK, UpdateFenced
        <5>2. Committed'[t].version = Committed[t].version + 1
          BY <5>1 DEF Replaces
        <5>3. Committed[t].version \in Nat
          BY ListTypes DEF Task
        <5> QED
          BY <2>3, <2>5, <5>2, <5>3
      <4> QED
        BY <4>1, <4>2
    <3> QED
      BY <3>1, <3>2 DEF TimedStep, SavesInTime
  <2> QED
    BY <2>2, <2>4, <2>5 DEF EndsInTime
<1>6. ASSUME c.op \in WriteOp, c.pc = "written"
      PROVE  InTime(tasks'[c.task], c.event, c.at, events'[c.task], stamps'[c.task])
  <2>1. taskMu = h /\ taskMu' = h /\ tasks' = tasks
    BY <1>1, <1>6, WrittenFacts DEF Leaves
  <2>2. Committed' = Committed
    BY <1>1, <1>2, <2>1, CommittedSame
  <2>3. ASSUME NEW u \in TaskId, NEW event \in EventType, NEW at \in Nat,
               Saves(u, event, at)
        PROVE  FALSE
    <3>1. Replaces(Committed[u], Committed[u], event) /\ Committed[u].version \in Nat
      BY <2>2, <2>3, ListTypes DEF Saves, Task
    <3> QED
      BY <3>1 DEF Replaces
  <2>4. events' = events /\ stamps' = stamps
    BY <2>3 DEF TimedStep, SavesInTime
  <2> QED
    BY <1>2, <1>6, <2>1, <2>4 DEF CallInTime
<1>7. ASSUME Apart, c.op = "detail", c.pc = "done"
      PROVE  TookLatest(c, events'[c.task])
  <2>1. c \in DetailCall
    BY <1>1, <1>2, <1>7, CallKinds DEF CallOK
  <2>2. PICK t \in TaskId : t = c.task
    BY <2>1 DEF DetailCall
  <2>3. c.seen \in Nat /\ TookLatest(c, events[t]) /\ events[t] \in Seq(EventType)
    BY <1>2, <1>7, <2>1, <2>2, ListTypes DEF DetailCall, CallInTime
  <2>4. CASE events' = events
    BY <2>2, <2>3, <2>4
  <2>5. ASSUME NEW u \in TaskId, NEW event \in EventType, NEW at \in Nat,
               Saves(u, event, at)
        PROVE  TookLatest(c, events'[t])
    <3>1. CASE u # t
      BY <2>3, <2>5, <3>1, OtherLists
    <3>2. CASE u = t
      BY <2>3, <2>5, <3>2, SavedLists, AppendLatest
    <3> QED
      BY <3>1, <3>2
  <2> QED
    BY <2>2, <2>4, <2>5 DEF TimedStep, SavesInTime
<1> QED
  BY <1>2, <1>4, <1>5, <1>6, <1>7 DEF CallInTime

\* Every timed step keeps the invariant.
LEMMA TimedStepKeeps ==
    ASSUME SInv, SInv', TimeInv, NEW g \in Goroutine, StepOK(g), TimedStep(g)
    PROVE  TimeInv'
<1>1. \A t \in TaskId : /\ Timely(Committed'[t], events'[t], stamps'[t])
                        /\ Past(stamps'[t], now' + Skew)
  BY TrailsStayTimely
<1>2. ASSUME NEW h \in Goroutine PROVE CallInTime(calls[h])'
  <2>1. CASE Leaves(h)
    BY <2>1, CallStaysInTime
  <2>2. CASE h = g
    BY <2>1, <2>2 DEF TimedStep
  <2>3. h # g => Leaves(h)
    BY DEF StepOK
  <2> QED
    BY <2>1, <2>2, <2>3
<1> QED
  BY <1>1, <1>2 DEF TimeInv

-----------------------------------------------------------------------------
(* What a call finds in the row before it writes.                          *)

\* Call c writes b in place of a; times are the stamps stored so far.
Decides(c, a, b, event, times) ==
    \/ /\ a.status = "absent" /\ b.status = "queued"
       /\ b.availableAt = c.at /\ event = "task_created"
    \/ /\ event \in ClaimEvent /\ b.status = "running"
       /\ b.leaseExp = c.at + LeaseDuration
       /\ \/ Waits(a) /\ a.availableAt <= c.at
          \/ a.status = "running" /\ a.leaseExp <= c.at
    \/ /\ event = "task_failed" /\ b.status = "failed"
       /\ a.status = "running" /\ a.leaseExp <= c.at
    \/ event = "task_canceled" /\ b.status = "canceled"
    \/ /\ a.status = "running" /\ Past(times, c.at + Spread)
       /\ b.status \notin {"queued", "running"} /\ Announced(event) = b.status
       /\ Delayed(c.at, b)

\* Such a write is in time.
LEMMA DecisionInTime ==
    ASSUME NEW c, c.at \in Nat, NEW a \in Task, NEW b \in Task, NEW event \in EventType,
           NEW trail \in Seq(EventType), NEW times \in Seq(Nat), Len(times) = Len(trail),
           TrailMatches(a, trail), Timely(a, trail, times), Decides(c, a, b, event, times)
    PROVE  InTime(b, event, c.at, trail, times)
<1>1. PICK at \in Nat, n \in Nat : at = c.at /\ n = Len(trail)
  OBVIOUS
<1>2. \A i \in 1..n : times[i] \in Nat
  BY <1>1
<1>3. PICK due \in Int, lease \in Int : due = a.availableAt /\ lease = a.leaseExp
  BY DEF Task
<1>4. Spread \in Nat
  BY SpreadNat
<1>5. CASE /\ a.status = "absent" /\ b.status = "queued"
           /\ b.availableAt = at /\ event = "task_created"
  <2>1. trail = <<>> /\ n = 0
    BY <1>1, <1>5 DEF TrailMatches
  <2> QED
    BY <1>1, <1>5, <2>1 DEF InTime
<1>6. CASE /\ event \in ClaimEvent /\ b.status = "running"
           /\ b.leaseExp = at + LeaseDuration
           /\ \/ Waits(a) /\ a.availableAt <= at
              \/ a.status = "running" /\ a.leaseExp <= at
  <2>1. ASSUME NEW i \in 1..n
        PROVE  /\ times[i] <= at + Spread
               /\ Apart => /\ times[i] <= at
                           /\ Marks(trail[i]) => times[i] < at
                           /\ trail[i] = "task_retrying" => times[i] + Spread < at
    <3>1. PICK x \in Nat : x = times[i]
      BY <1>2
    <3>2. CASE Waits(a) /\ due <= at
      <4>1. /\ x <= due + Spread
            /\ Apart => /\ x <= due
                        /\ Marks(trail[i]) => x < due
                        /\ trail[i] = "task_retrying" => x + Spread < due
        BY <1>1, <1>3, <3>1, <3>2 DEF Timely, RowBounds
      <4> QED
        BY <1>4, <3>1, <3>2, <4>1
    <3>3. CASE a.status = "running" /\ lease <= at
      <4>1. n \in 1..n
        OBVIOUS
      <4>2. PICK y \in Nat : y = times[n]
        BY <1>2, <4>1
      <4>3. /\ x <= lease + Spread
            /\ Apart => /\ x < lease /\ y < lease
                        /\ trail[i] = "task_retrying" => x + Spread < y
        BY <1>1, <1>3, <3>1, <3>3, <4>1, <4>2 DEF Timely, RowBounds
      <4> QED
        BY <1>4, <3>1, <3>3, <4>3
    <3> QED
      BY <1>3, <1>6, <3>2, <3>3
  <2>2. at < b.leaseExp
    BY <1>6, StoreAssumption
  <2>3. event # "task_canceled" /\ event # "task_retrying" /\ ~Waits(b)
    BY <1>6 DEF ClaimEvent, Waits
  <2>4. \A i \in 1..n : OneKind(trail[i], event) => Marks(trail[i])
    BY <2>3 DEF OneKind, Marks
  <2> QED
    BY <1>1, <2>1, <2>2, <2>3, <2>4 DEF InTime
<1>7. CASE /\ event = "task_failed" /\ b.status = "failed"
           /\ a.status = "running" /\ a.leaseExp <= at
  <2>1. ASSUME NEW i \in 1..n PROVE times[i] <= at + Spread
    <3>1. PICK x \in Nat : x = times[i]
      BY <1>2
    <3>2. x <= lease + Spread /\ lease <= at
      BY <1>1, <1>3, <1>7, <3>1 DEF Timely, RowBounds
    <3> QED
      BY <1>4, <3>1, <3>2
  <2>2. ~Waits(b) /\ \A i \in 1..n : ~OneKind(trail[i], event)
    BY <1>7 DEF OneKind, Waits, ClaimEvent
  <2> QED
    BY <1>1, <1>7, <2>1, <2>2 DEF InTime
<1>8. CASE event = "task_canceled" /\ b.status = "canceled"
  BY <1>8 DEF InTime, Waits
<1>9. CASE /\ a.status = "running" /\ Past(times, at + Spread)
           /\ b.status \notin {"queued", "running"} /\ Announced(event) = b.status
           /\ Delayed(at, b)
  <2>1. \A i \in 1..n : times[i] <= at + Spread
    BY <1>1, <1>9 DEF Past
  <2>2. n \in 1..n
    BY <1>1, <1>9 DEF TrailMatches, Task
  <2>3. ASSUME Apart, NEW i \in 1..n, trail[i] = "task_retrying" PROVE times[i] < at
    <3>1. PICK x \in Nat, y \in Nat : x = times[i] /\ y = times[n]
      BY <1>2, <2>2
    <3>2. x + Spread < y /\ y <= at + Spread
      BY <1>1, <1>9, <2>1, <2>2, <2>3, <3>1 DEF Timely, RowBounds
    <3> QED
      BY <1>4, <3>1, <3>2
  <2>4. event \notin ClaimEvent
    BY <1>9, Announcements
  <2>5. Waits(b) => b.status = "retrying" /\ event = "task_retrying"
    <3>1. event \notin ClaimEvent => event \in {"task_created", "task_progress",
            "task_retrying", "task_released", "task_succeeded",
            "task_partially_succeeded", "task_failed", "task_canceled"}
      BY DEF EventType, ClaimEvent
    <3>2. Announced(event) = "retrying" => event = "task_retrying"
      BY <2>4, <3>1, Announcements
    <3> QED
      BY <1>9, <3>2 DEF Waits
  <2>6. \A i \in 1..n : OneKind(trail[i], event) => trail[i] = "task_retrying"
    BY <2>4 DEF OneKind
  <2>7. Waits(b) => at < b.availableAt /\ (Apart => at + Spread < b.availableAt)
    BY <1>9, <2>5 DEF Delayed
  <2> QED
    BY <1>1, <1>9, <2>1, <2>3, <2>5, <2>6, <2>7 DEF InTime
<1> QED
  BY <1>1, <1>5, <1>6, <1>7, <1>8, <1>9 DEF Decides

\* The claimed row, as far as time is concerned.
LEMMA ClaimedLease ==
    ASSUME NEW row \in Task, NEW w, NEW at
    PROVE  /\ Claimed(row, w, at).leaseExp = at + LeaseDuration
           /\ Claimed(row, w, at).status = "running"
           /\ ClaimedEvent(row) \in ClaimEvent
  BY DEF Claimed, MoveTo, Task, ClaimedEvent, ClaimEvent

\* Setting the version changes nothing that matters here.
LEMMA VersionedTimes ==
    ASSUME NEW row \in Task, NEW v, NEW b, b = [row EXCEPT !.version = v]
    PROVE  /\ b.status = row.status /\ b.availableAt = row.availableAt
           /\ b.leaseExp = row.leaseExp
  BY DEF Task

\* What a transaction of the mysql backend has found when it commits.
LEMMA CommitsDecide ==
    ASSUME SInv, TimeInv, Committed = tasks, NEW g \in Goroutine, NEW c, c = calls[g],
           c.op \in WriteOp, c.pc = "begin", NEW t \in TaskId, Commits(g, c, t)
    PROVE  \E event \in EventType :
             /\ events' = [events EXCEPT ![t] = Append(@, event)]
             /\ Decides(c, tasks[t], tasks'[t], event, stamps[t])
<1>1. /\ c.at \in Nat /\ c.row \in Task /\ WriteOK(g, c) /\ CallInTime(c)
      /\ c.op \in {"claim", "update"} => g \in Worker
  BY WritingCall DEF TimeInv
<1>2. StoreTypeOK /\ tasks \in [TaskId -> Task] /\ tasks[t] \in Task
  BY DEF SInv, TypesOK, StoreTypeOK
<1>3. CASE c.op = "create" /\ t = c.task /\ CreateTaskWithEvent(t, c.at)
  <2>1. PICK m \in MaxRetriesOf :
         /\ tasks' = [tasks EXCEPT ![t] = NewTask(m, c.at)]
         /\ events' = [events EXCEPT ![t] = Append(@, "task_created")]
    BY <1>3 DEF CreateTaskWithEvent
  <2>2. tasks[t].status = "absent" /\ tasks'[t] = NewTask(m, c.at)
    BY <1>2, <1>3, <2>1 DEF CreateTaskWithEvent, Exists
  <2>3. NewTask(m, c.at).status = "queued" /\ NewTask(m, c.at).availableAt = c.at
    BY DEF NewTask, NoTask
  <2>4. Decides(c, tasks[t], tasks'[t], "task_created", stamps[t])
    BY <2>2, <2>3 DEF Decides
  <2> QED
    BY <2>1, <2>4, EventTypes
<1>4. CASE c.op = "claim" /\ ClaimNextWithEvent(g, c.at, t)
  <2>1. PICK row \in Task : row = Claimed(tasks[t], g, c.at)
    BY <1>1, <1>2, <1>4, ClaimedType
  <2>2. PICK event : event = ClaimedEvent(tasks[t])
    OBVIOUS
  <2>3. SaveWithEvent(t, row, event)
    BY <1>4, <2>1, <2>2 DEF ClaimNextWithEvent
  <2>4. /\ tasks' = [tasks EXCEPT ![t] = [row EXCEPT !.version = tasks[t].version + 1]]
        /\ events' = [events EXCEPT ![t] = Append(@, event)]
    BY <1>2, <2>3, SavedRow
  <2>5. PICK b : b = [row EXCEPT !.version = tasks[t].version + 1]
    OBVIOUS
  <2>6. tasks'[t] = b /\ b.status = row.status /\ b.leaseExp = row.leaseExp
    BY <1>2, <2>4, <2>5, VersionedTimes
  <2>7. \/ tasks[t].status \in {"queued", "retrying"} /\ tasks[t].availableAt <= c.at
        \/ tasks[t].status = "running" /\ tasks[t].leaseExp <= c.at
    BY <1>4 DEF ClaimNextWithEvent, FirstUnlocked, Recoverable, Due, Expired
  <2>8. event \in ClaimEvent /\ row.status = "running" /\ row.leaseExp = c.at + LeaseDuration
    BY <1>2, <2>1, <2>2, ClaimedLease
  <2>9. Decides(c, tasks[t], tasks'[t], event, stamps[t])
    BY <2>6, <2>7, <2>8 DEF Decides, Waits
  <2> QED
    BY <2>4, <2>8, <2>9, EventTypes
<1>5. CASE c.op = "reap" /\ FailNextExpiredWithEvent(c.at, t)
  <2>1. PICK row : row = [MoveTo(tasks[t], "failed") EXCEPT !.err = LeaseExpiredError]
    OBVIOUS
  <2>2. /\ SaveWithEvent(t, row, "task_failed")
        /\ tasks[t].status = "running" /\ tasks[t].leaseExp <= c.at
    BY <1>5, <2>1 DEF FailNextExpiredWithEvent, FirstUnlocked, Exhausted, Expired
  <2>3. row \in Task /\ row.status = "failed"
    <3>1. RowInOrder(tasks[t])
      BY ListTypes
    <3>2. row \in Task
      BY <1>2, <2>1, <2>2, <3>1, ReapReplaces
    <3>3. row.status = "failed"
      BY <1>2, <2>1 DEF MoveTo, Task
    <3> QED
      BY <3>2, <3>3
  <2>4. /\ tasks' = [tasks EXCEPT ![t] = [row EXCEPT !.version = tasks[t].version + 1]]
        /\ events' = [events EXCEPT ![t] = Append(@, "task_failed")]
    BY <1>2, <2>2, <2>3, SavedRow
  <2>5. PICK b : b = [row EXCEPT !.version = tasks[t].version + 1]
    OBVIOUS
  <2>6. tasks'[t] = b /\ b.status = "failed"
    BY <1>2, <2>3, <2>4, <2>5, VersionedTimes
  <2>7. Decides(c, tasks[t], tasks'[t], "task_failed", stamps[t])
    BY <2>2, <2>6 DEF Decides
  <2> QED
    BY <2>4, <2>7, EventTypes
<1>6. CASE c.op = "cancel" /\ CancelTaskWithEvent(t)
  <2>1. PICK row : row = MoveTo(tasks[t], "canceled")
    OBVIOUS
  <2>2. SaveWithEvent(t, row, "task_canceled")
    BY <1>6, <2>1 DEF CancelTaskWithEvent
  <2>3. row \in Task /\ row.status = "canceled"
    BY <1>2, <2>1, MoveToType DEF Status
  <2>4. /\ tasks' = [tasks EXCEPT ![t] = [row EXCEPT !.version = tasks[t].version + 1]]
        /\ events' = [events EXCEPT ![t] = Append(@, "task_canceled")]
    BY <1>2, <2>2, <2>3, SavedRow
  <2>5. PICK b : b = [row EXCEPT !.version = tasks[t].version + 1]
    OBVIOUS
  <2>6. tasks'[t] = b /\ b.status = "canceled"
    BY <1>2, <2>3, <2>4, <2>5, VersionedTimes
  <2>7. Decides(c, tasks[t], tasks'[t], "task_canceled", stamps[t])
    BY <2>6 DEF Decides
  <2> QED
    BY <2>4, <2>7, EventTypes
<1>7. CASE c.op = "update" /\ t = c.task /\ UpdateTaskWithEvent(t, c.row, c.event)
  <2>1. SaveWithEvent(t, c.row, c.event) /\ tasks[t].version = c.row.version
    BY <1>7 DEF UpdateTaskWithEvent, updateTask
  <2>2. UpdateFenced(c, tasks[t]) /\ EndsInTime(c, tasks[t], stamps[t])
    BY <1>1, <1>7 DEF WriteOK, CallInTime
  <2>3. /\ tasks' = [tasks EXCEPT ![t] = [c.row EXCEPT !.version = tasks[t].version + 1]]
        /\ events' = [events EXCEPT ![t] = Append(@, c.event)]
    BY <1>1, <1>2, <2>1, SavedRow
  <2>4. PICK b : b = [c.row EXCEPT !.version = tasks[t].version + 1]
    OBVIOUS
  <2>5. tasks'[t] = b /\ b.status = c.row.status /\ b.availableAt = c.row.availableAt
    BY <1>1, <1>2, <2>3, <2>4, VersionedTimes
  <2>6. /\ tasks[t].status = "running" /\ c.event \in EventType
        /\ Announced(c.event) = c.row.status
    BY <2>1, <2>2 DEF UpdateFenced
  <2>7. Decides(c, tasks[t], tasks'[t], c.event, stamps[t])
    BY <2>1, <2>2, <2>5, <2>6 DEF Decides, EndsInTime, Delayed
  <2> QED
    BY <2>3, <2>6, <2>7
<1> QED
  BY <1>3, <1>4, <1>5, <1>6, <1>7 DEF Commits

\* The row that the memory backend stores.
WrittenRow(w) ==
    IF Exists(w[1]) THEN [w[2] EXCEPT !.version = tasks[w[1]].version + 1] ELSE w[2]

\* What a call of the memory backend has found when it writes under the locks.
LEMMA WritesDecide ==
    ASSUME SInv, TimeInv, Committed = tasks, NEW g \in Goroutine, NEW c, c = calls[g],
           c.op \in WriteOp, c.pc # "written", NEW w \in Writes(g, c),
           NEW b, b = WrittenRow(w)
    PROVE  Decides(c, tasks[w[1]], b, w[3], stamps[w[1]])
<1>1. /\ c.at \in Nat /\ c.row \in Task /\ WriteOK(g, c) /\ CallInTime(c)
      /\ c.op \in {"claim", "update"} => g \in Worker
      /\ c.op \in {"create", "cancel"} => c.task \in TaskId
  BY WritingCall DEF TimeInv
<1>2. \A t \in TaskId : tasks[t] \in Task /\ RowInOrder(tasks[t])
  BY DEF SInv, RowsInStep
<1>3. CASE c.op = "create"
  <2>1. PICK m \in MaxRetriesOf : w = <<c.task, NewTask(m, c.at), "task_created">>
    BY <1>3 DEF Writes
  <2>2. tasks[c.task].status = "absent"
    BY <1>1, <1>3 DEF WriteOK
  <2>3. NewTask(m, c.at).status = "queued" /\ NewTask(m, c.at).availableAt = c.at
    BY DEF NewTask, NoTask
  <2>4. w[1] = c.task /\ w[3] = "task_created" /\ b = NewTask(m, c.at)
    BY <2>1, <2>2 DEF Exists, WrittenRow
  <2> QED
    BY <2>2, <2>3, <2>4 DEF Decides
<1>4. CASE c.op = "claim"
  <2>1. PICK t \in claimNextLocked(c.at) :
          w = <<t, Claimed(tasks[t], g, c.at), ClaimedEvent(tasks[t])>>
    BY <1>4 DEF Writes
  <2>2. /\ t \in TaskId
        /\ \/ tasks[t].status \in {"queued", "retrying"} /\ tasks[t].availableAt <= c.at
           \/ tasks[t].status = "running" /\ tasks[t].leaseExp <= c.at
    BY DEF claimNextLocked, Recoverable, Due, Expired
  <2>3. PICK row \in Task : row = Claimed(tasks[t], g, c.at)
    BY <1>1, <1>2, <1>4, <2>2, ClaimedType
  <2>4. w[1] = t /\ w[2] = row /\ w[3] = ClaimedEvent(tasks[t])
    BY <2>1, <2>3
  <2>5. b = [row EXCEPT !.version = tasks[t].version + 1]
    BY <2>2, <2>4 DEF Exists, WrittenRow
  <2>6. b.status = row.status /\ b.leaseExp = row.leaseExp
    BY <2>5, VersionedTimes
  <2>7. w[3] \in ClaimEvent /\ row.status = "running" /\ row.leaseExp = c.at + LeaseDuration
    BY <1>2, <2>2, <2>3, <2>4, ClaimedLease
  <2> QED
    BY <2>2, <2>4, <2>6, <2>7 DEF Decides, Waits
<1>5. CASE c.op = "reap"
  <2>1. PICK t \in failNextExpiredLocked(c.at) :
          w = <<t, [MoveTo(tasks[t], "failed") EXCEPT !.err = LeaseExpiredError],
                "task_failed">>
    BY <1>5 DEF Writes
  <2>2. t \in TaskId /\ tasks[t].status = "running" /\ tasks[t].leaseExp <= c.at
    BY DEF failNextExpiredLocked, Exhausted, Expired
  <2>3. PICK row : row = [MoveTo(tasks[t], "failed") EXCEPT !.err = LeaseExpiredError]
    OBVIOUS
  <2>4. row \in Task
    BY <1>2, <2>2, <2>3, ReapReplaces
  <2>5. row.status = "failed"
    BY <1>2, <2>2, <2>3 DEF MoveTo, Task
  <2>6. w[1] = t /\ w[2] = row /\ w[3] = "task_failed"
    BY <2>1, <2>3
  <2>7. b = [row EXCEPT !.version = tasks[t].version + 1]
    BY <2>2, <2>6 DEF Exists, WrittenRow
  <2>8. b.status = "failed"
    BY <2>4, <2>5, <2>7, VersionedTimes
  <2> QED
    BY <2>2, <2>6, <2>8 DEF Decides
<1>6. CASE c.op = "cancel"
  <2>1. PICK t \in {u \in {c.task} : Cancelable(u)} :
          w = <<t, MoveTo(tasks[t], "canceled"), "task_canceled">>
    BY <1>6 DEF Writes
  <2>2. t \in TaskId /\ tasks[t].status \in {"queued", "retrying", "running"}
    BY <1>1, <1>6 DEF Cancelable
  <2>3. PICK row : row = MoveTo(tasks[t], "canceled")
    OBVIOUS
  <2>4. row \in Task /\ row.status = "canceled"
    BY <1>2, <2>2, <2>3, MoveToType DEF Status
  <2>5. w[1] = t /\ w[2] = row /\ w[3] = "task_canceled"
    BY <2>1, <2>3
  <2>6. b = [row EXCEPT !.version = tasks[t].version + 1]
    BY <2>2, <2>5 DEF Exists, WrittenRow
  <2>7. b.status = "canceled"
    BY <2>4, <2>6, VersionedTimes
  <2> QED
    BY <2>5, <2>7 DEF Decides
<1>7. CASE c.op = "update"
  <2>1. PICK t \in {u \in {c.task} : updateTask(u, c.row)} : w = <<t, c.row, c.event>>
    BY <1>7 DEF Writes
  <2>2. t = c.task /\ tasks[t].version = c.row.version /\ Exists(t)
    BY DEF updateTask
  <2>3. /\ t \in TaskId /\ UpdateFenced(c, tasks[t]) /\ EndsInTime(c, tasks[t], stamps[t])
    BY <1>1, <1>7, <2>2 DEF WriteOK, CallInTime
  <2>4. w[1] = t /\ w[2] = c.row /\ w[3] = c.event
    BY <2>1
  <2>5. b = [c.row EXCEPT !.version = tasks[t].version + 1]
    BY <2>2, <2>4 DEF WrittenRow
  <2>6. b.status = c.row.status /\ b.availableAt = c.row.availableAt
    BY <1>1, <2>5, VersionedTimes
  <2>7. tasks[t].status = "running" /\ Announced(c.event) = c.row.status
    BY <2>2, <2>3 DEF UpdateFenced
  <2> QED
    BY <2>2, <2>3, <2>4, <2>6, <2>7 DEF Decides, EndsInTime, Delayed
<1> QED
  BY <1>3, <1>4, <1>5, <1>6, <1>7 DEF WriteOp

-----------------------------------------------------------------------------
(* The steps.                                                              *)

\* A call that has nothing to say about time.
LEMMA Timeless ==
    ASSUME NEW c, c.op \notin WriteOp, c.op = "detail" => c.pc # "done"
    PROVE  CallInTime(c)
  BY DEF CallInTime, WriteOp

\* The call of g changes, and nothing that others see.
LEMMA QuietTimed ==
    ASSUME SInv, NEW g \in Goroutine, NEW c, now' = now, events' = events, stamps' = stamps,
           Committed' = Committed, calls' = [calls EXCEPT ![g] = c], CallInTime(c)'
    PROVE  TimedStep(g)
<1>1. calls'[g] = c /\ now \in Nat
  BY DEF SInv, TypesOK, StoreTypeOK
<1>2. CallInTime(calls[g])'
  BY <1>1 DEF CallInTime
<1>3. \A t \in TaskId : LeaseKept(t)
  BY DEF LeaseKept
<1> QED
  BY <1>1, <1>2, <1>3 DEF TimedStep

\* The same for a call that has not written a row.
LEMMA UnwrittenTimed ==
    ASSUME SInv, NEW g \in Goroutine, NEW c, now' = now, events' = events, stamps' = stamps,
           tasks' = tasks, taskMu' = taskMu, calls' = [calls EXCEPT ![g] = c],
           calls[g].pc # "written", c.pc # "written", CallInTime(c)'
    PROVE  TimedStep(g)
<1>1. calls'[g] = c /\ \A h \in Goroutine \ {g} : calls'[h] = calls[h]
  BY DEF SInv, TypesOK
<1>2. taskMu \in Goroutine \union {Free}
  BY DEF SInv, LocksOK
<1>3. Committed' = Committed
  <2>1. CASE taskMu = g
    BY <1>1, <2>1 DEF Committed
  <2>2. CASE taskMu # g
    BY <1>1, <1>2, <2>2, CommittedSame
  <2> QED
    BY <2>1, <2>2
<1> QED
  BY <1>3, QuietTimed

\* The clock that a call reads is off by at most the skew.
LEMMA ClockRead ==
    ASSUME SInv, NEW at \in LocalTime
    PROVE  /\ at \in Nat /\ now \in Nat /\ at <= now + Skew /\ now <= at + Skew
           /\ now + Skew <= at + Spread /\ now + LeaseDuration <= at + LeaseDuration + Skew
<1>1. now \in Nat /\ LeaseDuration \in Nat
  BY StoreAssumption DEF SInv, TypesOK, StoreTypeOK
<1>2. at \in Nat /\ at <= now + Skew /\ now <= at + Skew
  BY <1>1, SpreadNat DEF LocalTime
<1> QED
  BY <1>1, <1>2, SpreadNat

\* An ending of an attempt gives the task up; a retry waits for some time.
LEMMA EndingInTime ==
    ASSUME NEW e \in Execution, NEW at \in Nat, NEW o \in Endings(e, at)
    PROVE  o[1].status \notin {"queued", "running"} /\ Delayed(at, o[1])
<1>1. e.row \in Task
  BY DEF Execution
<1>2. {"succeeded", "partially_succeeded", "failed", "retrying"} \subseteq Status
  BY DEF Status
<1>3. ASSUME NEW s \in {"succeeded", "partially_succeeded", "failed"}, NEW r, NEW x, NEW event,
             o = <<FinishedRow(e.row, s, r, x), event>>
      PROVE  o[1].status = s
  <2>0. s \in Status
    BY <1>2
  <2>1. MoveTo(e.row, s) \in Task /\ MoveTo(e.row, s).status = s
    BY <1>1, <2>0, MoveToType
  <2>2. PICK moved \in Task : moved = MoveTo(e.row, s)
    BY <2>1
  <2>3. [moved EXCEPT !.result = r, !.progress = 100, !.err = x].status = moved.status
    BY DEF Task
  <2> QED
    BY <1>3, <2>1, <2>2, <2>3 DEF FinishedRow
<1>4. ASSUME NEW x, o = FailureRow(e.row, x)
      PROVE  o[1].status = "failed"
  <2>1. MoveTo(e.row, "failed") \in Task /\ MoveTo(e.row, "failed").status = "failed"
    BY <1>1, <1>2, MoveToType
  <2>2. PICK moved \in Task : moved = MoveTo(e.row, "failed")
    BY <2>1
  <2>3. [moved EXCEPT !.err = x].status = moved.status
    BY DEF Task
  <2> QED
    BY <1>4, <2>1, <2>2, <2>3 DEF FailureRow
<1>5. ASSUME NEW f, NEW d \in RetryDelay, o = <<RetryRow(e.row, f, at + d), "task_retrying">>
      PROVE  o[1].status = "retrying" /\ Delayed(at, o[1])
  <2>1. PICK moved \in Task : moved = MoveTo(e.row, "retrying") /\ moved.status = "retrying"
    BY <1>1, <1>2, MoveToType
  <2>2. PICK row : row = [moved EXCEPT !.retryCount = @ + 1, !.availableAt = at + d]
    OBVIOUS
  <2>3. /\ row = ScheduleRetry(e.row, at + d)
        /\ row.status = "retrying" /\ row.availableAt = at + d
    BY <2>1, <2>2 DEF ScheduleRetry, Task
  <2>4. /\ [row EXCEPT !.err = CodeOnly(f)].status = row.status
        /\ [row EXCEPT !.err = CodeOnly(f)].availableAt = row.availableAt
    BY <2>1, <2>2 DEF Task
  <2>5. at < at + d /\ (Apart => at + Spread < at + d)
    BY RetryAssumption, SpreadNat DEF Apart
  <2>6. o[1].status = "retrying" /\ o[1].availableAt = at + d
    BY <1>5, <2>3, <2>4 DEF RetryRow
  <2> QED
    BY <2>5, <2>6 DEF Delayed
<1>6. CASE \E x : o = FailureRow(e.row, x)
  BY <1>4, <1>6 DEF Delayed
<1>7. CASE o \in FinishOutcomes(e.row)
  <2>1. \E s \in {"succeeded", "partially_succeeded", "failed"} : \E r, x, event :
          o = <<FinishedRow(e.row, s, r, x), event>>
    BY <1>7 DEF FinishOutcomes
  <2> QED
    BY <1>3, <2>1 DEF Delayed
<1>8. ASSUME NEW f \in Failure, o \in ErrorOutcomes(e.row, f, at)
      PROVE  o[1].status \notin {"queued", "running"} /\ Delayed(at, o[1])
  <2>1. CASE o \in Schedule(e.row, f, at)
    <3>1. PICK d \in RetryDelay : o = <<RetryRow(e.row, f, at + d), "task_retrying">>
      BY <2>1 DEF Schedule
    <3>2. o[1].status = "retrying" /\ Delayed(at, o[1])
      BY <1>5, <3>1
    <3> QED
      BY <3>2
  <2>2. CASE o \notin Schedule(e.row, f, at)
    <3>1. o = FailureRow(e.row, CodeOnly(f))
      BY <1>8, <2>2 DEF ErrorOutcomes
    <3> QED
      BY <1>4, <3>1 DEF Delayed
  <2> QED
    BY <2>1, <2>2
<1> QED
  BY <1>6, <1>7, <1>8 DEF Endings

\* A call begins.
LEMMA StartTimed ==
    ASSUME SInv, NEW g \in Goroutine, NEW c, Start(g, c), c.pc # "written",
           CallInTime(c)'
    PROVE  TimedStep(g)
<1>1. /\ tasks' = tasks /\ events' = events /\ stamps' = stamps /\ taskMu' = taskMu
      /\ now' = now /\ calls[g] = NoCall /\ calls' = [calls EXCEPT ![g] = c]
  BY DEF Start, storeVars, memoryVars
<1>2. calls[g].pc # "written"
  BY <1>1 DEF NoCall
<1> QED
  BY <1>1, <1>2, UnwrittenTimed

\* What is past stays past.
LEMMA PastLater ==
    ASSUME NEW times \in Seq(Nat), NEW clock \in Nat, NEW at \in Nat,
           Past(times, clock + Skew), clock + Skew <= at + Spread
    PROVE  Past(times, at + Spread)
<1>1. ASSUME NEW i \in 1..Len(times) PROVE times[i] <= at + Spread
  <2>1. PICK x \in Nat : x = times[i]
    OBVIOUS
  <2>2. x <= clock + Skew
    BY <2>1 DEF Past
  <2> QED
    BY <2>1, <2>2, SpreadNat
<1> QED
  BY <1>1 DEF Past

\* A call that is going to write begins, with the time of its clock.
LEMMA StartWriteTimed ==
    ASSUME SInv, NEW g \in Goroutine, NEW op, NEW t, NEW row, NEW event,
           NEW at \in LocalTime, StartWriting(g, op, t, row, event, at),
           op = "update" => /\ row.status \notin {"queued", "running"}
                            /\ Delayed(at, row)
                            /\ t \in TaskId /\ Past(stamps[t], at + Spread)
    PROVE  TimedStep(g)
<1>1. PICK c : c = [op |-> op, pc |-> "begin", at |-> at, task |-> t, row |-> row,
                    event |-> event]
  OBVIOUS
<1>2. Start(g, c)
  BY <1>1 DEF StartWriting
<1>3. /\ c.op = op /\ c.pc = "begin" /\ c.at = at /\ c.task = t /\ c.row = row
  BY <1>1
<1>4. now' = now /\ stamps' = stamps /\ at <= now + Skew
  BY <1>2, ClockRead DEF Start
<1>5. op = "update" => EndsInTime(c, Committed[t], stamps[t])'
  BY <1>3, <1>4 DEF EndsInTime, Delayed
<1>6. CallInTime(c)'
  BY <1>3, <1>4, <1>5 DEF CallInTime
<1> QED
  BY <1>2, <1>3, <1>6, StartTimed

\* A worker polls, or ends its attempt.
LEMMA StartWorkerTimed ==
    ASSUME SInv, TimeInv, NEW w \in Internal, StartWorker(w)
    PROVE  TimedStep(w)
<1>1. w \in Goroutine
  BY DEF Goroutine
<1>2. PICK at \in LocalTime :
      \/ iw[w].pc = "poll" /\ StartWriting(w, "claim", 0, NoTask, "", at)
      \/ /\ iw[w].pc = "execute" /\ iw[w].lease # "lost"
         /\ \E o \in Endings(iw[w], at) :
              StartWriting(w, "update", iw[w].task, o[1], o[2], at)
  BY DEF StartWorker
<1>3. at \in Nat /\ now \in Nat /\ now + Skew <= at + Spread
  BY ClockRead
<1>4. CASE StartWriting(w, "claim", 0, NoTask, "", at)
  BY <1>1, <1>4, StartWriteTimed
<1>5. CASE /\ iw[w].pc = "execute"
           /\ \E o \in Endings(iw[w], at) :
                StartWriting(w, "update", iw[w].task, o[1], o[2], at)
  <2>1. PICK o \in Endings(iw[w], at) :
          StartWriting(w, "update", iw[w].task, o[1], o[2], at)
    BY <1>5
  <2>2. iw[w] \in Execution /\ iw[w].task \in TaskId
    BY <1>5, ExecutionParts DEF SInv, TypesOK
  <2>3. o[1].status \notin {"queued", "running"} /\ Delayed(at, o[1])
    BY <1>3, <2>2, EndingInTime
  <2>4. PICK t, row, event : t = iw[w].task /\ row = o[1] /\ event = o[2]
    OBVIOUS
  <2>5. t \in TaskId /\ Past(stamps[t], now + Skew) /\ stamps[t] \in Seq(Nat)
    BY <2>2, <2>4, ListTypes DEF TimeInv
  <2>6. Past(stamps[t], at + Spread)
    BY <1>3, <2>5, PastLater
  <2> QED
    BY <1>1, <2>1, <2>3, <2>4, <2>5, <2>6, StartWriteTimed
<1> QED
  BY <1>2, <1>4, <1>5

\* The reaper polls.
LEMMA StartReaperTimed ==
    ASSUME SInv, StartReaper
    PROVE  TimedStep(Reaper)
<1>1. PICK at \in LocalTime : StartWriting(Reaper, "reap", 0, NoTask, "", at)
  BY DEF StartReaper
<1>2. Reaper \in Goroutine
  BY DEF Goroutine
<1> QED
  BY <1>1, <1>2, StartWriteTimed

\* A client creates or cancels a task.
LEMMA StartHandlerTimed ==
    ASSUME SInv, NEW h \in Handler, StartWrite(h)
    PROVE  TimedStep(h)
<1>1. PICK at \in LocalTime, t \in TaskId :
      \/ StartWriting(h, "create", t, NoTask, "", at)
      \/ StartWriting(h, "cancel", t, NoTask, "", at)
  BY DEF StartWrite
<1>2. h \in Goroutine
  BY DEF Goroutine
<1> QED
  BY <1>1, <1>2, StartWriteTimed

\* A client asks for something.
LEMMA StartReadTimed ==
    ASSUME SInv, NEW h \in Handler, StartRead(h)
    PROVE  TimedStep(h)
<1>1. PICK c : /\ Start(h, c)
               /\ c.op \in {"detail", "walk", "stats"}
               /\ c.pc \in {"row", "page", "counts"}
  <2>1. CASE \E t \in TaskId : Start(h, Detail(t))
    BY <2>1 DEF Detail
  <2>2. CASE \E f \in Filter :
               Start(h, [op |-> "walk", pc |-> "page", filter |-> f, cursor |-> NoCursor,
                         pages |-> <<>>, base |-> Versions])
    <3>1. PICK f \in Filter :
            Start(h, [op |-> "walk", pc |-> "page", filter |-> f, cursor |-> NoCursor,
                      pages |-> <<>>, base |-> Versions])
      BY <2>2
    <3>2. PICK c : c = [op |-> "walk", pc |-> "page", filter |-> f, cursor |-> NoCursor,
                        pages |-> <<>>, base |-> Versions]
      OBVIOUS
    <3>3. c.op = "walk" /\ c.pc = "page" /\ Start(h, c)
      BY <3>1, <3>2
    <3> QED
      BY <3>3
  <2>3. CASE \E f \in Filter : \E at \in LocalTime :
               Start(h, [op |-> "stats", pc |-> "counts", filter |-> f, at |-> at,
                         counts |-> [s \in Status |-> 0],
                         available |-> [s \in Status |-> 0], base |-> Versions])
    <3>1. PICK f \in Filter, at \in LocalTime :
            Start(h, [op |-> "stats", pc |-> "counts", filter |-> f, at |-> at,
                      counts |-> [s \in Status |-> 0],
                      available |-> [s \in Status |-> 0], base |-> Versions])
      BY <2>3
    <3>2. PICK c : c = [op |-> "stats", pc |-> "counts", filter |-> f, at |-> at,
                        counts |-> [s \in Status |-> 0],
                        available |-> [s \in Status |-> 0], base |-> Versions]
      OBVIOUS
    <3>3. c.op = "stats" /\ c.pc = "counts" /\ Start(h, c)
      BY <3>1, <3>2
    <3> QED
      BY <3>3
  <2> QED
    BY <2>1, <2>2, <2>3 DEF StartRead
<1>2. c.op \notin WriteOp /\ c.pc # "done" /\ c.pc # "written" /\ c.op # "update"
  BY <1>1 DEF WriteOp
<1>3. CallInTime(c)'
  BY <1>2 DEF CallInTime
<1> QED
  BY <1>1, <1>2, <1>3, StartTimed DEF Goroutine

\* A client takes its answer, or asks for the next page.
LEMMA AnsweredTimed ==
    ASSUME SInv, NEW h \in Handler, Answered(h)
    PROVE  TimedStep(h)
<1>1. /\ tasks' = tasks /\ events' = events /\ stamps' = stamps /\ taskMu' = taskMu
      /\ now' = now /\ calls[h].pc # "written"
  BY DEF Answered, storeVars, memoryVars
<1>2. h \in Goroutine /\ CallTyped(h, calls[h])
  BY DEF Goroutine, SInv, CallOK
<1>3. PICK c : /\ calls' = [calls EXCEPT ![h] = c]
               /\ c.op \notin WriteOp /\ c.pc # "written" /\ c.pc # "done"
  <2>1. CASE calls' = [calls EXCEPT ![h] = NoCall]
    <3>1. NoCall.op \notin WriteOp /\ NoCall.pc # "written" /\ NoCall.pc # "done"
      BY DEF NoCall, WriteOp
    <3> QED
      BY <2>1, <3>1, Zenon
  <2>2. CASE calls[h].pc = "pause" /\ calls' = [calls EXCEPT ![h].pc = "page"]
    <3>1. PICK b \in WalkCall : b = calls[h]
      BY <1>2, <2>2, CallKinds
    <3>2. PICK c : c = [b EXCEPT !.pc = "page"]
      OBVIOUS
    <3>3. c.op = "walk" /\ c.pc = "page"
      BY <3>1, <3>2 DEF WalkCall
    <3>4. calls' = [calls EXCEPT ![h] = c]
      BY <2>2, <3>1, <3>2
    <3> QED
      BY <3>3, <3>4 DEF WriteOp
  <2> QED
    BY <2>1, <2>2 DEF Answered
<1>4. CallInTime(c)'
  BY <1>3 DEF CallInTime, WriteOp
<1> QED
  BY <1>1, <1>2, <1>3, <1>4, UnwrittenTimed

\* Nothing but the clock and the copies of workers changes.
LEMMA IdleTimed ==
    ASSUME SInv, StepOK(Reaper), tasks' = tasks, events' = events, stamps' = stamps,
           taskMu' = taskMu, eventMu' = eventMu, calls' = calls, now <= now'
    PROVE  TimedStep(Reaper)
<1>1. Committed' = Committed
  BY CommittedSame
<1>2. \A t \in TaskId : LeaseKept(t)
  BY <1>1 DEF LeaseKept
<1>3. Reaper \in Goroutine
  BY DEF Goroutine
<1>4. Leaves(Reaper)
  BY <1>1, <1>3, CreationsWait DEF Leaves
<1> QED
  BY <1>2, <1>4 DEF TimedStep

\* Time passes.
LEMMA TickTimed == ASSUME SInv, Tick PROVE TimedStep(Reaper)
<1>1. /\ tasks' = tasks /\ events' = events /\ stamps' = stamps /\ calls' = calls
      /\ taskMu' = taskMu /\ eventMu' = eventMu /\ now' = now + 1
  BY DEF Tick, storeVars, memoryVars
<1>2. now <= now'
  BY <1>1 DEF SInv, TypesOK, StoreTypeOK
<1> QED
  BY <1>1, <1>2, TickStep, IdleTimed

\* A worker gives an attempt up.
LEMMA AbandonTimed == ASSUME SInv, NEW w \in Internal, Abandon(w) PROVE TimedStep(Reaper)
<1>1. /\ tasks' = tasks /\ events' = events /\ stamps' = stamps /\ calls' = calls
      /\ taskMu' = taskMu /\ eventMu' = eventMu /\ now' = now
  BY DEF Abandon, AbandonExecution, storeVars, memoryVars
<1>2. now <= now'
  BY <1>1 DEF SInv, TypesOK, StoreTypeOK
<1> QED
  BY <1>1, <1>2, AbandonStep, IdleTimed

\* A renewal counts from the present of its worker.
LEMMA HeartbeatTimed ==
    ASSUME SInv, NEW w \in Internal, Heartbeat(w)
    PROVE  TimedStep(Reaper)
<1>1. /\ stamps' = stamps /\ taskMu' = taskMu /\ eventMu' = eventMu /\ calls' = calls
      /\ now' = now /\ now \in Nat /\ now <= now' /\ iw[w].pc = "execute"
  BY DEF Heartbeat, maintainLease, memoryVars, SInv, TypesOK, StoreTypeOK
<1>2. taskMu = Free /\ Committed = tasks
  BY ReadersSeeCommitted DEF Heartbeat
<1>3. CASE UNCHANGED storeVars
  BY <1>1, <1>3, HeartbeatStep, IdleTimed DEF storeVars
<1>4. ASSUME NEW at \in LocalTime, RenewLease(iw[w].task, w, at)
      PROVE  TimedStep(Reaper)
  <2>1. iw[w].task \in TaskId /\ tasks \in [TaskId -> Task]
    BY <1>1, ExecutionParts DEF SInv, TypesOK, StoreTypeOK
  <2>2. PICK t \in TaskId : t = iw[w].task
    BY <2>1
  <2>3. /\ tasks' = [tasks EXCEPT ![t].leaseExp = at + LeaseDuration] /\ events' = events
        /\ tasks[t].status = "running"
    BY <1>4, <2>2 DEF RenewLease, Renewable
  <2>4. Committed' = tasks'
    BY <1>1, <1>2 DEF Committed
  <2>5. now + LeaseDuration <= at + LeaseDuration + Skew
    BY ClockRead
  <2>6. \A u \in TaskId : LeaseKept(u)
    BY <1>2, <2>1, <2>3, <2>4, <2>5 DEF LeaseKept, Task
  <2>7. Leaves(Reaper)
    <3>1. Reaper # Free /\ Reaper \in Goroutine
      BY GoroutineAssumption DEF Goroutine
    <3>2. \A u \in TaskId : tasks[u].status = "absent" => tasks'[u].status = "absent"
      BY <2>1, <2>3
    <3> QED
      BY <1>1, <1>2, <2>4, <3>1, <3>2, CreationsWait DEF Leaves
  <2> QED
    BY <1>1, <2>3, <2>6, <2>7 DEF TimedStep
<1> QED
  BY <1>3, <1>4 DEF Heartbeat, maintainLease

\* Among events that differ in time in the order in which they were stored,
\* the scan finds the last one.
LEMMA ScanFindsLast ==
    ASSUME NEW t, NEW indexes, indexes \subseteq Nat, NEW stable, NEW f \in Scan(t, indexes, stable),
           \A i \in indexes : stamps[t][i] \in Nat,
           \A i, j \in indexes : i < j => stamps[t][i] < stamps[t][j]
    PROVE  f = LastIn(indexes)
<1>1. CASE indexes = {}
  BY <1>1 DEF Scan, LastIn
<1>2. CASE indexes # {}
  <2>1. f \in indexes /\ \A j \in indexes : stamps[t][j] <= stamps[t][f]
    BY <1>2 DEF Scan, FoundFirst
  <2>2. ASSUME NEW j \in indexes PROVE j <= f
    <3>1. j \in Nat /\ f \in Nat
      BY <2>1
    <3>2. f < j => stamps[t][f] < stamps[t][j]
      BY <2>1
    <3>3. stamps[t][j] <= stamps[t][f] /\ stamps[t][j] \in Nat /\ stamps[t][f] \in Nat
      BY <2>1
    <3> QED
      BY <3>1, <3>2, <3>3
  <2>3. \A i \in indexes : (\A j \in indexes : j <= i) => i = f
    <3>1. ASSUME NEW i \in indexes, \A j \in indexes : j <= i PROVE i = f
      <4>1. f <= i /\ i <= f /\ i \in Nat /\ f \in Nat
        BY <2>1, <2>2, <3>1
      <4> QED
        BY <4>1
    <3> QED
      BY <3>1
  <2>4. (CHOOSE i \in indexes : \A j \in indexes : j <= i) = f
    BY <2>1, <2>2, <2>3
  <2>5. LastIn(indexes) = (CHOOSE i \in indexes : \A j \in indexes : j <= i)
    BY <1>2, Zenon DEF LastIn
  <2> QED
    BY <2>4, <2>5, Zenon
<1> QED
  BY <1>1, <1>2

\* The diagnostics of a detail are the last ones.
LEMMA ReadDetailTimed ==
    ASSUME SInv, TimeInv, NEW g \in Goroutine, calls[g].op = "detail",
           ReadDetail(g, calls[g]),
           UNCHANGED <<storeVars, stamps, iw, up, memoryVars, now, crashes, backend>>
    PROVE  TimedStep(g)
<1>1. PICK b : b = calls[g]
  OBVIOUS
<1>2. b \in DetailCall /\ b.op = "detail"
  BY <1>1, CallKinds DEF SInv, CallOK
<1>3. PICK t \in TaskId : t = b.task
  BY <1>2 DEF DetailCall
<1>4. /\ tasks' = tasks /\ events' = events /\ stamps' = stamps /\ taskMu' = taskMu
      /\ now' = now
  BY DEF storeVars, memoryVars
<1>5. CASE /\ b.pc = "row"
           /\ calls' = [calls EXCEPT ![g].pc = "events",
                                     ![g].version = tasks[b.task].version,
                                     ![g].owner = tasks[b.task].owner]
  <2>1. PICK c : c = [b EXCEPT !.pc = "events", !.version = tasks[b.task].version,
                               !.owner = tasks[b.task].owner]
    OBVIOUS
  <2>2. calls' = [calls EXCEPT ![g] = c]
    BY <1>1, <1>5, <2>1
  <2>3. c.op = "detail" /\ c.pc = "events"
    BY <1>2, <2>1 DEF DetailCall
  <2>4. CallInTime(c)'
    BY <2>3 DEF CallInTime, WriteOp
  <2> QED
    BY <1>1, <1>4, <1>5, <2>2, <2>3, <2>4, UnwrittenTimed
<1>6. ASSUME NEW f \in populateFailureDiagnostics(b.task, backend = "memory"),
             NEW k \in populateWorkerDiagnostics(b.task, b.owner, backend = "memory"),
             b.pc = "events",
             calls' = [calls EXCEPT ![g].pc = "done", ![g].seen = Len(events[b.task]),
                                    ![g].failure = f, ![g].claim = k]
      PROVE  TimedStep(g)
  <2>1. PICK c : c = [b EXCEPT !.pc = "done", !.seen = Len(events[b.task]),
                               !.failure = f, !.claim = k]
    OBVIOUS
  <2>2. calls' = [calls EXCEPT ![g] = c]
    BY <1>1, <1>6, <2>1
  <2>3. /\ c.op = "detail" /\ c.pc = "done" /\ c.task = t /\ c.owner = b.owner
        /\ c.seen = Len(events[t]) /\ c.failure = f /\ c.claim = k
    BY <1>2, <1>3, <2>1 DEF DetailCall
  <2>4. /\ events[t] \in Seq(EventType) /\ stamps[t] \in Seq(Nat)
        /\ Len(stamps[t]) = Len(events[t])
    BY ListTypes
  <2>5. TrailInOrder(events[t], stamps[t])
    BY DEF TimeInv, Timely
  <2>6. PICK n \in Nat : n = Len(events[t])
    BY <2>4
  <2>7. DOMAIN events[t] = 1..n /\ \A i \in 1..n : stamps[t][i] \in Nat
    BY <2>4, <2>6
  <2>8. Apart => \A i, j \in 1..n :
          i < j /\ OneKind(events[t][i], events[t][j]) => stamps[t][i] < stamps[t][j]
    BY <2>5, <2>6 DEF TrailInOrder
  <2>9. PICK coded, naming : coded = CodedFailure(t) /\ naming = NamesWorker(t)
    OBVIOUS
  <2>10. /\ coded = {i \in DOMAIN events[t] : events[t][i] = "task_retrying"}
         /\ naming = {i \in DOMAIN events[t] : events[t][i] \in ClaimEvent}
    BY <2>9 DEF CodedFailure, FailureEvent, NamesWorker
  <2>11. /\ coded \subseteq 1..n /\ naming \subseteq 1..n
         /\ \A i \in coded : events[t][i] = "task_retrying"
         /\ \A i \in naming : events[t][i] \in ClaimEvent
    BY <2>7, <2>10
  <2>12. Apart => /\ \A i, j \in coded : i < j => stamps[t][i] < stamps[t][j]
                  /\ \A i, j \in naming : i < j => stamps[t][i] < stamps[t][j]
    BY <2>8, <2>11 DEF OneKind
  <2>13. /\ coded \subseteq Nat /\ naming \subseteq Nat
         /\ \A i \in coded : stamps[t][i] \in Nat
         /\ \A i \in naming : stamps[t][i] \in Nat
    BY <2>7, <2>11
  <2>14. PICK stable : stable = (backend = "memory")
    OBVIOUS
  <2>15. f \in Scan(t, coded, stable)
    BY <1>3, <1>6, <2>9, <2>14 DEF populateFailureDiagnostics
  <2>16. b.owner = NoWorker => k \in Scan(t, naming, stable)
    BY <1>3, <1>6, <2>9, <2>14 DEF populateWorkerDiagnostics
  <2>17. Apart => f = LastIn(coded)
    BY <2>12, <2>13, <2>15, ScanFindsLast
  <2>18. Apart /\ b.owner = NoWorker => k = LastIn(naming)
    BY <2>12, <2>13, <2>16, ScanFindsLast
  <2>19. coded \intersect 1..n = coded /\ naming \intersect 1..n = naming
    BY <2>11, Zenon
  <2>20. ASSUME Apart PROVE TookLatest(c, events[t])
    <3>1. c.seen <= Len(events[t])
      BY <2>3, <2>6
    <3>2. c.failure = LastIn(coded \intersect 1..c.seen)
      BY <2>3, <2>6, <2>17, <2>19, <2>20
    <3>3. c.owner = NoWorker => c.claim = LastIn(naming \intersect 1..c.seen)
      BY <2>3, <2>6, <2>18, <2>19, <2>20
    <3> QED
      BY <2>10, <3>1, <3>2, <3>3, Zenon DEF TookLatest
  <2>21. CallInTime(c)'
    BY <1>4, <2>3, <2>20 DEF CallInTime, WriteOp
  <2> QED
    BY <1>1, <1>4, <1>6, <2>2, <2>3, <2>21, UnwrittenTimed
<1>7. ReadDetail(g, b)
  BY <1>1
<1> QED
  BY <1>5, <1>6, <1>7 DEF ReadDetail

\* Lists and statistics have nothing to do with the order of events.
LEMMA OtherReadTimed ==
    ASSUME SInv, NEW g \in Goroutine,
           \/ calls[g].op = "walk" /\ ReadPage(g, calls[g])
           \/ calls[g].op = "stats" /\ (QueryStats(g, calls[g]) \/ SnapshotStats(g, calls[g])),
           UNCHANGED <<storeVars, stamps, iw, up, memoryVars, now, crashes, backend>>
    PROVE  TimedStep(g)
<1>1. PICK b : b = calls[g]
  OBVIOUS
<1>2. /\ tasks' = tasks /\ events' = events /\ stamps' = stamps /\ taskMu' = taskMu
      /\ now' = now
  BY DEF storeVars, memoryVars
<1>3. b.op \in {"walk", "stats"} /\ b \in WalkCall \union StatsCall
  BY <1>1, CallKinds DEF SInv, CallOK
<1>4. b.pc # "written"
  BY <1>3 DEF WalkCall, StatsCall
<1>5. ASSUME NEW c, calls' = [calls EXCEPT ![g] = c], c.op = b.op, c.pc # "written"
      PROVE  TimedStep(g)
  <2>1. CallInTime(c)'
    BY <1>3, <1>5 DEF CallInTime, WriteOp
  <2> QED
    BY <1>1, <1>2, <1>4, <1>5, <2>1, UnwrittenTimed
<1>6. CASE b.op = "walk" /\ ReadPage(g, b)
  <2>1. PICK p \in {"pause", "done"} : \E next, pages :
          calls' = [calls EXCEPT ![g] = [b EXCEPT !.pc = p, !.cursor = next, !.pages = pages]]
    BY <1>6 DEF ReadPage
  <2>A. PICK next, pages :
          calls' = [calls EXCEPT ![g] = [b EXCEPT !.pc = p, !.cursor = next, !.pages = pages]]
    BY <2>1
  <2>2. PICK c : c = [b EXCEPT !.pc = p, !.cursor = next, !.pages = pages]
    OBVIOUS
  <2>3. b \in WalkCall
    BY <1>3, <1>6 DEF StatsCall
  <2>4. c.op = b.op /\ c.pc # "written"
    BY <2>2, <2>3 DEF WalkCall
  <2>5. calls' = [calls EXCEPT ![g] = c]
    BY <2>A, <2>2
  <2> QED
    BY <1>5, <2>4, <2>5
<1>7. CASE b.op = "stats"
  <2>1. b \in StatsCall
    BY <1>3, <1>7 DEF WalkCall
  <2>2. CASE /\ b.pc = "counts"
             /\ calls' = [calls EXCEPT ![g].pc = "available",
                                       ![g].counts = StatusCounts(b.filter)]
    <3>1. PICK c : c = [b EXCEPT !.pc = "available", !.counts = StatusCounts(b.filter)]
      OBVIOUS
    <3>2. calls' = [calls EXCEPT ![g] = c]
      BY <1>1, <2>2, <3>1
    <3>3. c.op = b.op /\ c.pc # "written"
      BY <2>1, <3>1 DEF StatsCall
    <3> QED
      BY <1>5, <3>2, <3>3
  <2>3. CASE /\ b.pc = "available"
             /\ calls' = [calls EXCEPT ![g].pc = "done",
                                       ![g].available = AvailableCounts(b.filter, b.at)]
    <3>1. PICK c : c = [b EXCEPT !.pc = "done", !.available = AvailableCounts(b.filter, b.at)]
      OBVIOUS
    <3>2. calls' = [calls EXCEPT ![g] = c]
      BY <1>1, <2>3, <3>1
    <3>3. c.op = b.op /\ c.pc # "written"
      BY <2>1, <3>1 DEF StatsCall
    <3> QED
      BY <1>5, <3>2, <3>3
  <2>4. CASE SnapshotStats(g, b)
    <3>1. PICK c : c = [b EXCEPT !.pc = "done", !.counts = StatusCounts(b.filter),
                                 !.available = AvailableCounts(b.filter, b.at)]
      OBVIOUS
    <3>2. calls' = [calls EXCEPT ![g] = c]
      BY <1>1, <2>4, <3>1 DEF SnapshotStats
    <3>3. c.op = b.op /\ c.pc # "written"
      BY <2>1, <3>1 DEF StatsCall
    <3> QED
      BY <1>5, <3>2, <3>3
  <2>5. QueryStats(g, b) \/ SnapshotStats(g, b)
    BY <1>1, <1>7
  <2> QED
    BY <2>2, <2>3, <2>4, <2>5 DEF QueryStats
<1> QED
  BY <1>1, <1>6, <1>7

\* An extended list is another one, and tells what it was extended by.
LEMMA AppendDiffers ==
    ASSUME NEW S, NEW s \in Seq(S), NEW x \in S, NEW y \in S
    PROVE  Append(s, x) # s /\ (Append(s, x) = Append(s, y) => x = y)
<1>1. /\ Len(Append(s, x)) = Len(s) + 1 /\ Len(s) \in Nat
      /\ Append(s, x)[Len(s) + 1] = x
  BY AppendItems
<1>2. Append(s, y)[Len(s) + 1] = y
  BY AppendItems
<1>3. Len(s) # Len(s) + 1
  BY <1>1
<1> QED
  BY <1>1, <1>2, <1>3, Zenon

\* The one event that a step stores says which row it saved.
LEMMA SavesNamed ==
    ASSUME SInv, Moves, NEW t \in TaskId, NEW event \in EventType, NEW at \in Nat,
           events' = [events EXCEPT ![t] = Append(@, event)],
           stamps' = [stamps EXCEPT ![t] = Append(@, at)]
    PROVE  Saves(t, event, at)
<1>1. events \in [TaskId -> Seq(EventType)]
  BY DEF SInv, TypesOK, StoreTypeOK
<1>2. PICK s \in Seq(EventType) : s = events[t]
  BY <1>1
<1>3. events'[t] = Append(s, event)
  BY <1>1, <1>2
<1>4. Append(s, event) # s
  BY AppendDiffers, Zenon
<1>5. events'[t] # events[t]
  BY <1>2, <1>3, <1>4, Zenon
<1>6. PICK u \in TaskId, e \in EventType, x \in Nat : Saves(u, e, x)
  BY <1>5 DEF Moves, Quiet
<1>7. u = t
  BY <1>5, <1>6, OtherLists
<1>8. events'[t] = Append(s, e)
  BY <1>2, <1>6, <1>7, SavedLists
<1>9. e = event
  <2>1. Append(s, event) = Append(s, e)
    BY <1>3, <1>8, Zenon
  <2>2. Append(s, event) = Append(s, e) => event = e
    BY AppendDiffers, Zenon
  <2> QED
    BY <2>1, <2>2, Zenon
<1> QED
  BY <1>6, <1>7, <1>9 DEF Saves

\* A write commits.
LEMMA CommitTimed ==
    ASSUME SInv, NEW g \in Goroutine, StepOK(g), NEW c, c = calls[g], c.op \in WriteOp,
           CallInTime(c), NEW t \in TaskId, NEW event \in EventType, NEW row,
           events' = [events EXCEPT ![t] = Append(@, event)],
           stamps' = [stamps EXCEPT ![t] = Append(@, c.at)],
           now' = now, Succeed(g, c, t, row),
           InTime(Committed'[t], event, c.at, events[t], stamps[t])
    PROVE  TimedStep(g)
<1>1. c.at \in Nat /\ c.at <= now + Skew /\ now \in Nat
  BY WritingCall DEF CallInTime, SInv, TypesOK, StoreTypeOK
<1>2. Moves
  BY DEF StepOK
<1>3. Saves(t, event, c.at)
  BY <1>1, <1>2, SavesNamed
<1>4. CallInTime(calls[g])'
  <2>1. PICK d : d = IF c.op = "cancel" THEN Detail(t) ELSE NoCall
    OBVIOUS
  <2>2. calls'[g] = d
    BY <2>1 DEF Succeed, SInv, TypesOK
  <2>3. d.op \in {"detail", "none"} /\ d.pc \in {"row", "idle"}
    BY <2>1 DEF Detail, NoCall
  <2> QED
    BY <2>2, <2>3 DEF CallInTime, WriteOp
<1> QED
  BY <1>1, <1>3, <1>4 DEF TimedStep, SavesInTime

\* A call ends without a trace in the store.
LEMMA NoEffectTimed ==
    ASSUME SInv, NEW g \in Goroutine, NEW b, Miss(g, b) \/ Fail(g), Committed' = Committed,
           events' = events, stamps' = stamps, now' = now
    PROVE  TimedStep(g)
<1>1. PICK d : /\ calls' = [calls EXCEPT ![g] = d]
               /\ d.op \in {"detail", "none"} /\ d.pc \in {"row", "idle"}
  <2>1. /\ NoCall.op = "none" /\ NoCall.pc = "idle"
        /\ Detail(b.task).op = "detail" /\ Detail(b.task).pc = "row"
    BY DEF NoCall, Detail
  <2>2. \/ calls' = [calls EXCEPT ![g] = NoCall]
        \/ calls' = [calls EXCEPT ![g] = Detail(b.task)]
    BY DEF Miss, Fail
  <2> QED
    BY <2>1, <2>2, Zenon
<1>2. CallInTime(d)'
  BY <1>1 DEF CallInTime, WriteOp
<1> QED
  BY <1>1, <1>2, QuietTimed

\* A transaction of the mysql backend.
LEMMA TransactionTimed ==
    ASSUME SInv, SInv', TimeInv, NEW g \in Goroutine, StepOK(g), calls[g].op \in WriteOp,
           backend = "mysql", Transaction(g, calls[g]), UNCHANGED <<now, crashes, backend>>
    PROVE  TimedStep(g)
<1>1. PICK c : c = calls[g]
  OBVIOUS
<1>2. /\ Committed = tasks /\ Committed' = tasks' /\ c.pc = "begin" /\ now' = now
      /\ c.op \in WriteOp /\ CallInTime(c)
  BY <1>1 DEF SInv, LocksOK, Transaction, memoryVars, Committed, TimeInv
<1>3. CASE /\ Miss(g, c) \/ Fail(g)
           /\ UNCHANGED <<storeVars, stamps>>
  BY <1>2, <1>3, NoEffectTimed DEF storeVars
<1>4. ASSUME NEW t \in TaskId, Commits(g, c, t),
             stamps' = [stamps EXCEPT ![t] = Append(@, c.at)],
             Succeed(g, c, t, tasks'[t])
      PROVE  TimedStep(g)
  <2>1. PICK event \in EventType :
          /\ events' = [events EXCEPT ![t] = Append(@, event)]
          /\ Decides(c, tasks[t], tasks'[t], event, stamps[t])
    BY <1>1, <1>2, <1>4, CommitsDecide
  <2>2. PICK trail \in Seq(EventType), times \in Seq(Nat), a \in Task, b \in Task :
          trail = events[t] /\ times = stamps[t] /\ a = tasks[t] /\ b = tasks'[t]
    <3>1. tasks'[t] \in Task
      BY DEF SInv, TypesOK, StoreTypeOK
    <3> QED
      BY <1>2, <3>1, ListTypes
  <2>3. /\ Len(times) = Len(trail) /\ TrailMatches(a, trail) /\ Timely(a, trail, times)
        /\ c.at \in Nat
    BY <1>1, <1>2, <2>2, ListTypes, WritingCall DEF TimeInv
  <2>4. Decides(c, a, b, event, times)
    BY <2>1, <2>2
  <2>5. InTime(b, event, c.at, trail, times)
    BY <2>3, <2>4, DecisionInTime
  <2>6. InTime(Committed'[t], event, c.at, events[t], stamps[t])
    BY <1>2, <2>2, <2>5
  <2>7. PICK row : row = tasks'[t]
    OBVIOUS
  <2>8. Succeed(g, c, t, row)
    BY <1>4, <2>7
  <2> QED
    BY <1>1, <1>2, <1>4, <2>1, <2>6, <2>8, CommitTimed
<1> QED
  BY <1>1, <1>3, <1>4 DEF Transaction

\* The call takes the task lock.
LEMMA LockTimed ==
    ASSUME SInv, TimeInv, NEW g \in Goroutine, calls[g].op \in WriteOp, Lock(g, calls[g]),
           UNCHANGED <<now, crashes, backend>>
    PROVE  TimedStep(g)
<1>1. PICK b : b = calls[g]
  OBVIOUS
<1>2. b \in WriteCall /\ b.op \in WriteOp /\ CallInTime(b)
  BY <1>1, WritingCall DEF TimeInv, SInv, TypesOK
<1>3. /\ tasks' = tasks /\ events' = events /\ stamps' = stamps /\ now' = now
      /\ taskMu = Free /\ taskMu' = g /\ b.pc = "begin"
      /\ calls' = [calls EXCEPT ![g].pc = "tasks_locked"]
  BY <1>1 DEF Lock, storeVars
<1>4. PICK c : c = [b EXCEPT !.pc = "tasks_locked"]
  OBVIOUS
<1>5. /\ c.op = b.op /\ c.pc = "tasks_locked" /\ c.task = b.task /\ c.row = b.row
      /\ c.event = b.event /\ c.at = b.at
  BY <1>2, <1>4 DEF WriteCall
<1>6. calls' = [calls EXCEPT ![g] = c]
  BY <1>1, <1>3, <1>4
<1>7. calls'[g] = c
  BY <1>6 DEF SInv, TypesOK
<1>8. Committed = tasks /\ Committed' = tasks'
  BY <1>3, <1>5, <1>7 DEF Committed
<1>9. CallInTime(c)'
  <2>1. b.op = "update" => EndsInTime(b, Committed[b.task], stamps[b.task])
    BY <1>2, <1>3 DEF CallInTime
  <2>2. c.op = "update" => EndsInTime(c, Committed[c.task], stamps[c.task])'
    BY <1>3, <1>5, <1>8, <2>1 DEF EndsInTime, Delayed
  <2>3. c.at <= now' + Skew /\ c.op \in WriteOp /\ c.op # "detail"
    BY <1>2, <1>3, <1>5 DEF CallInTime, WriteOp
  <2> QED
    BY <1>5, <2>2, <2>3 DEF CallInTime
<1> QED
  BY <1>3, <1>6, <1>8, <1>9, QuietTimed

\* The call writes a row that nobody sees yet.
LEMMA WriteRowTimed ==
    ASSUME SInv, SInv', TimeInv, NEW g \in Goroutine, calls[g].op \in WriteOp,
           WriteRow(g, calls[g]), UNCHANGED <<now, crashes, backend>>
    PROVE  TimedStep(g)
<1>1. PICK b : b = calls[g]
  OBVIOUS
<1>2. /\ b \in WriteCall /\ b.op \in WriteOp /\ b.at \in Nat /\ CallInTime(b)
      /\ HoldsTasks(b) <=> taskMu = g
  BY <1>1, WritingCall DEF TimeInv
<1>3. /\ events' = events /\ stamps' = stamps /\ now' = now
      /\ taskMu' = taskMu /\ b.pc = "tasks_locked" /\ b.pc # "written"
  BY <1>1 DEF WriteRow
<1>4. taskMu = g
  BY <1>2, <1>3 DEF HoldsTasks
<1>5. Committed = tasks
  BY <1>1, <1>3, <1>4 DEF Committed
<1>6. PICK w \in Writes(g, b) :
         /\ tasks' = [tasks EXCEPT ![w[1]] = WrittenRow(w)]
         /\ calls' = [calls EXCEPT ![g] = [b EXCEPT !.pc = "written", !.task = w[1],
                                           !.row = tasks[w[1]], !.event = w[3]]]
  BY <1>1 DEF WriteRow, WrittenRow
<1>7. PICK t, event, row, old :
         t = w[1] /\ event = w[3] /\ old = tasks[t] /\ row = WrittenRow(w)
  OBVIOUS
<1>8. t \in TaskId /\ Replaces(row, old, event)
  BY <1>1, <1>2, <1>3, <1>5, <1>7, WritesReplace DEF WrittenRow
<1>9. /\ tasks \in [TaskId -> Task] /\ old \in Task /\ row \in Task /\ event \in EventType
  BY <1>7, <1>8 DEF SInv, TypesOK, StoreTypeOK, Replaces
<1>10. PICK c : c = [b EXCEPT !.pc = "written", !.task = t, !.row = old, !.event = event]
  OBVIOUS
<1>11. /\ c.op = b.op /\ c.pc = "written" /\ c.task = t /\ c.row = old /\ c.event = event
       /\ c.at = b.at
  BY <1>2, <1>10 DEF WriteCall
<1>12. tasks' = [tasks EXCEPT ![t] = row] /\ calls' = [calls EXCEPT ![g] = c]
  BY <1>6, <1>7, <1>10
<1>13. calls'[g] = c /\ tasks'[t] = row
  BY <1>8, <1>9, <1>12 DEF SInv, TypesOK
<1>14. Committed' = Committed
  <2>1. g # Free
    BY GoroutineAssumption
  <2>2. Committed' = [tasks' EXCEPT ![t] = old]
    BY <1>3, <1>4, <1>11, <1>13, <2>1 DEF Committed
  <2> QED
    BY <1>5, <1>7, <1>8, <1>9, <1>12, <2>2
<1>15. Decides(b, old, row, event, stamps[t])
  BY <1>1, <1>2, <1>3, <1>5, <1>7, WritesDecide
<1>16. PICK trail \in Seq(EventType), times \in Seq(Nat) :
         trail = events[t] /\ times = stamps[t]
  BY <1>8, ListTypes
<1>17. Len(times) = Len(trail) /\ TrailMatches(old, trail) /\ Timely(old, trail, times)
  BY <1>5, <1>7, <1>8, <1>16, ListTypes DEF TimeInv
<1>18. InTime(row, event, b.at, trail, times)
  BY <1>2, <1>9, <1>15, <1>16, <1>17, DecisionInTime
<1>19. CallInTime(c)'
  <2>1. InTime(tasks'[c.task], c.event, c.at, events'[c.task], stamps'[c.task])
    BY <1>3, <1>11, <1>13, <1>16, <1>18
  <2>2. c.at <= now' + Skew /\ c.op # "detail"
    BY <1>2, <1>3, <1>11 DEF CallInTime, WriteOp
  <2> QED
    BY <1>11, <2>1, <2>2, Zenon DEF CallInTime
<1> QED
  BY <1>3, <1>12, <1>14, <1>19, QuietTimed

\* The call finds nothing to do.
LEMMA NothingToWriteTimed ==
    ASSUME SInv, NEW g \in Goroutine, calls[g].op \in WriteOp,
           NothingToWrite(g, calls[g]), UNCHANGED <<now, crashes, backend>>
    PROVE  TimedStep(g)
<1>1. PICK c : c = calls[g]
  OBVIOUS
<1>2. /\ tasks' = tasks /\ events' = events /\ stamps' = stamps /\ now' = now
      /\ taskMu' = Free /\ c.pc = "tasks_locked"
      /\ Miss(g, c) \/ Fail(g)
  BY <1>1 DEF NothingToWrite, Refused, Unlock, storeVars
<1>3. taskMu = g
  BY <1>1, <1>2, WritingCall DEF HoldsTasks
<1>4. Committed' = Committed
  BY <1>1, <1>2, <1>3 DEF Committed
<1> QED
  BY <1>2, <1>4, NoEffectTimed

\* The event is stored: the transition commits.
LEMMA AppendEventTimed ==
    ASSUME SInv, TimeInv, NEW g \in Goroutine, StepOK(g), calls[g].op \in WriteOp,
           AppendEvent(g, calls[g]), UNCHANGED <<now, crashes, backend>>
    PROVE  TimedStep(g)
<1>1. PICK c : c = calls[g]
  OBVIOUS
<1>2. PICK t, row, event : t = c.task /\ row = tasks[t] /\ event = c.event
  OBVIOUS
<1>3. /\ c.pc = "written" /\ tasks' = tasks
      /\ events' = [events EXCEPT ![t] = Append(@, event)]
      /\ stamps' = [stamps EXCEPT ![t] = Append(@, c.at)]
      /\ Succeed(g, c, t, row)
      /\ taskMu' = Free /\ now' = now /\ c.op \in WriteOp
  BY <1>1, <1>2 DEF AppendEvent, Unlock
<1>4. t \in TaskId /\ event \in EventType
  BY <1>1, <1>2, <1>3, WrittenFacts DEF Replaces
<1>5. Committed' = tasks
  BY <1>3 DEF Committed
<1>6. CallInTime(c)
  BY <1>1 DEF TimeInv
<1>7. InTime(Committed'[t], event, c.at, events[t], stamps[t])
  BY <1>2, <1>3, <1>5, <1>6 DEF CallInTime
<1> QED
  BY <1>1, <1>3, <1>4, <1>6, <1>7, CommitTimed

\* The row returns to what everyone else saw.
LEMMA RollBackTimed ==
    ASSUME SInv, NEW g \in Goroutine, calls[g].op \in WriteOp,
           RollBack(g, calls[g]), UNCHANGED <<now, crashes, backend>>
    PROVE  TimedStep(g)
<1>1. PICK c : c = calls[g]
  OBVIOUS
<1>2. /\ c.pc = "written" /\ tasks' = [tasks EXCEPT ![c.task] = c.row]
      /\ events' = events /\ stamps' = stamps /\ taskMu' = Free /\ Fail(g) /\ now' = now
  BY <1>1 DEF RollBack, Restored, Unlock
<1>3. Committed = tasks'
  BY <1>1, <1>2, WrittenFacts
<1>4. Committed' = tasks'
  BY <1>2 DEF Committed
<1> QED
  BY <1>2, <1>3, <1>4, NoEffectTimed

-----------------------------------------------------------------------------
(* The induction.                                                          *)

\* A step of a call.
LEMMA StepTimed ==
    ASSUME SInv, SInv', TimeInv, NEW g \in Goroutine, Step(g)
    PROVE  TimedStep(g)
<1>1. UNCHANGED <<now, crashes, backend>> /\ StepOK(g)
  BY StepStep DEF Step
<1>2. CASE calls[g].op \in WriteOp /\ backend = "mysql" /\ Transaction(g, calls[g])
  BY <1>1, <1>2, TransactionTimed
<1>3. CASE calls[g].op \in WriteOp /\ Lock(g, calls[g])
  BY <1>1, <1>3, LockTimed
<1>4. CASE calls[g].op \in WriteOp /\ WriteRow(g, calls[g])
  BY <1>1, <1>4, WriteRowTimed
<1>5. CASE calls[g].op \in WriteOp /\ NothingToWrite(g, calls[g])
  BY <1>1, <1>5, NothingToWriteTimed
<1>6. CASE calls[g].op \in WriteOp /\ AppendEvent(g, calls[g])
  BY <1>1, <1>6, AppendEventTimed
<1>7. CASE calls[g].op \in WriteOp /\ RollBack(g, calls[g])
  BY <1>1, <1>7, RollBackTimed
<1>8. CASE Read(g, calls[g])
  <2>1. UNCHANGED <<storeVars, stamps, iw, up, memoryVars, now, crashes, backend>>
    BY <1>1, <1>8 DEF Read
  <2>2. CASE calls[g].op = "detail" /\ ReadDetail(g, calls[g])
    BY <2>1, <2>2, ReadDetailTimed
  <2>3. CASE \/ calls[g].op = "walk" /\ ReadPage(g, calls[g])
             \/ calls[g].op = "stats" /\ (QueryStats(g, calls[g]) \/ SnapshotStats(g, calls[g]))
    BY <2>1, <2>3, OtherReadTimed
  <2> QED
    BY <1>8, <2>2, <2>3 DEF Read
<1> QED
  BY <1>2, <1>3, <1>4, <1>5, <1>6, <1>7, <1>8 DEF Step

\* Every step of the system keeps the invariant.
LEMMA NextTimed ==
    ASSUME SInv, SInv', TimeInv, [Next]_vars
    PROVE  TimeInv'
<1>1. /\ Reaper \in Goroutine /\ Internal \subseteq Goroutine /\ Handler \subseteq Goroutine
  BY DEF Goroutine
<1>2. ASSUME NEW w \in Internal, StartWorker(w)
      PROVE  TimeInv'
  BY <1>1, <1>2, StartWorkerStep, StartWorkerTimed, TimedStepKeeps
<1>3. ASSUME NEW w \in Internal, Heartbeat(w) \/ Abandon(w)
      PROVE  TimeInv'
  BY <1>1, <1>3, HeartbeatStep, HeartbeatTimed, AbandonStep, AbandonTimed, TimedStepKeeps
<1>4. ASSUME NEW h \in Handler, StartWrite(h) \/ StartRead(h) \/ Answered(h)
      PROVE  TimeInv'
  BY <1>1, <1>4, StartHandlerStep, StartHandlerTimed, StartReadStep, StartReadTimed,
     AnsweredStep, AnsweredTimed, TimedStepKeeps
<1>5. CASE StartReaper \/ Tick
  BY <1>1, <1>5, StartReaperStep, StartReaperTimed, TickStep, TickTimed, TimedStepKeeps
<1>6. ASSUME NEW g \in Goroutine, Step(g)
      PROVE  TimeInv'
  BY <1>6, StepStep, StepTimed, TimedStepKeeps
<1>7. CASE UNCHANGED vars
  <2>1. /\ tasks' = tasks /\ events' = events /\ granted' = granted /\ stamps' = stamps
        /\ backend' = backend /\ taskMu' = taskMu /\ eventMu' = eventMu
        /\ iw' = iw /\ up' = up /\ crashes' = crashes /\ calls' = calls /\ now' = now
    BY <1>7 DEF vars, storeVars, internalVars, memoryVars
  <2>2. /\ now' \in Nat /\ now <= now' /\ InternalTypeOK'
        /\ \A w \in Internal : KeepsCopy(w)
    BY <2>1 DEF SInv, TypesOK, StoreTypeOK, InternalTypeOK, KeepsCopy
  <2>3. StepOK(Reaper)
    BY <1>1, <2>1, <2>2, IdleStep
  <2>4. TimedStep(Reaper)
    BY <2>1, <2>2, <2>3, IdleTimed
  <2> QED
    BY <1>1, <2>3, <2>4, TimedStepKeeps
<1> QED
  BY <1>2, <1>3, <1>4, <1>5, <1>6, <1>7 DEF Next

\* Nothing is stored and nobody calls: the invariant holds initially.
LEMMA InitTimeInv == Init => TimeInv
<1> SUFFICES ASSUME Init PROVE TimeInv
  OBVIOUS
<1>1. /\ tasks = [t \in TaskId |-> NoTask] /\ events = [t \in TaskId |-> <<>>]
      /\ stamps = [t \in TaskId |-> <<>>] /\ taskMu = Free
      /\ calls = [g \in Goroutine |-> NoCall]
  BY DEF Init, StoreInit
<1>2. ASSUME NEW t \in TaskId
      PROVE  Timely(Committed[t], events[t], stamps[t]) /\ Past(stamps[t], now + Skew)
  <2>1. events[t] = <<>> /\ stamps[t] = <<>> /\ Len(events[t]) = 0 /\ Len(stamps[t]) = 0
    BY <1>1
  <2>2. TrailInOrder(events[t], stamps[t])
    BY <2>1 DEF TrailInOrder
  <2>3. RowBounds(Committed[t], events[t], stamps[t]) /\ Past(stamps[t], now + Skew)
    BY <2>1 DEF RowBounds, Past
  <2> QED
    BY <2>2, <2>3 DEF Timely
<1>3. ASSUME NEW g \in Goroutine PROVE CallInTime(calls[g])
  <2>1. calls[g].op \notin WriteOp /\ calls[g].pc = "idle" /\ calls[g].op = "none"
    BY <1>1 DEF NoCall, WriteOp
  <2> QED
    BY <2>1, Timeless
<1> QED
  BY <1>2, <1>3 DEF TimeInv

\* The stamps of a task stay within what its row allows, although calls read a
\* clock, which may be off, before they wait for a lock or a connection
\* (storage.go, task_transition_store.go, mysqlstore/task_store.go).
THEOREM TimeInvariant == Spec => []TimeInv
<1>1. SInv /\ SInv' /\ TimeInv /\ [Next]_vars => TimeInv'
  BY NextTimed
<1> QED
  BY <1>1, InitTimeInv, StorageInvariant, PTL DEF Spec

-----------------------------------------------------------------------------
(* What it implies.                                                        *)

\* Events are stored in the order of their timestamps, up to the difference of
\* the clocks and cancellations aside (ListByTaskID).
THEOREM EventsInOrder == Spec => []OnlyCancellationIsLate
<1>1. TimeInv => OnlyCancellationIsLate
  BY DEF TimeInv, Timely, TrailInOrder, OnlyCancellationIsLate, Spread
<1> QED
  BY <1>1, TimeInvariant, PTL

\* The detail of a task reports the worker that was last among the events it
\* lists, and the failure that was last unless it was final, although it scans
\* them by timestamp, as long as no two clocks differ by a lease or by a backoff
\* delay.  Of a task that failed for good it reports the last retry that was
\* scheduled, since the final failure of an in-process worker has no code
\* (populateFailureDiagnostics, populateWorkerDiagnostics).
THEOREM DiagnosticsCurrent ==
    ASSUME 2 * Skew < LeaseDuration, \A d \in RetryDelay : 2 * Skew < d
    PROVE  Spec => []DiagnosticsAreLatest
<1>0. Apart
  BY DEF Apart, Spread
<1>1. TimeInv => DiagnosticsAreLatest
  <2> SUFFICES ASSUME TimeInv, NEW h \in Handler,
                      calls[h].op = "detail", calls[h].pc = "done"
               PROVE  LET c == calls[h]
                          failedForGood == \E i \in 1..c.seen :
                                             events[c.task][i] = "task_failed"
                      IN  /\ ~failedForGood =>
                               c.failure = LastIn(FailureEvent(c.task) \intersect 1..c.seen)
                          /\ failedForGood =>
                               c.failure = LastIn(CodedFailure(c.task) \intersect 1..c.seen)
                          /\ c.owner = NoWorker =>
                               c.claim = LastIn(NamesWorker(c.task) \intersect 1..c.seen)
    BY Zenon DEF DiagnosticsAreLatest
  <2>1. PICK c : c = calls[h]
    OBVIOUS
  <2>2. CallInTime(c)
    BY <2>1 DEF TimeInv, Goroutine
  <2>3. TookLatest(c, events[c.task])
    BY <1>0, <2>1, <2>2 DEF CallInTime
  <2>4. CodedFailure(c.task) = {i \in DOMAIN events[c.task] : events[c.task][i] = "task_retrying"}
    BY DEF CodedFailure, FailureEvent
  <2>5. /\ c.failure = LastIn(CodedFailure(c.task) \intersect 1..c.seen)
        /\ c.owner = NoWorker => c.claim = LastIn(NamesWorker(c.task) \intersect 1..c.seen)
    BY <2>3, <2>4, Zenon DEF TookLatest, NamesWorker
  <2>6. ASSUME ~ \E i \in 1..c.seen : events[c.task][i] = "task_failed"
        PROVE  FailureEvent(c.task) \intersect 1..c.seen = CodedFailure(c.task) \intersect 1..c.seen
    BY <2>6 DEF FailureEvent, CodedFailure
  <2> QED
    BY <2>1, <2>5, <2>6, Zenon
<1> QED
  BY <1>1, TimeInvariant, PTL

=============================================================================
