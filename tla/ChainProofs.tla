----------------------------- MODULE ChainProofs -----------------------------
(***************************************************************************)
(* Proofs about what is asked of the chain and what is made of the answer. *)
(* RpcLimiter paces the calls, for every rate, floor, recovery and number  *)
(* of slots and calls.  Quoting gives a price only if it is what the       *)
(* deployed contract pays, for every fixed point, fee, table of prices,    *)
(* set of positions, budget of ticks and amount.                           *)
(***************************************************************************)
EXTENDS RpcLimiter, Quoting, DataLemmas, SequenceTheorems, FiniteSetTheorems, TLAPS

-----------------------------------------------------------------------------
(* RpcLimiter *)

Numbers ==
    /\ {clock, tokens, rate, updated, throttledAt, free} \subseteq Nat
    /\ factor \in Floor .. Scale
    /\ credit \in Int
    /\ wake \in [Calls -> Nat]

Queues ==
    /\ lock \in Seq(Calls) /\ slots \in Seq(Calls)
    /\ pc \in [Calls -> PC]

\* The bucket's rate is one the throttle can reach, and nobody is past the lock
\* before there is a bucket.
BucketOK ==
    /\ updated <= clock /\ throttledAt <= clock
    /\ rate \in 0 .. Rate
    /\ rate = 0 => \A c \in Calls : pc[c] \in {"new", "queued", "done"}

\* What the bucket holds, and what it could hold by now at the full rate, is
\* there in the reference bucket too.
Covered ==
    IF rate = 0
    THEN credit = Capacity(Rate)
    ELSE credit >= Smaller(Capacity(Rate), tokens + (clock - updated) * Rate)

IInv == Numbers /\ Queues /\ BucketOK /\ Covered /\ NoStaleBurst

-----------------------------------------------------------------------------
(* Arithmetic *)

\* A rate the throttle can reach is positive and at most the configured one.
LEMMA RateRange == ASSUME NEW f \in Floor .. Scale PROVE RateAt(f) \in 1 .. Rate
<1>1. /\ Rate \in Nat /\ Scale \in Nat /\ Scale > 0 /\ Floor \in Nat /\ f \in Nat
      /\ Floor <= f /\ f <= Scale
  BY LimiterAssumption
<1>2. Rate * Floor <= Rate * f /\ Rate * f <= Rate * Scale
  BY <1>1
<1>3. Rate * Floor \in Nat /\ Rate * f \in Nat /\ Rate * Scale \in Nat
  BY <1>1
<1>4. ASSUME NEW a \in Nat, NEW b \in Nat, a <= b PROVE a \div Scale <= b \div Scale
  BY <1>1, <1>4, Z3
<1>5. (Rate * Scale) \div Scale = Rate
  BY <1>1, Z3
<1>6. RateAt(Floor) <= RateAt(f) /\ RateAt(f) <= Rate
  BY <1>2, <1>3, <1>4, <1>5 DEF RateAt
<1>7. RateAt(Floor) > 0 /\ RateAt(Floor) \in Int /\ RateAt(f) \in Int
  BY <1>1, <1>3, LimiterAssumption DEF RateAt
<1> QED
  BY <1>1, <1>6, <1>7

\* Recovery stays between the factor and the full scale.
LEMMA RecoveredRange == Numbers /\ BucketOK => Recovered \in Floor .. Scale
<1> SUFFICES ASSUME Numbers, BucketOK PROVE Recovered \in Floor .. Scale
  OBVIOUS
<1>1. /\ factor \in Floor .. Scale /\ clock - throttledAt \in Nat
      /\ Recovery \in Nat /\ Scale \in Nat /\ Floor \in Nat
  BY LimiterAssumption DEF Numbers, BucketOK
<1>2. (clock - throttledAt) * Recovery \in Nat
  BY <1>1
<1> QED
  BY <1>1, <1>2 DEF Recovered, Smaller

\* Refilling at any reachable rate yields no more than the rate allows, and no
\* more than the reference bucket holds.
LEMMA RefillCovered ==
    ASSUME Numbers, BucketOK, Covered, NEW r \in 1 .. Rate, rate > 0
    PROVE  /\ Refilled(tokens, r) \in Nat
           /\ Refilled(tokens, r) <= Capacity(r)
           /\ Refilled(tokens, r) <= credit
<1> DEFINE n == clock - updated
<1>1. /\ n \in Nat /\ tokens \in Nat /\ credit \in Int
      /\ Rate \in Nat /\ Unit \in Nat /\ r \in Nat /\ r <= Rate
  BY LimiterAssumption DEF Numbers, BucketOK
<1>2. credit >= Smaller(Capacity(Rate), tokens + n * Rate)
  BY DEF Covered
<1>3. Refilled(tokens, r) = Smaller(Capacity(r), tokens + n * r)
  BY DEF Refilled
<1> HIDE DEF n
<1>4. n * r \in Nat /\ n * Rate \in Nat /\ n * r <= n * Rate
  BY <1>1
<1> DEFINE x == n * r  y == n * Rate
<1> HIDE DEF x, y
<1>5. x \in Nat /\ y \in Nat /\ x <= y
  BY <1>4 DEF x, y
<1>6. credit >= Smaller(Capacity(Rate), tokens + y) /\ Refilled(tokens, r) = Smaller(Capacity(r), tokens + x)
  BY <1>2, <1>3 DEF x, y
<1> QED
  BY <1>1, <1>5, <1>6 DEF Smaller, Capacity, Larger

\* One pass of the loop keeps the bucket covered, whether it takes a token or not.
LEMMA PassStep ==
    ASSUME Numbers, NEW c \in Calls, NEW r \in 1 .. Rate, NEW stock \in Nat,
           stock <= Capacity(r), stock <= credit, Pass(c, stock, r)
    PROVE  /\ clock' = clock /\ rate' = r /\ updated' = clock
           /\ tokens' \in Nat /\ tokens' <= Capacity(r)
           /\ credit' \in Int /\ tokens' <= credit'
           /\ free' \in Nat /\ wake' \in [Calls -> Nat]
<1>1. /\ clock \in Nat /\ credit \in Int /\ Unit \in Nat /\ free \in Nat
      /\ wake \in [Calls -> Nat] /\ r \in Nat /\ r > 0 /\ Capacity(r) \in Nat
  BY LimiterAssumption DEF Numbers, Capacity, Larger
<1>2. CASE Grant(c, stock)
  <2>1. tokens' = stock - Unit /\ credit' = credit - Unit /\ stock >= Unit /\ wake' = wake
    BY <1>2 DEF Grant
  <2>2. free' \in Nat
    BY <1>1, <1>2 DEF Grant
  <2> QED
    BY <1>1, <2>1, <2>2 DEF Pass
<1>3. CASE Sleep(c, stock, r)
  <2>1. /\ tokens' = stock /\ stock < Unit /\ UNCHANGED <<free, credit>>
        /\ wake' = [wake EXCEPT ![c] = clock + Needed(stock, r)]
    BY <1>3 DEF Sleep
  <2>2. Unit - stock + r - 1 \in Nat
    BY <1>1, <2>1
  <2>3. Needed(stock, r) \in Nat
    <3>1. ASSUME NEW a \in Nat PROVE a \div r \in Nat
      BY <1>1, Z3
    <3> QED
      BY <2>2, <3>1 DEF Needed
  <2>4. wake' \in [Calls -> Nat]
    BY <1>1, <2>1, <2>3
  <2> QED
    BY <1>1, <2>1, <2>4 DEF Pass
<1> QED
  BY <1>2, <1>3 DEF Pass

\* A bucket that covers some tokens covers fewer.
LEMMA FewerAreCovered ==
    ASSUME NEW k \in Int, NEW top \in Int, NEW a \in Int, NEW b \in Int, NEW gain \in Int,
           b <= a, k >= Smaller(top, a + gain)
    PROVE  k >= Smaller(top, b + gain)
BY DEF Smaller

-----------------------------------------------------------------------------
(* The invariant is inductive *)

\* Before the first call there is no bucket, and the reference bucket is full.
LEMMA InitStep == LimiterInit => IInv
<1> SUFFICES ASSUME LimiterInit PROVE IInv
  OBVIOUS
<1>1. /\ Unit \in Nat /\ Rate \in Nat /\ Scale \in Nat /\ Floor \in Nat /\ Floor <= Scale
      /\ MaxConcurrency \in Nat
  BY LimiterAssumption
<1>2. Numbers
  BY <1>1 DEF LimiterInit, Numbers, Capacity, Larger
<1>3. Queues
  BY DEF LimiterInit, Queues, PC
<1>4. BucketOK
  BY <1>1 DEF LimiterInit, BucketOK
<1> QED
  BY <1>2, <1>3, <1>4 DEF LimiterInit, IInv, Covered, NoStaleBurst

\* A pass of the loop puts the caller on its way or to sleep, in the right queue.
LEMMA PassQueues ==
    ASSUME Queues, NEW c \in Calls, lock # <<>>, NEW r, NEW stock, Pass(c, stock, r)
    PROVE  Queues'
<1>1. Tail(lock) \in Seq(Calls) /\ Append(slots, c) \in Seq(Calls)
  BY HeadTailProperties, AppendProperties DEF Queues
<1>2. lock' \in Seq(Calls) /\ slots' \in Seq(Calls)
  BY <1>1 DEF Queues, Pass, Grant, Sleep
<1>3. \E p \in PC : pc' = [pc EXCEPT ![c] = p]
  BY DEF Pass, Grant, Sleep, PC, InLock
<1>4. pc' \in [Calls -> PC]
  BY <1>3 DEF Queues
<1> QED
  BY <1>2, <1>4 DEF Queues

\* A pass at a rate the throttle can reach keeps the whole invariant.
LEMMA PassKeeps ==
    ASSUME IInv, NEW c \in Calls, lock # <<>>, NEW r \in 1 .. Rate, NEW stock \in Nat,
           stock <= Capacity(r), stock <= credit, Pass(c, stock, r),
           factor' \in Floor .. Scale, throttledAt' \in {throttledAt, clock}
    PROVE  IInv'
<1>1. /\ clock' = clock /\ rate' = r /\ updated' = clock
      /\ tokens' \in Nat /\ tokens' <= Capacity(r)
      /\ credit' \in Int /\ tokens' <= credit'
      /\ free' \in Nat /\ wake' \in [Calls -> Nat]
  BY PassStep DEF IInv
<1>2. clock \in Nat /\ throttledAt \in Nat /\ throttledAt <= clock /\ Rate \in Nat
  BY LimiterAssumption DEF IInv, Numbers, BucketOK
<1>3. Numbers'
  BY <1>1, <1>2 DEF Numbers
<1>4. Queues'
  BY PassQueues DEF IInv
<1>5. BucketOK'
  BY <1>1, <1>2 DEF BucketOK
<1>6. (clock' - updated') * Rate = 0
  BY <1>1, <1>2
<1>7. Covered'
  <2>1. rate' # 0 /\ tokens' + (clock' - updated') * Rate <= credit'
    BY <1>1, <1>6
  <2>2. Capacity(Rate) \in Int
    BY LimiterAssumption DEF Capacity, Larger
  <2> DEFINE x == tokens' + (clock' - updated') * Rate
  <2>3. x \in Int /\ x <= credit' /\ credit' \in Int
    BY <1>1, <1>6, <2>1
  <2> HIDE DEF x
  <2>4. credit' >= Smaller(Capacity(Rate), x)
    BY <2>2, <2>3 DEF Smaller
  <2> QED
    BY <2>1, <2>4 DEF x, Covered, Smaller, Capacity, Larger
<1>8. NoStaleBurst'
  BY <1>1 DEF NoStaleBurst, Capacity, Larger
<1> QED
  BY <1>3, <1>4, <1>5, <1>7, <1>8 DEF IInv

\* The first call finds a full bucket, and every later one a refilled bucket.
LEMMA TakeLockStep == ASSUME IInv, NEW c \in Calls, TakeLock(c) PROVE IInv'
<1> DEFINE r == RateAt(Recovered)
           stock == IF rate = 0 THEN r ELSE Refilled(tokens, r)
<1>1. Recovered \in Floor .. Scale
  BY RecoveredRange DEF IInv
<1>2. r \in 1 .. Rate
  BY <1>1, RateRange
<1>3. Pass(c, stock, r) /\ lock # <<>>
  BY DEF TakeLock, HoldsLock
<1>4. factor' = Recovered /\ throttledAt' \in {throttledAt, clock}
  BY DEF TakeLock
<1>5. stock \in Nat /\ stock <= Capacity(r) /\ stock <= credit
  <2>1. CASE rate = 0
    <3>1. credit = Capacity(Rate) /\ stock = r
      BY <2>1 DEF IInv, Covered
    <3> HIDE DEF stock, r
    <3> QED
      BY <1>2, <3>1, LimiterAssumption DEF Capacity, Larger
  <2>2. CASE rate # 0
    <3>1. rate > 0
      BY <2>2 DEF IInv, BucketOK
    <3>2. stock = Refilled(tokens, r)
      BY <2>2
    <3> HIDE DEF stock
    <3> QED
      BY <1>2, <3>1, <3>2, RefillCovered DEF IInv
  <2> QED
    BY <2>1, <2>2
<1> HIDE DEF stock, r
<1> QED
  BY <1>1, <1>2, <1>3, <1>4, <1>5, PassKeeps

\* A bucket somebody is asleep on exists.
LEMMA RepaceStep == ASSUME IInv, NEW c \in Calls, Repace(c) PROVE IInv'
<1>1. rate \in 1 .. Rate
  BY DEF IInv, BucketOK, Repace
<1>2. Pass(c, Refilled(tokens, rate), rate) /\ lock # <<>>
  BY DEF Repace, HoldsLock
<1>3. factor' = factor /\ throttledAt' = throttledAt
  BY DEF Repace, throttle
<1>4. /\ Refilled(tokens, rate) \in Nat
      /\ Refilled(tokens, rate) <= Capacity(rate)
      /\ Refilled(tokens, rate) <= credit
  BY <1>1, RefillCovered DEF IInv
<1>5. factor' \in Floor .. Scale
  BY <1>3 DEF IInv, Numbers
<1> QED
  BY <1>1, <1>2, <1>3, <1>4, <1>5, PassKeeps

\* A call that ends hands its slot on or back.
LEMMA ReleaseStep ==
    ASSUME Numbers, Queues, NEW c \in Calls, Release(c), pc[c] = "calling"
    PROVE  /\ free' \in Nat
           /\ slots' \in Seq(Calls) /\ pc' \in [Calls -> PC]
<1>1. CASE slots = <<>>
  <2>1. free' = free + 1 /\ pc' = [pc EXCEPT ![c] = "done"] /\ slots' = slots
    BY <1>1 DEF Release
  <2>2. pc' \in [Calls -> PC]
    BY <2>1 DEF Queues, PC
  <2>3. free' \in Nat
    BY <2>1 DEF Numbers
  <2> QED
    BY <2>1, <2>2, <2>3 DEF Queues
<1>2. CASE slots # <<>>
  <2>1. /\ slots' = Tail(slots) /\ free' = free
        /\ pc' = [pc EXCEPT ![c] = "done", ![Head(slots)] = "calling"]
    BY <1>2 DEF Release
  <2>2. Head(slots) \in Calls /\ Tail(slots) \in Seq(Calls)
    BY <1>2, HeadTailProperties DEF Queues
  <2>3. pc' \in [Calls -> PC]
    BY <2>1, <2>2 DEF Queues, PC
  <2>4. free' \in Nat
    BY <2>1 DEF Numbers
  <2> QED
    BY <2>1, <2>2, <2>3, <2>4
<1> QED
  BY <1>1, <1>2

\* A call in progress was given a token, so there is a bucket to slow down; it
\* keeps no more than the lower rate allows and is still covered.
LEMMA RefusedStep == ASSUME IInv, NEW c \in Calls, Refused(c) PROVE IInv'
<1> DEFINE f == Cut(factor)
<1>1. f \in Floor .. Scale
  <2>1. factor \in Nat /\ Floor \in Nat /\ Scale \in Nat /\ Floor <= factor /\ factor <= Scale
    BY LimiterAssumption DEF IInv, Numbers
  <2>2. factor \div 2 \in Nat /\ factor \div 2 <= factor
    BY <2>1, Z3
  <2> HIDE DEF f
  <2> QED
    BY <2>1, <2>2 DEF f, Cut, Larger
<1>2. RateAt(f) \in 1 .. Rate
  BY <1>1, RateRange
<1>3. /\ factor' = f /\ throttledAt' = clock /\ rate' = RateAt(f) /\ updated' = updated
      /\ tokens' = Smaller(tokens, Capacity(RateAt(f)))
      /\ UNCHANGED <<clock, lock, wake, credit>>
  BY DEF Refused, SlowDown
<1>4. Capacity(RateAt(f)) \in Nat
  BY <1>2, LimiterAssumption DEF Capacity, Larger
<1> HIDE DEF f
<1>5. tokens \in Nat /\ tokens' \in Nat /\ tokens' <= tokens /\ tokens' <= Capacity(RateAt(f))
  BY <1>3, <1>4 DEF IInv, Numbers, Smaller
<1>6. /\ free' \in Nat
      /\ slots' \in Seq(Calls) /\ pc' \in [Calls -> PC]
  BY ReleaseStep DEF IInv, Refused
<1>7. Numbers'
  <2>1. clock' = clock /\ clock \in Nat /\ wake' \in [Calls -> Nat] /\ updated \in Nat /\ credit' \in Int
    BY <1>3 DEF IInv, Numbers
  <2>2. rate' \in Nat
    BY <1>2, <1>3, LimiterAssumption
  <2> QED
    BY <1>1, <1>3, <1>5, <1>6, <2>1, <2>2 DEF Numbers
<1>8. Queues'
  BY <1>3, <1>6 DEF IInv, Queues
<1>9. rate' \in 1 .. Rate /\ rate > 0
  BY <1>2, <1>3 DEF IInv, BucketOK, Refused
<1>10. BucketOK'
  <2>1. updated' <= clock' /\ throttledAt' <= clock'
    BY <1>3 DEF IInv, Numbers, BucketOK
  <2>2. rate' \in 0 .. Rate /\ rate' # 0
    BY <1>9, LimiterAssumption
  <2> QED
    BY <2>1, <2>2 DEF BucketOK
<1>11. Covered'
  <2> DEFINE g == (clock - updated) * Rate
  <2>1. g \in Int /\ credit \in Int /\ Capacity(Rate) \in Int
    BY LimiterAssumption DEF IInv, Numbers, BucketOK, Capacity, Larger
  <2>2. credit >= Smaller(Capacity(Rate), tokens + g)
    BY <1>9 DEF IInv, Covered
  <2> HIDE DEF g
  <2>3. tokens \in Int /\ tokens' \in Int /\ tokens' <= tokens
    BY <1>5
  <2>4. credit >= Smaller(Capacity(Rate), tokens' + g)
    BY <2>1, <2>2, <2>3, FewerAreCovered
  <2>5. /\ rate' # 0 /\ credit' = credit /\ g = (clock' - updated') * Rate
    BY <1>3, <1>9, LimiterAssumption DEF g
  <2> QED
    BY <2>4, <2>5 DEF Covered, Smaller, Capacity, Larger
<1>12. NoStaleBurst'
  <2>1. Capacity(rate)' = Capacity(rate')
    BY DEF Capacity, Larger
  <2> QED
    BY <1>3, <1>5, <2>1 DEF NoStaleBurst
<1> QED
  BY <1>7, <1>8, <1>10, <1>11, <1>12 DEF IInv

\* The bucket, the throttle and the clock are left alone by everything else.
LEMMA QuietStep ==
    ASSUME IInv, UNCHANGED <<clock, bucket, throttle, credit, wake>>,
           free' \in Nat, Queues',
           rate = 0 => \A c \in Calls : pc'[c] \in {"new", "queued", "done"}
    PROVE  IInv'
<1>1. /\ clock' = clock /\ tokens' = tokens /\ rate' = rate /\ updated' = updated
      /\ factor' = factor /\ throttledAt' = throttledAt /\ credit' = credit /\ wake' = wake
  BY DEF bucket, throttle
<1>2. Numbers'
  BY <1>1 DEF IInv, Numbers
<1>3. BucketOK'
  BY <1>1 DEF IInv, BucketOK
<1>4. Covered'
  BY <1>1 DEF IInv, Covered, Smaller, Capacity, Larger
<1>5. NoStaleBurst'
  BY <1>1 DEF IInv, NoStaleBurst, Capacity, Larger
<1> QED
  BY <1>2, <1>3, <1>4, <1>5 DEF IInv

\* A caller that joins the queue disturbs nobody in it.
LEMMA CallStep == ASSUME IInv, NEW c \in Calls, Call(c) PROVE IInv'
<1>1. /\ UNCHANGED <<clock, bucket, throttle, credit, wake, free, slots>>
      /\ lock' = Append(lock, c) /\ pc' = [pc EXCEPT ![c] = "queued"]
  BY DEF Call
<1>2. Queues'
  BY <1>1, AppendProperties DEF IInv, Queues, PC, InLock
<1>3. rate = 0 => \A d \in Calls : pc'[d] \in {"new", "queued", "done"}
  BY <1>1 DEF IInv, Queues, BucketOK
<1>4. free' \in Nat
  BY <1>1 DEF IInv, Numbers
<1> QED
  BY <1>1, <1>2, <1>3, <1>4, QuietStep

\* An answer says nothing about the rate; only the slot moves on.
LEMMA AnsweredStep == ASSUME IInv, NEW c \in Calls, Answered(c) PROVE IInv'
<1>1. /\ free' \in Nat
      /\ slots' \in Seq(Calls) /\ pc' \in [Calls -> PC]
  BY ReleaseStep DEF IInv, Answered
<1>2. UNCHANGED <<clock, bucket, throttle, credit, wake, lock>>
  BY DEF Answered
<1>3. Queues'
  BY <1>1, <1>2 DEF IInv, Queues
<1>4. rate > 0 /\ rate' = rate
  BY <1>2 DEF IInv, BucketOK, Answered, bucket
<1> QED
  BY <1>1, <1>2, <1>3, <1>4, QuietStep

\* A caller that is cancelled leaves the queue it was in, and no other.
LEMMA CancelStep == ASSUME IInv, NEW c \in Calls, Cancel(c) PROVE IInv'
<1>1. /\ UNCHANGED <<clock, bucket, throttle, credit, wake, free>>
      /\ pc' = [pc EXCEPT ![c] = "done"]
  BY DEF Cancel
<1>2. lock' \in Seq(Calls) /\ slots' \in Seq(Calls)
  BY RemoveAtKeepsHead, LenProperties DEF IInv, Queues, Cancel
<1>3. Queues'
  BY <1>1, <1>2 DEF IInv, Queues, PC
<1>4. rate = 0 => \A d \in Calls : pc'[d] \in {"new", "queued", "done"}
  BY <1>1 DEF IInv, Queues, BucketOK
<1>5. free' \in Nat
  BY <1>1 DEF IInv, Numbers
<1> QED
  BY <1>1, <1>3, <1>4, <1>5, QuietStep

\* An instant adds as much to the reference bucket as any bucket can regain.
LEMMA TickStep == ASSUME IInv, Tick PROVE IInv'
<1>1. /\ clock' = clock + 1
      /\ credit' = Smaller(Capacity(Rate), credit + Rate)
      /\ tokens' = tokens /\ rate' = rate /\ updated' = updated
      /\ factor' = factor /\ throttledAt' = throttledAt
      /\ UNCHANGED <<lock, free, slots, pc, wake>>
  BY DEF Tick, bucket, throttle
<1>2. clock \in Nat /\ updated \in Nat /\ throttledAt \in Nat /\ tokens \in Nat /\ credit \in Int
  BY DEF IInv, Numbers
<1>3. Rate \in Nat /\ Capacity(Rate) \in Nat /\ Rate <= Capacity(Rate)
  BY LimiterAssumption DEF Capacity, Larger
<1>4. Numbers'
  <2>1. credit' \in Int
    BY <1>1, <1>2, <1>3 DEF Smaller
  <2> QED
    BY <1>1, <1>2, <2>1 DEF IInv, Numbers
<1>5. Queues'
  BY <1>1 DEF IInv, Queues
<1>6. BucketOK'
  BY <1>1, <1>2 DEF IInv, BucketOK
<1>7. Covered'
  <2>1. CASE rate = 0
    <3>1. credit = Capacity(Rate)
      BY <2>1 DEF IInv, Covered
    <3>2. credit' = Capacity(Rate)
      BY <1>1, <1>3, <3>1 DEF Smaller
    <3> QED
      BY <1>1, <2>1, <3>2 DEF Covered, Capacity, Larger
  <2>2. CASE rate # 0
    <3> DEFINE g == (clock - updated) * Rate
    <3>1. g \in Int /\ (clock + 1 - updated) * Rate = g + Rate
      BY <1>2, <1>3
    <3>2. credit >= Smaller(Capacity(Rate), tokens + g)
      BY <2>2 DEF IInv, Covered
    <3> HIDE DEF g
    <3> DEFINE top == Capacity(Rate)
    <3>3. top \in Nat /\ credit >= Smaller(top, tokens + g)
          /\ credit' = Smaller(top, credit + Rate)
      BY <1>1, <1>3, <3>2
    <3> HIDE DEF top
    <3>4. credit' >= Smaller(top, tokens + (g + Rate))
      BY <1>2, <1>3, <3>1, <3>3 DEF Smaller
    <3>5. tokens' + (clock' - updated') * Rate = tokens + (g + Rate)
      <4>1. tokens' = tokens /\ clock' = clock + 1 /\ updated' = updated
        BY <1>1
      <4>2. clock' - updated' = clock + 1 - updated
        BY <1>2, <4>1
      <4>3. (clock' - updated') * Rate = (clock + 1 - updated) * Rate
        BY <4>2
      <4> QED
        BY <3>1, <4>1, <4>3
    <3> QED
      BY <1>1, <2>2, <3>4, <3>5 DEF top, Covered, Smaller, Capacity, Larger
  <2> QED
    BY <2>1, <2>2
<1>8. NoStaleBurst'
  BY <1>1 DEF IInv, NoStaleBurst, Capacity, Larger
<1> QED
  BY <1>4, <1>5, <1>6, <1>7, <1>8 DEF IInv

\* The inductive invariant holds in every reachable state.
LEMMA Invariance == LimiterSpec => []IInv
<1>1. LimiterInit => IInv
  BY InitStep
<1>2. IInv /\ [LimiterNext]_limiterVars => IInv'
  <2> SUFFICES ASSUME IInv, [LimiterNext]_limiterVars PROVE IInv'
    OBVIOUS
  <2>1. ASSUME NEW c \in Calls, Step(c) PROVE IInv'
    BY <2>1, CallStep, TakeLockStep, RepaceStep, AnsweredStep, RefusedStep, CancelStep DEF Step
  <2>2. CASE Tick
    BY <2>2, TickStep
  <2>3. CASE UNCHANGED limiterVars
    <3>1. UNCHANGED <<clock, bucket, throttle, credit, wake, free, lock, slots, pc>>
      BY <2>3 DEF limiterVars
    <3>2. Queues' /\ free' \in Nat
      BY <3>1 DEF IInv, Queues, Numbers
    <3>3. rate = 0 => \A d \in Calls : pc'[d] \in {"new", "queued", "done"}
      BY <3>1 DEF IInv, BucketOK
    <3> QED
      BY <3>1, <3>2, <3>3, QuietStep
  <2> QED
    BY <2>1, <2>2, <2>3 DEF LimiterNext
<1> QED
  BY <1>1, <1>2, PTL DEF LimiterSpec

\* The limiter's state keeps its types: tokens never go below zero, and the
\* throttling factor stays between its floor and one.
THEOREM LimiterTypeCorrect == LimiterSpec => []LimiterTypeOK
<1>1. IInv => LimiterTypeOK
  BY DEF IInv, Numbers, Queues, LimiterTypeOK
<1> QED
  BY <1>1, Invariance, PTL

\* Through every throttling and recovery, the tokens handed out in any interval
\* are no more than one bucket of the configured rate would have handed out.
THEOREM GrantsArePaced == LimiterSpec => []GrantsPaced
<1>1. IInv => GrantsPaced
  <2> SUFFICES ASSUME IInv PROVE credit >= 0
    BY DEF GrantsPaced
  <2>1. /\ credit \in Int /\ tokens \in Nat /\ (clock - updated) * Rate \in Nat
        /\ Capacity(Rate) \in Nat
    BY LimiterAssumption DEF IInv, Numbers, BucketOK, Capacity, Larger
  <2> QED
    BY <2>1 DEF IInv, Covered, Smaller
<1> QED
  BY <1>1, Invariance, PTL

\* No burst saved up at a higher rate survives a throttling.
THEOREM NoBurstIsStale == LimiterSpec => []NoStaleBurst
<1>1. IInv => NoStaleBurst
  BY DEF IInv
<1> QED
  BY <1>1, Invariance, PTL

-----------------------------------------------------------------------------
(* The slots *)

Holding == {c \in Calls : pc[c] = "calling"}

\* Slots are free or held, one waiter stands once in the queue, and waits.
SlotInv ==
    /\ IsFiniteSet(Holding) /\ free + Cardinality(Holding) = MaxConcurrency
    /\ slots # <<>> => free = 0
    /\ \A i \in 1 .. Len(slots) : pc[slots[i]] = "waiting"
    /\ \A i, j \in 1 .. Len(slots) : slots[i] = slots[j] => i = j

\* Neither the slots nor those that hold one or wait for one change.
LEMMA SlotsUntouched ==
    ASSUME Queues, SlotInv, free' = free, slots' = slots,
           \A d \in Calls : pc'[d] # pc[d] =>
               pc[d] \notin {"waiting", "calling"} /\ pc'[d] # "calling"
    PROVE  SlotInv'
<1>1. Holding' = Holding
  BY DEF Holding
<1>2. \A i \in 1 .. Len(slots) : slots[i] \in Calls
  BY DEF Queues
<1>3. \A i \in 1 .. Len(slots) : pc'[slots[i]] = "waiting"
  BY <1>2 DEF SlotInv
<1> QED
  BY <1>1, <1>3 DEF SlotInv

\* A pass that grants takes a free slot or a place at the end of the queue.
LEMMA PassSlots ==
    ASSUME Queues, Numbers, SlotInv, NEW c \in Calls, pc[c] \in InLock, NEW r, NEW stock,
           Pass(c, stock, r)
    PROVE  SlotInv'
<1>0. slots \in Seq(Calls) /\ pc \in [Calls -> PC] /\ free \in Nat
  BY DEF Queues, Numbers
<1>1. CASE Sleep(c, stock, r)
  <2>1. free' = free /\ slots' = slots /\ pc' = [pc EXCEPT ![c] = "pacing"]
    BY <1>1 DEF Sleep
  <2>2. \A d \in Calls : pc'[d] # pc[d] =>
           pc[d] \notin {"waiting", "calling"} /\ pc'[d] # "calling"
    BY <1>0, <2>1 DEF InLock
  <2> QED
    BY <2>1, <2>2, SlotsUntouched
<1>2. CASE Grant(c, stock) /\ free > 0
  <2>1. free' = free - 1 /\ slots' = slots /\ pc' = [pc EXCEPT ![c] = "calling"]
    BY <1>2 DEF Grant
  <2>2. slots = <<>>
    BY <1>2 DEF SlotInv
  <2>3. Holding' = Holding \cup {c} /\ c \notin Holding
    BY <1>0, <2>1 DEF Holding, InLock
  <2>4. IsFiniteSet(Holding') /\ Cardinality(Holding') = Cardinality(Holding) + 1
    BY <2>3, FS_AddElement DEF SlotInv
  <2>5. Cardinality(Holding) \in Nat
    BY FS_CardinalityType DEF SlotInv
  <2>6. Len(slots') = 0 /\ slots' = <<>>
    BY <2>1, <2>2
  <2> QED
    BY <1>0, <2>1, <2>4, <2>5, <2>6 DEF SlotInv
<1>3. CASE Grant(c, stock) /\ ~(free > 0)
  <2>1. free' = free /\ slots' = Append(slots, c) /\ pc' = [pc EXCEPT ![c] = "waiting"]
    BY <1>3 DEF Grant
  <2>2. Holding' = Holding /\ free = 0
    BY <1>0, <1>3, <2>1 DEF Holding, InLock
  <2>3. /\ Len(slots') = Len(slots) + 1 /\ slots'[Len(slots) + 1] = c
        /\ \A i \in 1 .. Len(slots) : slots'[i] = slots[i] /\ slots[i] \in Calls
    BY <1>0, <2>1
  <2>4. \A i \in 1 .. Len(slots) : slots[i] # c
    BY DEF SlotInv, InLock
  <2>5. \A i \in 1 .. Len(slots') : i \in 1 .. Len(slots) \/ i = Len(slots) + 1
    BY <1>0, <2>3
  <2>6. \A i \in 1 .. Len(slots') : pc'[slots'[i]] = "waiting"
    BY <1>0, <2>1, <2>3, <2>4, <2>5 DEF SlotInv
  <2>7. \A i, j \in 1 .. Len(slots') : slots'[i] = slots'[j] => i = j
    BY <2>3, <2>4, <2>5 DEF SlotInv
  <2> QED
    BY <2>1, <2>2, <2>6, <2>7 DEF SlotInv
<1> QED
  BY <1>1, <1>2, <1>3 DEF Pass

\* A slot given up is free, or the first waiter's.
LEMMA ReleaseSlots ==
    ASSUME Queues, Numbers, SlotInv, NEW c \in Calls, pc[c] = "calling", Release(c)
    PROVE  SlotInv'
<1>0. /\ slots \in Seq(Calls) /\ pc \in [Calls -> PC] /\ free \in Nat
      /\ c \in Holding /\ Cardinality(Holding) \in Nat /\ IsFiniteSet(Holding)
  BY FS_CardinalityType DEF Queues, Numbers, Holding, SlotInv
<1>1. /\ IsFiniteSet(Holding \ {c})
      /\ Cardinality(Holding \ {c}) = Cardinality(Holding) - 1
  BY <1>0, FS_RemoveElement
<1>2. CASE slots = <<>>
  <2>1. free' = free + 1 /\ pc' = [pc EXCEPT ![c] = "done"] /\ slots' = slots
    BY <1>2 DEF Release
  <2>2. Holding' = Holding \ {c}
    BY <1>0, <2>1 DEF Holding
  <2>3. Len(slots') = 0
    BY <1>2, <2>1
  <2> QED
    BY <1>0, <1>1, <1>2, <2>1, <2>2, <2>3 DEF SlotInv
<1>3. CASE slots # <<>>
  <2> DEFINE w == Head(slots)
  <2>1. /\ slots' = Tail(slots) /\ free' = free
        /\ pc' = [pc EXCEPT ![c] = "done", ![w] = "calling"]
    BY <1>3 DEF Release
  <2>2. /\ w = slots[1] /\ Len(slots) >= 1 /\ w \in Calls
        /\ Len(slots') = Len(slots) - 1
        /\ \A i \in 1 .. Len(slots') :
              slots'[i] = slots[i + 1] /\ i + 1 \in 1 .. Len(slots) /\ slots[i + 1] \in Calls
    BY <1>0, <1>3, <2>1
  <2> HIDE DEF w
  <2>3. pc[w] = "waiting" /\ w # c
    BY <2>2 DEF SlotInv
  <2>4. Holding' = (Holding \ {c}) \cup {w} /\ w \notin Holding
    BY <1>0, <2>1, <2>2, <2>3 DEF Holding
  <2>5. IsFiniteSet(Holding') /\ Cardinality(Holding') = Cardinality(Holding)
    <3>1. /\ IsFiniteSet((Holding \ {c}) \cup {w})
          /\ Cardinality((Holding \ {c}) \cup {w}) = Cardinality(Holding \ {c}) + 1
      BY <1>1, <2>4, FS_AddElement
    <3> QED
      BY <1>0, <1>1, <2>4, <3>1
  <2>6. \A i \in 1 .. Len(slots') : slots'[i] # w /\ slots'[i] # c
    <3> SUFFICES ASSUME NEW i \in 1 .. Len(slots') PROVE slots'[i] # w /\ slots'[i] # c
      OBVIOUS
    <3>1. i + 1 \in 1 .. Len(slots) /\ 1 \in 1 .. Len(slots) /\ i + 1 # 1
      BY <1>0, <2>2
    <3> QED
      BY <2>2, <3>1 DEF SlotInv
  <2>7. \A i \in 1 .. Len(slots') : pc'[slots'[i]] = "waiting"
    BY <1>0, <2>1, <2>2, <2>6 DEF SlotInv
  <2>8. \A i, j \in 1 .. Len(slots') : slots'[i] = slots'[j] => i = j
    <3> SUFFICES ASSUME NEW i \in 1 .. Len(slots'), NEW j \in 1 .. Len(slots'),
                        slots'[i] = slots'[j]
                 PROVE  i = j
      OBVIOUS
    <3>1. i + 1 = j + 1
      BY <2>2 DEF SlotInv
    <3> QED
      BY <3>1
  <2>9. free = 0
    BY <1>3 DEF SlotInv
  <2> QED
    BY <1>0, <2>1, <2>5, <2>7, <2>8, <2>9 DEF SlotInv
<1> QED
  BY <1>2, <1>3

\* A waiter that is cancelled takes no other with it.
LEMMA CancelSlots ==
    ASSUME Queues, Numbers, SlotInv, NEW c \in Calls, Cancel(c)
    PROVE  SlotInv'
<1>0. slots \in Seq(Calls) /\ pc \in [Calls -> PC]
  BY DEF Queues
<1>1. pc' = [pc EXCEPT ![c] = "done"] /\ free' = free
  BY DEF Cancel
<1>2. CASE pc[c] \in InLock /\ slots' = slots
  <2>1. \A d \in Calls : pc'[d] # pc[d] =>
           pc[d] \notin {"waiting", "calling"} /\ pc'[d] # "calling"
    BY <1>0, <1>1, <1>2 DEF InLock
  <2> QED
    BY <1>1, <1>2, <2>1, SlotsUntouched
<1>3. CASE pc[c] = "waiting" /\ \E i \in DOMAIN slots : slots[i] = c /\ slots' = RemoveAt(slots, i)
  <2>1. PICK i \in 1 .. Len(slots) : slots[i] = c /\ slots' = RemoveAt(slots, i)
    BY <1>0, <1>3
  <2>2. /\ Len(slots') = Len(slots) - 1 /\ slots # <<>>
        /\ \A k \in 1 .. Len(slots') : slots'[k] = IF k < i THEN slots[k] ELSE slots[k + 1]
    <3>1. /\ Len(RemoveAt(slots, i)) = Len(slots) - 1
          /\ \A k \in 1 .. Len(slots) - 1 :
                RemoveAt(slots, i)[k] = IF k < i THEN slots[k] ELSE slots[k + 1]
      BY <1>0, RemoveAtClosesGap
    <3> QED
      BY <1>0, <2>1, <3>1
  <2>3. ASSUME NEW k \in 1 .. Len(slots')
        PROVE  \E m \in 1 .. Len(slots) :
                  /\ m # i /\ slots'[k] = slots[m] /\ slots[m] \in Calls
                  /\ m = IF k < i THEN k ELSE k + 1
    <3> DEFINE m == IF k < i THEN k ELSE k + 1
    <3>1. m \in 1 .. Len(slots) /\ m # i /\ slots'[k] = slots[m]
      BY <1>0, <2>2
    <3> QED
      BY <1>0, <3>1
  <2>4. Holding' = Holding
    BY <1>0, <1>1, <1>3 DEF Holding
  <2>5. \A k \in 1 .. Len(slots') : pc'[slots'[k]] = "waiting"
    <3> SUFFICES ASSUME NEW k \in 1 .. Len(slots') PROVE pc'[slots'[k]] = "waiting"
      OBVIOUS
    <3>1. PICK m \in 1 .. Len(slots) : m # i /\ slots'[k] = slots[m] /\ slots[m] \in Calls
      BY <2>3
    <3>2. slots[m] # c
      BY <2>1, <3>1 DEF SlotInv
    <3> QED
      BY <1>0, <1>1, <3>1, <3>2 DEF SlotInv
  <2>6. \A k, l \in 1 .. Len(slots') : slots'[k] = slots'[l] => k = l
    <3> SUFFICES ASSUME NEW k \in 1 .. Len(slots'), NEW l \in 1 .. Len(slots'),
                        slots'[k] = slots'[l]
                 PROVE  k = l
      OBVIOUS
    <3>1. PICK m \in 1 .. Len(slots) : slots'[k] = slots[m] /\ m = IF k < i THEN k ELSE k + 1
      BY <2>3
    <3>2. PICK n \in 1 .. Len(slots) : slots'[l] = slots[n] /\ n = IF l < i THEN l ELSE l + 1
      BY <2>3
    <3>3. m = n
      BY <3>1, <3>2 DEF SlotInv
    <3> QED
      BY <3>1, <3>2, <3>3
  <2> QED
    BY <1>1, <2>2, <2>4, <2>5, <2>6 DEF SlotInv
<1> QED
  BY <1>2, <1>3 DEF Cancel

\* Every step of a call keeps the account of the slots.
LEMMA SlotStep == IInv /\ SlotInv /\ [LimiterNext]_limiterVars => SlotInv'
<1> SUFFICES ASSUME IInv, SlotInv, [LimiterNext]_limiterVars PROVE SlotInv'
  OBVIOUS
<1>0. Queues /\ Numbers
  BY DEF IInv
<1>1. ASSUME NEW c \in Calls, Call(c) PROVE SlotInv'
  <2>1. \A d \in Calls : pc'[d] # pc[d] =>
           pc[d] \notin {"waiting", "calling"} /\ pc'[d] # "calling"
    BY <1>0, <1>1 DEF Call, Queues
  <2> QED
    BY <1>0, <1>1, <2>1, SlotsUntouched DEF Call
<1>2. ASSUME NEW c \in Calls, TakeLock(c) \/ Repace(c) PROVE SlotInv'
  <2>1. pc[c] \in InLock
    BY <1>2 DEF TakeLock, Repace, InLock
  <2>2. \E stock, r : Pass(c, stock, r)
    BY <1>2 DEF TakeLock, Repace
  <2> QED
    BY <1>0, <2>1, <2>2, PassSlots
<1>3. ASSUME NEW c \in Calls, Answered(c) \/ Refused(c) PROVE SlotInv'
  BY <1>0, <1>3, ReleaseSlots DEF Answered, Refused
<1>4. CASE Tick \/ UNCHANGED limiterVars
  <2>1. UNCHANGED <<free, slots, pc>>
    BY <1>4 DEF Tick, limiterVars
  <2> QED
    BY <1>0, <2>1, SlotsUntouched
<1> QED
  BY <1>0, <1>1, <1>2, <1>3, <1>4, CancelSlots DEF LimiterNext, Step

\* However calls end, by an answer, an error, a refusal or a cancellation, every slot
\* is free or held by a call in progress, and no waiter is overlooked.
THEOREM SlotsNeverLeak == LimiterSpec => []NoSlotLeaks
<1>1. LimiterInit => SlotInv
  <2> SUFFICES ASSUME LimiterInit PROVE SlotInv
    OBVIOUS
  <2>1. Holding = {} /\ slots = <<>> /\ free = MaxConcurrency /\ MaxConcurrency \in Nat
    BY LimiterAssumption DEF LimiterInit, Holding
  <2>2. IsFiniteSet(Holding) /\ Cardinality(Holding) = 0
    BY <2>1, FS_EmptySet
  <2>3. Len(slots) = 0
    BY <2>1
  <2> QED
    BY <2>1, <2>2, <2>3 DEF SlotInv
<1>2. SlotInv => NoSlotLeaks
  BY DEF SlotInv, NoSlotLeaks, Holding
<1> QED
  BY <1>1, <1>2, Invariance, SlotStep, PTL DEF LimiterSpec

-----------------------------------------------------------------------------
(* Quoting: the arithmetic of one range *)

\* Rounded upwards.
LEMMA CeilingOf ==
    ASSUME NEW x \in Int, NEW y \in Nat \ {0}
    PROVE  /\ CeilDiv(x, y) \in Int
           /\ x <= y * CeilDiv(x, y) /\ y * (CeilDiv(x, y) - 1) < x
           /\ x >= 0 => CeilDiv(x, y) \in Nat
           /\ x > 0 => CeilDiv(x, y) > 0
<1> DEFINE z == x + y - 1
           c == z \div y
<1>1. z \in Int
  OBVIOUS
<1>2. c \in Int /\ y * c <= z /\ z < y * c + y /\ (z >= 0 => c \in Nat)
  <2> HIDE DEF z
  <2> QED
    BY <1>1, QuotientOf
<1> HIDE DEF c
<1>3. y * c \in Int /\ y * (c - 1) = y * c - y
  BY <1>2
<1>4. x <= y * c /\ y * (c - 1) < x
  BY <1>2, <1>3
<1>5. x > 0 => c > 0
  <2> SUFFICES ASSUME x > 0, c <= 0 PROVE FALSE
    BY <1>2
  <2>1. y * c <= y * 0
    BY <1>2
  <2> QED
    BY <1>3, <1>4, <2>1
<1>6. CeilDiv(x, y) = c
  BY DEF CeilDiv, c
<1>7. x >= 0 => z >= 0
  OBVIOUS
<1> QED
  BY <1>2, <1>4, <1>5, <1>6, <1>7

\* Whether the rest pays for a range is asked of the rest with the fee taken off by the
\* contract, of the range with the fee put on by the code: it is the same question.
LEMMA FitsAlike ==
    ASSUME NEW left \in Nat, NEW m \in Nat
    PROVE  /\ (left * (FeeUnits - Fee)) \div FeeUnits \in Nat
           /\ CeilDiv(m * Fee, FeeUnits - Fee) \in Nat
           /\ (left * (FeeUnits - Fee)) \div FeeUnits >= m
                <=> left >= m + CeilDiv(m * Fee, FeeUnits - Fee)
<1> DEFINE D == FeeUnits - Fee
           x == left * D
           q == x \div FeeUnits
           y == m * Fee
           g == CeilDiv(y, D)
<1>1. FeeUnits \in Nat \ {0} /\ Fee \in Nat /\ D \in Nat \ {0} /\ FeeUnits = D + Fee
  BY QuotingAssumption
<1>2. x \in Nat /\ y \in Nat
  <2> HIDE DEF D
  <2>1. \A a, b \in Nat : a * b \in Nat
    OBVIOUS
  <2> QED
    BY <1>1, <2>1
<1>3. q \in Nat /\ FeeUnits * q <= x /\ x < FeeUnits * q + FeeUnits
  <2> HIDE DEF x
  <2> QED
    BY <1>1, <1>2, QuotientOf
<1>4. g \in Nat /\ y <= D * g /\ D * (g - 1) < y
  <2> HIDE DEF y, D
  <2> QED
    BY <1>1, <1>2, CeilingOf
<1>5. x = D * left /\ FeeUnits * m = D * m + y
  <2> HIDE DEF D
  <2>1. left * D = D * left /\ (D + Fee) * m = D * m + m * Fee
    BY <1>1
  <2> QED
    BY <1>1, <2>1
<1> HIDE DEF x, y, q, g, D
<1>6. ASSUME q >= m PROVE left >= m + g
  <2>1. FeeUnits * m <= FeeUnits * q
    BY <1>1, <1>3, <1>6, TimesOrder
  <2>2. FeeUnits * q \in Int /\ FeeUnits * m \in Int /\ D * m \in Int /\ D * left \in Int /\ D * (g - 1) \in Int
    BY <1>1, <1>3, <1>4
  <2>3. D * m + D * (g - 1) < D * left
    BY <1>2, <1>3, <1>4, <1>5, <2>1, <2>2
  <2>4. D * (m + (g - 1)) = D * m + D * (g - 1)
    BY <1>1, <1>4, TimesOrder
  <2>5. m + (g - 1) \in Int /\ D * (m + (g - 1)) < D * left
    BY <1>4, <2>3, <2>4
  <2>6. m + (g - 1) < left
    BY <1>1, <2>5, TimesOrder
  <2> QED
    BY <1>4, <2>6
<1>7. ASSUME left >= m + g PROVE q >= m
  <2>1. D * (m + g) <= D * left /\ D * (m + g) = D * m + D * g
    <3>1. m + g \in Int
      BY <1>4
    <3> QED
      BY <1>1, <1>4, <1>7, <3>1, TimesOrder
  <2>2. D * m \in Int /\ D * g \in Int /\ D * left \in Int /\ FeeUnits * m \in Int /\ FeeUnits * q \in Int
    BY <1>1, <1>3, <1>4
  <2>3. FeeUnits * m < FeeUnits * q + FeeUnits
    BY <1>1, <1>2, <1>3, <1>4, <1>5, <2>1, <2>2
  <2>4. q + 1 \in Int /\ FeeUnits * (q + 1) = FeeUnits * q + FeeUnits
    BY <1>1, <1>3
  <2>5. FeeUnits * m < FeeUnits * (q + 1)
    BY <2>3, <2>4
  <2>6. m < q + 1
    BY <1>1, <2>4, <2>5, TimesOrder
  <2> QED
    BY <1>3, <2>6
<1>8. q \in Nat /\ g \in Nat /\ (q >= m <=> left >= m + g)
  BY <1>3, <1>4, <1>6, <1>7
<1> QED
  BY <1>8 DEF q, g, x, y, D

\* What is left of an input after the fee: rounded down by the contract, the fee
\* rounded up by the code.
LEMMA NetOfFee ==
    ASSUME NEW left \in Nat
    PROVE  left - CeilDiv(left * Fee, FeeUnits) = (left * (FeeUnits - Fee)) \div FeeUnits
<1> DEFINE x == left * (FeeUnits - Fee)
           y == left * Fee
           q == x \div FeeUnits
           c == CeilDiv(y, FeeUnits)
<1>1. FeeUnits \in Nat \ {0} /\ Fee \in Nat /\ FeeUnits - Fee \in Nat
  BY QuotingAssumption
<1>2. x \in Int /\ y \in Int /\ FeeUnits * left \in Int /\ x + y = FeeUnits * left
  <2>1. \A f, d \in Nat : left * d + left * f = (d + f) * left /\ left * d \in Int /\ left * f \in Int
    OBVIOUS
  <2>2. (FeeUnits - Fee) + Fee = FeeUnits
    BY <1>1
  <2>3. left * (FeeUnits - Fee) + left * Fee = ((FeeUnits - Fee) + Fee) * left
    BY <1>1, <2>1
  <2> QED
    BY <1>1, <2>1, <2>2, <2>3
<1>3. q \in Int /\ FeeUnits * q <= x /\ x < FeeUnits * q + FeeUnits
  <2> HIDE DEF x
  <2> QED
    BY <1>1, <1>2, QuotientOf
<1>4. c \in Int /\ y <= FeeUnits * c /\ FeeUnits * (c - 1) < y
  <2> HIDE DEF y
  <2> QED
    BY <1>1, <1>2, CeilingOf
<1> HIDE DEF x, y, q, c
<1> DEFINE n == left - c
<1>5. n \in Int /\ FeeUnits * n = FeeUnits * left - FeeUnits * c /\ FeeUnits * c \in Int
      /\ FeeUnits * (c - 1) = FeeUnits * c - FeeUnits
  BY <1>1, <1>4, TimesOrder
<1>6. FeeUnits * n \in Int /\ FeeUnits * n <= x /\ x < FeeUnits * n + FeeUnits
  BY <1>1, <1>2, <1>4, <1>5
<1> HIDE DEF n
<1>7. FeeUnits * q \in Int /\ FeeUnits * (q + 1) = FeeUnits * q + FeeUnits
      /\ FeeUnits * (n + 1) = FeeUnits * n + FeeUnits
  BY <1>1, <1>3, <1>5
<1>8. FeeUnits * n < FeeUnits * (q + 1) /\ FeeUnits * q < FeeUnits * (n + 1)
  BY <1>1, <1>2, <1>3, <1>6, <1>7
<1>9. n < q + 1 /\ q < n + 1
  <2>1. n + 1 \in Int /\ q + 1 \in Int
    BY <1>3, <1>5
  <2> QED
    BY <1>1, <1>3, <1>5, <1>8, <2>1, TimesOrder
<1>10. n = q
  BY <1>3, <1>5, <1>9
<1> QED
  BY <1>10 DEF n, q, c, x, y

\* The sqrt price of a greater tick is greater.
LEMMA PricesRise ==
    ASSUME NEW t \in TickRange, NEW u \in TickRange
    PROVE  t < u => SqrtAt[t] < SqrtAt[u]
<1> DEFINE T == {k \in Nat : \A v \in TickRange : v = t + k + 1 => SqrtAt[t] < SqrtAt[v]}
<1>0. MinTick \in Int /\ MaxTick \in Int /\ t \in Int /\ u \in Int
      /\ \A v \in TickRange : SqrtAt[v] \in Nat \ {0}
  BY QuotingAssumption DEF TickRange
<1>1. 0 \in T
  <2>1. ASSUME NEW v \in TickRange, v = t + 0 + 1 PROVE SqrtAt[t] < SqrtAt[v]
    <3>1. t \in MinTick .. MaxTick - 1 /\ v = t + 1
      BY <1>0, <2>1 DEF TickRange
    <3> QED
      BY <3>1, QuotingAssumption
  <2> QED
    BY <2>1
<1>2. ASSUME NEW k \in T PROVE k + 1 \in T
  <2>1. ASSUME NEW v \in TickRange, v = t + (k + 1) + 1 PROVE SqrtAt[t] < SqrtAt[v]
    <3>1. v - 1 \in TickRange /\ v - 1 = t + k + 1 /\ v - 1 \in MinTick .. MaxTick - 1 /\ (v - 1) + 1 = v
      BY <1>0, <2>1 DEF TickRange
    <3>2. SqrtAt[t] < SqrtAt[v - 1]
      BY <3>1
    <3>3. SqrtAt[v - 1] < SqrtAt[v]
      <4>1. SqrtAt[v - 1] < SqrtAt[(v - 1) + 1]
        BY <3>1, QuotingAssumption
      <4> QED
        BY <3>1, <4>1
    <3>4. SqrtAt[t] \in Nat /\ SqrtAt[v] \in Nat /\ SqrtAt[v - 1] \in Nat
      BY <1>0, <3>1
    <3> QED
      BY ONLY <3>2, <3>3, <3>4
  <2>2. k + 1 \in Nat
    OBVIOUS
  <2> QED
    BY <2>1, <2>2
<1>3. T \in SUBSET Nat
  OBVIOUS
<1> HIDE DEF T
<1>4. T = Nat
  BY <1>1, <1>2, <1>3, InductionOn
<1>5. t < u => u - t - 1 \in Nat /\ u = t + (u - t - 1) + 1
  BY <1>0
<1> QED
  BY <1>4, <1>5 DEF T

\* Two ticks with their prices.
LEMMA PriceOrder ==
    ASSUME NEW t \in TickRange, NEW u \in TickRange
    PROVE  /\ SqrtAt[t] \in Nat \ {0} /\ SqrtAt[u] \in Nat \ {0}
           /\ t <= u <=> SqrtAt[t] <= SqrtAt[u]
<1>1. t \in Int /\ u \in Int /\ SqrtAt[t] \in Nat \ {0} /\ SqrtAt[u] \in Nat \ {0}
  BY QuotingAssumption DEF TickRange
<1>2. t < u => SqrtAt[t] < SqrtAt[u]
  BY PricesRise
<1>3. u < t => SqrtAt[u] < SqrtAt[t]
  BY PricesRise
<1>4. t = u => SqrtAt[t] = SqrtAt[u]
  OBVIOUS
<1> QED
  BY <1>1, <1>2, <1>3, <1>4

\* What the input of a range is, down: rounded up twice.
LEMMA RoomDown ==
    ASSUME NEW a \in Nat \ {0}, NEW s \in Nat \ {0}, a <= s, NEW l \in Nat \ {0}
    PROVE  LET N == l * Q
               i == CeilDiv(N * (s - a), s)
               m == InputFor(s, a, l, TRUE)
           IN  /\ N \in Nat \ {0} /\ N * (s - a) \in Nat
               /\ i \in Nat /\ N * (s - a) <= s * i /\ s * (i - 1) < N * (s - a)
               /\ m \in Nat /\ i <= a * m /\ a * (m - 1) < i
               /\ a < s => m > 0
<1> DEFINE N == l * Q
           d == s - a
           e == N * d
           i == CeilDiv(e, s)
           m == CeilDiv(i, a)
<1>1. N \in Nat \ {0}
  <2>1. Q \in Nat \ {0}
    BY QuotingAssumption
  <2>2. \A x, y \in Nat \ {0} : x * y \in Nat \ {0}
    OBVIOUS
  <2> QED
    BY <2>1, <2>2
<1>2. d \in Nat /\ (a < s => d > 0)
  OBVIOUS
<1> HIDE DEF N, d
<1>3. e \in Nat /\ (d > 0 => e > 0)
  BY <1>1, <1>2
<1> HIDE DEF e
<1>4. i \in Nat /\ e <= s * i /\ s * (i - 1) < e /\ (e > 0 => i > 0)
  BY <1>3, CeilingOf
<1> HIDE DEF i
<1>5. m \in Nat /\ i <= a * m /\ a * (m - 1) < i /\ (i > 0 => m > 0)
  BY <1>4, CeilingOf
<1> HIDE DEF m
<1>6. m = InputFor(s, a, l, TRUE) /\ i = CeilDiv((l * Q) * (s - a), s)
  <2>1. l * Q * (s - a) = e /\ i = CeilDiv((l * Q) * (s - a), s)
    BY DEF e, N, d, i
  <2> QED
    BY <2>1 DEF InputFor, Token0, m, i
<1>7. e = (l * Q) * (s - a) /\ N = l * Q
  BY DEF e, N, d
<1> QED
  BY <1>1, <1>2, <1>3, <1>4, <1>5, <1>6, <1>7

\* And up: rounded up once.
LEMMA RoomUp ==
    ASSUME NEW b \in Nat \ {0}, NEW s \in Nat \ {0}, s <= b, NEW l \in Nat \ {0}
    PROVE  LET m == InputFor(s, b, l, FALSE)
           IN  /\ l * (b - s) \in Nat
               /\ m \in Nat /\ l * (b - s) <= Q * m /\ Q * (m - 1) < l * (b - s)
               /\ s < b => m > 0
<1> DEFINE d == b - s
           e == l * d
           m == CeilDiv(e, Q)
<1>1. Q \in Nat \ {0}
  BY QuotingAssumption
<1>2. d \in Nat /\ (s < b => d > 0)
  OBVIOUS
<1> HIDE DEF d
<1>3. e \in Nat /\ (d > 0 => e > 0)
  BY <1>1, <1>2
<1> HIDE DEF e
<1>4. m \in Nat /\ e <= Q * m /\ Q * (m - 1) < e /\ (e > 0 => m > 0)
  BY <1>1, <1>3, CeilingOf
<1> HIDE DEF m
<1>5. m = InputFor(s, b, l, FALSE) /\ e = l * (b - s)
  BY DEF InputFor, Token1, m, e, d
<1> QED
  BY <1>2, <1>3, <1>4, <1>5

\* What an input leaves of the price, down: between nothing and where it was.
LEMMA AfterDown ==
    ASSUME NEW s \in Nat \ {0}, NEW l \in Nat \ {0}, NEW x \in Nat
    PROVE  SqrtAfter(s, l, x, TRUE) \in Nat \ {0} /\ SqrtAfter(s, l, x, TRUE) <= s
<1> DEFINE N == l * Q
           d == N + x * s
           n == N * s
           c == CeilDiv(n, d)
<1>1. N \in Nat \ {0}
  <2>1. Q \in Nat \ {0}
    BY QuotingAssumption
  <2>2. \A p, q \in Nat \ {0} : p * q \in Nat \ {0}
    OBVIOUS
  <2> QED
    BY <2>1, <2>2
<1> HIDE DEF N
<1>2. x * s \in Nat /\ n \in Nat \ {0} /\ d \in Nat \ {0}
  <2>1. \A p, q \in Nat : p * q \in Nat
    OBVIOUS
  <2>2. \A p, q \in Nat \ {0} : p * q \in Nat \ {0}
    OBVIOUS
  <2>3. x * s \in Nat /\ n \in Nat \ {0}
    BY <1>1, <2>1, <2>2
  <2> QED
    BY <1>1, <2>3
<1>3. n <= d * s
  <2>1. \A p, q \in Nat : (p + q) * s = p * s + q * s /\ q * s \in Nat /\ p * s \in Nat
    OBVIOUS
  <2>2. d * s = N * s + (x * s) * s /\ (x * s) * s \in Nat /\ N * s \in Nat
    BY <1>1, <1>2, <2>1
  <2> QED
    BY <2>2
<1> HIDE DEF n, d
<1>4. c \in Nat \ {0} /\ d * (c - 1) < n
  BY <1>2, CeilingOf
<1> HIDE DEF c
<1>5. d * (c - 1) < d * s
  <2>1. d * (c - 1) \in Int /\ d * s \in Int /\ n \in Int
    BY <1>2, <1>4
  <2> QED
    BY <1>3, <1>4, <2>1
<1>6. c - 1 < s
  <2>1. c - 1 \in Int /\ s \in Int
    BY <1>4
  <2> QED
    BY <1>2, <1>5, <2>1, TimesOrder
<1>7. c \in Nat \ {0} /\ c <= s
  BY <1>4, <1>6
<1>8. c = SqrtAfter(s, l, x, TRUE)
  BY DEF c, n, d, N, SqrtAfter
<1> QED
  BY <1>7, <1>8

\* And up.
LEMMA AfterUp ==
    ASSUME NEW s \in Nat \ {0}, NEW l \in Nat \ {0}, NEW x \in Nat
    PROVE  SqrtAfter(s, l, x, FALSE) \in Nat \ {0} /\ s <= SqrtAfter(s, l, x, FALSE)
<1>1. Q \in Nat
  BY QuotingAssumption
<1>2. x * Q \in Nat
  BY <1>1
<1> DEFINE y == x * Q
<1> HIDE DEF y
<1>3. y \in Nat => y \div l \in Nat
  BY QuotientOf
<1>4. y \div l \in Nat
  BY <1>2, <1>3 DEF y
<1> DEFINE c == s + (y \div l)
<1>5. c \in Nat \ {0} /\ s <= c
  BY <1>4
<1>6. SqrtAfter(s, l, x, FALSE) = c
  BY DEF SqrtAfter, y
<1> HIDE DEF c
<1> QED
  BY <1>5, <1>6

\* An input that does not fill a range downwards stops within it.
LEMMA StopsShortDown ==
    ASSUME NEW a \in Nat \ {0}, NEW s \in Nat \ {0}, a < s, NEW l \in Nat \ {0},
           NEW x \in Nat, x < InputFor(s, a, l, TRUE)
    PROVE  a < SqrtAfter(s, l, x, TRUE)
<1> DEFINE N == l * Q
           e == N * (s - a)
           i == CeilDiv(e, s)
           m == InputFor(s, a, l, TRUE)
           d == N + x * s
           n == N * s
           c == CeilDiv(n, d)
<1>0. a <= s
  OBVIOUS
<1>1. /\ N \in Nat \ {0} /\ e \in Nat
      /\ i \in Nat /\ e <= s * i /\ s * (i - 1) < e
      /\ m \in Nat /\ i <= a * m /\ a * (m - 1) < i
  BY <1>0, RoomDown
<1>2. e = n - N * a /\ n \in Int /\ N * a \in Int
  <2> HIDE DEF N
  <2> QED
    BY <1>1
<1>3. x * s \in Nat /\ d \in Nat \ {0}
  <2> HIDE DEF N
  <2>1. x * s \in Nat
    OBVIOUS
  <2> QED
    BY <1>1, <2>1
<1>4. a * d = N * a + s * (a * x)
  <2> HIDE DEF N
  <2>1. \A p \in Nat : a * (N + p) = N * a + a * p
    BY <1>1
  <2>2. a * (x * s) = s * (a * x)
    OBVIOUS
  <2> QED
    BY <1>3, <2>1, <2>2
<1>5. c \in Int /\ n <= d * c
  <2> HIDE DEF n, d
  <2> QED
    BY <1>2, <1>3, CeilingOf
<1>a. x < m
  OBVIOUS
<1> HIDE DEF N, e, i, m, d, n, c
<1>6. x <= m - 1
  BY <1>1, <1>a
<1>7. a * x <= i - 1 /\ a * x \in Nat
  <2>1. a * x <= a * (m - 1) /\ a * x \in Nat /\ a * (m - 1) \in Int
    <3>1. m - 1 \in Int /\ x \in Int
      BY <1>1
    <3>2. a * x \in Nat
      OBVIOUS
    <3> QED
      BY <1>6, <3>1, <3>2, TimesOrder
  <2> QED
    BY <1>1, <2>1
<1>8. s * (a * x) <= s * (i - 1) /\ s * (a * x) \in Int /\ s * (i - 1) \in Int
  <2> DEFINE y == a * x
  <2>1. y \in Int /\ i - 1 \in Int /\ y <= i - 1
    BY <1>1, <1>7
  <2> HIDE DEF y
  <2>2. s * y <= s * (i - 1) /\ s * y \in Int /\ s * (i - 1) \in Int
    BY <2>1, TimesOrder
  <2> QED
    BY <2>2 DEF y
<1>9. a * d < n
  BY <1>1, <1>2, <1>4, <1>8
<1>10. d * a < d * c
  <2>1. a * d = d * a /\ d * a \in Int /\ d * c \in Int
    BY <1>3, <1>5
  <2> QED
    BY <1>2, <1>5, <1>9, <2>1
<1>11. a < c
  BY <1>3, <1>5, <1>10, TimesOrder
<1>12. c = SqrtAfter(s, l, x, TRUE)
  BY DEF c, n, d, N, SqrtAfter
<1> QED
  BY <1>11, <1>12

\* And upwards.
LEMMA StopsShortUp ==
    ASSUME NEW b \in Nat \ {0}, NEW s \in Nat \ {0}, s < b, NEW l \in Nat \ {0},
           NEW x \in Nat, x < InputFor(s, b, l, FALSE)
    PROVE  SqrtAfter(s, l, x, FALSE) < b
<1> DEFINE d == b - s
           e == l * d
           m == InputFor(s, b, l, FALSE)
           y == x * Q
           q == y \div l
<1>0. s <= b /\ Q \in Nat \ {0}
  BY QuotingAssumption
<1>1. e \in Nat /\ m \in Nat /\ Q * (m - 1) < e
  BY <1>0, RoomUp
<1>a. x < m
  OBVIOUS
<1>3. y = Q * x /\ y \in Nat
  BY <1>0
<1>4. q \in Int /\ l * q <= y
  <2> HIDE DEF y
  <2> QED
    BY <1>3, QuotientOf
<1>5. SqrtAfter(s, l, x, FALSE) = s + q
  BY DEF SqrtAfter
<1> HIDE DEF m, y, q
<1>2. x <= m - 1 /\ d \in Int
  BY <1>1, <1>a
<1>6. Q * x <= Q * (m - 1) /\ Q * (m - 1) \in Int
  <2>1. m - 1 \in Int
    BY <1>1
  <2> QED
    BY <1>0, <1>2, <2>1, TimesOrder
<1>7. l * q < l * d
  <2>1. l * q \in Int /\ l * d \in Int
    BY <1>2, <1>4
  <2> QED
    BY <1>1, <1>3, <1>4, <1>6, <2>1
<1>8. q < d
  <2> HIDE DEF d
  <2> QED
    BY <1>2, <1>4, <1>7, TimesOrder
<1> DEFINE c == s + q
<1>9. c < b
  BY <1>2, <1>4, <1>8
<1> HIDE DEF c
<1> QED
  BY <1>5, <1>9 DEF c

\* A range that goes further takes as much or more, down.
LEMMA FurtherDown ==
    ASSUME NEW a \in Nat \ {0}, NEW a2 \in Nat \ {0}, a2 <= a, NEW s \in Nat \ {0}, a <= s,
           NEW l \in Nat \ {0}
    PROVE  InputFor(s, a, l, TRUE) <= InputFor(s, a2, l, TRUE)
<1> DEFINE N == l * Q
           e == N * (s - a)
           e2 == N * (s - a2)
           i == CeilDiv(e, s)
           i2 == CeilDiv(e2, s)
           m == InputFor(s, a, l, TRUE)
           m2 == InputFor(s, a2, l, TRUE)
<1>1. /\ N \in Nat \ {0} /\ e \in Nat
      /\ i \in Nat /\ e <= s * i /\ s * (i - 1) < e
      /\ m \in Nat /\ i <= a * m /\ a * (m - 1) < i
  BY RoomDown
<1>2. /\ e2 \in Nat
      /\ i2 \in Nat /\ e2 <= s * i2
      /\ m2 \in Nat /\ i2 <= a2 * m2
  <2>1. a2 <= s
    OBVIOUS
  <2> QED
    BY <2>1, RoomDown
<1>3. e <= e2
  <2>1. s - a \in Int /\ s - a2 \in Int /\ s - a <= s - a2
    OBVIOUS
  <2> HIDE DEF N
  <2> QED
    BY <1>1, <2>1, TimesOrder
<1> HIDE DEF N, e, e2, i, i2, m, m2
<1>4. i - 1 < i2
  <2>1. i - 1 \in Int /\ s * (i - 1) \in Int /\ s * i2 \in Int
    BY <1>1, <1>2
  <2>2. s * (i - 1) < s * i2
    BY <1>1, <1>2, <1>3, <2>1
  <2> QED
    BY <1>2, <2>1, <2>2, TimesOrder
<1>5. a2 * m2 <= a * m2 /\ a2 * m2 \in Int /\ a * m2 \in Int
  <2>1. CASE m2 = 0
    BY <2>1
  <2>2. CASE m2 # 0
    <3>1. m2 \in Nat \ {0} /\ a2 * m2 = m2 * a2 /\ a * m2 = m2 * a
      BY <1>2, <2>2
    <3> QED
      BY <3>1, TimesOrder
  <2> QED
    BY <2>1, <2>2
<1>6. m - 1 < m2
  <2>1. m - 1 \in Int /\ a * (m - 1) \in Int
    BY <1>1
  <2>2. a * (m - 1) < a * m2
    BY <1>1, <1>2, <1>4, <1>5, <2>1
  <2> QED
    BY <1>2, <2>1, <2>2, TimesOrder
<1>7. m <= m2
  BY <1>1, <1>2, <1>6
<1> QED
  BY <1>7 DEF m, m2

\* And up.
LEMMA FurtherUp ==
    ASSUME NEW b \in Nat \ {0}, NEW b2 \in Nat \ {0}, b <= b2, NEW s \in Nat \ {0}, s <= b,
           NEW l \in Nat \ {0}
    PROVE  InputFor(s, b, l, FALSE) <= InputFor(s, b2, l, FALSE)
<1> DEFINE e == l * (b - s)
           e2 == l * (b2 - s)
           m == InputFor(s, b, l, FALSE)
           m2 == InputFor(s, b2, l, FALSE)
<1>0. Q \in Nat \ {0} /\ s <= b2
  BY QuotingAssumption
<1>1. e \in Nat /\ m \in Nat /\ Q * (m - 1) < e
  BY RoomUp
<1>2. e2 \in Nat /\ m2 \in Nat /\ e2 <= Q * m2
  BY <1>0, RoomUp
<1>3. e <= e2
  <2>1. b - s \in Int /\ b2 - s \in Int /\ b - s <= b2 - s
    OBVIOUS
  <2> QED
    BY <2>1, TimesOrder
<1> HIDE DEF e, e2, m, m2
<1>4. m - 1 \in Int /\ Q * (m - 1) \in Int /\ Q * m2 \in Int
  BY <1>0, <1>1, <1>2
<1>5. Q * (m - 1) < Q * m2
  BY <1>1, <1>2, <1>3, <1>4
<1>6. m - 1 < m2
  BY <1>0, <1>2, <1>4, <1>5, TimesOrder
<1>7. m <= m2
  BY <1>1, <1>2, <1>6
<1> QED
  BY <1>7 DEF m, m2

\* The liquidity of some positions is a number.
LEMMA LiquidityIsNat ==
    ASSUME NEW S \in SUBSET Positions
    PROVE  Liquidity(S) \in Nat
<1> DEFINE pick == [s \in SUBSET S |-> CHOOSE x \in s : TRUE]
           join == [p \in S \X Nat |-> p[1].amount + p[2]]
           Unfold(f) == [s \in SUBSET S |->
                         IF s = {} THEN 0
                         ELSE (CHOOSE x \in s : TRUE).amount + f[s \ {CHOOSE x \in s : TRUE}]]
           iter == CHOOSE f : f = Unfold(f)
<1>1. IsFiniteSet(S) /\ \A p \in S : p.amount \in Nat
  BY FS_Subset, QuotingAssumption
<1>2. Liquidity(S) = iter[S]
  BY DEF Liquidity, MapThenSumSet, MapThenFoldSet
<1>3. \A s \in SUBSET S : s # {} => pick[s] \in s
  OBVIOUS
<1>4. join \in [S \X Nat -> Nat]
  BY <1>1
<1>5. PICK f \in [SUBSET S -> Nat] :
         f = [s \in SUBSET S |-> IF s = {} THEN 0 ELSE join[<<pick[s], f[s \ {pick[s]}]>>]]
  <2>1. 0 \in Nat /\ IsFiniteSet(S)
    BY <1>1
  <2> HIDE DEF pick, join
  <2>2. \E f : Gathers(f, S, Nat, 0, pick, join)
    BY <1>3, <1>4, <2>1, RecursionOnSubsets
  <2> QED
    BY <2>2 DEF Gathers
<1>6. f = Unfold(f)
  <2>1. ASSUME NEW s \in SUBSET S, s # {}
        PROVE  join[<<pick[s], f[s \ {pick[s]}]>>]
                 = (CHOOSE x \in s : TRUE).amount + f[s \ {CHOOSE x \in s : TRUE}]
    <3>1. pick[s] = CHOOSE x \in s : TRUE
      OBVIOUS
    <3>2. pick[s] \in S /\ s \ {pick[s]} \in SUBSET S
      BY <1>3, <2>1
    <3> DEFINE r == s \ {pick[s]}
    <3> HIDE DEF pick
    <3>a. f \in [SUBSET S -> Nat] /\ r \in SUBSET S
      BY <1>5, <3>2
    <3> HIDE DEF r
    <3>b. f[r] \in Nat
      BY <3>a
    <3>3. <<pick[s], f[s \ {pick[s]}]>> \in S \X Nat
      BY <3>2, <3>b DEF r
    <3>4. join[<<pick[s], f[s \ {pick[s]}]>>] = pick[s].amount + f[s \ {pick[s]}]
      BY <3>3
    <3> QED
      BY <3>1, <3>4
  <2> HIDE DEF join, pick
  <2> QED
    BY <1>5, <2>1
<1>7. iter = Unfold(iter)
  <2> HIDE DEF Unfold
  <2> QED
    BY <1>6
<1> HIDE DEF iter
<1> DEFINE T == {n \in Nat : \A s \in SUBSET S : Cardinality(s) = n => iter[s] \in Nat}
<1>8. ASSUME NEW s \in SUBSET S
      PROVE  /\ Cardinality(s) \in Nat /\ (Cardinality(s) = 0 => s = {})
             /\ s # {} => Cardinality(s \ {CHOOSE x \in s : TRUE}) = Cardinality(s) - 1
  <2>1. IsFiniteSet(s)
    BY <1>1, FS_Subset
  <2>2. s # {} => (CHOOSE x \in s : TRUE) \in s
    OBVIOUS
  <2> QED
    BY <2>1, <2>2, FS_CardinalityType, FS_EmptySet, FS_RemoveElement
<1>9. 0 \in T
  <2>1. {} \in SUBSET S
    OBVIOUS
  <2>2. iter[{}] = 0
    BY <1>7, <2>1
  <2> QED
    BY <1>8, <2>2
<1>10. ASSUME NEW n \in T PROVE n + 1 \in T
  <2> SUFFICES ASSUME NEW s \in SUBSET S, Cardinality(s) = n + 1 PROVE iter[s] \in Nat
    OBVIOUS
  <2> DEFINE x == CHOOSE x \in s : TRUE
             r == s \ {x}
  <2>1. s # {}
    <3>1. Cardinality({}) = 0 /\ n \in Nat
      BY FS_EmptySet
    <3>2. Cardinality({}) # n + 1
      BY <3>1
    <3> QED
      BY <3>2
  <2>2. x \in S /\ r \in SUBSET S
    BY <2>1
  <2>3. Cardinality(r) = n
    <3>1. Cardinality(r) = Cardinality(s) - 1
      BY <1>8, <2>1
    <3> HIDE DEF r
    <3> QED
      BY <3>1
  <2>4. iter[r] \in Nat
    BY <2>2, <2>3
  <2>5. iter[s] = x.amount + iter[r]
    BY <1>7, <2>1
  <2>6. x.amount \in Nat
    BY <1>1, <2>2
  <2> HIDE DEF x, r
  <2> QED
    BY <2>4, <2>5, <2>6
<1>11. Cardinality(S) \in T
  <2>1. T \in SUBSET Nat /\ Cardinality(S) \in Nat
    BY <1>8
  <2> HIDE DEF T
  <2>2. T = Nat
    BY <1>9, <1>10, <2>1, InductionOn
  <2> QED
    BY <2>1, <2>2
<1>12. S \in SUBSET S
  OBVIOUS
<1>13. iter[S] \in Nat
  BY <1>11, <1>12
<1> QED
  BY <1>2, <1>13

-----------------------------------------------------------------------------
(* Quoting: the ticks, and one range of both *)

\* Every initialised tick is one of the ticks.
LEMMA InitialisedTicks ==
    ASSUME NEW S \in SUBSET Positions
    PROVE  Initialised(S) \subseteq TickRange /\ \A t \in Initialised(S) : t % Spacing = 0
<1>1. \A p \in S : p.lower \in TickRange /\ p.upper \in TickRange
                    /\ p.lower % Spacing = 0 /\ p.upper % Spacing = 0
  BY QuotingAssumption
<1> QED
  BY <1>1 DEF Initialised

\* Where the contract goes next.
LEMMA NextDown ==
    ASSUME NEW S \in SUBSET Positions, NEW tick \in Int
    PROVE  LET t == ContractNext(S, TRUE, tick)
           IN  /\ t \in TickRange
               /\ t = MinTick \/ (t \in Initialised(S) /\ t <= tick)
               /\ \A u \in Initialised(S) : u <= tick => u <= t
<1> DEFINE T == {MinTick} \cup {t \in Initialised(S) : t <= tick}
<1>1. MinTick \in Int /\ MaxTick \in Int /\ MinTick \in MinTick .. MaxTick
  BY QuotingAssumption
<1>2. T \in SUBSET (MinTick .. MaxTick) /\ T # {}
  BY <1>1, InitialisedTicks DEF TickRange
<1>3. Max(T) \in T /\ \A k \in T : k <= Max(T)
  <2> HIDE DEF T
  <2> QED
    BY <1>1, <1>2, MaxOfIntegers
<1>4. ContractNext(S, TRUE, tick) = Max(T)
  BY DEF ContractNext
<1>5. Max(T) \in TickRange
  BY <1>2, <1>3 DEF TickRange
<1> QED
  BY <1>3, <1>4, <1>5

\* The same on the way up.
LEMMA NextUp ==
    ASSUME NEW S \in SUBSET Positions, NEW tick \in Int
    PROVE  LET t == ContractNext(S, FALSE, tick)
           IN  /\ t \in TickRange
               /\ t = MaxTick \/ (t \in Initialised(S) /\ t > tick)
               /\ \A u \in Initialised(S) : u > tick => t <= u
<1> DEFINE T == {MaxTick} \cup {t \in Initialised(S) : t > tick}
<1>1. MinTick \in Int /\ MaxTick \in Int /\ MaxTick \in MinTick .. MaxTick
  BY QuotingAssumption
<1>2. T \in SUBSET (MinTick .. MaxTick) /\ T # {}
  BY <1>1, InitialisedTicks DEF TickRange
<1>3. Min(T) \in T /\ \A k \in T : Min(T) <= k
  <2> HIDE DEF T
  <2> QED
    BY <1>1, <1>2, MinOfIntegers
<1>4. ContractNext(S, FALSE, tick) = Min(T)
  BY DEF ContractNext
<1>5. Min(T) \in TickRange
  BY <1>2, <1>3 DEF TickRange
<1> QED
  BY <1>3, <1>4, <1>5

\* The price a range is entered at, one within it, and the one the contract makes for.
OnTheWay(s, p, b, down) == IF down THEN b <= p /\ p < s ELSE s < p /\ p <= b

\* What the way from one price to another takes, with the fee put on.
Gross(s, p, l, down) ==
    InputFor(s, p, l, down) + CeilDiv(InputFor(s, p, l, down) * Fee, FeeUnits - Fee)

\* What is left of an input with the fee taken off.
NetOf(left) == (left * (FeeUnits - Fee)) \div FeeUnits

\* m fills the way to p, m2 the way to b, and less than m stops short of either.
Rooms(m, m2, s, p, b, l, down) ==
    /\ m \in Nat \ {0} /\ m2 \in Nat \ {0} /\ m <= m2
    /\ m = InputFor(s, p, l, down) /\ m2 = InputFor(s, b, l, down)
    /\ \A x \in Nat : x < m =>
          /\ SqrtAfter(s, l, x, down) # p /\ SqrtAfter(s, l, x, down) # b
          /\ SqrtAfter(s, l, x, down) \in Nat \ {0}

\* What the way to a price takes, and what the way beyond it takes.
LEMMA RoomOnTheWay ==
    ASSUME NEW down \in BOOLEAN, NEW s \in Nat \ {0}, NEW p \in Nat \ {0}, NEW b \in Nat \ {0},
           NEW l \in Nat \ {0}, OnTheWay(s, p, b, down)
    PROVE  \E m, m2 : Rooms(m, m2, s, p, b, l, down)
<1>1. CASE down = TRUE
  <2>1. b <= p /\ p < s /\ p <= s /\ b <= s
    BY <1>1 DEF OnTheWay
  <2> DEFINE m == InputFor(s, p, l, TRUE)
             m2 == InputFor(s, b, l, TRUE)
  <2>2. m \in Nat /\ m > 0 /\ m2 \in Nat
    BY <2>1, RoomDown
  <2>3. m <= m2
    BY <2>1, FurtherDown
  <2>4. ASSUME NEW x \in Nat, x < m
        PROVE  /\ SqrtAfter(s, l, x, TRUE) # p /\ SqrtAfter(s, l, x, TRUE) # b
               /\ SqrtAfter(s, l, x, TRUE) \in Nat \ {0}
    <3> DEFINE n == SqrtAfter(s, l, x, TRUE)
    <3>1. n \in Nat \ {0}
      BY AfterDown
    <3>2. p < n
      BY <2>1, <2>4, StopsShortDown
    <3> HIDE DEF n
    <3>3. n # p /\ n # b
      BY <2>1, <3>1, <3>2
    <3> QED
      BY <3>1, <3>3 DEF n
  <2>5. m = InputFor(s, p, l, down) /\ m2 = InputFor(s, b, l, down)
    BY <1>1
  <2> HIDE DEF m, m2
  <2>6. m \in Nat \ {0} /\ m2 \in Nat \ {0}
    BY <2>2, <2>3
  <2>7. Rooms(m, m2, s, p, b, l, down)
    BY <1>1, <2>3, <2>4, <2>5, <2>6 DEF Rooms, m
  <2> QED
    BY <2>7
<1>2. CASE down = FALSE
  <2>1. s < p /\ p <= b /\ s <= p /\ s <= b
    BY <1>2 DEF OnTheWay
  <2> DEFINE m == InputFor(s, p, l, FALSE)
             m2 == InputFor(s, b, l, FALSE)
  <2>2. m \in Nat /\ m > 0 /\ m2 \in Nat
    BY <2>1, RoomUp
  <2>3. m <= m2
    BY <2>1, FurtherUp
  <2>4. ASSUME NEW x \in Nat, x < m
        PROVE  /\ SqrtAfter(s, l, x, FALSE) # p /\ SqrtAfter(s, l, x, FALSE) # b
               /\ SqrtAfter(s, l, x, FALSE) \in Nat \ {0}
    <3> DEFINE n == SqrtAfter(s, l, x, FALSE)
    <3>1. n \in Nat \ {0}
      BY AfterUp
    <3>2. n < p
      BY <2>1, <2>4, StopsShortUp
    <3> HIDE DEF n
    <3>3. n # p /\ n # b
      BY <2>1, <3>1, <3>2
    <3> QED
      BY <3>1, <3>3 DEF n
  <2>5. m = InputFor(s, p, l, down) /\ m2 = InputFor(s, b, l, down)
    BY <1>2
  <2> HIDE DEF m, m2
  <2>6. m \in Nat \ {0} /\ m2 \in Nat \ {0}
    BY <2>2, <2>3
  <2>7. Rooms(m, m2, s, p, b, l, down)
    BY <1>2, <2>3, <2>4, <2>5, <2>6 DEF Rooms, m
  <2> QED
    BY <2>7
<1> QED
  BY <1>1, <1>2

\* Whatever the code asks of a price on the way, the contract's answer is the same.
LEMMA StepsAlike ==
    ASSUME NEW down \in BOOLEAN, NEW s \in Nat \ {0}, NEW p \in Nat \ {0}, NEW b \in Nat \ {0},
           NEW l \in Nat \ {0}, OnTheWay(s, p, b, down), NEW left \in Nat
    PROVE  /\ InputFor(s, p, l, down) \in Nat \ {0}
           /\ Gross(s, p, l, down) \in Nat
           /\ left - CeilDiv(left * Fee, FeeUnits) = NetOf(left)
           /\ left >= Gross(s, p, l, down) => NetOf(left) >= InputFor(s, p, l, down)
           /\ ~(left >= Gross(s, p, l, down)) =>
                 /\ ~(NetOf(left) >= InputFor(s, b, l, down))
                 /\ SqrtAfter(s, l, NetOf(left), down) # p
                 /\ SqrtAfter(s, l, NetOf(left), down) # b
                 /\ SqrtAfter(s, l, NetOf(left), down) \in Nat \ {0}
<1>0. PICK m, m2 : Rooms(m, m2, s, p, b, l, down)
  BY RoomOnTheWay
<1>1. /\ m \in Nat \ {0} /\ m2 \in Nat \ {0} /\ m <= m2
      /\ m = InputFor(s, p, l, down) /\ m2 = InputFor(s, b, l, down)
      /\ \A x \in Nat : x < m =>
            /\ SqrtAfter(s, l, x, down) # p /\ SqrtAfter(s, l, x, down) # b
            /\ SqrtAfter(s, l, x, down) \in Nat \ {0}
  BY <1>0 DEF Rooms
<1> DEFINE n == NetOf(left)
           g == m + CeilDiv(m * Fee, FeeUnits - Fee)
<1>2. n \in Nat /\ g \in Nat /\ (n >= m <=> left >= g)
  <2>1. m \in Nat
    BY <1>1
  <2>2. CeilDiv(m * Fee, FeeUnits - Fee) \in Nat /\ n \in Nat /\ (n >= m <=> left >= g)
    BY <2>1, FitsAlike DEF NetOf
  <2> QED
    BY <2>1, <2>2
<1>3. g = Gross(s, p, l, down)
  BY <1>1 DEF Gross
<1>4. left - CeilDiv(left * Fee, FeeUnits) = n
  BY NetOfFee DEF NetOf
<1> HIDE DEF n, g
<1>5. ~(left >= g) => n < m /\ ~(n >= m2)
  BY <1>1, <1>2
<1>6. ~(left >= g) =>
         /\ ~(n >= m2) /\ SqrtAfter(s, l, n, down) # p /\ SqrtAfter(s, l, n, down) # b
         /\ SqrtAfter(s, l, n, down) \in Nat \ {0}
  BY <1>1, <1>2, <1>5
<1> QED
  BY <1>1, <1>2, <1>3, <1>4, <1>6 DEF n

-----------------------------------------------------------------------------
(* Quoting: the window *)

\* Of the ticks on one side of the price, those dropped lie beyond those kept.
LEMMA KeptAreNearest ==
    ASSUME pool.tick \in Int, NEW a \in Int, NEW b \in Int, NEW T \in SUBSET (a .. b),
           NEW t \in Retained(T), NEW d \in T \ Retained(T)
    PROVE  /\ d <= pool.tick /\ t <= pool.tick => d < t
           /\ d > pool.tick /\ t > pool.tick => t < d
<1> DEFINE Before(x) == {u \in T : Nearer(u, x)}
<1>1. IsFiniteSet(T) /\ T \subseteq Int
  <2>1. IsFiniteSet(a .. b)
    BY FS_Interval
  <2> DEFINE J == a .. b
  <2>2. IsFiniteSet(J) /\ T \in SUBSET J /\ J \subseteq Int
    BY <2>1
  <2> HIDE DEF J
  <2> QED
    BY <2>2, FS_Subset
<1>2. \A x \in T : IsFiniteSet(Before(x)) /\ Cardinality(Before(x)) \in Nat
  <2>1. ASSUME NEW x \in T PROVE IsFiniteSet(Before(x))
    <3>1. Before(x) \in SUBSET T
      OBVIOUS
    <3> HIDE DEF Before
    <3> QED
      BY <1>1, <3>1, FS_Subset
  <2> QED
    BY <2>1, FS_CardinalityType
<1>3. t \in T /\ d \in T /\ t # d
  BY DEF Retained
<1>4. Cardinality(Before(t)) < MaxTicks /\ ~(Cardinality(Before(d)) < MaxTicks)
  BY DEF Retained
<1>5. MaxTicks \in Nat
  BY QuotingAssumption
<1>6. ~ Nearer(d, t)
  <2> SUFFICES ASSUME Nearer(d, t) PROVE FALSE
    OBVIOUS
  <2>1. ASSUME NEW u \in T, Nearer(u, d) PROVE Nearer(u, t)
    <3>1. u \in Int /\ t \in Int /\ d \in Int
      BY <1>1, <1>3
    <3> QED
      BY <2>1, <3>1 DEF Nearer
  <2>2. Before(d) \subseteq Before(t)
    BY <2>1
  <2>3. Cardinality(Before(d)) <= Cardinality(Before(t))
    <3>1. IsFiniteSet(Before(t))
      BY <1>2, <1>3
    <3> HIDE DEF Before
    <3> QED
      BY <2>2, <3>1, FS_Subset
  <2> HIDE DEF Before
  <2>4. Cardinality(Before(d)) \in Nat /\ Cardinality(Before(t)) \in Nat
    BY <1>2, <1>3
  <2> QED
    BY <1>4, <1>5, <2>3, <2>4
<1>7. t \in Int /\ d \in Int
  BY <1>1, <1>3
<1> QED
  BY <1>3, <1>6, <1>7 DEF Nearer

\* The claimed window: inside it nothing was dropped, and nothing kept is outside.
WindowTrue(I, at, kept, lower, upper) ==
    /\ lower \in Int /\ upper \in Int
    /\ \A t \in kept : t \in I /\ lower <= t /\ t <= upper
    /\ \A t \in I : lower <= t /\ t <= upper => t \in kept
    /\ \A t \in I : t <= at => t <= upper
    /\ \A t \in I : t > at => lower <= t

\* That is what a scan reads, whatever is dropped for the budget.
LEMMA ClampIsTrue ==
    ASSUME pool.tick \in TickRange, NEW I \in SUBSET TickRange, NEW lo \in Int, NEW hi \in Int,
           lo <= pool.tick, \A t \in I : t <= pool.tick => t <= hi
    PROVE  LET c == Clamp(I \cap lo .. hi, lo, hi)
           IN  /\ c.ticks \subseteq TickRange
               /\ WindowTrue(I, pool.tick, c.ticks, c.lower, c.upper)
<1> DEFINE T == I \cap lo .. hi
           R == Retained(T)
           below == {t \in T \ R : t <= pool.tick}
           above == {t \in T \ R : t > pool.tick}
           Ls == {lo} \cup {t + 1 : t \in below}
           Us == {hi} \cup {t - 1 : t \in above}
<1>1. T \in SUBSET (lo .. hi) /\ R \subseteq T /\ \A t \in T : t \in Int
  BY DEF Retained
<1>2. pool.tick \in Int /\ \A t \in I : t \in Int
  BY QuotingAssumption DEF TickRange
<1>3. Max(Ls) \in Ls /\ \A k \in Ls : k <= Max(Ls)
  <2>0. below \in SUBSET (lo .. hi)
    BY <1>1
  <2> HIDE DEF below
  <2>1. CASE lo <= hi
    <3>1. Ls \in SUBSET (lo .. hi + 1) /\ Ls # {} /\ hi + 1 \in Int
      BY <2>0, <2>1
    <3> HIDE DEF Ls
    <3> QED
      BY <3>1, MaxOfIntegers
  <2>2. CASE hi < lo
    <3>1. Ls \in SUBSET (lo .. lo) /\ Ls # {}
      BY <2>0, <2>2
    <3> HIDE DEF Ls
    <3> QED
      BY <3>1, MaxOfIntegers
  <2>3. lo <= hi \/ hi < lo
    OBVIOUS
  <2> QED
    BY <2>1, <2>2, <2>3
<1>4. Min(Us) \in Us /\ \A k \in Us : Min(Us) <= k
  <2>0. above \in SUBSET (lo .. hi)
    BY <1>1
  <2> HIDE DEF above
  <2>1. CASE lo <= hi
    <3>1. Us \in SUBSET (lo - 1 .. hi) /\ Us # {} /\ lo - 1 \in Int
      BY <2>0, <2>1
    <3> HIDE DEF Us
    <3> QED
      BY <3>1, MinOfIntegers
  <2>2. CASE hi < lo
    <3>1. Us \in SUBSET (hi .. hi) /\ Us # {}
      BY <2>0, <2>2
    <3> HIDE DEF Us
    <3> QED
      BY <3>1, MinOfIntegers
  <2>3. lo <= hi \/ hi < lo
    OBVIOUS
  <2> QED
    BY <2>1, <2>2, <2>3
<1>5. \A k \in T \ R : (k <= pool.tick => k + 1 \in Ls) /\ (k > pool.tick => k - 1 \in Us)
  OBVIOUS
<1>6. lo \in Ls /\ hi \in Us
  OBVIOUS
<1>7. \A k \in Ls : k \in Int /\ (k = lo \/ \E d \in T \ R : d <= pool.tick /\ k = d + 1)
  <2>1. \A d \in below : d \in T \ R /\ d <= pool.tick /\ d \in Int /\ d + 1 \in Int
    BY <1>1
  <2>2. \A k \in Ls : k = lo \/ \E d \in below : k = d + 1
    OBVIOUS
  <2> HIDE DEF Ls, below
  <2> QED
    BY <2>1, <2>2
<1>8. \A k \in Us : k \in Int /\ (k = hi \/ \E d \in T \ R : d > pool.tick /\ k = d - 1)
  <2>1. \A d \in above : d \in T \ R /\ d > pool.tick /\ d \in Int /\ d - 1 \in Int
    BY <1>1
  <2>2. \A k \in Us : k = hi \/ \E d \in above : k = d - 1
    OBVIOUS
  <2> HIDE DEF Us, above
  <2> QED
    BY <2>1, <2>2
<1> DEFINE lower == Max(Ls)
           upper == Min(Us)
<1>9. Clamp(T, lo, hi) = [ticks |-> R, lower |-> lower, upper |-> upper]
  BY DEF Clamp
<1>10. \A t \in R, d \in T \ R : /\ d <= pool.tick /\ t <= pool.tick => d < t
                                 /\ d > pool.tick /\ t > pool.tick => t < d
  BY <1>1, <1>2, KeptAreNearest
<1>a. \A t \in T : t \in I /\ lo <= t /\ t <= hi
  OBVIOUS
<1>b. \A t \in I : lo <= t /\ t <= hi => t \in T
  BY <1>2
<1> HIDE DEF Ls, Us, T, R
<1>11. lower \in Int /\ upper \in Int
  BY <1>3, <1>4, <1>7, <1>8
<1>12. lower = lo \/ \E d \in T \ R : d <= pool.tick /\ lower = d + 1
  BY <1>3, <1>7
<1>13. upper = hi \/ \E d \in T \ R : d > pool.tick /\ upper = d - 1
  BY <1>4, <1>8
<1>14. /\ lo <= lower /\ upper <= hi
       /\ \A d \in T \ R : (d <= pool.tick => d + 1 <= lower) /\ (d > pool.tick => upper <= d - 1)
  BY <1>3, <1>4, <1>5, <1>6
<1> HIDE DEF lower, upper
<1>15. ASSUME NEW t \in I, t <= pool.tick PROVE t <= upper
  <2>1. t <= hi
    BY <1>15
  <2>2. CASE upper = hi
    BY <2>1, <2>2
  <2>3. ASSUME NEW d \in T \ R, d > pool.tick, upper = d - 1 PROVE t <= upper
    <3>1. t \in Int /\ d \in Int /\ pool.tick \in Int
      BY <1>1, <1>2
    <3> QED
      BY ONLY <1>15, <2>3, <3>1
  <2> QED
    BY <1>13, <2>2, <2>3
<1>16. ASSUME NEW t \in I, t > pool.tick PROVE lower <= t
  <2>1. t \in Int /\ pool.tick \in Int /\ lo <= pool.tick
    BY <1>2
  <2>2. CASE lower = lo
    BY <1>16, <2>1, <2>2
  <2>3. ASSUME NEW d \in T \ R, d <= pool.tick, lower = d + 1 PROVE lower <= t
    <3>1. d \in Int
      BY <1>1
    <3> QED
      BY ONLY <1>16, <2>1, <2>3, <3>1
  <2> QED
    BY <1>12, <2>2, <2>3
<1>17. ASSUME NEW t \in R PROVE t \in I /\ lower <= t /\ t <= upper
  <2>1. t \in T /\ t \in I /\ lo <= t /\ t <= hi /\ t \in Int
    BY <1>1, <1>a
  <2>2. lower <= t
    <3>1. CASE t > pool.tick
      BY <1>16, <2>1, <3>1
    <3>2. CASE t <= pool.tick
      <4>1. ASSUME NEW d \in T \ R, d <= pool.tick, lower = d + 1 PROVE lower <= t
        <5>1. d < t /\ d \in Int
          BY <1>1, <1>10, <3>2, <4>1
        <5> QED
          BY <2>1, <4>1, <5>1
      <4> QED
        BY <1>12, <2>1, <4>1
    <3> QED
      BY <1>2, <2>1, <3>1, <3>2
  <2>3. t <= upper
    <3>1. CASE t <= pool.tick
      BY <1>15, <2>1, <3>1
    <3>2. CASE t > pool.tick
      <4>1. ASSUME NEW d \in T \ R, d > pool.tick, upper = d - 1 PROVE t <= upper
        <5>1. t < d /\ d \in Int
          BY <1>1, <1>10, <3>2, <4>1
        <5> QED
          BY <2>1, <4>1, <5>1
      <4> QED
        BY <1>13, <2>1, <4>1
    <3> QED
      BY <1>2, <2>1, <3>1, <3>2
  <2> QED
    BY <2>1, <2>2, <2>3
<1>18. ASSUME NEW t \in I, lower <= t, t <= upper PROVE t \in R
  <2>1. t \in Int /\ lo <= t /\ t <= hi
    BY <1>2, <1>11, <1>14, <1>18
  <2>2. t \in T
    BY <1>b, <2>1
  <2>3. ASSUME t \notin R PROVE FALSE
    <3>1. (t <= pool.tick => t + 1 <= lower) /\ (t > pool.tick => upper <= t - 1)
      BY <1>14, <2>2, <2>3
    <3> QED
      BY <1>2, <1>11, <1>18, <2>1, <3>1
  <2> QED
    BY <2>3
<1>19. R \subseteq TickRange
  BY <1>17
<1>20. WindowTrue(I, pool.tick, R, lower, upper)
  BY <1>11, <1>15, <1>16, <1>17, <1>18 DEF WindowTrue
<1>21. Clamp(I \cap lo .. hi, lo, hi) = [ticks |-> R, lower |-> lower, upper |-> upper]
  BY <1>9 DEF T
<1> QED
  BY <1>19, <1>20, <1>21

\* What is known of some ticks once they were read.
NetsRead(T) == {x \in {[tick |-> t, net |-> NetAt(pool.positions, t)] : t \in T} : x.net # 0}

\* The ticks that were read, with those still to be, are those of a true window.
SnapInv ==
    /\ pool.tick \in TicksOf(pool.sqrt)
    /\ stage = "new" => snap = NoSnapshot
    /\ stage # "new" =>
          \E T \in SUBSET TickRange :
             /\ WindowTrue(Initialised(pool.positions), pool.tick, T \cup snap.toRead,
                           snap.lower, snap.upper)
             /\ snap.nets = NetsRead(T)
    /\ stage \in {"snapshot", "swap", "priced"} => snap.toRead = {}

\* A running swap is where its prices say.
Placed(w) ==
    IF query.down
    THEN w.tick \in MinTick - 1 .. pool.tick /\ (w.tick >= MinTick => SqrtAt[w.tick] <= w.sqrt)
    ELSE w.tick \in pool.tick .. MaxTick /\ (w.tick < MaxTick => w.sqrt <= SqrtAt[w.tick + 1])

\* A swap under way has a price, and stands where it says until its input is used.
SwapInv ==
    stage = "swap" =>
        /\ swap.sqrt \in Nat \ {0}
        /\ swap.left > 0 /\ ~swap.exhausted => Placed(swap)

\* The strengthened type invariant.
QuoteInv == QuotingTypeOK /\ SnapInv /\ SwapInv

\* What crossing a tick changes is a number.
LEMMA NetIsInt ==
    ASSUME NEW S \in SUBSET Positions, NEW t
    PROVE  NetAt(S, t) \in Int
<1> DEFINE A == {p \in S : p.lower = t}
           B == {p \in S : p.upper = t}
<1>1. A \in SUBSET Positions /\ B \in SUBSET Positions
  OBVIOUS
<1> HIDE DEF A, B
<1>2. Liquidity(A) \in Nat /\ Liquidity(B) \in Nat
  BY <1>1, LiquidityIsNat
<1>3. Liquidity(A) - Liquidity(B) \in Int
  BY <1>2
<1> QED
  BY <1>3 DEF NetAt, A, B

\* The nets that are kept are records of the type.
LEMMA NetsTyped ==
    ASSUME QuotingTypeOK, NEW T \in SUBSET TickRange
    PROVE  NetsRead(T) \subseteq [tick : TickRange, net : Int \ {0}]
<1>1. pool.positions \in SUBSET Positions
  BY DEF QuotingTypeOK
<1>2. \A t \in T : NetAt(pool.positions, t) \in Int /\ t \in TickRange
  BY <1>1, NetIsInt
<1> QED
  BY <1>2 DEF NetsRead

\* More ticks read.
LEMMA NetsJoin ==
    ASSUME NEW T, NEW B
    PROVE  NetsRead(T) \cup {x \in {[tick |-> t, net |-> NetAt(pool.positions, t)] : t \in B} : x.net # 0}
             = NetsRead(T \cup B)
BY DEF NetsRead

\* The first read: a window of whole spacings around the price, cut to the budget.
LEMMA ScanIsTrue ==
    ASSUME QuotingTypeOK, SnapInv, ReadBitmap
    PROVE  /\ snap'.toRead \subseteq TickRange /\ snap'.nets = {} /\ snap'.windowed = TRUE
           /\ WindowTrue(Initialised(pool.positions), pool.tick, snap'.toRead,
                         snap'.lower, snap'.upper)
           /\ snap' \in [toRead : SUBSET TickRange, nets : SUBSET [tick : TickRange, net : Int \ {0}],
                        lower : Int, upper : Int, windowed : BOOLEAN]
<1> DEFINE C == pool.tick \div Spacing
           ml == MinTick \div Spacing
           mh == MaxTick \div Spacing
           low == Max({ml, C - Scan})
           high == Min({mh, C + Scan})
           lo == Spacing * low
           hi == Spacing * high
           I == Initialised(pool.positions)
           c == Clamp(I \cap lo .. hi, lo, hi)
<1>1. /\ pool.tick \in TickRange /\ MinTick \in Int /\ MaxTick \in Int /\ Spacing \in Nat \ {0}
      /\ Scan \in Nat \ {0} /\ pool.tick \in Int /\ MinTick <= pool.tick /\ pool.tick <= MaxTick
      /\ pool.positions \in SUBSET Positions
  BY QuotingAssumption DEF QuotingTypeOK, TickRange
<1>2. /\ C \in Int /\ Spacing * C <= pool.tick /\ pool.tick < Spacing * C + Spacing
      /\ ml \in Int /\ Spacing * ml <= MinTick
      /\ mh \in Int /\ Spacing * mh <= MaxTick /\ MaxTick < Spacing * mh + Spacing
  BY <1>1, QuotientOf
<1> HIDE DEF C, ml, mh
<1>3. low \in {ml, C - Scan} /\ ml <= low /\ C - Scan <= low
  <2> DEFINE T == {ml, C - Scan}
  <2>0. ml <= C - Scan \/ C - Scan <= ml
    BY <1>1, <1>2
  <2>1. \E x \in T : \A y \in T : x >= y
    BY <1>1, <1>2, <2>0
  <2> HIDE DEF T
  <2>2. Max(T) \in T /\ \A y \in T : Max(T) >= y
    BY <2>1 DEF Max
  <2> QED
    BY <1>1, <1>2, <2>2 DEF T
<1>4. high \in {mh, C + Scan} /\ high <= mh /\ high <= C + Scan
  <2> DEFINE T == {mh, C + Scan}
  <2>0. mh <= C + Scan \/ C + Scan <= mh
    BY <1>1, <1>2
  <2>1. \E x \in T : \A y \in T : x <= y
    BY <1>1, <1>2, <2>0
  <2> HIDE DEF T
  <2>2. Min(T) \in T /\ \A y \in T : Min(T) <= y
    BY <2>1 DEF Min
  <2> QED
    BY <1>1, <1>2, <2>2 DEF T
<1> HIDE DEF low, high
<1>5. low \in Int /\ high \in Int /\ lo \in Int /\ hi \in Int
  BY <1>1, <1>2, <1>3, <1>4
<1>6. lo <= pool.tick
  <2>1. CASE low = ml
    BY <1>1, <1>2, <2>1
  <2>2. CASE low = C - Scan
    <3>1. low <= C
      BY <1>1, <1>2, <2>2
    <3>2. Spacing * low <= Spacing * C
      BY <1>1, <1>2, <1>5, <3>1, TimesOrder
    <3>3. Spacing * C \in Int
      BY <1>1, <1>2
    <3> QED
      BY <1>1, <1>2, <1>5, <3>2, <3>3
  <2> QED
    BY <1>3, <2>1, <2>2
<1>7. ASSUME NEW t \in I, t <= pool.tick PROVE t <= hi
  <2>1. t \in Int /\ t % Spacing = 0 /\ t <= MaxTick
    BY <1>1, InitialisedTicks DEF TickRange
  <2> DEFINE q == t \div Spacing
  <2>2. q \in Int /\ t = Spacing * q + (t % Spacing)
    BY <1>1, <2>1
  <2> HIDE DEF q
  <2>3. t = Spacing * q
    <3>1. Spacing * q \in Int
      BY <1>1, <2>2
    <3> QED
      BY <2>1, <2>2, <3>1
  <2>4. q < mh + 1
    <3>1. Spacing * q < Spacing * mh + Spacing /\ Spacing * (mh + 1) = Spacing * mh + Spacing
      BY <1>1, <1>2, <2>1, <2>3
    <3>2. mh + 1 \in Int /\ Spacing * q < Spacing * (mh + 1)
      BY <1>2, <3>1
    <3> QED
      BY <1>1, <2>2, <3>2, TimesOrder
  <2>5. q < C + 1
    <3>1. Spacing * q < Spacing * C + Spacing /\ Spacing * (C + 1) = Spacing * C + Spacing
      BY <1>1, <1>2, <1>7, <2>1, <2>3
    <3>2. C + 1 \in Int /\ Spacing * q < Spacing * (C + 1)
      BY <1>2, <3>1
    <3> QED
      BY <1>1, <2>2, <3>2, TimesOrder
  <2>6. q <= high
    BY <1>1, <1>2, <1>4, <2>2, <2>4, <2>5
  <2> QED
    BY <1>1, <1>5, <2>2, <2>3, <2>6, TimesOrder
<1>8. I \in SUBSET TickRange
  BY <1>1, InitialisedTicks
<1>9. snap' = [toRead |-> c.ticks, nets |-> {}, lower |-> c.lower, upper |-> c.upper, windowed |-> TRUE]
  BY DEF ReadBitmap, C, ml, mh, low, high
<1> HIDE DEF lo, hi, I
<1>10. c.ticks \subseteq TickRange /\ WindowTrue(I, pool.tick, c.ticks, c.lower, c.upper)
  BY <1>1, <1>5, <1>6, <1>7, <1>8, ClampIsTrue
<1> HIDE DEF c
<1>11. snap'.toRead = c.ticks /\ snap'.nets = {} /\ snap'.windowed = TRUE
       /\ snap'.lower = c.lower /\ snap'.upper = c.upper
  BY <1>9
<1>12. c.lower \in Int /\ c.upper \in Int
  BY <1>10 DEF WindowTrue
<1>13. snap' \in [toRead : SUBSET TickRange, nets : SUBSET [tick : TickRange, net : Int \ {0}],
                 lower : Int, upper : Int, windowed : BOOLEAN]
  BY <1>9, <1>10, <1>12
<1> QED
  BY <1>10, <1>11, <1>13 DEF I

-----------------------------------------------------------------------------
(* Quoting: the states of a quote *)

\* The price moves with the swap, and the amounts it moves are numbers.
LEMMA OutputIsNat ==
    ASSUME NEW down \in BOOLEAN, NEW s \in Nat \ {0}, NEW next \in Nat \ {0}, NEW l \in Nat \ {0},
           IF down THEN next <= s ELSE s <= next
    PROVE  OutputFor(s, next, l, down) \in Nat
<1>0. Q \in Nat \ {0}
  BY QuotingAssumption
<1>1. CASE down
  <2> DEFINE d == s - next
             e == l * d
  <2>1. d \in Nat
    BY <1>1
  <2> HIDE DEF d
  <2>2. e \in Nat
    BY <2>1
  <2> HIDE DEF e
  <2>3. e \div Q \in Nat
    BY <1>0, <2>2, QuotientOf
  <2>4. OutputFor(s, next, l, down) = e \div Q
    BY <1>1 DEF OutputFor, Token1, e, d
  <2> QED
    BY <2>3, <2>4
<1>2. CASE ~down
  <2> DEFINE d == next - s
             e == (l * Q) * d
             f == e \div next
  <2>1. d \in Nat
    BY <1>2
  <2> HIDE DEF d
  <2>2. e \in Nat
    <3>1. l * Q \in Nat
      BY <1>0
    <3> QED
      BY <2>1, <3>1
  <2> HIDE DEF e
  <2>3. f \in Nat
    BY <2>2, QuotientOf
  <2> HIDE DEF f
  <2>4. f \div s \in Nat
    BY <2>3, QuotientOf
  <2>5. OutputFor(s, next, l, down) = f \div s
    BY <1>2 DEF OutputFor, Token0, f, e, d
  <2> QED
    BY <2>4, <2>5
<1> QED
  BY <1>1, <1>2

\* The input of a range is a number, either way.
LEMMA InputIsNat ==
    ASSUME NEW down \in BOOLEAN, NEW s \in Nat \ {0}, NEW b \in Nat \ {0}, NEW l \in Nat \ {0},
           IF down THEN b <= s ELSE s <= b
    PROVE  InputFor(s, b, l, down) \in Nat
<1>1. CASE down = TRUE
  <2>1. InputFor(s, b, l, TRUE) \in Nat
    BY <1>1, RoomDown
  <2> QED
    BY <1>1, <2>1
<1>2. CASE down = FALSE
  <2>1. InputFor(s, b, l, FALSE) \in Nat
    BY <1>2, RoomUp
  <2> QED
    BY <1>2, <2>1
<1> QED
  BY <1>1, <1>2

\* An input moves the price to one that exists, the way the swap goes.
LEMMA AfterIsNat ==
    ASSUME NEW down \in BOOLEAN, NEW s \in Nat \ {0}, NEW l \in Nat \ {0}, NEW x \in Nat
    PROVE  /\ SqrtAfter(s, l, x, down) \in Nat \ {0}
           /\ IF down THEN SqrtAfter(s, l, x, down) <= s ELSE s <= SqrtAfter(s, l, x, down)
<1>1. CASE down = TRUE
  BY <1>1, AfterDown
<1>2. CASE down = FALSE
  BY <1>2, AfterUp
<1> QED
  BY <1>1, <1>2

\* What filling a range leaves is a state of the swap like any other.
LEMMA FilledTyped ==
    ASSUME QuotingTypeOK, swap.sqrt \in Nat \ {0}, swap.liq > 0, swap.turns < MaxCrossings,
           NEW b \in Nat \ {0},
           IF query.down THEN b <= swap.sqrt ELSE swap.sqrt <= b
    PROVE  LET f == Filled(b)
           IN  /\ f \in [sqrt : Nat \ {0}, tick : Int, liq : Int, left : Nat, out : Nat,
                         exhausted : BOOLEAN, turns : 0 .. MaxCrossings]
               /\ f.tick = swap.tick /\ f.liq = swap.liq /\ f.exhausted = swap.exhausted
               /\ f.turns = swap.turns + 1
<1> DEFINE s == swap.sqrt
           l == swap.liq
           left == swap.left
           m == InputFor(s, b, l, query.down)
           gross == m + CeilDiv(m * Fee, FeeUnits - Fee)
           whole == m > 0 /\ left >= gross
           net == left - CeilDiv(left * Fee, FeeUnits)
           next == IF whole THEN b ELSE SqrtAfter(s, l, net, query.down)
           o == OutputFor(s, next, l, query.down)
           rest == IF whole THEN left - gross ELSE 0
           out == swap.out + o
           turns == swap.turns + 1
<1>1. /\ s \in Nat \ {0} /\ l \in Nat \ {0} /\ left \in Nat /\ query.down \in BOOLEAN
      /\ swap.out \in Nat /\ swap.turns \in 0 .. MaxCrossings /\ MaxCrossings \in Nat
      /\ swap.tick \in Int /\ swap.exhausted \in BOOLEAN
  BY QuotingAssumption DEF QuotingTypeOK
<1>2. m \in Nat
  <2> HIDE DEF l, s
  <2>1. IF query.down THEN b <= s ELSE s <= b
    BY DEF s
  <2> QED
    BY <1>1, <2>1, InputIsNat
<1>3. gross \in Nat
  <2> HIDE DEF m
  <2>1. CeilDiv(m * Fee, FeeUnits - Fee) \in Nat
    BY <1>1, <1>2, FitsAlike
  <2> QED
    BY <1>2, <2>1
<1>4. net \in Nat
  <2>1. net = (left * (FeeUnits - Fee)) \div FeeUnits
    BY <1>1, NetOfFee
  <2>2. (left * (FeeUnits - Fee)) \div FeeUnits \in Nat
    BY <1>1, FitsAlike
  <2> QED
    BY <2>1, <2>2
<1>5. next \in Nat \ {0} /\ IF query.down THEN next <= s ELSE s <= next
  <2>1. CASE whole
    BY <2>1
  <2>2. CASE ~whole
    <3>1. next = SqrtAfter(s, l, net, query.down)
      BY <2>2
    <3> HIDE DEF next, net, whole
    <3> QED
      BY <1>1, <1>4, <3>1, AfterIsNat
  <2> QED
    BY <2>1, <2>2
<1>6. o \in Nat
  <2> HIDE DEF next, s, l
  <2> QED
    BY <1>1, <1>5, OutputIsNat
<1>7. rest \in Nat
  <2> HIDE DEF gross, m
  <2> QED
    BY <1>1, <1>3
<1>8. out \in Nat /\ turns \in 0 .. MaxCrossings
  <2> HIDE DEF o
  <2>1. swap.turns < MaxCrossings
    OBVIOUS
  <2> QED
    BY <1>1, <1>6, <2>1
<1> DEFINE f == Filled(b)
<1>9. f = [swap EXCEPT !.sqrt = next, !.left = rest, !.out = out, !.turns = turns]
  BY DEF Filled
<1> HIDE DEF next, rest, out, turns, f, s, l, left, m, gross, whole, net, o
<1>10. swap \in [sqrt : Nat, tick : Int, liq : Int, left : Nat, out : Nat,
                  exhausted : BOOLEAN, turns : 0 .. MaxCrossings]
  BY DEF QuotingTypeOK
<1>11. /\ f \in [sqrt : Nat \ {0}, tick : Int, liq : Int, left : Nat, out : Nat,
                 exhausted : BOOLEAN, turns : 0 .. MaxCrossings]
       /\ f.tick = swap.tick /\ f.liq = swap.liq /\ f.exhausted = swap.exhausted
       /\ f.turns = turns
  BY <1>5, <1>7, <1>8, <1>9, <1>10
<1> QED
  BY <1>11 DEF f, turns

\* The tick ahead that comes first.
LEMMA AheadFirst ==
    ASSUME snap.nets \subseteq [tick : TickRange, net : Int \ {0}], query.down \in BOOLEAN,
           TicksAhead # {}
    PROVE  /\ NextInitialised \in TicksAhead
           /\ \A u \in TicksAhead : IF query.down THEN u.tick <= NextInitialised.tick
                                    ELSE NextInitialised.tick <= u.tick
<1> DEFINE T == {u.tick : u \in TicksAhead}
<1>1. MinTick \in Int /\ MaxTick \in Int /\ T \in SUBSET (MinTick .. MaxTick) /\ T # {}
  BY QuotingAssumption DEF TicksAhead, TickRange
<1>2. \E x \in TicksAhead : \A u \in TicksAhead :
         IF query.down THEN u.tick <= x.tick ELSE x.tick <= u.tick
  <2>1. CASE query.down
    <3>1. Max(T) \in T /\ \A k \in T : k <= Max(T)
      <4> HIDE DEF T
      <4> QED
        BY <1>1, MaxOfIntegers
    <3>2. PICK x \in TicksAhead : x.tick = Max(T)
      BY <3>1
    <3>3. \A u \in TicksAhead : u.tick <= x.tick
      BY <3>1, <3>2
    <3> QED
      BY <2>1, <3>3
  <2>2. CASE ~query.down
    <3>1. Min(T) \in T /\ \A k \in T : Min(T) <= k
      <4> HIDE DEF T
      <4> QED
        BY <1>1, MinOfIntegers
    <3>2. PICK x \in TicksAhead : x.tick = Min(T)
      BY <3>1
    <3>3. \A u \in TicksAhead : x.tick <= u.tick
      BY <3>1, <3>2
    <3> QED
      BY <2>2, <3>3
  <2> QED
    BY <2>1, <2>2
<1> QED
  BY <1>2 DEF NextInitialised

\* The first tick ahead is one of the pool's, with its net, on the side the price moves to.
LEMMA TickAhead ==
    ASSUME QuoteInv, Running, TicksAhead # {}
    PROVE  LET t == NextInitialised
           IN  /\ t \in TicksAhead /\ t \in snap.nets
               /\ t.tick \in TickRange /\ t.tick \in Initialised(pool.positions)
               /\ t.net = NetAt(pool.positions, t.tick) /\ t.net \in Int
               /\ \A u \in TicksAhead : IF query.down THEN u.tick <= t.tick ELSE t.tick <= u.tick
               /\ swap.tick \in TickRange /\ SqrtAt[t.tick] \in Nat \ {0}
               /\ IF query.down
                  THEN /\ t.tick < swap.tick /\ swap.tick <= pool.tick
                       /\ SqrtAt[t.tick] < swap.sqrt
                  ELSE /\ swap.tick < t.tick /\ pool.tick <= swap.tick
                       /\ swap.sqrt <= SqrtAt[t.tick]
<1> DEFINE t == NextInitialised
           I == Initialised(pool.positions)
<1>1. /\ snap.nets \subseteq [tick : TickRange, net : Int \ {0}] /\ query.down \in BOOLEAN
      /\ pool.tick \in TickRange /\ swap.tick \in Int
  BY DEF QuoteInv, QuotingTypeOK
<1>2. t \in TicksAhead /\ \A u \in TicksAhead : IF query.down THEN u.tick <= t.tick ELSE t.tick <= u.tick
  BY <1>1, AheadFirst
<1> HIDE DEF t
<1>3. t \in snap.nets /\ IF query.down THEN t.tick < swap.tick ELSE t.tick > swap.tick
  BY <1>2 DEF TicksAhead
<1>4. t.tick \in TickRange /\ t.net \in Int
  BY <1>1, <1>3
<1>5. t.tick \in I /\ t.net = NetAt(pool.positions, t.tick)
  <2>1. PICK T \in SUBSET TickRange :
           /\ WindowTrue(I, pool.tick, T \cup snap.toRead, snap.lower, snap.upper)
           /\ snap.nets = NetsRead(T)
    BY DEF QuoteInv, SnapInv, Running
  <2>2. t.tick \in T /\ t.net = NetAt(pool.positions, t.tick)
    BY <1>3, <2>1 DEF NetsRead
  <2> QED
    BY <2>1, <2>2 DEF WindowTrue
<1>6. Placed(swap) /\ swap.sqrt \in Nat \ {0}
  BY DEF QuoteInv, SwapInv, Running
<1>7. /\ MinTick \in Int /\ MaxTick \in Int /\ pool.tick \in Int /\ MinTick <= pool.tick
      /\ pool.tick <= MaxTick /\ t.tick \in Int /\ MinTick <= t.tick /\ t.tick <= MaxTick
      /\ SqrtAt[t.tick] \in Nat \ {0}
  BY <1>1, <1>4, QuotingAssumption DEF TickRange
<1>8. CASE query.down
  <2>1. t.tick < swap.tick /\ swap.tick <= pool.tick /\ swap.tick >= MinTick /\ SqrtAt[swap.tick] <= swap.sqrt
    BY <1>1, <1>3, <1>6, <1>7, <1>8 DEF Placed
  <2>2. swap.tick \in TickRange
    BY <1>1, <1>7, <2>1 DEF TickRange
  <2>3. SqrtAt[t.tick] < SqrtAt[swap.tick] /\ SqrtAt[swap.tick] \in Nat
    BY <1>4, <2>1, <2>2, PricesRise, PriceOrder
  <2>4. SqrtAt[t.tick] < swap.sqrt
    BY ONLY <1>6, <1>7, <2>1, <2>3
  <2> QED
    BY <1>2, <1>3, <1>4, <1>5, <1>7, <1>8, <2>1, <2>2, <2>4 DEF t
<1>9. CASE ~query.down
  <2>1. swap.tick < t.tick /\ pool.tick <= swap.tick /\ swap.tick < MaxTick /\ swap.sqrt <= SqrtAt[swap.tick + 1]
    BY <1>1, <1>3, <1>6, <1>7, <1>9 DEF Placed
  <2>2. swap.tick \in TickRange /\ swap.tick + 1 \in TickRange /\ swap.tick + 1 <= t.tick
    BY <1>1, <1>7, <2>1 DEF TickRange
  <2>3. SqrtAt[swap.tick + 1] <= SqrtAt[t.tick] /\ SqrtAt[swap.tick + 1] \in Nat
    BY <1>4, <2>2, PriceOrder
  <2>4. swap.sqrt <= SqrtAt[t.tick]
    BY ONLY <1>6, <1>7, <2>1, <2>3
  <2> QED
    BY <1>2, <1>3, <1>4, <1>5, <1>7, <1>9, <2>1, <2>2, <2>4 DEF t
<1> QED
  BY <1>8, <1>9

\* One range of the swap, to a tick that is known.
LEMMA StepToTickInv ==
    ASSUME QuoteInv, StepToTick
    PROVE  QuotingTypeOK' /\ SwapInv'
<1> DEFINE t == NextInitialised
           b == SqrtAt[t.tick]
           f == Filled(b)
           liq == IF query.down THEN f.liq - t.net ELSE f.liq + t.net
           tick == IF query.down THEN t.tick - 1 ELSE t.tick
           W == [sqrt : Nat, tick : Int, liq : Int, left : Nat, out : Nat,
                 exhausted : BOOLEAN, turns : 0 .. MaxCrossings]
<1>0. /\ stage = "swap" /\ Running /\ TicksAhead # {}
      /\ swap' = IF f.sqrt = b THEN [f EXCEPT !.liq = liq, !.tick = tick]
                 ELSE [f EXCEPT !.exhausted = f.left > 0]
      /\ UNCHANGED <<pool, query, snap, price, stage>>
  BY DEF StepToTick, Running
<1>1. /\ t.tick \in TickRange /\ t.net \in Int /\ b \in Nat \ {0} /\ swap.tick \in TickRange
      /\ IF query.down THEN t.tick < swap.tick /\ swap.tick <= pool.tick /\ b < swap.sqrt
         ELSE swap.tick < t.tick /\ pool.tick <= swap.tick /\ swap.sqrt <= b
  BY <1>0, TickAhead
<1>2. /\ QuotingTypeOK /\ swap.sqrt \in Nat \ {0} /\ swap.liq > 0 /\ swap.turns < MaxCrossings
      /\ query.down \in BOOLEAN /\ pool.tick \in TickRange
  BY <1>0 DEF QuoteInv, SwapInv, Running, QuotingTypeOK
<1>3. MinTick \in Int /\ MaxTick \in Int
  BY QuotingAssumption
<1> HIDE DEF t, b
<1>4. /\ f \in [sqrt : Nat \ {0}, tick : Int, liq : Int, left : Nat, out : Nat,
               exhausted : BOOLEAN, turns : 0 .. MaxCrossings]
      /\ f.left \in Nat
  <2>1. IF query.down THEN b <= swap.sqrt ELSE swap.sqrt <= b
    BY <1>1, <1>2
  <2>2. f \in [sqrt : Nat \ {0}, tick : Int, liq : Int, left : Nat, out : Nat,
               exhausted : BOOLEAN, turns : 0 .. MaxCrossings]
    BY <1>1, <1>2, <2>1, FilledTyped
  <2> HIDE DEF f
  <2> QED
    BY <2>2
<1>5. ~(f.sqrt = b) => f.left = 0
  BY DEF Filled
<1> HIDE DEF f
<1>6. liq \in Int /\ tick \in Int
  BY <1>1, <1>4 DEF TickRange
<1>7. f.sqrt = b => swap'.sqrt = b /\ swap'.tick = tick
  <2> HIDE DEF liq, tick
  <2> QED
    BY <1>0, <1>4
<1>a. ~(f.sqrt = b) => swap'.left = 0 /\ swap'.sqrt = f.sqrt /\ f.sqrt \in Nat \ {0}
  BY <1>0, <1>4, <1>5
<1>8. swap' \in W
  <2>1. CASE f.sqrt = b
    <3> HIDE DEF liq, tick
    <3> QED
      BY <1>0, <1>4, <1>6, <2>1
  <2>2. CASE ~(f.sqrt = b)
    <3>1. (f.left > 0) \in BOOLEAN
      OBVIOUS
    <3>2. f \in W /\ swap' = [f EXCEPT !.exhausted = f.left > 0]
      BY <1>0, <1>4, <2>2
    <3> QED
      BY <3>1, <3>2
  <2> QED
    BY <2>1, <2>2
<1>9. f.sqrt = b => Placed(swap')
  <2> SUFFICES ASSUME f.sqrt = b PROVE Placed(swap')
    OBVIOUS
  <2>1. swap'.sqrt = b /\ swap'.tick = tick
    BY <1>7
  <2>2. CASE query.down
    <3>1. tick = t.tick - 1 /\ tick \in MinTick - 1 .. pool.tick
      BY <1>1, <1>2, <1>3, <2>2 DEF TickRange
    <3>2. tick >= MinTick => SqrtAt[tick] <= b
      <4> SUFFICES ASSUME tick >= MinTick PROVE SqrtAt[tick] <= b
        OBVIOUS
      <4>1. tick \in TickRange /\ tick <= t.tick
        BY <1>1, <1>3, <3>1 DEF TickRange
      <4> HIDE DEF tick
      <4> QED
        BY <1>1, <4>1, PriceOrder DEF b
    <3> HIDE DEF tick
    <3> QED
      BY <2>1, <2>2, <3>1, <3>2 DEF Placed
  <2>3. CASE ~query.down
    <3>1. tick = t.tick /\ tick \in pool.tick .. MaxTick
      BY <1>1, <1>2, <1>3, <2>3 DEF TickRange
    <3>2. tick < MaxTick => b <= SqrtAt[tick + 1]
      <4> SUFFICES ASSUME tick < MaxTick PROVE b <= SqrtAt[tick + 1]
        OBVIOUS
      <4>1. tick + 1 \in TickRange /\ t.tick <= tick + 1
        BY <1>1, <1>3, <3>1 DEF TickRange
      <4> DEFINE u == tick + 1
      <4>2. u \in TickRange /\ t.tick <= u
        BY <4>1
      <4> HIDE DEF u
      <4>3. b <= SqrtAt[u]
        BY <1>1, <4>2, PriceOrder DEF b
      <4> QED
        BY <4>3 DEF u
    <3> HIDE DEF tick
    <3> QED
      BY <2>1, <2>3, <3>1, <3>2 DEF Placed
  <2> QED
    BY <2>2, <2>3
<1>10. Placed(swap)' <=> Placed(swap')
  BY <1>0 DEF Placed
<1>11. SwapInv'
  <2>1. swap'.sqrt \in Nat \ {0}
    BY <1>1, <1>7, <1>a
  <2>2. swap'.left > 0 => f.sqrt = b
    BY <1>a
  <2> QED
    BY <1>9, <1>10, <2>1, <2>2 DEF SwapInv
<1>12. QuotingTypeOK'
  BY <1>0, <1>2, <1>8 DEF QuotingTypeOK
<1> QED
  BY <1>11, <1>12

\* There is one bound at most, so the one that is picked is the one that is ahead.
LEMMA BoundIsOne ==
    ASSUME QuotingTypeOK, ObservedBound \subseteq TickRange,
           \E b \in ObservedBound : ~AtOrBeyond(swap.sqrt, SqrtAt[b])
    PROVE  LET d == CHOOSE d \in ObservedBound : TRUE
           IN  d \in ObservedBound /\ d \in TickRange /\ ~AtOrBeyond(swap.sqrt, SqrtAt[d])
<1> DEFINE d == CHOOSE d \in ObservedBound : TRUE
<1>1. \A x, y \in ObservedBound : x = y
  <2>1. snap.nets \subseteq [tick : TickRange, net : Int \ {0}] /\ MinTick \in Int /\ MaxTick \in Int
    BY QuotingAssumption DEF QuotingTypeOK
  <2>2. \A t \in {t.tick : t \in snap.nets} : t \in Int
    BY <2>1 DEF TickRange
  <2> QED
    BY <2>2 DEF ObservedBound
<1>2. d \in ObservedBound
  OBVIOUS
<1> HIDE DEF d
<1>3. d \in TickRange /\ ~AtOrBeyond(swap.sqrt, SqrtAt[d])
  BY <1>1, <1>2
<1> QED
  BY <1>2, <1>3 DEF d

\* Past the last known tick.
LEMMA StepToBoundInv ==
    ASSUME QuoteInv, StepToBound
    PROVE  QuotingTypeOK' /\ SwapInv'
<1> DEFINE W == [sqrt : Nat, tick : Int, liq : Int, left : Nat, out : Nat,
                 exhausted : BOOLEAN, turns : 0 .. MaxCrossings]
<1>1. /\ QuotingTypeOK /\ swap.sqrt \in Nat \ {0} /\ swap.liq > 0 /\ swap.turns < MaxCrossings
      /\ query.down \in BOOLEAN /\ stage = "swap" /\ swap \in W
      /\ UNCHANGED <<pool, query, snap, price, stage>>
  BY DEF StepToBound, QuoteInv, SwapInv, Running, QuotingTypeOK
<1>2. CASE \E b \in ObservedBound : ~AtOrBeyond(swap.sqrt, SqrtAt[b])
  <2> DEFINE d == CHOOSE d \in ObservedBound : TRUE
             b == SqrtAt[d]
             f == Filled(b)
  <2>2. d \in ObservedBound /\ d \in TickRange /\ ~AtOrBeyond(swap.sqrt, b)
    <3>1. ObservedBound \subseteq TickRange
      BY DEF StepToBound
    <3> QED
      BY <1>1, <1>2, <3>1, BoundIsOne
  <2>3. swap' = [f EXCEPT !.exhausted = f.sqrt = b \/ f.left > 0]
    BY <1>2 DEF StepToBound
  <2>4. b \in Nat \ {0}
    BY <2>2, QuotingAssumption
  <2>5. IF query.down THEN b <= swap.sqrt ELSE swap.sqrt <= b
    <3> HIDE DEF b
    <3> QED
      BY <1>1, <2>2, <2>4 DEF AtOrBeyond
  <2> HIDE DEF d, b
  <2>6. f \in [sqrt : Nat \ {0}, tick : Int, liq : Int, left : Nat, out : Nat,
               exhausted : BOOLEAN, turns : 0 .. MaxCrossings]
    BY <1>1, <2>4, <2>5, FilledTyped
  <2> HIDE DEF f
  <2>7. (f.sqrt = b \/ f.left > 0) \in BOOLEAN
    OBVIOUS
  <2>8. swap' \in W /\ swap'.sqrt \in Nat \ {0} /\ ~(swap'.left > 0 /\ ~swap'.exhausted)
    BY <2>3, <2>6, <2>7
  <2>9. QuotingTypeOK'
    BY <1>1, <2>8 DEF QuotingTypeOK
  <2> QED
    BY <2>8, <2>9 DEF SwapInv
<1>3. CASE ~(\E b \in ObservedBound : ~AtOrBeyond(swap.sqrt, SqrtAt[b]))
  <2>1. swap' = [swap EXCEPT !.exhausted = TRUE]
    BY <1>3 DEF StepToBound
  <2>2. swap' \in W /\ swap'.sqrt \in Nat \ {0} /\ swap'.exhausted
    BY <1>1, <2>1
  <2>3. QuotingTypeOK'
    BY <1>1, <2>2 DEF QuotingTypeOK
  <2> QED
    BY <2>2, <2>3 DEF SwapInv
<1> QED
  BY <1>2, <1>3

\* A swap starts at the price of the pool, within the range of its tick.
LEMMA BeginSwapInv ==
    ASSUME QuoteInv, BeginSwap
    PROVE  QuotingTypeOK' /\ SwapInv'
<1> DEFINE l == ActiveAt(pool.positions, pool.tick)
           left == IF l = 0 THEN 0 ELSE query.amount
<1>1. /\ pool \in [positions : SUBSET Positions, sqrt : Starts, tick : TickRange]
      /\ query \in [amount : Inputs, down : BOOLEAN] /\ QuotingTypeOK
      /\ MaxCrossings \in Nat /\ MinTick \in Int /\ MaxTick \in Int
      /\ Starts \subseteq Nat \ {0} /\ Inputs \subseteq Nat
  BY QuotingAssumption DEF QuoteInv, QuotingTypeOK
<1>2. l \in Int
  <2> DEFINE A == {p \in pool.positions : p.lower <= pool.tick /\ pool.tick < p.upper}
  <2>1. A \in SUBSET Positions
    BY <1>1
  <2> HIDE DEF A
  <2>2. Liquidity(A) \in Nat
    BY <2>1, LiquidityIsNat
  <2> QED
    BY <2>2 DEF ActiveAt, A
<1>3. left \in Nat
  BY <1>1
<1>a. pool.sqrt \in Nat \ {0} /\ pool.tick \in Int /\ MinTick <= pool.tick /\ pool.tick <= MaxTick
  <2>1. pool.sqrt \in Starts /\ pool.tick \in MinTick .. MaxTick
    BY <1>1 DEF TickRange
  <2>2. MinTick \in Int /\ MaxTick \in Int /\ Starts \subseteq Nat \ {0}
    BY <1>1
  <2>3. pool.sqrt \in Nat \ {0}
    BY ONLY <2>1, <2>2
  <2>4. pool.tick \in Int /\ MinTick <= pool.tick /\ pool.tick <= MaxTick
    BY ONLY <2>1, <2>2
  <2> QED
    BY ONLY <2>3, <2>4
<1>4. /\ swap' = [NoSwap EXCEPT !.sqrt = pool.sqrt, !.tick = pool.tick, !.liq = l, !.left = left]
      /\ stage' = "swap" /\ UNCHANGED <<pool, query, snap, price>>
  BY DEF BeginSwap
<1> HIDE DEF l, left
<1>5. /\ swap' = [sqrt |-> pool.sqrt, tick |-> pool.tick, liq |-> l, left |-> left, out |-> 0,
                  exhausted |-> FALSE, turns |-> 0]
  BY <1>4 DEF NoSwap
<1>6. /\ swap' \in [sqrt : Nat, tick : Int, liq : Int, left : Nat, out : Nat,
                    exhausted : BOOLEAN, turns : 0 .. MaxCrossings]
      /\ swap'.sqrt = pool.sqrt /\ swap'.tick = pool.tick /\ swap'.sqrt \in Nat \ {0}
  BY <1>1, <1>2, <1>3, <1>5, <1>a
<1>7. QuotingTypeOK'
  BY <1>1, <1>4, <1>6 DEF QuotingTypeOK
<1>8. Placed(swap')
  <2>1. pool.tick \in TickRange \ {MaxTick} /\ SqrtAt[pool.tick] <= pool.sqrt
        /\ (pool.sqrt < SqrtAt[pool.tick + 1] \/ pool.sqrt = SqrtAt[pool.tick + 1])
    BY DEF QuoteInv, SnapInv, TicksOf
  <2>2. pool.tick + 1 \in TickRange /\ pool.sqrt \in Nat /\ pool.tick \in MinTick - 1 .. pool.tick
        /\ pool.tick \in pool.tick .. MaxTick
    BY <1>1, <1>a, <2>1 DEF TickRange
  <2>3. SqrtAt[pool.tick + 1] \in Nat
    BY <2>2, QuotingAssumption
  <2>4. pool.sqrt <= SqrtAt[pool.tick + 1]
    BY ONLY <2>1, <2>2, <2>3
  <2> QED
    BY <1>6, <2>1, <2>2, <2>4 DEF Placed
<1>9. Placed(swap)' <=> Placed(swap')
  BY <1>4 DEF Placed
<1> QED
  BY <1>6, <1>7, <1>8, <1>9 DEF SwapInv

\* The first state has nothing read and no swap.
LEMMA QuoteInitInv == QuotingInit => QuoteInv
<1> SUFFICES ASSUME QuotingInit PROVE QuoteInv
  OBVIOUS
<1>0. PICK S \in SUBSET Positions, s \in Starts :
         \E t \in TicksOf(s) : pool = [positions |-> S, sqrt |-> s, tick |-> t]
  BY DEF QuotingInit
<1>1. PICK t \in TicksOf(s) : pool = [positions |-> S, sqrt |-> s, tick |-> t]
  BY <1>0
<1>2. t \in TickRange
  BY DEF TicksOf
<1>3. MaxCrossings \in Nat /\ MinTick \in Int /\ MaxTick \in Int
  BY QuotingAssumption
<1>4. pool \in [positions : SUBSET Positions, sqrt : Starts, tick : TickRange]
      /\ pool.tick = t /\ pool.sqrt = s
  BY <1>0, <1>1, <1>2
<1>5. swap \in [sqrt : Nat, tick : Int, liq : Int, left : Nat, out : Nat,
                exhausted : BOOLEAN, turns : 0 .. MaxCrossings]
  BY <1>3 DEF QuotingInit, NoSwap
<1>6. QuotingTypeOK
  BY <1>3, <1>4, <1>5 DEF QuotingInit, QuotingTypeOK, NoSnapshot
<1>7. SnapInv
  BY <1>4 DEF QuotingInit, SnapInv
<1>8. SwapInv
  BY DEF QuotingInit, SwapInv
<1> QED
  BY <1>6, <1>7, <1>8 DEF QuoteInv

\* The scan of the bitmap settles the window.
LEMMA ReadBitmapInv ==
    ASSUME QuoteInv, ReadBitmap
    PROVE  QuoteInv'
<1>1. QuotingTypeOK /\ SnapInv
  BY DEF QuoteInv
<1>2. /\ stage' = "nets" /\ UNCHANGED <<pool, query, swap, price>>
  BY DEF ReadBitmap
<1>3. /\ snap'.toRead \subseteq TickRange /\ snap'.nets = {} /\ snap'.windowed = TRUE
      /\ WindowTrue(Initialised(pool.positions), pool.tick, snap'.toRead, snap'.lower, snap'.upper)
      /\ snap' \in [toRead : SUBSET TickRange, nets : SUBSET [tick : TickRange, net : Int \ {0}],
                   lower : Int, upper : Int, windowed : BOOLEAN]
  BY <1>1, ScanIsTrue
<1>4. QuotingTypeOK'
  BY <1>1, <1>2, <1>3 DEF QuotingTypeOK
<1>5. SnapInv'
  <2>1. snap'.nets = {x \in {[tick |-> t, net |-> NetAt(pool.positions, t)] : t \in {}} : x.net # 0}
    BY <1>3
  <2>2. {} \in SUBSET TickRange /\ {} \cup snap'.toRead = snap'.toRead
    OBVIOUS
  <2>3. \E T \in SUBSET TickRange :
           /\ WindowTrue(Initialised(pool'.positions), pool'.tick, T \cup snap'.toRead,
                         snap'.lower, snap'.upper)
           /\ snap'.nets = NetsRead(T)'
    <3>1. snap'.nets = NetsRead({})'
      BY <2>1, <1>2 DEF NetsRead
    <3> QED
      BY <1>2, <1>3, <2>2, <3>1
  <2>4. (pool.tick \in TicksOf(pool.sqrt))'
    BY <1>1, <1>2 DEF SnapInv
  <2> QED
    BY <1>2, <2>3, <2>4 DEF SnapInv
<1>6. SwapInv'
  BY <1>2 DEF SwapInv
<1> QED
  BY <1>4, <1>5, <1>6 DEF QuoteInv

\* A batch of nets moves ticks from those to read to those read.
LEMMA NetsArriveInv ==
    ASSUME QuoteInv, NetsArrive
    PROVE  QuoteInv'
<1> DEFINE more == {x \in {[tick |-> t, net |-> NetAt(pool.positions, t)] : t \in Batch} : x.net # 0}
           I == Initialised(pool.positions)
<1>1. QuotingTypeOK /\ SnapInv /\ snap.toRead \subseteq TickRange
  BY DEF QuoteInv, QuotingTypeOK
<1>2. /\ stage = "nets" /\ stage' = "nets" /\ UNCHANGED <<pool, query, swap, price>>
      /\ snap' = [snap EXCEPT !.toRead = @ \ Batch, !.nets = @ \cup more]
  BY DEF NetsArrive
<1>3. PICK T \in SUBSET TickRange :
         /\ WindowTrue(I, pool.tick, T \cup snap.toRead, snap.lower, snap.upper)
         /\ snap.nets = NetsRead(T)
  BY <1>1, <1>2 DEF SnapInv
<1>4. Batch \subseteq snap.toRead
  BY DEF Batch
<1>5. snap.nets \cup more = NetsRead(T \cup Batch)
  BY <1>3, NetsJoin
<1> HIDE DEF more
<1>6. /\ snap'.toRead = snap.toRead \ Batch /\ snap'.nets = snap.nets \cup more
      /\ snap'.lower = snap.lower /\ snap'.upper = snap.upper
      /\ snap.nets \cup more \subseteq [tick : TickRange, net : Int \ {0}] =>
           snap' \in [toRead : SUBSET TickRange, nets : SUBSET [tick : TickRange, net : Int \ {0}],
                     lower : Int, upper : Int, windowed : BOOLEAN]
  <2>1. snap \in [toRead : SUBSET TickRange, nets : SUBSET [tick : TickRange, net : Int \ {0}],
                  lower : Int, upper : Int, windowed : BOOLEAN]
    BY <1>1 DEF QuotingTypeOK
  <2> QED
    BY <1>2, <2>1
<1>7. T \cup Batch \in SUBSET TickRange /\ (T \cup Batch) \cup snap'.toRead = T \cup snap.toRead
  BY <1>1, <1>4, <1>6
<1>8. NetsRead(T \cup Batch) \subseteq [tick : TickRange, net : Int \ {0}]
  BY <1>1, <1>7, NetsTyped
<1>9. QuotingTypeOK'
  BY <1>1, <1>2, <1>5, <1>6, <1>8 DEF QuotingTypeOK
<1>10. SnapInv'
  <2>0. PICK U : U = T \cup Batch
    OBVIOUS
  <2>1. /\ U \in SUBSET TickRange
        /\ WindowTrue(Initialised(pool'.positions), pool'.tick, U \cup snap'.toRead,
                      snap'.lower, snap'.upper)
    BY <1>2, <1>3, <1>6, <1>7, <2>0
  <2>2. snap'.nets = NetsRead(U)'
    <3>1. NetsRead(U)' = NetsRead(U)
      BY <1>2 DEF NetsRead
    <3>2. snap'.nets = NetsRead(U)
      BY <1>5, <1>6, <2>0
    <3> QED
      BY <3>1, <3>2
  <2>3. (pool.tick \in TicksOf(pool.sqrt))'
    BY <1>1, <1>2 DEF SnapInv
  <2> QED
    BY <1>2, <2>1, <2>2, <2>3 DEF SnapInv
<1>11. SwapInv'
  BY <1>2 DEF SwapInv
<1> QED
  BY <1>9, <1>10, <1>11 DEF QuoteInv

\* A step that leaves the snapshot alone leaves it true.
LEMMA SnapKept ==
    ASSUME SnapInv, UNCHANGED <<pool, snap>>, stage # "new", stage' # "new",
           stage' \in {"snapshot", "swap", "priced"} => snap.toRead = {}
    PROVE  SnapInv'
BY DEF SnapInv, NetsRead

\* Once all is read the snapshot is whole, with or without its window.
LEMMA SnapshotReadyInv ==
    ASSUME QuoteInv, SnapshotReady
    PROVE  QuoteInv'
<1>1. QuotingTypeOK /\ SnapInv
  BY DEF QuoteInv
<1>2. /\ stage = "nets" /\ stage' = "snapshot" /\ UNCHANGED <<pool, query, swap, price>>
      /\ snap.toRead = {}
  BY DEF SnapshotReady
<1>3. PICK w \in BOOLEAN : snap' = [snap EXCEPT !.windowed = w]
  BY DEF SnapshotReady
<1>4. snap \in [toRead : SUBSET TickRange, nets : SUBSET [tick : TickRange, net : Int \ {0}],
                lower : Int, upper : Int, windowed : BOOLEAN]
  BY <1>1 DEF QuotingTypeOK
<1>5. /\ snap'.toRead = snap.toRead /\ snap'.nets = snap.nets /\ snap'.lower = snap.lower
      /\ snap'.upper = snap.upper
      /\ snap' \in [toRead : SUBSET TickRange, nets : SUBSET [tick : TickRange, net : Int \ {0}],
                   lower : Int, upper : Int, windowed : BOOLEAN]
  BY <1>3, <1>4
<1>6. QuotingTypeOK'
  BY <1>1, <1>2, <1>5 DEF QuotingTypeOK
<1>7. SnapInv'
  BY <1>1, <1>2, <1>5 DEF SnapInv, NetsRead
<1>8. SwapInv'
  BY <1>2 DEF SwapInv
<1> QED
  BY <1>6, <1>7, <1>8 DEF QuoteInv

\* The answer of the swap is a price or none.
LEMMA PriceReturnedInv ==
    ASSUME QuoteInv, PriceReturned
    PROVE  QuoteInv'
<1>1. QuotingTypeOK /\ SnapInv /\ swap.out \in Nat
  BY DEF QuoteInv, QuotingTypeOK
<1>2. /\ stage = "swap" /\ stage' = "priced" /\ UNCHANGED <<pool, query, snap, swap>>
      /\ price' = PriceOf
  BY DEF PriceReturned
<1>3. price' \in Nat \cup {NoPrice}
  BY <1>1, <1>2 DEF PriceOf
<1>4. QuotingTypeOK'
  BY <1>1, <1>2, <1>3 DEF QuotingTypeOK
<1>5. SnapInv'
  <2>1. snap.toRead = {}
    BY <1>1, <1>2 DEF SnapInv
  <2> QED
    BY <1>1, <1>2, <2>1, SnapKept
<1>6. SwapInv'
  BY <1>2 DEF SwapInv
<1> QED
  BY <1>4, <1>5, <1>6 DEF QuoteInv

\* A read or a swap that fails changes nothing but the stage.
LEMMA RaisedInv ==
    ASSUME QuoteInv, NetsShort \/ BoundRaises
    PROVE  QuoteInv'
<1>1. stage \in {"nets", "swap"} /\ stage' = "raised" /\ UNCHANGED <<pool, query, snap, swap, price>>
  BY DEF NetsShort, BoundRaises, Running
<1>2. QuotingTypeOK'
  BY <1>1 DEF QuoteInv, QuotingTypeOK
<1>3. SnapInv'
  <2>1. SnapInv
    BY DEF QuoteInv
  <2> QED
    BY <1>1, <2>1, SnapKept
<1> QED
  BY <1>1, <1>2, <1>3 DEF QuoteInv, SwapInv

\* The swap only reads the snapshot.
LEMMA SwapKeepsSnap ==
    ASSUME QuoteInv, BeginSwap \/ StepToTick \/ StepToBound
    PROVE  SnapInv'
<1>1. /\ stage \in {"snapshot", "swap"} /\ stage' = "swap" /\ UNCHANGED <<pool, snap>>
  BY DEF BeginSwap, StepToTick, StepToBound, Running
<1>2. SnapInv /\ snap.toRead = {}
  BY <1>1 DEF QuoteInv, SnapInv
<1> QED
  BY <1>1, <1>2, SnapKept

\* Every step keeps the strengthened type invariant.
LEMMA QuoteNextInv == QuoteInv /\ [QuotingNext]_quoteVars => QuoteInv'
<1> SUFFICES ASSUME QuoteInv, [QuotingNext]_quoteVars PROVE QuoteInv'
  OBVIOUS
<1>1. CASE ReadBitmap
  BY <1>1, ReadBitmapInv
<1>2. CASE NetsArrive
  BY <1>2, NetsArriveInv
<1>3. CASE NetsShort
  BY <1>3, RaisedInv
<1>4. CASE SnapshotReady
  BY <1>4, SnapshotReadyInv
<1>5. CASE BeginSwap
  BY <1>5, BeginSwapInv, SwapKeepsSnap DEF QuoteInv
<1>6. CASE StepToTick
  BY <1>6, StepToTickInv, SwapKeepsSnap DEF QuoteInv
<1>7. CASE StepToBound
  BY <1>7, StepToBoundInv, SwapKeepsSnap DEF QuoteInv
<1>8. CASE BoundRaises
  BY <1>8, RaisedInv
<1>9. CASE PriceReturned
  BY <1>9, PriceReturnedInv
<1>10. CASE UNCHANGED quoteVars
  <2>1. UNCHANGED <<pool, query, snap, swap, price, stage>>
    BY <1>10 DEF quoteVars
  <2>2. QuotingTypeOK'
    BY <2>1 DEF QuoteInv, QuotingTypeOK
  <2>3. SnapInv'
    BY <2>1 DEF QuoteInv, SnapInv, NetsRead
  <2>4. SwapInv'
    BY <2>1 DEF QuoteInv, SwapInv, Placed
  <2> QED
    BY <2>2, <2>3, <2>4 DEF QuoteInv
<1> QED
  BY <1>1, <1>2, <1>3, <1>4, <1>5, <1>6, <1>7, <1>8, <1>9, <1>10 DEF QuotingNext

\* Every state of a quote has its type.
THEOREM QuotingTypeCorrect == QuotingSpec => []QuotingTypeOK
<1>1. QuoteInv => QuotingTypeOK
  BY DEF QuoteInv
<1> QED
  BY <1>1, QuoteInitInv, QuoteNextInv, PTL DEF QuotingSpec

-----------------------------------------------------------------------------
(* The swap and the contract, turn by turn *)

\* What the contract has where the code has w.
Counterpart(w) == [sqrt |-> w.sqrt, tick |-> w.tick, left |-> w.left, out |-> w.out, liq |-> w.liq]

\* f is the first n turns of the contract's loop.
Walk(f, n) ==
    /\ f[0] = ContractStart
    /\ \A k \in 1 .. n : f[k] = ContractTurn(pool.positions, query.down, f[k - 1])

\* The contract's loop is at c after n turns.
Reached(c, n) == \E f : Walk(f, n) /\ f[n] = c

\* The numbers of the turns.
LEMMA TurnsIsNat == Turns \in Nat
BY QuotingAssumption DEF Turns

\* A turn more.
LEMMA WalkGrows ==
    ASSUME NEW n \in Nat, NEW c, Reached(c, n)
    PROVE  Reached(ContractTurn(pool.positions, query.down, c), n + 1)
<1>1. PICK f : Walk(f, n) /\ f[n] = c
  BY DEF Reached
<1> DEFINE d == ContractTurn(pool.positions, query.down, c)
           g == [k \in 0 .. n + 1 |-> IF k = n + 1 THEN d ELSE f[k]]
<1>2. g[0] = ContractStart
  BY <1>1 DEF Walk
<1>3. g[n + 1] = d
  OBVIOUS
<1>4. \A k \in 0 .. n : g[k] = f[k]
  OBVIOUS
<1>5. ASSUME NEW k \in 1 .. n + 1
      PROVE  g[k] = ContractTurn(pool.positions, query.down, g[k - 1])
  <2>1. CASE k = n + 1
    <3>1. k - 1 = n /\ n \in 0 .. n
      BY <2>1
    <3> HIDE DEF g, d
    <3>2. g[k - 1] = c
      BY <1>1, <1>4, <3>1
    <3> QED
      BY <1>3, <2>1, <3>2 DEF d
  <2>2. CASE k # n + 1
    <3>1. k \in 1 .. n /\ k \in 0 .. n /\ k - 1 \in 0 .. n
      BY <2>2
    <3> HIDE DEF g
    <3>2. g[k] = f[k] /\ g[k - 1] = f[k - 1]
      BY <1>4, <3>1
    <3>3. f[k] = ContractTurn(pool.positions, query.down, f[k - 1])
      BY <1>1, <3>1 DEF Walk
    <3> QED
      BY <3>2, <3>3
  <2> QED
    BY <2>1, <2>2
<1> HIDE DEF g, d
<1>6. Walk(g, n + 1)
  BY <1>2, <1>5 DEF Walk
<1> QED
  BY <1>3, <1>6 DEF Reached, d

\* Once the input is used the loop is over: what was reached is what the contract pays.
LEMMA WalkEnds ==
    ASSUME NEW n \in Nat, n <= Turns, NEW c, Reached(c, n), ~(c.left > 0)
    PROVE  ContractPays = c
<1>1. PICK f : Walk(f, n) /\ f[n] = c
  BY DEF Reached
<1> DEFINE N == Turns
           T(x) == ContractTurn(pool.positions, query.down, x)
           Unfold(g) == [k \in 0 .. N |-> IF k = 0 THEN ContractStart ELSE T(g[k - 1])]
           run == CHOOSE g : g = Unfold(g)
           h == [k \in 0 .. N |-> IF k <= n THEN f[k] ELSE c]
<1>2. N \in Nat /\ n <= N
  BY TurnsIsNat
<1>3. ContractPays = run[N]
  BY DEF ContractPays
<1>4. T(c) = c
  BY DEF ContractTurn
<1>5. f[0] = ContractStart /\ \A k \in 1 .. n : f[k] = T(f[k - 1])
  BY <1>1 DEF Walk
<1> HIDE DEF N, T
<1>6. ASSUME NEW k \in 0 .. N PROVE h[k] = IF k = 0 THEN ContractStart ELSE T(h[k - 1])
  <2>1. CASE k = 0
    BY <1>2, <1>5, <2>1
  <2>2. CASE k # 0
    <3>1. k - 1 \in 0 .. N /\ k \in Int
      BY <1>2, <2>2
    <3>2. h[k - 1] = IF k - 1 <= n THEN f[k - 1] ELSE c
      BY <3>1
    <3>3. h[k] = IF k <= n THEN f[k] ELSE c
      OBVIOUS
    <3> HIDE DEF h
    <3>4. CASE k <= n
      <4>1. k \in 1 .. n /\ k - 1 <= n
        BY <2>2, <3>4
      <4> QED
        BY <1>5, <2>2, <3>2, <3>3, <4>1
    <3>5. CASE ~(k <= n)
      <4>1. h[k - 1] = c
        <5>1. CASE k - 1 <= n
          <6>1. k - 1 = n
            BY <3>1, <3>5, <5>1
          <6> QED
            BY <1>1, <3>2, <6>1
        <5> QED
          BY <3>2, <5>1
      <4> QED
        BY <1>4, <2>2, <3>3, <3>5, <4>1
    <3> QED
      BY <3>4, <3>5
  <2> QED
    BY <2>1, <2>2
<1>7. h = Unfold(h)
  <2> DEFINE j == Unfold(h)
  <2>1. \A k \in 0 .. N : h[k] = j[k]
    <3> HIDE DEF h
    <3> QED
      BY <1>6
  <2>2. h = [k \in 0 .. N |-> h[k]] /\ j = [k \in 0 .. N |-> j[k]]
    OBVIOUS
  <2> HIDE DEF h, j
  <2>3. h = j
    BY <2>1, <2>2
  <2> QED
    BY <2>3 DEF j
<1>8. run = Unfold(run)
  <2> HIDE DEF h, Unfold
  <2> QED
    BY <1>7
<1>9. \A k \in 0 .. N : run[k] = IF k = 0 THEN ContractStart ELSE T(run[k - 1])
  <2> HIDE DEF run
  <2> QED
    BY <1>8
<1> HIDE DEF run, h
<1> DEFINE U == {k \in Nat : k <= N => run[k] = h[k]}
<1>10. 0 \in U
  <2>1. 0 \in 0 .. N
    BY <1>2
  <2> QED
    BY <1>6, <1>9, <2>1
<1>11. ASSUME NEW k \in U PROVE k + 1 \in U
  <2> SUFFICES ASSUME k + 1 <= N PROVE run[k + 1] = h[k + 1]
    OBVIOUS
  <2>1. k + 1 \in 0 .. N /\ k + 1 # 0 /\ (k + 1) - 1 = k /\ k <= N /\ k \in Nat
    BY <1>2
  <2>2. run[k] = h[k]
    BY <2>1
  <2> DEFINE m == k + 1
  <2>3. m \in 0 .. N /\ m # 0 /\ m - 1 = k
    BY <2>1
  <2> HIDE DEF m
  <2>4. run[m] = T(run[m - 1]) /\ h[m] = T(h[m - 1])
    BY <1>6, <1>9, <2>3
  <2> QED
    BY <2>2, <2>3, <2>4 DEF m
<1>12. N \in U
  <2>1. U \in SUBSET Nat
    OBVIOUS
  <2> HIDE DEF U
  <2>2. U = Nat
    BY <1>10, <1>11, <2>1, InductionOn
  <2> QED
    BY <1>2, <2>2
<1>13. run[N] = h[N]
  BY <1>2, <1>12
<1>14. h[N] = c
  <2>1. h[N] = IF N <= n THEN f[N] ELSE c
    BY <1>2 DEF h
  <2>2. N <= n => N = n
    BY <1>2
  <2> QED
    BY <1>1, <2>1, <2>2
<1> QED
  BY <1>3, <1>13, <1>14

\* One turn of both: alike when the rest stops short of p, and when p is where the
\* contract goes.
LEMMA FilledAlike ==
    ASSUME QuotingTypeOK, swap.sqrt \in Nat \ {0}, swap.liq > 0,
           NEW t, t = ContractNext(pool.positions, query.down, swap.tick),
           SqrtAt[t] \in Nat \ {0}, NEW p \in Nat \ {0},
           OnTheWay(swap.sqrt, p, SqrtAt[t], query.down)
    PROVE  LET f == Filled(p)
               step == ContractStep(pool.positions, query.down, Counterpart(swap))
           IN  /\ f.sqrt # p => step = Counterpart(f) /\ f.left = 0
               /\ f.sqrt = p /\ p = SqrtAt[t] =>
                     step = [sqrt |-> p, tick |-> IF query.down THEN t - 1 ELSE t,
                             left |-> f.left, out |-> f.out,
                             liq |-> IF query.down THEN swap.liq - NetAt(pool.positions, t)
                                     ELSE swap.liq + NetAt(pool.positions, t)]
<1> DEFINE s == swap.sqrt
           l == swap.liq
           left == swap.left
           down == query.down
           b == SqrtAt[t]
           m == InputFor(s, p, l, down)
           fee == CeilDiv(m * Fee, FeeUnits - Fee)
           n == NetOf(left)
           whole == m > 0 /\ left >= m + fee
           net == left - CeilDiv(left * Fee, FeeUnits)
           next == IF whole THEN p ELSE SqrtAfter(s, l, net, down)
           rest == IF whole THEN left - (m + fee) ELSE 0
           out == swap.out + OutputFor(s, next, l, down)
           f == Filled(p)
           c == Counterpart(swap)
           m2 == InputFor(s, b, l, down)
           next2 == IF n >= m2 THEN b ELSE SqrtAfter(s, l, n, down)
           step == ContractStep(pool.positions, down, c)
<1>1. /\ s \in Nat \ {0} /\ l \in Nat \ {0} /\ left \in Nat /\ down \in BOOLEAN
      /\ b \in Nat \ {0} /\ OnTheWay(s, p, b, down)
  BY DEF QuotingTypeOK
<1>2. /\ swap \in [sqrt : Nat, tick : Int, liq : Int, left : Nat, out : Nat,
                   exhausted : BOOLEAN, turns : 0 .. MaxCrossings]
  BY DEF QuotingTypeOK
<1>3. f = [swap EXCEPT !.sqrt = next, !.left = rest, !.out = out, !.turns = swap.turns + 1]
  BY DEF Filled
<1>4. c.sqrt = s /\ c.tick = swap.tick /\ c.left = left /\ c.out = swap.out /\ c.liq = l
  BY DEF Counterpart
<1>5. step = [sqrt |-> next2,
              tick |-> IF ~(next2 = b) THEN swap.tick ELSE IF down THEN t - 1 ELSE t,
              left |-> IF next2 = b THEN left - m2 - CeilDiv(m2 * Fee, FeeUnits - Fee) ELSE 0,
              out |-> swap.out + OutputFor(s, next2, l, down),
              liq |-> IF ~(next2 = b) THEN l
                      ELSE IF down THEN l - NetAt(pool.positions, t)
                      ELSE l + NetAt(pool.positions, t)]
  <2> HIDE DEF c, s, l, left, down
  <2>1. t = ContractNext(pool.positions, down, c.tick)
    BY <1>4 DEF down
  <2>2. n = (c.left * (FeeUnits - Fee)) \div FeeUnits
    BY <1>4 DEF NetOf
  <2> HIDE DEF n
  <2> QED
    BY <1>4, <2>1, <2>2 DEF ContractStep
<1>6. /\ m \in Nat \ {0} /\ net = n
      /\ left >= Gross(s, p, l, down) => n >= m
      /\ ~(left >= Gross(s, p, l, down)) =>
            /\ ~(n >= m2) /\ SqrtAfter(s, l, n, down) # p /\ SqrtAfter(s, l, n, down) # b
  <2> HIDE DEF s, l, left, down, b
  <2> QED
    BY <1>1, StepsAlike
<1>7. Gross(s, p, l, down) = m + fee
  BY DEF Gross
<1>8. fee \in Nat
  <2> HIDE DEF m
  <2> QED
    BY <1>1, <1>6, FitsAlike
<1>9. whole <=> left >= m + fee
  <2> HIDE DEF m, fee
  <2> QED
    BY <1>6
<1>10. p = b => m2 = m
  OBVIOUS
<1>11. b = SqrtAt[t] /\ down = query.down /\ l = swap.liq
  OBVIOUS
<1> HIDE DEF f, step, c
<1>12. f.sqrt = next /\ f.left = rest /\ f.out = out /\ f.tick = swap.tick /\ f.liq = l
  <2> HIDE DEF next, rest, out
  <2> QED
    BY <1>2, <1>3
<1>13. ~whole => next = SqrtAfter(s, l, n, down) /\ rest = 0
  <2> HIDE DEF whole, n, m, fee
  <2> QED
    BY <1>6
<1>14. whole => next = p /\ rest = left - (m + fee)
  <2> HIDE DEF whole, m, fee
  <2> QED
    OBVIOUS
<1>15. out = swap.out + OutputFor(s, next, l, down)
  OBVIOUS
<1>a. /\ n >= m2 => next2 = b
      /\ ~(n >= m2) => next2 = SqrtAfter(s, l, n, down)
  <2> HIDE DEF n, m2
  <2> QED
    OBVIOUS
<1> HIDE DEF whole, next, rest, out, net, n, m, m2, fee, next2, b, s, l, left, down
<1>16. CASE ~whole
  <2>1. next = SqrtAfter(s, l, n, down) /\ rest = 0 /\ next # p /\ next # b /\ next2 = next
    BY <1>6, <1>7, <1>9, <1>13, <1>16, <1>a
  <2>2. step = [sqrt |-> next, tick |-> swap.tick, left |-> 0, out |-> out, liq |-> l]
    BY <1>5, <1>15, <2>1
  <2>3. Counterpart(f) = [sqrt |-> next, tick |-> swap.tick, left |-> 0, out |-> out, liq |-> l]
    BY <1>12, <2>1 DEF Counterpart
  <2> QED
    BY <1>12, <2>1, <2>2, <2>3 DEF f, step, c, down
<1>17. CASE whole
  <2>1. next = p /\ rest = left - (m + fee) /\ n >= m
    BY <1>6, <1>7, <1>9, <1>14, <1>17
  <2>2. ASSUME p = b
        PROVE  step = [sqrt |-> p, tick |-> IF down THEN t - 1 ELSE t,
                       left |-> rest, out |-> out,
                       liq |-> IF down THEN l - NetAt(pool.positions, t)
                               ELSE l + NetAt(pool.positions, t)]
    <3>1. m2 = m /\ n >= m2
      BY <1>10, <2>1, <2>2
    <3>2. next2 = b /\ next2 = next
      BY <1>a, <2>1, <2>2, <3>1
    <3>3. left - m2 - CeilDiv(m2 * Fee, FeeUnits - Fee) = left - m - fee
      BY <3>1 DEF fee
    <3>4. left - m - fee = rest
      BY <1>1, <1>6, <1>8, <2>1
    <3> QED
      BY <1>5, <1>15, <2>2, <3>2, <3>3, <3>4
  <2> QED
    BY <1>11, <1>12, <2>1, <2>2 DEF f, step, c
<1> QED
  BY <1>16, <1>17

\* With somewhere to go the price is not at its limit.
LEMMA WayToGo ==
    ASSUME NEW down \in BOOLEAN, NEW s \in Nat, NEW p \in Nat, NEW t \in TickRange,
           OnTheWay(s, p, SqrtAt[t], down)
    PROVE  ~AtLimit(s, down)
<1>1. MinTick \in TickRange /\ MaxTick \in TickRange /\ MinTick <= t /\ t <= MaxTick
  BY QuotingAssumption DEF TickRange
<1>2. SqrtAt[MinTick] <= SqrtAt[t] /\ SqrtAt[t] <= SqrtAt[MaxTick] /\ SqrtAt[t] \in Nat
      /\ SqrtAt[MinTick] \in Nat /\ SqrtAt[MaxTick] \in Nat
  BY <1>1, PriceOrder
<1>3. CASE down
  <2>1. SqrtAt[t] <= p /\ p < s
    BY <1>3 DEF OnTheWay
  <2>2. s # SqrtAt[MinTick]
    BY <1>2, <2>1
  <2> QED
    BY <1>3, <2>2 DEF AtLimit
<1>4. CASE ~down
  <2>1. p <= SqrtAt[t] /\ s < p
    BY <1>4 DEF OnTheWay
  <2>2. s # SqrtAt[MaxTick]
    BY <1>2, <2>1
  <2> QED
    BY <1>4, <2>2 DEF AtLimit
<1> QED
  BY <1>3, <1>4

\* What the theorem asks of a pool.
Regular == PriceOffTicks /\ NetsShow /\ TicksApart

\* The price is strictly within its range, on the side it comes from.
Between(w) ==
    IF query.down
    THEN /\ w.tick \notin Initialised(pool.positions) /\ w.tick <= pool.tick - w.turns
         /\ w.sqrt <= SqrtAt[w.tick + 1]
    ELSE /\ pool.tick + w.turns <= w.tick /\ SqrtAt[w.tick] <= w.sqrt
         /\ w.tick < MaxTick => w.sqrt # SqrtAt[w.tick + 1]

\* The swap is where the contract's loop is after as many turns.
Follows(w) ==
    /\ w.turns <= Turns
    /\ Reached(Counterpart(w), w.turns)
    /\ w.left > 0 => Between(w)

\* Until the data ends the swap is where the contract is, and the price is its answer.
ExactInv ==
    Regular =>
        /\ stage = "swap" /\ ~swap.exhausted => (swap.left = 0 /\ swap.out = 0) \/ Follows(swap)
        /\ price # NoPrice =>
              /\ stage = "priced" /\ price = swap.out /\ swap.left = 0
              /\ swap.turns <= Turns /\ Reached(Counterpart(swap), swap.turns)

\* Inside the window every tick of the pool is known.
LEMMA KnownInWindow ==
    ASSUME QuoteInv, stage = "swap", NetsShow, NEW u \in Initialised(pool.positions),
           snap.lower <= u, u <= snap.upper
    PROVE  \E x \in snap.nets : x.tick = u
<1>1. PICK T \in SUBSET TickRange :
         /\ WindowTrue(Initialised(pool.positions), pool.tick, T \cup snap.toRead,
                       snap.lower, snap.upper)
         /\ snap.nets = NetsRead(T)
  BY DEF QuoteInv, SnapInv
<1>2. snap.toRead = {}
  BY DEF QuoteInv, SnapInv
<1>3. u \in T
  BY <1>1, <1>2 DEF WindowTrue
<1>4. NetAt(pool.positions, u) # 0
  BY DEF NetsShow
<1> DEFINE x == [tick |-> u, net |-> NetAt(pool.positions, u)]
<1>5. x \in snap.nets /\ x.tick = u
  BY <1>1, <1>3, <1>4 DEF NetsRead
<1> QED
  BY <1>5

\* And the ticks beyond it lie on the far side of the price.
LEMMA WindowSpans ==
    ASSUME QuoteInv, stage = "swap", NEW u \in Initialised(pool.positions)
    PROVE  /\ u <= pool.tick => u <= snap.upper
           /\ u > pool.tick => snap.lower <= u
<1>1. PICK T \in SUBSET TickRange :
         WindowTrue(Initialised(pool.positions), pool.tick, T \cup snap.toRead,
                    snap.lower, snap.upper)
  BY DEF QuoteInv, SnapInv
<1> QED
  BY <1>1 DEF WindowTrue

\* Every net that is known is of a tick of the pool inside the window.
LEMMA NetInWindow ==
    ASSUME QuoteInv, stage = "swap", NEW x \in snap.nets
    PROVE  /\ x.tick \in Initialised(pool.positions) /\ x.tick \in TickRange
           /\ snap.lower <= x.tick /\ x.tick <= snap.upper
<1>1. PICK T \in SUBSET TickRange :
         /\ WindowTrue(Initialised(pool.positions), pool.tick, T \cup snap.toRead,
                       snap.lower, snap.upper)
         /\ snap.nets = NetsRead(T)
  BY DEF QuoteInv, SnapInv
<1>2. x.tick \in T
  BY <1>1 DEF NetsRead
<1> QED
  BY <1>1, <1>2 DEF WindowTrue

\* The first tick that is known ahead is where the contract goes next.
LEMMA NextIsAhead ==
    ASSUME QuoteInv, Regular, Running, TicksAhead # {}, Between(swap)
    PROVE  ContractNext(pool.positions, query.down, swap.tick) = NextInitialised.tick
<1> DEFINE I == Initialised(pool.positions)
           t == NextInitialised
           c == ContractNext(pool.positions, query.down, swap.tick)
<1>1. /\ t.tick \in TickRange /\ t.tick \in I /\ t \in snap.nets /\ swap.tick \in TickRange
      /\ \A u \in TicksAhead : IF query.down THEN u.tick <= t.tick ELSE t.tick <= u.tick
      /\ IF query.down THEN t.tick < swap.tick /\ swap.tick <= pool.tick
         ELSE swap.tick < t.tick /\ pool.tick <= swap.tick
  BY TickAhead
<1>2. /\ stage = "swap" /\ NetsShow /\ MinTick \in Int /\ MaxTick \in Int
      /\ pool.positions \in SUBSET Positions /\ pool.tick \in TickRange
      /\ snap.lower \in Int /\ snap.upper \in Int
  BY QuotingAssumption DEF Running, Regular, QuoteInv, QuotingTypeOK
<1>3. snap.lower <= t.tick /\ t.tick <= snap.upper
  BY <1>1, <1>2, NetInWindow
<1> HIDE DEF t
<1>4. /\ t.tick \in Int /\ MinTick <= t.tick /\ t.tick <= MaxTick /\ swap.tick \in Int
      /\ pool.tick \in Int
  BY <1>1, <1>2 DEF TickRange
<1>5. CASE query.down
  <2>1. /\ c \in TickRange /\ (c = MinTick \/ (c \in I /\ c <= swap.tick))
        /\ \A u \in I : u <= swap.tick => u <= c
    <3>1. query.down = TRUE
      BY <1>5 DEF QuoteInv, QuotingTypeOK
    <3> QED
      BY <1>2, <1>4, <3>1, NextDown
  <2> HIDE DEF c
  <2>2. t.tick <= c /\ c \in Int
    BY <1>1, <1>2, <1>4, <1>5, <2>1 DEF TickRange
  <2>3. CASE c = MinTick
    BY <1>2, <1>4, <2>2, <2>3 DEF c, t
  <2>4. CASE c \in I /\ c <= swap.tick
    <3>1. c # swap.tick
      BY <1>5, <2>4 DEF Between
    <3>2. c < swap.tick
      BY <1>4, <2>2, <2>4, <3>1
    <3>3. c <= pool.tick
      BY <1>1, <1>4, <1>5, <2>2, <3>2
    <3>4. snap.lower <= c
      BY <1>2, <1>3, <1>4, <2>2
    <3>5. c <= snap.upper
      BY <1>2, <2>4, <3>3, WindowSpans
    <3>6. PICK x \in snap.nets : x.tick = c
      BY <1>2, <2>4, <3>4, <3>5, KnownInWindow
    <3>7. x \in TicksAhead
      BY <1>5, <3>2, <3>6 DEF TicksAhead
    <3>8. c <= t.tick
      BY <1>1, <1>5, <3>6, <3>7
    <3>9. c = t.tick
      BY <1>4, <2>2, <3>8
    <3> QED
      BY <3>9 DEF c, t
  <2> QED
    BY <2>1, <2>3, <2>4
<1>6. CASE ~query.down
  <2>1. /\ c \in TickRange /\ (c = MaxTick \/ (c \in I /\ c > swap.tick))
        /\ \A u \in I : u > swap.tick => c <= u
    <3>1. query.down = FALSE
      BY <1>6 DEF QuoteInv, QuotingTypeOK
    <3> QED
      BY <1>2, <1>4, <3>1, NextUp
  <2> HIDE DEF c
  <2>2. c <= t.tick /\ c \in Int
    BY <1>1, <1>2, <1>4, <1>6, <2>1 DEF TickRange
  <2>3. CASE c = MaxTick
    BY <1>2, <1>4, <2>2, <2>3 DEF c, t
  <2>4. CASE c \in I /\ c > swap.tick
    <3>3. c > pool.tick
      BY <1>1, <1>4, <1>6, <2>2, <2>4
    <3>4. c <= snap.upper
      BY <1>2, <1>3, <1>4, <2>2
    <3>5. snap.lower <= c
      BY <1>2, <2>4, <3>3, WindowSpans
    <3>6. PICK x \in snap.nets : x.tick = c
      BY <1>2, <2>4, <3>4, <3>5, KnownInWindow
    <3>7. x \in TicksAhead
      BY <1>6, <2>4, <3>6 DEF TicksAhead
    <3>8. t.tick <= c
      BY <1>1, <1>6, <3>6, <3>7
    <3>9. c = t.tick
      BY <1>4, <2>2, <3>8
    <3> QED
      BY <3>9 DEF c, t
  <2> QED
    BY <2>1, <2>3, <2>4
<1> QED
  BY <1>5, <1>6

\* Where a swap stands that is strictly within its range.
LEMMA BetweenPlaced ==
    ASSUME QuoteInv, Running, Between(swap)
    PROVE  /\ swap.turns \in Nat /\ pool.tick \in Int /\ swap.tick \in Int
           /\ query.down => /\ swap.tick + 1 \in TickRange /\ swap.tick <= pool.tick - swap.turns
                            /\ swap.sqrt <= SqrtAt[swap.tick + 1]
                            /\ swap.tick >= MinTick - 1
           /\ ~query.down => /\ swap.tick \in TickRange /\ pool.tick + swap.turns <= swap.tick
                             /\ SqrtAt[swap.tick] <= swap.sqrt
                             /\ swap.tick < MaxTick =>
                                   swap.tick + 1 \in TickRange /\ swap.sqrt < SqrtAt[swap.tick + 1]
<1>1. /\ MinTick \in Int /\ MaxTick \in Int /\ MaxCrossings \in Nat /\ pool.tick \in TickRange
      /\ swap.turns \in 0 .. MaxCrossings /\ swap.tick \in Int /\ swap.sqrt \in Nat \ {0}
      /\ pool.tick # MaxTick
  BY QuotingAssumption DEF QuoteInv, QuotingTypeOK, SnapInv, SwapInv, Running, TicksOf
<1>2. swap.turns \in Nat /\ pool.tick \in Int /\ MinTick <= pool.tick /\ pool.tick < MaxTick
  BY <1>1 DEF TickRange
<1>3. Placed(swap)
  BY DEF QuoteInv, SwapInv, Running
<1>4. CASE query.down
  <2>1. swap.tick \in MinTick - 1 .. pool.tick
    BY <1>3, <1>4 DEF Placed
  <2>2. swap.tick + 1 \in TickRange /\ swap.tick >= MinTick - 1
    BY <1>1, <1>2, <2>1 DEF TickRange
  <2> QED
    BY <1>1, <1>2, <1>4, <2>2 DEF Between
<1>5. CASE ~query.down
  <2>1. swap.tick \in pool.tick .. MaxTick
    BY <1>3, <1>5 DEF Placed
  <2>2. swap.tick \in TickRange
    BY <1>1, <1>2, <2>1 DEF TickRange
  <2>3. ASSUME swap.tick < MaxTick
        PROVE  swap.tick + 1 \in TickRange /\ swap.sqrt < SqrtAt[swap.tick + 1]
    <3>1. swap.tick + 1 \in TickRange
      BY <1>1, <1>2, <2>1, <2>3 DEF TickRange
    <3>2. SqrtAt[swap.tick + 1] \in Nat
      BY <3>1, QuotingAssumption
    <3>3. swap.sqrt <= SqrtAt[swap.tick + 1] /\ swap.sqrt # SqrtAt[swap.tick + 1]
      BY <1>3, <1>5, <2>3 DEF Placed, Between
    <3>4. swap.sqrt < SqrtAt[swap.tick + 1]
      BY ONLY <1>1, <3>2, <3>3
    <3> QED
      BY <3>1, <3>4
  <2> QED
    BY <1>1, <1>2, <1>5, <2>2, <2>3 DEF Between
<1> QED
  BY <1>4, <1>5

\* A range the swap enters strictly is one the contract's loop takes a turn in.
LEMMA TurnTaken ==
    ASSUME QuoteInv, Running, Follows(swap), NEW p \in Nat \ {0},
           OnTheWay(swap.sqrt, p,
                    SqrtAt[ContractNext(pool.positions, query.down, swap.tick)], query.down)
    PROVE  /\ swap.turns \in Nat
           /\ Reached(ContractStep(pool.positions, query.down, Counterpart(swap)), swap.turns + 1)
<1> DEFINE t == ContractNext(pool.positions, query.down, swap.tick)
           c == Counterpart(swap)
<1>1. /\ pool.positions \in SUBSET Positions /\ swap.tick \in Int /\ query.down \in BOOLEAN
      /\ swap.turns \in Nat /\ swap.sqrt \in Nat /\ swap.left > 0
  BY QuotingAssumption DEF QuoteInv, QuotingTypeOK, Running
<1>2. t \in TickRange
  BY <1>1, NextDown, NextUp
<1>3. c.left > 0 /\ c.sqrt = swap.sqrt
  BY <1>1 DEF Counterpart
<1>4. ~AtLimit(c.sqrt, query.down)
  <2> HIDE DEF t, c
  <2>1. OnTheWay(swap.sqrt, p, SqrtAt[t], query.down)
    BY DEF t
  <2> QED
    BY <1>1, <1>2, <1>3, <2>1, WayToGo
<1> HIDE DEF c
<1>5. ContractTurn(pool.positions, query.down, c) = ContractStep(pool.positions, query.down, c)
  BY <1>3, <1>4 DEF ContractTurn
<1>6. Reached(c, swap.turns)
  BY DEF Follows, c
<1>7. Reached(ContractTurn(pool.positions, query.down, c), swap.turns + 1)
  BY <1>1, <1>6, WalkGrows
<1> QED
  BY <1>1, <1>5, <1>7 DEF c

\* Two prices compare as their ticks do.
LEMMA TickOrder ==
    ASSUME NEW t \in TickRange, NEW u \in TickRange, SqrtAt[t] < SqrtAt[u]
    PROVE  t < u
<1>1. t \in Int /\ u \in Int
  BY QuotingAssumption DEF TickRange
<1>2. SqrtAt[t] \in Nat /\ SqrtAt[u] \in Nat /\ (u <= t => SqrtAt[u] <= SqrtAt[t])
  BY PriceOrder
<1> QED
  BY ONLY <1>1, <1>2, SqrtAt[t] < SqrtAt[u]

\* One crossing after another, the swap stays with the contract.
LEMMA TickStepFollows ==
    ASSUME QuoteInv, Regular, StepToTick, Follows(swap)
    PROVE  Follows(swap')
<1> DEFINE I == Initialised(pool.positions)
           t == NextInitialised
           k == t.tick
           p == SqrtAt[k]
           f == Filled(p)
           liq == IF query.down THEN f.liq - t.net ELSE f.liq + t.net
           tick == IF query.down THEN k - 1 ELSE k
           step == ContractStep(pool.positions, query.down, Counterpart(swap))
<1>0. /\ stage = "swap" /\ Running /\ TicksAhead # {} /\ swap.left > 0
      /\ swap' = IF f.sqrt = p THEN [f EXCEPT !.liq = liq, !.tick = tick]
                 ELSE [f EXCEPT !.exhausted = f.left > 0]
  BY DEF StepToTick, Running
<1>1. Between(swap) /\ swap.turns <= Turns
  BY <1>0 DEF Follows
<1>2. ContractNext(pool.positions, query.down, swap.tick) = k
  BY <1>0, <1>1, NextIsAhead
<1>3. /\ k \in TickRange /\ k \in I /\ t.net = NetAt(pool.positions, k) /\ t.net \in Int
      /\ swap.tick \in TickRange /\ p \in Nat \ {0}
      /\ IF query.down THEN k < swap.tick /\ swap.tick <= pool.tick /\ p < swap.sqrt
         ELSE swap.tick < k /\ pool.tick <= swap.tick /\ swap.sqrt <= p
  BY <1>0, TickAhead
<1>4. /\ QuotingTypeOK /\ swap.sqrt \in Nat \ {0} /\ swap.liq > 0 /\ swap.turns < MaxCrossings
      /\ query.down \in BOOLEAN /\ swap.liq \in Int
  BY <1>0 DEF QuoteInv, SwapInv, Running, QuotingTypeOK
<1>5. /\ swap.turns \in Nat /\ pool.tick \in Int /\ swap.tick \in Int
      /\ query.down => swap.tick <= pool.tick - swap.turns
      /\ ~query.down => /\ pool.tick + swap.turns <= swap.tick
                        /\ swap.tick < MaxTick =>
                              swap.tick + 1 \in TickRange /\ swap.sqrt < SqrtAt[swap.tick + 1]
  BY <1>0, <1>1, BetweenPlaced
<1>6. /\ MinTick \in Int /\ MaxTick \in Int /\ k \in Int /\ MinTick <= k /\ k <= MaxTick
      /\ pool.tick >= MinTick /\ pool.tick <= MaxTick /\ swap.tick <= MaxTick
      /\ Turns = MaxTick - MinTick + 1
  <2>1. pool.tick \in TickRange
    BY <1>4 DEF QuotingTypeOK
  <2> HIDE DEF k
  <2> QED
    BY <1>3, <2>1, QuotingAssumption DEF TickRange, Turns
<1> HIDE DEF t, k, p, I
<1>7. OnTheWay(swap.sqrt, p, p, query.down)
  <2>1. CASE query.down
    <3>1. p <= p
      BY <1>3
    <3> QED
      BY <1>3, <2>1, <3>1 DEF OnTheWay
  <2>2. CASE ~query.down
    <3>1. swap.tick < MaxTick
      BY <1>3, <1>5, <1>6, <2>2
    <3>2. swap.tick + 1 \in TickRange /\ swap.sqrt < SqrtAt[swap.tick + 1]
      BY <1>5, <2>2, <3>1
    <3>3. swap.tick + 1 <= k
      BY <1>3, <1>5, <1>6, <2>2
    <3>4. SqrtAt[swap.tick + 1] <= p /\ SqrtAt[swap.tick + 1] \in Nat
      BY <1>3, <3>2, <3>3, PriceOrder DEF p
    <3>5. swap.sqrt < p /\ p <= p
      BY ONLY <1>3, <1>4, <3>2, <3>4
    <3> QED
      BY <2>2, <3>5 DEF OnTheWay
  <2> QED
    BY <2>1, <2>2
<1>8. /\ f.sqrt # p => step = Counterpart(f) /\ f.left = 0
      /\ f.sqrt = p =>
            step = [sqrt |-> p, tick |-> tick, left |-> f.left, out |-> f.out,
                    liq |-> IF query.down THEN swap.liq - t.net ELSE swap.liq + t.net]
  <2> DEFINE c == ContractNext(pool.positions, query.down, swap.tick)
  <2>1. c = k /\ p = SqrtAt[c]
    BY <1>2 DEF p
  <2> HIDE DEF c
  <2>2. c = ContractNext(pool.positions, query.down, swap.tick)
    BY DEF c
  <2>3. SqrtAt[c] \in Nat \ {0} /\ OnTheWay(swap.sqrt, p, SqrtAt[c], query.down)
    BY <1>3, <1>7, <2>1
  <2> HIDE DEF f, step
  <2>4. /\ f.sqrt # p => step = Counterpart(f) /\ f.left = 0
        /\ f.sqrt = p /\ p = SqrtAt[c] =>
              step = [sqrt |-> p, tick |-> IF query.down THEN c - 1 ELSE c,
                      left |-> f.left, out |-> f.out,
                      liq |-> IF query.down THEN swap.liq - NetAt(pool.positions, c)
                              ELSE swap.liq + NetAt(pool.positions, c)]
    BY <1>3, <1>4, <2>2, <2>3, FilledAlike DEF f, step
  <2>5. tick = IF query.down THEN c - 1 ELSE c
    BY <2>1
  <2> HIDE DEF tick
  <2> QED
    BY <1>3, <2>1, <2>4, <2>5
<1>9. Reached(step, swap.turns + 1)
  <2>1. OnTheWay(swap.sqrt, p, SqrtAt[ContractNext(pool.positions, query.down, swap.tick)], query.down)
    BY <1>2, <1>7 DEF p
  <2> QED
    BY <1>0, <1>3, <2>1, TurnTaken
<1>10. /\ f \in [sqrt : Nat \ {0}, tick : Int, liq : Int, left : Nat, out : Nat,
                 exhausted : BOOLEAN, turns : 0 .. MaxCrossings]
       /\ f.tick = swap.tick /\ f.liq = swap.liq /\ f.turns = swap.turns + 1
  <2>1. IF query.down THEN p <= swap.sqrt ELSE swap.sqrt <= p
    BY <1>3, <1>4
  <2> QED
    BY <1>3, <1>4, <2>1, FilledTyped
<1> HIDE DEF f, step
<1>11. swap.turns + 1 <= Turns
  BY <1>3, <1>5, <1>6
<1>12. CASE f.sqrt # p
  <2>1. swap' = [f EXCEPT !.exhausted = f.left > 0]
    BY <1>0, <1>12
  <2>2. /\ swap'.sqrt = f.sqrt /\ swap'.tick = f.tick /\ swap'.left = f.left /\ swap'.out = f.out
        /\ swap'.liq = f.liq /\ swap'.turns = f.turns
    BY <1>10, <2>1
  <2>3. Counterpart(swap') = step /\ ~(swap'.left > 0)
    BY <1>8, <1>12, <2>2 DEF Counterpart
  <2> QED
    BY <1>9, <1>10, <1>11, <2>2, <2>3 DEF Follows
<1>13. CASE f.sqrt = p
  <2>1. swap' = [f EXCEPT !.liq = liq, !.tick = tick]
    BY <1>0, <1>13
  <2> HIDE DEF liq, tick
  <2>2. /\ swap'.sqrt = p /\ swap'.tick = tick /\ swap'.left = f.left /\ swap'.out = f.out
        /\ swap'.liq = liq /\ swap'.turns = swap.turns + 1
    BY <1>10, <1>13, <2>1
  <2>3. liq = IF query.down THEN swap.liq - t.net ELSE swap.liq + t.net
    BY <1>10 DEF liq
  <2>4. Counterpart(swap') = step
    BY <1>8, <1>13, <2>2, <2>3 DEF Counterpart
  <2>5. Between(swap')
    <3>1. CASE query.down
      <4>1. tick = k - 1 /\ tick + 1 = k /\ tick <= pool.tick - (swap.turns + 1)
        BY <1>3, <1>5, <1>6, <3>1 DEF tick
      <4>2. tick \notin I
        <5>1. \A x, y \in I : x # y - 1
          BY DEF Regular, TicksApart, I
        <5> QED
          BY <1>3, <4>1, <5>1
      <4>3. p <= SqrtAt[tick + 1]
        BY <1>3, <4>1 DEF p
      <4> QED
        BY <2>2, <3>1, <4>1, <4>2, <4>3 DEF Between, I
    <3>2. CASE ~query.down
      <4>1. tick = k /\ pool.tick + (swap.turns + 1) <= tick
        BY <1>3, <1>5, <1>6, <3>2 DEF tick
      <4>2. SqrtAt[tick] <= p
        BY <1>3, <4>1 DEF p
      <4>3. tick < MaxTick => p # SqrtAt[tick + 1]
        <5> SUFFICES ASSUME k < MaxTick PROVE p # SqrtAt[k + 1]
          BY <4>1
        <5>1. k + 1 \in TickRange /\ k < k + 1
          BY <1>6 DEF TickRange
        <5>2. p < SqrtAt[k + 1] /\ SqrtAt[k + 1] \in Nat
          BY <1>3, <5>1, PricesRise, PriceOrder DEF p
        <5> QED
          BY ONLY <1>3, <5>2
      <4> QED
        BY <2>2, <3>2, <4>1, <4>2, <4>3 DEF Between
    <3> QED
      BY <3>1, <3>2
  <2> QED
    BY <1>9, <1>11, <2>2, <2>4, <2>5 DEF Follows
<1> QED
  BY <1>12, <1>13

\* A bound that is ahead is where the claimed window ends, short of where the contract goes.
LEMMA BoundOnTheWay ==
    ASSUME QuoteInv, Regular, Running, TicksAhead = {}, Between(swap),
           NEW d \in ObservedBound, d \in TickRange, ~AtOrBeyond(swap.sqrt, SqrtAt[d])
    PROVE  /\ OnTheWay(swap.sqrt, SqrtAt[d],
                       SqrtAt[ContractNext(pool.positions, query.down, swap.tick)], query.down)
           /\ swap.turns + 1 <= Turns
<1> DEFINE I == Initialised(pool.positions)
           c == ContractNext(pool.positions, query.down, swap.tick)
           p == SqrtAt[d]
<1>1. /\ stage = "swap" /\ NetsShow /\ MinTick \in Int /\ MaxTick \in Int
      /\ pool.positions \in SUBSET Positions /\ pool.tick \in TickRange
      /\ snap.lower \in Int /\ snap.upper \in Int /\ swap.sqrt \in Nat \ {0}
      /\ swap.tick \in Int /\ query.down \in BOOLEAN
  BY QuotingAssumption DEF Running, Regular, QuoteInv, QuotingTypeOK, SwapInv
<1>2. /\ swap.turns \in Nat /\ pool.tick \in Int
      /\ query.down => /\ swap.tick + 1 \in TickRange /\ swap.tick <= pool.tick - swap.turns
                       /\ swap.sqrt <= SqrtAt[swap.tick + 1]
                       /\ swap.tick >= MinTick - 1
      /\ ~query.down => /\ swap.tick \in TickRange /\ pool.tick + swap.turns <= swap.tick
                        /\ SqrtAt[swap.tick] <= swap.sqrt
  BY BetweenPlaced
<1>3. /\ d \in Int /\ MinTick <= d /\ d <= MaxTick /\ p \in Nat \ {0}
      /\ pool.tick >= MinTick /\ pool.tick <= MaxTick /\ Turns = MaxTick - MinTick + 1
  BY <1>1, QuotingAssumption DEF TickRange, Turns
<1>4. IF query.down THEN p < swap.sqrt ELSE swap.sqrt < p
  <2>1. ~AtOrBeyond(swap.sqrt, p)
    OBVIOUS
  <2> HIDE DEF p
  <2> QED
    BY <1>1, <1>3, <2>1 DEF AtOrBeyond
<1>a. d \in TickRange
  OBVIOUS
<1> HIDE DEF p, c
<1>5. CASE query.down
  <2>1. p < SqrtAt[swap.tick + 1] /\ swap.tick + 1 \in TickRange
    <3>1. swap.tick + 1 \in TickRange /\ swap.sqrt <= SqrtAt[swap.tick + 1]
      BY <1>2, <1>5
    <3>2. SqrtAt[swap.tick + 1] \in Nat
      BY <3>1, QuotingAssumption
    <3>3. p < swap.sqrt
      BY <1>4, <1>5
    <3>4. p < SqrtAt[swap.tick + 1]
      BY ONLY <1>1, <1>3, <3>1, <3>2, <3>3
    <3> QED
      BY <3>1, <3>4
  <2>2. d < swap.tick + 1
    BY <2>1, TickOrder DEF p
  <2>3. snap.windowed
    <3> SUFFICES ASSUME ~snap.windowed PROVE FALSE
      OBVIOUS
    <3>1. PICK x \in snap.nets : x.tick = d
      BY DEF ObservedBound
    <3>2. x \notin TicksAhead /\ d \in I
      BY <1>1, <3>1, NetInWindow
    <3>3. ~(d < swap.tick)
      BY <1>5, <3>1, <3>2 DEF TicksAhead
    <3>4. d = swap.tick
      BY <1>1, <1>3, <2>2, <3>3
    <3> QED
      BY <1>5, <3>2, <3>4 DEF Between
  <2>4. d = snap.lower
    BY <1>5, <2>3 DEF ObservedBound
  <2>5. c \in TickRange /\ (c = MinTick \/ (c \in I /\ c <= swap.tick))
    <3>1. query.down = TRUE
      BY <1>1, <1>5
    <3> QED
      BY <1>1, <3>1, NextDown DEF c
  <2>6. c \in Int
    BY <1>1, <2>5 DEF TickRange
  <2>7. c <= d
    <3>1. CASE c = MinTick
      BY <1>3, <3>1
    <3>2. ASSUME c \in I, c <= swap.tick, ~(c <= d) PROVE FALSE
      <4>1. c # swap.tick
        BY <1>5, <3>2 DEF Between
      <4>2. c < swap.tick /\ c <= pool.tick /\ snap.lower <= c
        BY <1>1, <1>2, <1>3, <1>5, <2>4, <2>6, <3>2, <4>1
      <4>3. c <= snap.upper
        BY <1>1, <3>2, <4>2, WindowSpans
      <4>4. PICK x \in snap.nets : x.tick = c
        BY <1>1, <3>2, <4>2, <4>3, KnownInWindow
      <4>5. x \in TicksAhead
        BY <1>5, <4>2, <4>4 DEF TicksAhead
      <4> QED
        BY <4>5
    <3> QED
      BY <2>5, <3>1, <3>2
  <2>8. SqrtAt[c] <= p
    BY <1>a, <2>5, <2>7, PriceOrder DEF p
  <2>9. OnTheWay(swap.sqrt, p, SqrtAt[c], query.down)
    BY <1>4, <1>5, <2>8 DEF OnTheWay
  <2>10. swap.turns + 1 <= Turns
    BY <1>1, <1>2, <1>3, <1>5, <2>2
  <2> QED
    BY <2>9, <2>10 DEF p, c
<1>6. CASE ~query.down
  <2>1. swap.tick \in TickRange /\ pool.tick + swap.turns <= swap.tick /\ SqrtAt[swap.tick] <= swap.sqrt
    BY <1>2, <1>6
  <2>2. SqrtAt[swap.tick] < p
    <3>1. SqrtAt[swap.tick] \in Nat /\ swap.sqrt < p
      BY <1>4, <1>6, <2>1, QuotingAssumption
    <3> QED
      BY ONLY <1>1, <1>3, <2>1, <3>1
  <2>3. swap.tick < d
    BY <1>a, <2>1, <2>2, TickOrder DEF p
  <2>4. snap.windowed
    <3> SUFFICES ASSUME ~snap.windowed PROVE FALSE
      OBVIOUS
    <3>1. PICK x \in snap.nets : x.tick = d
      BY DEF ObservedBound
    <3>2. x \in TicksAhead
      BY <1>1, <1>3, <1>6, <2>3, <3>1 DEF TicksAhead
    <3> QED
      BY <3>2
  <2>5. d = snap.upper
    BY <1>6, <2>4 DEF ObservedBound
  <2>6. c \in TickRange /\ (c = MaxTick \/ (c \in I /\ c > swap.tick))
    <3>1. query.down = FALSE
      BY <1>1, <1>6
    <3> QED
      BY <1>1, <3>1, NextUp DEF c
  <2>7. c \in Int
    BY <1>1, <2>6 DEF TickRange
  <2>8. d <= c
    <3>1. CASE c = MaxTick
      BY <1>3, <3>1
    <3>2. ASSUME c \in I, c > swap.tick, ~(d <= c) PROVE FALSE
      <4>1. c > pool.tick /\ c <= snap.upper
        BY <1>1, <1>2, <1>3, <2>1, <2>5, <2>7, <3>2
      <4>2. snap.lower <= c
        BY <1>1, <3>2, <4>1, WindowSpans
      <4>3. PICK x \in snap.nets : x.tick = c
        BY <1>1, <3>2, <4>1, <4>2, KnownInWindow
      <4>4. x \in TicksAhead
        BY <1>6, <3>2, <4>3 DEF TicksAhead
      <4> QED
        BY <4>4
    <3> QED
      BY <2>6, <3>1, <3>2
  <2>9. p <= SqrtAt[c]
    BY <1>a, <2>6, <2>8, PriceOrder DEF p
  <2>10. OnTheWay(swap.sqrt, p, SqrtAt[c], query.down)
    BY <1>4, <1>6, <2>9 DEF OnTheWay
  <2>11. swap.turns + 1 <= Turns
    BY <1>1, <1>2, <1>3, <2>1, <2>3
  <2> QED
    BY <2>10, <2>11 DEF p, c
<1> QED
  BY <1>5, <1>6

\* The last range is filled in part, and both stop at the same price; or there is no answer.
LEMMA BoundStepFollows ==
    ASSUME QuoteInv, Regular, StepToBound, Follows(swap), ~swap'.exhausted
    PROVE  Follows(swap')
<1> DEFINE d == CHOOSE d \in ObservedBound : TRUE
           p == SqrtAt[d]
           f == Filled(p)
           t == ContractNext(pool.positions, query.down, swap.tick)
           step == ContractStep(pool.positions, query.down, Counterpart(swap))
<1>1. /\ QuotingTypeOK /\ swap.sqrt \in Nat \ {0} /\ swap.liq > 0 /\ swap.turns < MaxCrossings
      /\ query.down \in BOOLEAN /\ Running /\ TicksAhead = {} /\ ObservedBound \subseteq TickRange
      /\ swap.left > 0 /\ swap.tick \in Int /\ pool.positions \in SUBSET Positions
      /\ swap \in [sqrt : Nat, tick : Int, liq : Int, left : Nat, out : Nat,
                   exhausted : BOOLEAN, turns : 0 .. MaxCrossings]
  BY DEF StepToBound, QuoteInv, SwapInv, Running, QuotingTypeOK
<1>2. Between(swap)
  BY <1>1 DEF Follows
<1>3. \E b \in ObservedBound : ~AtOrBeyond(swap.sqrt, SqrtAt[b])
  <2> SUFFICES ASSUME ~(\E b \in ObservedBound : ~AtOrBeyond(swap.sqrt, SqrtAt[b])) PROVE FALSE
    OBVIOUS
  <2>1. swap' = [swap EXCEPT !.exhausted = TRUE]
    BY DEF StepToBound
  <2> QED
    BY <1>1, <2>1
<1>4. d \in ObservedBound /\ d \in TickRange /\ ~AtOrBeyond(swap.sqrt, p)
  BY <1>1, <1>3, BoundIsOne
<1>5. swap' = [f EXCEPT !.exhausted = f.sqrt = p \/ f.left > 0]
  BY <1>3 DEF StepToBound
<1>6. p \in Nat \ {0}
  BY <1>4, QuotingAssumption
<1> HIDE DEF d
<1>7. OnTheWay(swap.sqrt, p, SqrtAt[t], query.down) /\ swap.turns + 1 <= Turns
  BY <1>1, <1>2, <1>4, BoundOnTheWay
<1> HIDE DEF p
<1>8. Reached(step, swap.turns + 1)
  BY <1>1, <1>6, <1>7, TurnTaken
<1>9. t \in TickRange /\ SqrtAt[t] \in Nat \ {0} /\ t = ContractNext(pool.positions, query.down, swap.tick)
  <2>1. t \in TickRange
    BY <1>1, NextDown, NextUp
  <2> HIDE DEF t
  <2>2. SqrtAt[t] \in Nat \ {0}
    BY <2>1, QuotingAssumption
  <2> QED
    BY <2>1, <2>2 DEF t
<1>10. /\ f \in [sqrt : Nat \ {0}, tick : Int, liq : Int, left : Nat, out : Nat,
                 exhausted : BOOLEAN, turns : 0 .. MaxCrossings]
       /\ f.turns = swap.turns + 1
  <2>1. IF query.down THEN p <= swap.sqrt ELSE swap.sqrt <= p
    BY <1>1, <1>4, <1>6 DEF AtOrBeyond
  <2> QED
    BY <1>1, <1>6, <2>1, FilledTyped
<1>11. f.sqrt # p => step = Counterpart(f) /\ f.left = 0
  <2> HIDE DEF t, f, step
  <2> QED
    BY <1>1, <1>6, <1>7, <1>9, FilledAlike DEF f, step
<1> HIDE DEF f, step, t
<1>12. f.sqrt # p
  <2>1. (f.sqrt = p \/ f.left > 0) \in BOOLEAN
    OBVIOUS
  <2>2. swap'.exhausted = (f.sqrt = p \/ f.left > 0)
    BY <1>5, <1>10, <2>1
  <2> QED
    BY <2>2
<1>13. /\ swap'.sqrt = f.sqrt /\ swap'.tick = f.tick /\ swap'.left = f.left /\ swap'.out = f.out
       /\ swap'.liq = f.liq /\ swap'.turns = f.turns
  BY <1>5, <1>10
<1>14. Counterpart(swap') = step /\ ~(swap'.left > 0)
  BY <1>11, <1>12, <1>13 DEF Counterpart
<1> QED
  BY <1>7, <1>8, <1>10, <1>13, <1>14 DEF Follows

\* The swap begins where the contract does.
LEMMA BeginFollows ==
    ASSUME QuoteInv, Regular, BeginSwap
    PROVE  (swap'.left = 0 /\ swap'.out = 0) \/ Follows(swap')
<1> DEFINE l == ActiveAt(pool.positions, pool.tick)
           left == IF l = 0 THEN 0 ELSE query.amount
<1>1. swap' = [NoSwap EXCEPT !.sqrt = pool.sqrt, !.tick = pool.tick, !.liq = l, !.left = left]
  BY DEF BeginSwap
<1>2. CASE l = 0
  BY <1>1, <1>2 DEF NoSwap
<1>3. CASE l # 0
  <2>1. left = query.amount
    BY <1>3
  <2> HIDE DEF l, left
  <2>2. swap' = [sqrt |-> pool.sqrt, tick |-> pool.tick, liq |-> l, left |-> query.amount, out |-> 0,
                 exhausted |-> FALSE, turns |-> 0]
    BY <1>1, <2>1 DEF NoSwap
  <2>3. /\ swap'.sqrt = pool.sqrt /\ swap'.tick = pool.tick /\ swap'.liq = l
        /\ swap'.left = query.amount /\ swap'.out = 0 /\ swap'.turns = 0
    BY <2>2
  <2>4. Counterpart(swap') = ContractStart
    BY <2>3 DEF Counterpart, ContractStart, l
  <2>5. Reached(ContractStart, 0)
    <3> DEFINE f == [k \in 0 .. 0 |-> ContractStart]
    <3>1. f[0] = ContractStart /\ \A k \in 1 .. 0 : f[k] = ContractTurn(pool.positions, query.down, f[k - 1])
      OBVIOUS
    <3> HIDE DEF f
    <3>2. Walk(f, 0)
      BY <3>1 DEF Walk
    <3> QED
      BY <3>1, <3>2 DEF Reached
  <2>6. 0 <= Turns
    BY TurnsIsNat
  <2>7. Between(swap')
    <3>1. /\ pool.tick \in TickRange \ {MaxTick} /\ SqrtAt[pool.tick] <= pool.sqrt
          /\ (pool.sqrt < SqrtAt[pool.tick + 1] \/ pool.sqrt = SqrtAt[pool.tick + 1])
      BY DEF QuoteInv, SnapInv, TicksOf
    <3>2. /\ pool.tick \in Int /\ pool.tick + 1 \in TickRange /\ pool.sqrt \in Nat
      <4>1. MinTick \in Int /\ MaxTick \in Int /\ Starts \subseteq Nat \ {0}
        BY QuotingAssumption
      <4>2. pool.sqrt \in Starts
        BY DEF QuoteInv, QuotingTypeOK
      <4>3. pool.sqrt \in Nat
        BY ONLY <4>1, <4>2
      <4>4. pool.tick \in Int /\ pool.tick + 1 \in TickRange
        BY <3>1, <4>1 DEF TickRange
      <4> QED
        BY <4>3, <4>4
    <3>3. SqrtAt[pool.tick + 1] \in Nat
      BY <3>2, QuotingAssumption
    <3>4. pool.sqrt <= SqrtAt[pool.tick + 1] /\ pool.tick <= pool.tick - 0 /\ pool.tick + 0 <= pool.tick
      BY ONLY <3>1, <3>2, <3>3
    <3>5. PriceOffTicks
      BY DEF Regular
    <3> QED
      BY <2>3, <3>1, <3>4, <3>5 DEF Between, PriceOffTicks
  <2> QED
    BY <2>3, <2>4, <2>5, <2>6, <2>7 DEF Follows
<1> QED
  BY <1>2, <1>3

\* Before the swap there is nothing to compare.
LEMMA ExactInitInv == QuotingInit => ExactInv
BY DEF QuotingInit, ExactInv

\* Every step keeps the swap and the contract together.
LEMMA ExactNextInv == QuoteInv /\ ExactInv /\ [QuotingNext]_quoteVars => ExactInv'
<1> SUFFICES ASSUME QuoteInv, ExactInv, [QuotingNext]_quoteVars, Regular'
             PROVE  /\ stage' = "swap" /\ ~swap'.exhausted =>
                          (swap'.left = 0 /\ swap'.out = 0) \/ Follows(swap)'
                    /\ price' # NoPrice =>
                          /\ stage' = "priced" /\ price' = swap'.out /\ swap'.left = 0
                          /\ swap'.turns <= Turns /\ Reached(Counterpart(swap), swap.turns)'
  BY DEF ExactInv
<1>1. UNCHANGED <<pool, query>>
  BY DEF QuotingNext, quoteVars, ReadBitmap, NetsArrive, NetsShort, SnapshotReady, BeginSwap,
         StepToTick, StepToBound, BoundRaises, PriceReturned
<1>2. Regular
  <2>1. pool' = pool /\ query' = query
    BY <1>1
  <2> QED
    BY <2>1 DEF Regular, PriceOffTicks, NetsShow, TicksApart
<1>3. /\ Follows(swap)' <=> Follows(swap')
      /\ Reached(Counterpart(swap), swap.turns)' <=> Reached(Counterpart(swap'), swap'.turns)
  <2>1. pool' = pool /\ query' = query
    BY <1>1
  <2> QED
    BY <2>1 DEF Follows, Reached, Walk, ContractStart, Between, Counterpart
<1>4. /\ stage = "swap" /\ ~swap.exhausted => (swap.left = 0 /\ swap.out = 0) \/ Follows(swap)
      /\ price # NoPrice =>
            /\ stage = "priced" /\ price = swap.out /\ swap.left = 0
            /\ swap.turns <= Turns /\ Reached(Counterpart(swap), swap.turns)
  BY <1>2 DEF ExactInv
<1>5. CASE ReadBitmap \/ NetsArrive \/ NetsShort \/ SnapshotReady \/ BoundRaises
  BY <1>4, <1>5 DEF ReadBitmap, NetsArrive, NetsShort, SnapshotReady, BoundRaises, Running
<1>6. CASE BeginSwap
  <2>1. stage = "snapshot" /\ price' = price
    BY <1>6 DEF BeginSwap
  <2> QED
    BY <1>2, <1>3, <1>4, <1>6, <2>1, BeginFollows
<1>7. CASE StepToTick \/ StepToBound
  <2>1. stage = "swap" /\ price' = price /\ Running /\ swap.left > 0 /\ ~swap.exhausted
    BY <1>7 DEF StepToTick, StepToBound, Running
  <2>2. Follows(swap)
    BY <1>4, <2>1
  <2>3. price' = NoPrice
    BY <1>4, <2>1
  <2>4. ~swap'.exhausted => Follows(swap')
    BY <1>2, <1>7, <2>2, TickStepFollows, BoundStepFollows
  <2> QED
    BY <1>3, <2>3, <2>4
<1>8. CASE PriceReturned
  <2>1. stage = "swap" /\ stage' = "priced" /\ swap' = swap /\ price' = PriceOf
    BY <1>8 DEF PriceReturned
  <2>2. ASSUME price' # NoPrice
        PROVE  /\ price' = swap.out /\ swap.left = 0
               /\ swap.turns <= Turns /\ Reached(Counterpart(swap), swap.turns)
    <3>1. swap.out # 0 /\ ~swap.exhausted /\ ~(swap.left > 0) /\ price' = swap.out
      BY <2>1, <2>2 DEF PriceOf
    <3>2. swap.left = 0
      <4>1. swap.left \in Nat
        BY DEF QuoteInv, QuotingTypeOK
      <4> QED
        BY <3>1, <4>1
    <3>3. Follows(swap)
      BY <1>4, <2>1, <3>1
    <3> QED
      BY <3>1, <3>2, <3>3 DEF Follows
  <2>3. Reached(Counterpart(swap'), swap'.turns) <=> Reached(Counterpart(swap), swap.turns)
    BY <2>1
  <2> QED
    BY <1>3, <2>1, <2>2, <2>3
<1>9. CASE UNCHANGED quoteVars
  <2>1. swap' = swap /\ stage' = stage /\ price' = price
    BY <1>9 DEF quoteVars
  <2> QED
    BY <1>3, <1>4, <2>1
<1> QED
  BY <1>5, <1>6, <1>7, <1>8, <1>9 DEF QuotingNext

\* In a pool whose price is off its ticks, whose ticks all change the liquidity and lie
\* apart, and whatever was scanned, dropped for the budget or lost with an old row's
\* window: a price that is given is what the contract pays for the whole input, to the
\* last unit.
THEOREM QuotesAreExact == QuotingSpec => []QuoteExact
<1>1. QuoteInv /\ ExactInv => QuoteExact
  <2> SUFFICES ASSUME QuoteInv, ExactInv, Regular, price # NoPrice
               PROVE  price = ContractPays.out /\ ContractPays.left = 0
    BY DEF QuoteExact, Agrees, Regular
  <2> DEFINE c == Counterpart(swap)
  <2>1. price = swap.out /\ swap.left = 0 /\ swap.turns <= Turns /\ Reached(c, swap.turns)
    BY DEF ExactInv
  <2>2. c.left = 0 /\ c.out = swap.out
    BY <2>1 DEF Counterpart
  <2> HIDE DEF c
  <2>3. swap.turns \in Nat /\ ~(c.left > 0)
    BY <2>2, QuotingAssumption DEF QuoteInv, QuotingTypeOK
  <2>4. ContractPays = c
    BY <2>1, <2>3, WalkEnds
  <2> QED
    BY <2>1, <2>2, <2>4
<1>2. QuotingInit => QuoteInv /\ ExactInv
  BY QuoteInitInv, ExactInitInv
<1>3. (QuoteInv /\ ExactInv) /\ [QuotingNext]_quoteVars => (QuoteInv /\ ExactInv)'
  BY QuoteNextInv, ExactNextInv
<1> QED
  BY <1>1, <1>2, <1>3, PTL DEF QuotingSpec

=============================================================================
