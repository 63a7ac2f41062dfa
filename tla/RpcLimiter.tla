----------------------------- MODULE RpcLimiter -----------------------------
(***************************************************************************)
(* Pacing of the calls to one chain: RpcLimiter of                         *)
(* src/exchange/rpc_limit.py and the way _rpc of src/exchange/univ3.py     *)
(* uses it.  The limiter keeps one such state per chain and shares nothing *)
(* between them.                                                           *)
(*                                                                         *)
(* Each element of Calls is one call of _rpc.  A token is Unit units, so   *)
(* that rates below one token per instant are integers; the throttling     *)
(* factor is a number of Scale-ths.                                        *)
(***************************************************************************)
EXTENDS Integers, Sequences, FiniteSets, SequencesExt

CONSTANTS
    Calls,          \* the calls of _rpc
    Unit,           \* units that make one token
    Rate,           \* the configured rate, in units per instant
    MaxConcurrency, \* max_concurrency
    Scale,          \* the factor Scale stands for 1
    Floor,          \* the factor that min_requests_per_second amounts to
    Recovery,       \* what the factor regains per instant
    Horizon,        \* bound: the clock stops here
    CallBy          \* bound: no call starts after this instant

RateAt(f) == (Rate * f) \div Scale

ASSUME LimiterAssumption ==
    /\ {Unit, Rate, MaxConcurrency, Scale, Floor, Recovery} \subseteq Nat \ {0}
    /\ Floor <= Scale
    /\ RateAt(Floor) > 0
    /\ {Horizon, CallBy} \subseteq Nat

VARIABLES
    clock,       \* the monotonic clock
    tokens,      \* the bucket's tokens, in units
    rate,        \* the bucket's rate; 0 while there is no bucket
    updated,     \* the bucket's updated
    factor,      \* _throttle["factor"]
    throttledAt, \* _throttle["updated"]
    lock,        \* _locks: the holder followed by the waiters
    free,        \* the semaphore's value
    slots,       \* the semaphore's waiters
    pc,          \* where each call is
    wake,        \* when a sleep ends
    credit       \* history: a bucket of the configured rate that all tokens come from

bucket == <<tokens, rate, updated>>
throttle == <<factor, throttledAt>>
limiterVars == <<clock, bucket, throttle, lock, free, slots, pc, wake, credit>>

InLock == {"queued", "pacing"}
PC == {"new", "waiting", "calling", "done"} \cup InLock

LimiterTypeOK ==
    /\ {clock, tokens, rate, updated, throttledAt, free} \subseteq Nat
    /\ factor \in Floor .. Scale
    /\ lock \in Seq(Calls) /\ slots \in Seq(Calls)
    /\ pc \in [Calls -> PC]
    /\ wake \in [Calls -> Nat]
    /\ credit \in Int

-----------------------------------------------------------------------------
(* The bucket *)

Smaller(a, b) == IF a <= b THEN a ELSE b
Larger(a, b) == IF a >= b THEN a ELSE b

\* Slip: a bucket that refills to its rate never holds one whole token below
\* a rate of one.
CapacityOfRate(r) == r

Capacity(r) == Larger(Unit, r)

\* Slip: the accrued tokens are not capped.
RefilledUncapped(stock, r) == stock + (clock - updated) * r

Refilled(stock, r) == Smaller(Capacity(r), stock + (clock - updated) * r)

\* effective_rate: what a throttled factor has regained so far.
Recovered == Smaller(Scale, factor + (clock - throttledAt) * Recovery)

-----------------------------------------------------------------------------

LimiterInit ==
    /\ clock = 0
    /\ tokens = 0 /\ rate = 0 /\ updated = 0
    /\ factor = Scale /\ throttledAt = 0
    /\ lock = <<>>
    /\ free = MaxConcurrency
    /\ slots = <<>>
    /\ pc = [c \in Calls |-> "new"]
    /\ wake = [c \in Calls |-> 0]
    /\ credit = Capacity(Rate)

-----------------------------------------------------------------------------
(* acquire *)

Call(c) ==
    /\ pc[c] = "new"
    /\ clock <= CallBy
    /\ lock' = Append(lock, c)
    /\ pc' = [pc EXCEPT ![c] = "queued"]
    /\ UNCHANGED <<clock, bucket, throttle, free, slots, wake, credit>>

HoldsLock(c) == lock # <<>> /\ Head(lock) = c

\* The token is taken and the lock given up; the semaphore is asked next.
Grant(c, stock) ==
    /\ stock >= Unit
    /\ tokens' = stock - Unit
    /\ lock' = Tail(lock)
    /\ credit' = credit - Unit
    /\ IF free > 0
       THEN /\ free' = free - 1
            /\ pc' = [pc EXCEPT ![c] = "calling"]
            /\ UNCHANGED slots
       ELSE /\ slots' = Append(slots, c)
            /\ pc' = [pc EXCEPT ![c] = "waiting"]
            /\ UNCHANGED free
    /\ UNCHANGED wake

\* How long `needed` is in whole instants.
Needed(stock, r) == (Unit - stock + r - 1) \div r

Sleep(c, stock, r) ==
    /\ stock < Unit
    /\ tokens' = stock
    /\ pc' = [pc EXCEPT ![c] = "pacing"]
    /\ wake' = [wake EXCEPT ![c] = clock + Needed(stock, r)]
    /\ UNCHANGED <<lock, free, slots, credit>>

\* One pass of the loop with a bucket of rate r that holds stock.
Pass(c, stock, r) ==
    /\ rate' = r
    /\ updated' = clock
    /\ Grant(c, stock) \/ Sleep(c, stock, r)
    /\ UNCHANGED clock

\* The bucket is made, full, or follows the effective rate.
TakeLock(c) ==
    LET r == RateAt(Recovered) IN
    /\ pc[c] = "queued" /\ HoldsLock(c)
    /\ factor' = Recovered
    /\ throttledAt' = IF factor < Scale THEN clock ELSE throttledAt
    /\ Pass(c, IF rate = 0 THEN r ELSE Refilled(tokens, r), r)

Repace(c) ==
    /\ pc[c] = "pacing" /\ HoldsLock(c)
    /\ wake[c] <= clock
    /\ Pass(c, Refilled(tokens, rate), rate)
    /\ UNCHANGED throttle

-----------------------------------------------------------------------------
(* The call and its end *)

\* Slip: an exception leaves the block without releasing the slot.
ReleaseNothing(c) ==
    /\ pc' = [pc EXCEPT ![c] = "done"]
    /\ UNCHANGED <<free, slots>>

\* The slot goes to the first waiter, or back.
Release(c) ==
    IF slots = <<>>
    THEN /\ free' = free + 1
         /\ pc' = [pc EXCEPT ![c] = "done"]
         /\ UNCHANGED slots
    ELSE /\ slots' = Tail(slots)
         /\ pc' = [pc EXCEPT ![c] = "done", ![Head(slots)] = "calling"]
         /\ UNCHANGED free

\* The node answers, or fails in a way that says nothing about the rate.
Answered(c) ==
    /\ pc[c] = "calling"
    /\ Release(c)
    /\ UNCHANGED <<clock, bucket, throttle, lock, wake, credit>>

\* Slip: tokens banked at the old rate are kept.
SlowDownKeepingTokens(f) ==
    /\ rate' = RateAt(f)
    /\ UNCHANGED <<tokens, updated>>

\* throttled tells the bucket at once, and takes back what it can no longer hold.
SlowDown(f) ==
    /\ rate' = RateAt(f)
    /\ tokens' = Smaller(tokens, Capacity(RateAt(f)))
    /\ UNCHANGED updated

\* Slip: a run of refusals halves the rate without end.
CutWithoutFloor(f) == f \div 2

Cut(f) == Larger(Floor, f \div 2)

\* The node refuses: the rate is cut and the slot released.
Refused(c) ==
    /\ pc[c] = "calling"
    /\ factor' = Cut(factor)
    /\ throttledAt' = clock
    /\ SlowDown(factor')
    /\ Release(c)
    /\ UNCHANGED <<clock, lock, wake, credit>>

\* The task is cancelled while it waits; a token already taken stays spent.
Cancel(c) ==
    /\ \/ /\ pc[c] \in InLock
          /\ \E i \in DOMAIN lock : lock[i] = c /\ lock' = RemoveAt(lock, i)
          /\ UNCHANGED slots
       \/ /\ pc[c] = "waiting"
          /\ \E i \in DOMAIN slots : slots[i] = c /\ slots' = RemoveAt(slots, i)
          /\ UNCHANGED lock
    /\ pc' = [pc EXCEPT ![c] = "done"]
    /\ UNCHANGED <<clock, bucket, throttle, free, wake, credit>>

Tick ==
    /\ clock < Horizon
    /\ clock' = clock + 1
    /\ credit' = Smaller(Capacity(Rate), credit + Rate)
    /\ UNCHANGED <<bucket, throttle, lock, free, slots, pc, wake>>

Step(c) ==
    Call(c) \/ TakeLock(c) \/ Repace(c) \/ Answered(c) \/ Refused(c) \/ Cancel(c)

LimiterNext == Tick \/ \E c \in Calls : Step(c)

LimiterSpec == LimiterInit /\ [][LimiterNext]_limiterVars

\* The event loop has nothing to do but wait.
LockAsleep == \A c \in Calls : HoldsLock(c) => pc[c] = "pacing" /\ clock < wake[c]

PatientTick == LockAsleep /\ Tick

PatientNext == PatientTick \/ \E c \in Calls : Step(c)

\* Waiting ends only if the clock does not run ahead of an event loop with work
\* to do, if calls stop in time and if the node answers or the client times out.
LiveSpec ==
    /\ LimiterInit
    /\ [][PatientNext]_limiterVars
    /\ WF_limiterVars(PatientTick)
    /\ \A c \in Calls :
          /\ WF_limiterVars(TakeLock(c) \/ Repace(c))
          /\ WF_limiterVars(Answered(c) \/ Refused(c))

-----------------------------------------------------------------------------
(* Properties *)

\* Tokens are handed out no faster than configured, over any interval, through
\* throttling, recovery and cancelled callers: one bucket of the configured rate
\* could have served them all.
GrantsPaced == credit >= 0

\* After a refusal no burst saved up at the old rate can be spent: the bucket
\* never holds more than its current rate allows.
NoStaleBurst == rate > 0 => tokens <= Capacity(rate)

\* Every slot is free or held by a call in progress, whichever way calls end, and
\* nobody waits for a slot while one is free.
NoSlotLeaks ==
    /\ free + Cardinality({c \in Calls : pc[c] = "calling"}) = MaxConcurrency
    /\ slots # <<>> => free = 0

\* It only ever delays: every call gets out in the end, at any rate the throttle
\* can reduce it to.
OnlyDelays ==
    \A c \in Calls : pc[c] \in InLock \cup {"waiting"} ~> pc[c] \in {"calling", "done"}

=============================================================================
