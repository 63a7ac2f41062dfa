--------------------------- MODULE WeightGovernor ---------------------------
(***************************************************************************)
(* The shared REST budget of one process: WeightGovernor and               *)
(* governed_request of src/exchange/rate_limit.py.                         *)
(*                                                                         *)
(* Each element of Requests is one call of governed_request.  Between two  *)
(* awaits a coroutine runs alone, so one action is the code between two    *)
(* awaits.  The exchange and the network are external: a request reaches   *)
(* the exchange some time after it was admitted, and its response some     *)
(* time after that.                                                        *)
(***************************************************************************)
EXTENDS Integers, Sequences, SequencesExt

CONSTANTS
    Requests,      \* the calls of governed_request
    Weight,        \* the weight each of them is charged
    MaxWeight,     \* the exchange's limit per minute
    SafetyPercent, \* the fraction of it this process may use, in percent
    Window,        \* length of the sliding window, and of the exchange's minute
    Latency,       \* the client's timeout: request and response take no longer
    BanLengths,    \* the delays a 418 can state
    Backoffs,      \* the delays a 429 can state
    Foreign,       \* weight other processes of the IP may have used in a minute
    Tightened,     \* ceilings a later get_shared_governor may ask for
    MaxTime,       \* bound: the clock stops here
    CallBy         \* bound: no call starts after this instant

\* Slip: the whole limit is used, no share of it is kept back.
CeilingWithoutMargin == MaxWeight

InitialCeiling == (MaxWeight * SafetyPercent) \div 100

ASSUME ConstantsAssumption ==
    /\ Weight \in [Requests -> Nat \ {0}]
    /\ MaxWeight \in Nat \ {0}
    /\ SafetyPercent \in 1 .. 100
    /\ InitialCeiling \in Nat \ {0}
    /\ Window \in Nat \ {0}
    /\ Latency \in Nat \ {0}
    /\ BanLengths \subseteq Nat
    /\ Backoffs \subseteq Nat
    /\ Foreign \subseteq Nat
    /\ Tightened \subseteq Nat \ {0}
    /\ MaxTime \in Nat
    /\ CallBy \in Nat

VARIABLES
    now,         \* the monotonic clock
    ledger,      \* every entry ever appended to _entries, oldest first
    head,        \* _entries is ledger[head], ledger[head + 1], ...
    used,        \* _used
    ceiling,     \* ceiling
    bannedUntil, \* banned_until; 0 stands for None, no instant precedes it
    queue,       \* _lock: its holder followed by its waiters
    pc,          \* where each call of governed_request is
    wake,        \* when a sleep ends, or the client's timeout expires
    exchange,    \* the exchange's own count for its current minute
    slipped      \* history: requests admitted during the ban in force

governor == <<ledger, head, used, ceiling, bannedUntil>>
vars == <<now, governor, queue, pc, wake, exchange, slipped>>

Entry == [ts : Nat, upto : Nat, by : {"admission", "correction"}]

Waiting == {"queued", "sleeping"}
UnderWay == {"sent", "arrived"}
PC == {"new", "backoff", "done"} \cup Waiting \cup UnderWay

TypeOK ==
    /\ now \in Nat
    /\ ledger \in Seq(Entry)
    /\ head \in 1 .. Len(ledger) + 1
    /\ used \in Nat
    /\ ceiling \in Nat \ {0}
    /\ bannedUntil \in Nat
    /\ queue \in Seq(Requests)
    /\ pc \in [Requests -> PC]
    /\ wake \in [Requests -> Nat]
    /\ exchange \in [minute : Nat, weight : Nat]
    /\ slipped \subseteq Requests

Init ==
    /\ now = 0
    /\ ledger = <<>>
    /\ head = 1
    /\ used = 0
    /\ ceiling = InitialCeiling
    /\ bannedUntil = 0
    /\ queue = <<>>
    /\ pc = [r \in Requests |-> "new"]
    /\ wake = [r \in Requests |-> 0]
    /\ exchange = [minute |-> 0, weight |-> 0]
    /\ slipped = {}

-----------------------------------------------------------------------------
(* The ledger.  An entry carries the running total `upto` instead of its    *)
(* own weight, so that the weight of a range of entries is a difference.    *)

Charged(l, n) == IF n = 0 THEN 0 ELSE l[n].upto

Charge(l, weight, by) ==
    Append(l, [ts |-> now, upto |-> Charged(l, Len(l)) + weight, by |-> by])

\* Slip: entries expire one instant before they have left the window.
ExpiresTooEarly(h) ==
    /\ \A i \in head .. h - 1 : ledger[i].ts + Window <= now + 1
    /\ h <= Len(ledger) => ledger[h].ts + Window > now + 1

\* _expire has left ledger[h] as the oldest entry.
ExpiresTo(h) ==
    /\ \A i \in head .. h - 1 : ledger[i].ts + Window <= now
    /\ h <= Len(ledger) => ledger[h].ts + Window > now

\* Slip: entries are popped without giving their weight back.
UsedKeptOnExpiry(h) == IF h > Len(ledger) THEN 0 ELSE used

\* Slip: the oldest surviving entry is given back as well.
UsedMinusSurvivor(h) ==
    IF h > Len(ledger)
    THEN 0
    ELSE used - (Charged(ledger, h) - Charged(ledger, head - 1))

UsedAfterExpiry(h) ==
    IF h > Len(ledger)
    THEN 0
    ELSE used - (Charged(ledger, h - 1) - Charged(ledger, head - 1))

-----------------------------------------------------------------------------
(* acquire *)

Banned == now < bannedUntil

\* governed_request returns or raises; which of them, no property depends on.
Finish(r) ==
    /\ pc' = [pc EXCEPT ![r] = "done"]
    /\ wake' = [wake EXCEPT ![r] = 0]

\* weight > ceiling is refused at once; otherwise the caller asks for the lock.
Call(r) ==
    /\ pc[r] = "new"
    /\ now <= CallBy
    /\ \/ /\ Weight[r] > ceiling
          /\ Finish(r)
          /\ UNCHANGED queue
       \/ /\ Weight[r] <= ceiling
          /\ pc' = [pc EXCEPT ![r] = "queued"]
          /\ queue' = Append(queue, r)
          /\ UNCHANGED wake
    /\ UNCHANGED <<now, governor, exchange, slipped>>

Admit(r, h) ==
    /\ UsedAfterExpiry(h) + Weight[r] <= ceiling
    /\ ledger' = Charge(ledger, Weight[r], "admission")
    /\ used' = UsedAfterExpiry(h) + Weight[r]
    /\ queue' = Tail(queue)
    /\ pc' = [pc EXCEPT ![r] = "sent"]
    /\ wake' = [wake EXCEPT ![r] = now + Latency]
    /\ slipped' = IF Banned THEN slipped \cup {r} ELSE slipped

Sleep(r, h) ==
    /\ UsedAfterExpiry(h) + Weight[r] > ceiling
    /\ used' = UsedAfterExpiry(h)
    /\ pc' = [pc EXCEPT ![r] = "sleeping"]
    /\ wake' = [wake EXCEPT ![r] =
                    IF h <= Len(ledger) THEN ledger[h].ts + Window ELSE now + Window]
    /\ UNCHANGED <<ledger, queue, slipped>>

\* One pass of the loop: expire, then either record the weight or sleep on.
Pass(r) ==
    /\ \E h \in head .. Len(ledger) + 1 :
          /\ ExpiresTo(h)
          /\ head' = h
          /\ Admit(r, h) \/ Sleep(r, h)
    /\ UNCHANGED <<now, ceiling, exchange>>

HoldsLock(r) == queue # <<>> /\ Head(queue) = r

\* The lock is granted in order.  The ban is looked at here, and only here.
RefuseBanned(r) ==
    /\ pc[r] = "queued" /\ HoldsLock(r)
    /\ Banned
    /\ Finish(r)
    /\ queue' = Tail(queue)
    /\ UNCHANGED <<now, governor, exchange, slipped>>

\* Slip: the ban is not looked at when the lock is granted.
TakeLockUnchecked(r) ==
    /\ pc[r] = "queued" /\ HoldsLock(r)
    /\ Pass(r)
    /\ UNCHANGED bannedUntil

TakeLock(r) ==
    /\ pc[r] = "queued" /\ HoldsLock(r)
    /\ ~Banned
    /\ bannedUntil' = 0
    /\ Pass(r)

Recheck(r) ==
    /\ pc[r] = "sleeping" /\ HoldsLock(r)
    /\ wake[r] <= now
    /\ Pass(r)
    /\ UNCHANGED bannedUntil

-----------------------------------------------------------------------------
(* The exchange (external) and the response *)

MinuteOf(t) == t \div Window

InMinute(weight) ==
    IF exchange.minute = MinuteOf(now) THEN exchange.weight + weight ELSE weight

Arrive(r) ==
    /\ pc[r] = "sent"
    /\ exchange' = [minute |-> MinuteOf(now), weight |-> InMinute(Weight[r])]
    /\ pc' = [pc EXCEPT ![r] = "arrived"]
    /\ UNCHANGED <<now, governor, queue, wake, slipped>>

\* The values of X-MBX-USED-WEIGHT-1M; 0 stands for an absent or unreadable one.
Reports == {0} \cup {InMinute(0) + f : f \in Foreign}

\* observe_headers: corrected upward only, the difference stamped now.
Observed(reported) ==
    IF reported > used THEN Charge(ledger, reported - used, "correction") ELSE ledger

UsedObserved(reported) == IF reported > used THEN reported ELSE used

Answered(r, reported) ==
    /\ pc[r] = "arrived"
    /\ ledger' = Observed(reported)
    /\ used' = UsedObserved(reported)
    /\ Finish(r)
    /\ UNCHANGED <<now, head, ceiling, bannedUntil, queue, exchange, slipped>>

\* 418: the caller raises, the stated expiry replaces any earlier one.
Answered418(r, reported, retryAfter) ==
    /\ pc[r] = "arrived"
    /\ ledger' = Observed(reported)
    /\ used' = UsedObserved(reported)
    /\ bannedUntil' = now + retryAfter
    /\ slipped' = {}
    /\ Finish(r)
    /\ UNCHANGED <<now, head, ceiling, queue, exchange>>

\* 429: the rest of the ceiling is charged and this caller alone sleeps.
Answered429(r, reported, retryAfter) ==
    LET u == UsedObserved(reported) IN
    /\ pc[r] = "arrived"
    /\ ledger' = Charge(Observed(reported), IF u < ceiling THEN ceiling - u ELSE 0,
                        "correction")
    /\ used' = IF u < ceiling THEN ceiling ELSE u
    /\ pc' = [pc EXCEPT ![r] = "backoff"]
    /\ wake' = [wake EXCEPT ![r] = now + retryAfter]
    /\ UNCHANGED <<now, head, ceiling, bannedUntil, queue, exchange, slipped>>

BackoffEnds(r) ==
    /\ pc[r] = "backoff"
    /\ wake[r] <= now
    /\ Finish(r)
    /\ UNCHANGED <<now, governor, queue, exchange, slipped>>

\* No response: the client's timeout or a dropped connection.
Fail(r) ==
    /\ pc[r] \in UnderWay
    /\ Finish(r)
    /\ UNCHANGED <<now, governor, queue, exchange, slipped>>

\* Slip: a cancelled caller does not give the lock back.
CancelKeepsLock(r) ==
    /\ pc[r] \in Waiting \cup {"backoff"}
    /\ Finish(r)
    /\ UNCHANGED <<now, governor, queue, exchange, slipped>>

\* The task is cancelled at an await of its own; `async with` gives the lock back.
Cancel(r) ==
    /\ \/ /\ pc[r] \in Waiting
          /\ \E i \in DOMAIN queue : queue[i] = r /\ queue' = RemoveAt(queue, i)
       \/ pc[r] = "backoff" /\ UNCHANGED queue
    /\ Finish(r)
    /\ UNCHANGED <<now, governor, exchange, slipped>>

-----------------------------------------------------------------------------
(* The process *)

\* get_shared_governor called again: only a stricter ceiling is adopted.
Tighten(c) ==
    /\ c < ceiling
    /\ ceiling' = c
    /\ UNCHANGED <<now, ledger, head, used, bannedUntil, queue, pc, wake, exchange, slipped>>

Delivered(r) == pc[r] \in UnderWay => now < wake[r]

Tick ==
    /\ now < MaxTime
    /\ \A r \in Requests : Delivered(r)
    /\ now' = now + 1
    /\ UNCHANGED <<governor, queue, pc, wake, exchange, slipped>>

Response(r) ==
    \E reported \in Reports :
        \/ Answered(r, reported)
        \/ \E retryAfter \in BanLengths : Answered418(r, reported, retryAfter)
        \/ \E retryAfter \in Backoffs : Answered429(r, reported, retryAfter)

Step(r) ==
    \/ Call(r)
    \/ RefuseBanned(r)
    \/ TakeLock(r)
    \/ Recheck(r)
    \/ Arrive(r)
    \/ Response(r)
    \/ BackoffEnds(r)
    \/ Fail(r)
    \/ Cancel(r)

Next ==
    \/ \E r \in Requests : Step(r)
    \/ \E c \in Tightened : Tighten(c)
    \/ Tick

Spec == Init /\ [][Next]_vars

\* No coroutine that could run is kept from running.
Idle ==
    \A r \in Requests : HoldsLock(r) => pc[r] = "sleeping" /\ now < wake[r]

PatientTick == Idle /\ Tick

PatientNext ==
    \/ \E r \in Requests : Step(r)
    \/ \E c \in Tightened : Tighten(c)
    \/ PatientTick

\* With a clock that stops at MaxTime, waiting ends only if the clock does not
\* run ahead of an event loop that has work to do, and if calls stop in time.
LiveSpec ==
    /\ Init
    /\ [][PatientNext]_vars
    /\ WF_vars(PatientTick)
    /\ \A r \in Requests :
          WF_vars(RefuseBanned(r) \/ TakeLock(r) \/ Recheck(r) \/ Arrive(r) \/ Fail(r))

-----------------------------------------------------------------------------
(* Properties *)

\* _used is exactly the weight of the live entries: expiry, admissions, header
\* corrections and 429s keep the counter and the deque in step.
LedgerExact == used = Charged(ledger, Len(ledger)) - Charged(ledger, head - 1)

\* Whenever acquire lets a request through, all weight charged in the window
\* that ends now, this request included, fits under the ceiling in force.
AdmissionFitsWindow ==
    [][ LET n == Len(ledger) + 1 IN
        Len(ledger') = n /\ ledger'[n].by = "admission" =>
            \A i \in 1 .. n :
                ledger'[i].ts + Window > now =>
                    ledger'[n].upto - Charged(ledger', i - 1) <= ceiling ]_vars

\* What the exchange counts of this process in one of its own minutes never
\* exceeds its limit, although requests reach it late: what the safety fraction
\* of one half is for.
WithinExchangeLimit == exchange.weight <= MaxWeight

\* A ban lets at most one more request out: the one that was asleep in acquire,
\* past the ban check, when the 418 arrived.
OneRequestPerBan == \A r, s \in slipped : r = s

\* "The governor refuses further work until the stated expiry": no request at
\* all is let out during a ban.
NoRequestDuringBan == slipped = {}

\* used_weight(): the weight in the window, after expiry.
UsedWeight == UsedAfterExpiry(CHOOSE h \in head .. Len(ledger) + 1 : ExpiresTo(h))

\* "Where the observed header is higher than the local ledger, the ledger is
\* corrected up": after a response the ledger holds at least what it reported.
HeaderWinsUpward ==
    [][ \A r \in Requests, reported \in Reports :
            Answered(r, reported) => reported <= UsedWeight' ]_vars

\* Unless the ceiling is tightened below the weight of some request, every
\* caller of acquire gets through or is refused: nobody waits for ever behind
\* the lock or behind a ledger that does not empty.
EveryCallerLeaves ==
    [](\A r \in Requests : Weight[r] <= ceiling) =>
        \A r \in Requests : pc[r] \in Waiting ~> pc[r] \notin Waiting

=============================================================================
