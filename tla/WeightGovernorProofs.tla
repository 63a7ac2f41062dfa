------------------------ MODULE WeightGovernorProofs ------------------------
(***************************************************************************)
(* Proofs about WeightGovernor, for every set of requests, every weight,   *)
(* ceiling, window and clock.                                              *)
(***************************************************************************)
EXTENDS WeightGovernor, DataLemmas, SequenceTheorems, TLAPS

\* Running totals never decrease along the ledger, and no entry is stamped in
\* the future.
OrderedLedger(l) ==
    \A i \in 1 .. Len(l) :
        /\ l[i].ts <= now
        /\ \A j \in i .. Len(l) : l[i].upto <= l[j].upto

\* The counter is the weight of the live entries of an ordered ledger, and only
\* entries that have left the window were dropped from it.
Consistent(l, h, u) ==
    /\ l \in Seq(Entry)
    /\ OrderedLedger(l)
    /\ h \in 1 .. Len(l) + 1
    /\ u \in Nat
    /\ u = Charged(l, Len(l)) - Charged(l, h - 1)
    /\ \A i \in 1 .. h - 1 : l[i].ts + Window <= now

LedgerInv == Consistent(ledger, head, used)

\* The caller asleep inside acquire is the one that holds the lock.
SleeperHoldsLock == \A r \in Requests : pc[r] = "sleeping" => HoldsLock(r)

\* Once a request has slipped out during a ban, nobody is asleep past the check.
NoSleeperOnceSlipped ==
    slipped # {} /\ Banned => \A r \in Requests : pc[r] # "sleeping"

BanInv == SleeperHoldsLock /\ NoSleeperOnceSlipped /\ OneRequestPerBan

-----------------------------------------------------------------------------
(* The ledger *)

\* Charging appends one entry that carries the running total on.
LEMMA ChargeAppends ==
    ASSUME NEW l \in Seq(Entry), NEW w \in Nat, NEW by \in {"admission", "correction"},
           now \in Nat
    PROVE  /\ Charge(l, w, by) \in Seq(Entry)
           /\ Len(Charge(l, w, by)) = Len(l) + 1
           /\ \A i \in 1 .. Len(l) : Charge(l, w, by)[i] = l[i]
           /\ Charge(l, w, by)[Len(l) + 1] =
                 [ts |-> now, upto |-> Charged(l, Len(l)) + w, by |-> by]
           /\ Charged(l, Len(l)) \in Nat
<1>1. Len(l) # 0 => l[Len(l)] \in Entry
  BY ElementOfSeq, LenProperties
<1>2. Charged(l, Len(l)) \in Nat
  BY <1>1 DEF Charged, Entry
<1>3. [ts |-> now, upto |-> Charged(l, Len(l)) + w, by |-> by] \in Entry
  BY <1>2 DEF Entry
<1> QED
  BY <1>2, <1>3, AppendProperties DEF Charge

\* The running total is monotone.
LEMMA ChargedMonotone ==
    ASSUME NEW l \in Seq(Entry), OrderedLedger(l),
           NEW n \in 0 .. Len(l), NEW m \in 0 .. n
    PROVE  Charged(l, m) \in Nat /\ Charged(l, n) \in Nat /\ Charged(l, m) <= Charged(l, n)
<1>1. \A k \in 1 .. Len(l) : l[k] \in Entry
  BY ElementOfSeq
<1>2. m # 0 => l[m].upto \in Nat
  BY <1>1, LenProperties DEF Entry
<1>3. n # 0 => l[n].upto \in Nat
  BY <1>1, LenProperties DEF Entry
<1>4. m # 0 => l[m].upto <= l[n].upto
  BY LenProperties DEF OrderedLedger
<1> QED
  BY <1>2, <1>3, <1>4 DEF Charged

\* Charging keeps the ledger ordered and every running total before it.
LEMMA ChargeKeepsOrder ==
    ASSUME NEW l \in Seq(Entry), OrderedLedger(l), now \in Nat,
           NEW w \in Nat, NEW by \in {"admission", "correction"}
    PROVE  /\ OrderedLedger(Charge(l, w, by))
           /\ \A n \in 0 .. Len(l) : Charged(Charge(l, w, by), n) = Charged(l, n)
           /\ Charged(Charge(l, w, by), Len(l) + 1) = Charged(l, Len(l)) + w
<1> DEFINE c == Charge(l, w, by)
<1>1. /\ c \in Seq(Entry)
      /\ Len(c) = Len(l) + 1
      /\ \A i \in 1 .. Len(l) : c[i] = l[i]
      /\ c[Len(l) + 1] = [ts |-> now, upto |-> Charged(l, Len(l)) + w, by |-> by]
      /\ Charged(l, Len(l)) \in Nat
  BY ChargeAppends
<1> HIDE DEF c
<1>2. /\ Len(l) \in Nat
      /\ c[Len(l) + 1].ts = now
      /\ c[Len(l) + 1].upto = Charged(l, Len(l)) + w
  BY <1>1, LenProperties
<1>3. \A n \in 0 .. Len(l) : Charged(c, n) = Charged(l, n)
  BY <1>1, <1>2 DEF Charged
<1>4. Charged(c, Len(l) + 1) = Charged(l, Len(l)) + w
  BY <1>1, <1>2 DEF Charged
<1>5. ASSUME NEW i \in 1 .. Len(c) PROVE c[i].ts <= now
  <2>1. CASE i \in 1 .. Len(l)
    BY <1>1, <2>1 DEF OrderedLedger
  <2>2. CASE i = Len(l) + 1
    BY <1>2, <2>2
  <2> QED
    BY <1>1, <1>2, <2>1, <2>2
<1>6. ASSUME NEW i \in 1 .. Len(c), NEW j \in i .. Len(c) PROVE c[i].upto <= c[j].upto
  <2>1. CASE j \in 1 .. Len(l)
    <3>1. i \in 1 .. Len(l) /\ j \in i .. Len(l)
      BY <1>1, <1>2, <2>1
    <3> QED
      BY <1>1, <3>1 DEF OrderedLedger
  <2>2. CASE i \in 1 .. Len(l) /\ j = Len(l) + 1
    <3>1. Charged(l, i) \in Nat /\ Charged(l, i) <= Charged(l, Len(l))
      BY <1>2, <2>2, ChargedMonotone
    <3>2. c[i].upto = Charged(l, i)
      BY <1>1, <1>2, <2>2 DEF Charged
    <3> QED
      BY <1>1, <1>2, <2>2, <3>1, <3>2
  <2>3. CASE i = Len(l) + 1 /\ j = Len(l) + 1
    BY <1>1, <1>2, <2>3
  <2> QED
    BY <1>1, <1>2, <2>1, <2>2, <2>3
<1>7. OrderedLedger(c)
  BY <1>5, <1>6 DEF OrderedLedger
<1> QED
  BY <1>3, <1>4, <1>7 DEF c

\* Charging w adds w to the counter.
LEMMA ChargeConsistent ==
    ASSUME now \in Nat, NEW l, NEW h, NEW u, Consistent(l, h, u),
           NEW w \in Nat, NEW by \in {"admission", "correction"}
    PROVE  Consistent(Charge(l, w, by), h, u + w)
<1> DEFINE c == Charge(l, w, by)
<1>1. l \in Seq(Entry) /\ OrderedLedger(l) /\ h \in 1 .. Len(l) + 1 /\ Len(l) \in Nat
  BY LenProperties DEF Consistent
<1>2. /\ c \in Seq(Entry)
      /\ Len(c) = Len(l) + 1
      /\ \A i \in 1 .. Len(l) : c[i] = l[i]
  BY <1>1, ChargeAppends
<1>3. /\ OrderedLedger(c)
      /\ \A n \in 0 .. Len(l) : Charged(c, n) = Charged(l, n)
      /\ Charged(c, Len(l) + 1) = Charged(l, Len(l)) + w
  BY <1>1, ChargeKeepsOrder
<1> HIDE DEF c
<1>4. Charged(l, h - 1) \in Nat /\ Charged(l, Len(l)) \in Nat
  BY <1>1, ChargedMonotone
<1>5. u + w = Charged(c, Len(c)) - Charged(c, h - 1) /\ u + w \in Nat
  <2>1. u \in Nat /\ u = Charged(l, Len(l)) - Charged(l, h - 1)
    BY DEF Consistent
  <2>2. h - 1 \in 0 .. Len(l)
    BY <1>1
  <2>3. Charged(c, h - 1) = Charged(l, h - 1)
    BY <1>3, <2>2
  <2>4. Charged(c, Len(c)) = Charged(l, Len(l)) + w
    BY <1>2, <1>3
  <2> QED
    BY <1>4, <2>1, <2>3, <2>4
<1>6. \A i \in 1 .. h - 1 : c[i].ts + Window <= now
  BY <1>1, <1>2 DEF Consistent
<1>7. Consistent(c, h, u + w)
  BY <1>1, <1>2, <1>3, <1>5, <1>6 DEF Consistent
<1> QED
  BY <1>7 DEF c

\* Expiry keeps the counter equal to the weight of the live entries.
LEMMA ExpiryConsistent ==
    ASSUME now \in Nat, LedgerInv, NEW h \in head .. Len(ledger) + 1, ExpiresTo(h)
    PROVE  Consistent(ledger, h, UsedAfterExpiry(h))
<1>1. /\ ledger \in Seq(Entry) /\ OrderedLedger(ledger)
      /\ head \in 1 .. Len(ledger) + 1 /\ Len(ledger) \in Nat
  BY LenProperties DEF LedgerInv, Consistent
<1>2. /\ Charged(ledger, Len(ledger)) \in Nat
      /\ Charged(ledger, h - 1) \in Nat
      /\ Charged(ledger, head - 1) \in Nat
      /\ Charged(ledger, h - 1) <= Charged(ledger, Len(ledger))
  BY <1>1, ChargedMonotone
<1>3. UsedAfterExpiry(h) = Charged(ledger, Len(ledger)) - Charged(ledger, h - 1)
  BY <1>1, <1>2 DEF UsedAfterExpiry, LedgerInv, Consistent
<1>4. \A i \in 1 .. h - 1 : ledger[i].ts + Window <= now
  BY <1>1 DEF ExpiresTo, LedgerInv, Consistent
<1> QED
  BY <1>1, <1>2, <1>3, <1>4 DEF Consistent

\* A header correction keeps it too.
LEMMA ObservedConsistent ==
    ASSUME now \in Nat, LedgerInv, NEW reported \in Nat
    PROVE  Consistent(Observed(reported), head, UsedObserved(reported))
<1>1. used \in Nat
  BY DEF LedgerInv, Consistent
<1>2. CASE reported > used
  <2>1. reported - used \in Nat /\ used + (reported - used) = reported
    BY <1>1, <1>2
  <2>2. Consistent(Charge(ledger, reported - used, "correction"), head,
                   used + (reported - used))
    BY <2>1, ChargeConsistent DEF LedgerInv
  <2> QED
    BY <1>2, <2>1, <2>2 DEF Observed, UsedObserved
<1>3. CASE ~(reported > used)
  BY <1>3 DEF Observed, UsedObserved, LedgerInv
<1> QED
  BY <1>2, <1>3

-----------------------------------------------------------------------------
(* The ledger under every action *)

\* Consistent depends on the clock and on its arguments only.
LEMMA ConsistentNext ==
    ASSUME Consistent(ledger', head', used'), now' = now
    PROVE  LedgerInv'
BY DEF LedgerInv, Consistent, OrderedLedger

\* One pass of acquire, whether it admits or sleeps, leaves a consistent ledger.
LEMMA PassConsistent ==
    ASSUME TypeOK, LedgerInv, NEW r \in Requests, Pass(r)
    PROVE  LedgerInv'
<1>1. now \in Nat /\ now' = now /\ Weight[r] \in Nat
  BY ConstantsAssumption DEF TypeOK, Pass
<1>2. PICK h \in head .. Len(ledger) + 1 :
          /\ ExpiresTo(h)
          /\ head' = h
          /\ Admit(r, h) \/ Sleep(r, h)
  BY DEF Pass
<1>3. Consistent(ledger, h, UsedAfterExpiry(h))
  BY <1>1, <1>2, ExpiryConsistent
<1>4. CASE Admit(r, h)
  <2>1. Consistent(Charge(ledger, Weight[r], "admission"), h, UsedAfterExpiry(h) + Weight[r])
    BY <1>1, <1>3, ChargeConsistent
  <2> QED
    BY <1>1, <1>2, <1>4, <2>1, ConsistentNext DEF Admit
<1>5. CASE Sleep(r, h)
  BY <1>1, <1>2, <1>3, <1>5, ConsistentNext DEF Sleep
<1> QED
  BY <1>2, <1>4, <1>5

\* A report is a natural number.
LEMMA ReportsAreNat == TypeOK => Reports \subseteq Nat
<1> SUFFICES ASSUME TypeOK PROVE Reports \subseteq Nat
  OBVIOUS
<1>1. exchange.weight \in Nat
  BY DEF TypeOK
<1>2. InMinute(0) \in Nat
  BY <1>1 DEF InMinute
<1>3. Foreign \subseteq Nat
  BY ConstantsAssumption
<1> QED
  BY <1>2, <1>3 DEF Reports

\* A response leaves a consistent ledger: header correction, 418 and 429 alike.
LEMMA ResponseConsistent ==
    ASSUME TypeOK, LedgerInv, NEW r \in Requests, Response(r)
    PROVE  LedgerInv'
<1>1. now \in Nat /\ used \in Nat /\ ceiling \in Nat
  BY DEF TypeOK
<1>2. PICK reported \in Reports :
          \/ Answered(r, reported)
          \/ \E retryAfter \in BanLengths : Answered418(r, reported, retryAfter)
          \/ \E retryAfter \in Backoffs : Answered429(r, reported, retryAfter)
  BY DEF Response
<1>3. /\ reported \in Nat
      /\ Consistent(Observed(reported), head, UsedObserved(reported))
  BY <1>1, ReportsAreNat, ObservedConsistent
<1>4. CASE Answered(r, reported)
  BY <1>3, <1>4, ConsistentNext DEF Answered
<1>5. ASSUME NEW retryAfter \in BanLengths, Answered418(r, reported, retryAfter)
      PROVE  LedgerInv'
  BY <1>3, <1>5, ConsistentNext DEF Answered418
<1>6. ASSUME NEW retryAfter \in Backoffs, Answered429(r, reported, retryAfter)
      PROVE  LedgerInv'
  <2> DEFINE u == UsedObserved(reported)
             rest == IF u < ceiling THEN ceiling - u ELSE 0
  <2>1. u \in Nat
    BY <1>1, <1>3 DEF UsedObserved
  <2> HIDE DEF u
  <2>2. rest \in Nat /\ u + rest = IF u < ceiling THEN ceiling ELSE u
    BY <1>1, <2>1
  <2>3. /\ ledger' = Charge(Observed(reported), rest, "correction")
        /\ used' = IF u < ceiling THEN ceiling ELSE u
        /\ head' = head /\ now' = now
    BY <1>6 DEF Answered429, u
  <2> HIDE DEF rest
  <2>4. Consistent(Charge(Observed(reported), rest, "correction"), head, u + rest)
    BY <1>1, <1>3, <2>2, ChargeConsistent DEF u
  <2> QED
    BY <2>2, <2>3, <2>4, ConsistentNext
<1> QED
  BY <1>2, <1>4, <1>5, <1>6

\* Every step of the governor keeps the ledger consistent.
LEMMA LedgerStep == TypeOK /\ LedgerInv /\ [Next]_vars => LedgerInv'
<1> SUFFICES ASSUME TypeOK, LedgerInv, [Next]_vars PROVE LedgerInv'
  OBVIOUS
<1>1. ASSUME NEW r \in Requests, TakeLock(r) \/ Recheck(r) PROVE LedgerInv'
  BY <1>1, PassConsistent DEF TakeLock, Recheck
<1>2. ASSUME NEW r \in Requests, Response(r) PROVE LedgerInv'
  BY <1>2, ResponseConsistent
<1>3. ASSUME UNCHANGED <<now, ledger, head, used>> PROVE LedgerInv'
  BY <1>3 DEF LedgerInv, Consistent, OrderedLedger
<1>4. ASSUME NEW r \in Requests,
             Call(r) \/ RefuseBanned(r) \/ Arrive(r) \/ BackoffEnds(r) \/ Fail(r) \/ Cancel(r)
      PROVE  UNCHANGED <<now, ledger, head, used>>
  BY <1>4 DEF Call, RefuseBanned, Arrive, BackoffEnds, Fail, Cancel, governor
<1>5. ASSUME NEW c \in Tightened, Tighten(c) PROVE UNCHANGED <<now, ledger, head, used>>
  BY <1>5 DEF Tighten
<1>6. CASE Tick
  <2>1. now' = now + 1 /\ UNCHANGED <<ledger, head, used>> /\ now \in Nat
    BY <1>6 DEF Tick, governor, TypeOK
  <2>2. ASSUME NEW i \in 1 .. Len(ledger) PROVE ledger[i].ts \in Nat
    <3>1. ledger \in Seq(Entry)
      BY DEF TypeOK
    <3>2. ledger[i] \in Entry
      BY <3>1, ElementOfSeq
    <3> QED
      BY <3>2 DEF Entry
  <2>3. OrderedLedger(ledger)'
    BY <2>1, <2>2 DEF LedgerInv, Consistent, OrderedLedger
  <2>4. ASSUME NEW i \in 1 .. head - 1 PROVE ledger[i].ts + Window <= now'
    <3>1. i \in 1 .. Len(ledger) /\ ledger[i].ts + Window <= now
      BY LenProperties DEF LedgerInv, Consistent
    <3> QED
      BY <2>1, <2>2, <3>1, ConstantsAssumption
  <2> QED
    BY <2>1, <2>3, <2>4 DEF LedgerInv, Consistent
<1>7. CASE UNCHANGED vars
  BY <1>3, <1>7 DEF vars, governor
<1> QED
  BY <1>1, <1>2, <1>3, <1>4, <1>5, <1>6, <1>7 DEF Next, Step

-----------------------------------------------------------------------------
(* Types and the ban under every action *)

\* A call that has returned keeps the types of pc and wake.
LEMMA FinishTypes ==
    ASSUME TypeOK, NEW r \in Requests, Finish(r)
    PROVE  pc' \in [Requests -> PC] /\ wake' \in [Requests -> Nat]
BY DEF Finish, TypeOK, PC

\* Every step keeps the types.  That used stays a natural number needs the ledger.
LEMMA TypeStep == TypeOK /\ LedgerInv /\ LedgerInv' /\ [Next]_vars => TypeOK'
<1> SUFFICES ASSUME TypeOK, LedgerInv, LedgerInv', [Next]_vars PROVE TypeOK'
  OBVIOUS
<1> USE ConstantsAssumption
<1>1. ledger' \in Seq(Entry) /\ head' \in 1 .. Len(ledger') + 1 /\ used' \in Nat
  BY DEF LedgerInv, Consistent
<1>2. ASSUME NEW r \in Requests, Call(r) PROVE TypeOK'
  <2>1. UNCHANGED <<now, ceiling, bannedUntil, exchange, slipped>>
    BY <1>2 DEF Call, governor
  <2>2. CASE Finish(r) /\ UNCHANGED queue
    BY <1>1, <2>1, <2>2, FinishTypes DEF TypeOK
  <2>3. CASE /\ pc' = [pc EXCEPT ![r] = "queued"]
             /\ queue' = Append(queue, r)
             /\ UNCHANGED wake
    <3>1. queue' \in Seq(Requests)
      BY <2>3, AppendProperties DEF TypeOK
    <3>2. pc' \in [Requests -> PC]
      BY <2>3 DEF TypeOK, PC, Waiting
    <3> QED
      BY <1>1, <2>1, <2>3, <3>1, <3>2 DEF TypeOK
  <2> QED
    BY <1>2, <2>2, <2>3 DEF Call
<1>3. ASSUME NEW r \in Requests, RefuseBanned(r) PROVE TypeOK'
  <2>1. queue' \in Seq(Requests)
    BY <1>3, HeadTailProperties DEF RefuseBanned, HoldsLock, TypeOK
  <2> QED
    BY <1>1, <1>3, <2>1, FinishTypes DEF TypeOK, RefuseBanned, governor
<1>4. ASSUME NEW r \in Requests, Pass(r), HoldsLock(r), bannedUntil' \in Nat PROVE TypeOK'
  <2>1. PICK h \in head .. Len(ledger) + 1 :
            /\ ExpiresTo(h)
            /\ Admit(r, h) \/ Sleep(r, h)
    BY <1>4 DEF Pass
  <2>2. UNCHANGED <<now, ceiling, exchange>>
    BY <1>4 DEF Pass
  <2>3. CASE Admit(r, h)
    <3>1. queue' \in Seq(Requests)
      BY <1>4, <2>3, HeadTailProperties DEF Admit, HoldsLock, TypeOK
    <3>2. pc' \in [Requests -> PC] /\ wake' \in [Requests -> Nat]
      BY <2>3 DEF Admit, TypeOK, PC, UnderWay
    <3>3. slipped' \subseteq Requests
      BY <2>3 DEF Admit, TypeOK
    <3> QED
      BY <1>1, <1>4, <2>2, <3>1, <3>2, <3>3 DEF TypeOK
  <2>4. CASE Sleep(r, h)
    <3>1. h <= Len(ledger) => ledger[h].ts \in Nat
      <4>1. h <= Len(ledger) => ledger[h] \in Entry
        BY ElementOfSeq, LenProperties DEF TypeOK
      <4> QED
        BY <4>1 DEF Entry
    <3>2. pc' \in [Requests -> PC] /\ wake' \in [Requests -> Nat]
      <4> DEFINE until == IF h <= Len(ledger) THEN ledger[h].ts + Window ELSE now + Window
      <4>1. until \in Nat
        BY <3>1, ConstantsAssumption DEF TypeOK
      <4>2. wake' = [wake EXCEPT ![r] = until] /\ pc' = [pc EXCEPT ![r] = "sleeping"]
        BY <2>4 DEF Sleep
      <4>3. pc \in [Requests -> PC] /\ wake \in [Requests -> Nat] /\ "sleeping" \in PC
        BY DEF TypeOK, PC, Waiting
      <4> HIDE DEF until
      <4> QED
        BY <4>1, <4>2, <4>3
    <3>3. UNCHANGED <<queue, slipped>>
      BY <2>4 DEF Sleep
    <3> QED
      BY <1>1, <1>4, <2>2, <3>2, <3>3 DEF TypeOK
  <2> QED
    BY <2>1, <2>3, <2>4
<1>5. ASSUME NEW r \in Requests, TakeLock(r) PROVE TypeOK'
  BY <1>4, <1>5 DEF TakeLock
<1>6. ASSUME NEW r \in Requests, Recheck(r) PROVE TypeOK'
  <2>1. bannedUntil' \in Nat
    BY <1>6 DEF Recheck, TypeOK
  <2> QED
    BY <1>4, <1>6, <2>1 DEF Recheck
<1>7. ASSUME NEW r \in Requests, Arrive(r) PROVE TypeOK'
  <2>1. exchange' \in [minute : Nat, weight : Nat]
    <3>1. now \div Window \in Nat
      <4>1. now \in Nat /\ Window \in Nat /\ Window > 0
        BY DEF TypeOK
      <4> QED
        BY <4>1, Z3
    <3>2. InMinute(Weight[r]) \in Nat
      BY <1>7 DEF InMinute, TypeOK
    <3> QED
      BY <1>7, <3>1, <3>2 DEF Arrive, MinuteOf
  <2>2. pc' \in [Requests -> PC] /\ wake' \in [Requests -> Nat]
    BY <1>7 DEF Arrive, TypeOK, PC, UnderWay
  <2> QED
    BY <1>1, <1>7, <2>1, <2>2 DEF TypeOK, Arrive, governor
<1>8. ASSUME NEW r \in Requests, Response(r) PROVE TypeOK'
  <2>1. PICK reported \in Reports :
            \/ Answered(r, reported)
            \/ \E retryAfter \in BanLengths : Answered418(r, reported, retryAfter)
            \/ \E retryAfter \in Backoffs : Answered429(r, reported, retryAfter)
    BY <1>8 DEF Response
  <2>2. CASE Answered(r, reported)
    BY <1>1, <2>2, FinishTypes DEF TypeOK, Answered
  <2>3. ASSUME NEW retryAfter \in BanLengths, Answered418(r, reported, retryAfter)
        PROVE  TypeOK'
    BY <1>1, <2>3, FinishTypes DEF TypeOK, Answered418
  <2>4. ASSUME NEW retryAfter \in Backoffs, Answered429(r, reported, retryAfter)
        PROVE  TypeOK'
    <3>1. pc' \in [Requests -> PC] /\ wake' \in [Requests -> Nat]
      BY <2>4 DEF Answered429, TypeOK, PC
    <3> QED
      BY <1>1, <2>4, <3>1 DEF TypeOK, Answered429
  <2> QED
    BY <2>1, <2>2, <2>3, <2>4
<1>9. ASSUME NEW r \in Requests, BackoffEnds(r) \/ Fail(r) PROVE TypeOK'
  BY <1>1, <1>9, FinishTypes DEF TypeOK, BackoffEnds, Fail, governor
<1>10. ASSUME NEW r \in Requests, Cancel(r) PROVE TypeOK'
  <2>1. queue' \in Seq(Requests)
    BY <1>10, RemoveAtKeepsHead, LenProperties DEF TypeOK, Cancel
  <2> QED
    BY <1>1, <1>10, <2>1, FinishTypes DEF TypeOK, Cancel, governor
<1>11. ASSUME NEW c \in Tightened, Tighten(c) PROVE TypeOK'
  BY <1>1, <1>11 DEF TypeOK, Tighten
<1>12. CASE Tick
  BY <1>1, <1>12 DEF TypeOK, Tick, governor
<1>13. CASE UNCHANGED vars
  BY <1>13 DEF TypeOK, vars, governor
<1> QED
  BY <1>2, <1>3, <1>5, <1>6, <1>7, <1>8, <1>9, <1>10, <1>11, <1>12, <1>13 DEF Next, Step

\* After the holder of the lock has left, nobody is asleep inside acquire.
LEMMA HolderLeaves ==
    ASSUME SleeperHoldsLock, NEW r \in Requests, HoldsLock(r),
           NEW s \in Requests, s # r
    PROVE  pc[s] # "sleeping"
BY DEF SleeperHoldsLock, HoldsLock

\* Every step keeps the ban invariant.
LEMMA BanStep == TypeOK /\ BanInv /\ [Next]_vars => BanInv'
<1> SUFFICES ASSUME TypeOK, BanInv, [Next]_vars PROVE BanInv'
  OBVIOUS
<1> USE DEF BanInv
<1>1. ASSUME NEW r \in Requests, Call(r) PROVE BanInv'
  <2>1. UNCHANGED <<now, bannedUntil, slipped>>
    BY <1>1 DEF Call, governor
  <2>2. \A s \in Requests : pc'[s] = "sleeping" => pc[s] = "sleeping"
    BY <1>1 DEF Call, Finish, TypeOK
  <2>3. ASSUME NEW s \in Requests, HoldsLock(s) PROVE HoldsLock(s)'
    <3>1. queue' = queue \/ queue' = Append(queue, r)
      BY <1>1 DEF Call
    <3>2. queue \in Seq(Requests) /\ queue # <<>>
      BY <2>3 DEF HoldsLock, TypeOK
    <3>3. Append(queue, r) # <<>> /\ Head(Append(queue, r)) = Head(queue)
      BY <3>2, HeadTailAppend, AppendProperties
    <3> QED
      BY <2>3, <3>1, <3>3 DEF HoldsLock
  <2> QED
    BY <2>1, <2>2, <2>3
    DEF SleeperHoldsLock, NoSleeperOnceSlipped, OneRequestPerBan, Banned
<1>2. ASSUME NEW r \in Requests, RefuseBanned(r) PROVE BanInv'
  <2>1. UNCHANGED <<now, bannedUntil, slipped>>
    BY <1>2 DEF RefuseBanned, governor
  <2>2. \A s \in Requests : pc'[s] # "sleeping"
    BY <1>2, HolderLeaves DEF RefuseBanned, Finish, TypeOK
  <2> QED
    BY <2>1, <2>2 DEF SleeperHoldsLock, NoSleeperOnceSlipped, OneRequestPerBan, Banned
<1>3. ASSUME NEW r \in Requests, NEW h, HoldsLock(r), Admit(r, h) PROVE SleeperHoldsLock'
  <2>1. \A s \in Requests : pc'[s] # "sleeping"
    BY <1>3, HolderLeaves DEF Admit, TypeOK
  <2> QED
    BY <2>1 DEF SleeperHoldsLock
<1>4. ASSUME NEW r \in Requests, NEW h, HoldsLock(r), Sleep(r, h) PROVE SleeperHoldsLock'
  <2>1. \A s \in Requests : s # r => pc'[s] # "sleeping"
    BY <1>4, HolderLeaves DEF Sleep, TypeOK
  <2>2. HoldsLock(r)'
    BY <1>4 DEF Sleep, HoldsLock
  <2> QED
    BY <2>1, <2>2 DEF SleeperHoldsLock
<1>5. ASSUME NEW r \in Requests, TakeLock(r) PROVE BanInv'
  <2>1. PICK h \in head .. Len(ledger) + 1 : Admit(r, h) \/ Sleep(r, h)
    BY <1>5 DEF TakeLock, Pass
  <2>2. ~Banned /\ ~Banned' /\ HoldsLock(r)
    BY <1>5 DEF TakeLock, Pass, Banned, TypeOK
  <2>3. slipped' = slipped
    BY <2>1, <2>2 DEF Admit, Sleep
  <2> QED
    BY <1>3, <1>4, <2>1, <2>2, <2>3 DEF NoSleeperOnceSlipped, OneRequestPerBan
<1>6. ASSUME NEW r \in Requests, Recheck(r) PROVE BanInv'
  <2>1. PICK h \in head .. Len(ledger) + 1 : Admit(r, h) \/ Sleep(r, h)
    BY <1>6 DEF Recheck, Pass
  <2>2. HoldsLock(r) /\ pc[r] = "sleeping" /\ UNCHANGED <<now, bannedUntil>>
    BY <1>6 DEF Recheck, Pass
  <2>3. Banned => slipped = {}
    BY <2>2 DEF NoSleeperOnceSlipped
  <2>4. CASE Admit(r, h)
    <3>1. \A s \in Requests : pc'[s] # "sleeping"
      BY <2>2, <2>4, HolderLeaves DEF Admit, TypeOK
    <3> QED
      BY <1>3, <2>2, <2>3, <2>4, <3>1
      DEF NoSleeperOnceSlipped, OneRequestPerBan, Admit
  <2>5. CASE Sleep(r, h)
    BY <1>4, <2>2, <2>3, <2>5 DEF NoSleeperOnceSlipped, OneRequestPerBan, Sleep, Banned
  <2> QED
    BY <2>1, <2>4, <2>5
<1>7. ASSUME NEW r \in Requests, Response(r) PROVE BanInv'
  <2>1. queue' = queue /\ now' = now
    BY <1>7 DEF Response, Answered, Answered418, Answered429
  <2>2. \A s \in Requests : pc'[s] = "sleeping" => pc[s] = "sleeping"
    BY <1>7 DEF Response, Answered, Answered418, Answered429, Finish, TypeOK
  <2>3. slipped' = {} \/ UNCHANGED <<slipped, bannedUntil>>
    BY <1>7 DEF Response, Answered, Answered418, Answered429
  <2> QED
    BY <2>1, <2>2, <2>3
    DEF SleeperHoldsLock, NoSleeperOnceSlipped, OneRequestPerBan, Banned, HoldsLock
<1>8. ASSUME NEW r \in Requests, Arrive(r) \/ BackoffEnds(r) \/ Fail(r) PROVE BanInv'
  <2>1. UNCHANGED <<now, bannedUntil, slipped, queue>>
    BY <1>8 DEF Arrive, BackoffEnds, Fail, governor
  <2>2. \A s \in Requests : pc'[s] = "sleeping" => pc[s] = "sleeping"
    BY <1>8 DEF Arrive, BackoffEnds, Fail, Finish, TypeOK
  <2> QED
    BY <2>1, <2>2
    DEF SleeperHoldsLock, NoSleeperOnceSlipped, OneRequestPerBan, Banned, HoldsLock
<1>9. ASSUME NEW r \in Requests, Cancel(r) PROVE BanInv'
  <2>1. UNCHANGED <<now, bannedUntil, slipped>>
    BY <1>9 DEF Cancel, governor
  <2>2. \A s \in Requests : pc'[s] = "sleeping" => s # r /\ pc[s] = "sleeping"
    BY <1>9 DEF Cancel, Finish, TypeOK
  <2>3. ASSUME NEW s \in Requests, s # r, HoldsLock(s) PROVE HoldsLock(s)'
    <3>1. CASE UNCHANGED queue
      BY <2>3, <3>1 DEF HoldsLock
    <3>2. ASSUME NEW i \in DOMAIN queue, queue[i] = r, queue' = RemoveAt(queue, i)
          PROVE  HoldsLock(s)'
      <4>1. i \in 1 .. Len(queue) /\ queue \in Seq(Requests)
        BY LenProperties DEF TypeOK
      <4>2. i # 1
        BY <2>3, <3>2 DEF HoldsLock
      <4>3. queue' # <<>> /\ Head(queue') = Head(queue)
        BY <3>2, <4>1, <4>2, RemoveAtKeepsHead
      <4> QED
        BY <2>3, <4>3 DEF HoldsLock
    <3> QED
      BY <1>9, <3>1, <3>2 DEF Cancel
  <2> QED
    BY <2>1, <2>2, <2>3
    DEF SleeperHoldsLock, NoSleeperOnceSlipped, OneRequestPerBan, Banned
<1>10. ASSUME NEW c \in Tightened, Tighten(c) PROVE BanInv'
  BY <1>10
  DEF Tighten, SleeperHoldsLock, NoSleeperOnceSlipped, OneRequestPerBan, Banned, HoldsLock
<1>11. CASE Tick
  BY <1>11
  DEF Tick, governor, SleeperHoldsLock, NoSleeperOnceSlipped, OneRequestPerBan, Banned,
      HoldsLock, TypeOK
<1>12. CASE UNCHANGED vars
  BY <1>12
  DEF vars, governor, SleeperHoldsLock, NoSleeperOnceSlipped, OneRequestPerBan, Banned, HoldsLock
<1> QED
  BY <1>1, <1>2, <1>5, <1>6, <1>7, <1>8, <1>9, <1>10, <1>11, <1>12 DEF Next, Step

-----------------------------------------------------------------------------
(* What an admission finds in the window *)

\* The live entries are all that the window holds, so when an admission fits
\* under the ceiling, everything charged in the window does.
LEMMA AdmissionStep ==
    ASSUME TypeOK, LedgerInv, NEW r \in Requests, Pass(r),
           ledger' # ledger, NEW i \in 1 .. Len(ledger) + 1,
           ledger'[i].ts + Window > now
    PROVE  ledger'[Len(ledger) + 1].upto - Charged(ledger', i - 1) <= ceiling
<1> DEFINE n == Len(ledger)
<1>1. /\ now \in Nat /\ Weight[r] \in Nat /\ ceiling \in Nat /\ n \in Nat
      /\ ledger \in Seq(Entry) /\ OrderedLedger(ledger)
      /\ head \in 1 .. n + 1
  BY LenProperties, ConstantsAssumption DEF TypeOK, LedgerInv, Consistent
<1>2. PICK h \in head .. n + 1 : ExpiresTo(h) /\ Admit(r, h)
  BY DEF Pass, Sleep
<1>3. Consistent(ledger, h, UsedAfterExpiry(h))
  BY <1>1, <1>2, ExpiryConsistent
<1>4. /\ ledger' = Charge(ledger, Weight[r], "admission")
      /\ UsedAfterExpiry(h) + Weight[r] <= ceiling
  BY <1>2 DEF Admit
<1>5. /\ Len(ledger') = n + 1
      /\ \A k \in 1 .. n : ledger'[k] = ledger[k]
      /\ \A k \in 0 .. n : Charged(ledger', k) = Charged(ledger, k)
      /\ Charged(ledger', n + 1) = Charged(ledger, n) + Weight[r]
  BY <1>1, <1>4, ChargeAppends, ChargeKeepsOrder
<1>6. ledger'[n + 1].upto = Charged(ledger, n) + Weight[r]
  BY <1>1, <1>5 DEF Charged
<1>7. /\ h \in 1 .. n + 1
      /\ UsedAfterExpiry(h) = Charged(ledger, n) - Charged(ledger, h - 1)
      /\ \A k \in 1 .. h - 1 : ledger[k].ts + Window <= now
  BY <1>3 DEF Consistent
<1>8. i >= h
  <2> SUFFICES ASSUME i < h PROVE FALSE
    BY <1>1, <1>7
  <2>1. i \in 1 .. h - 1 /\ i \in 1 .. n
    BY <1>1, <1>7
  <2>2. ledger[i].ts + Window <= now /\ ledger'[i] = ledger[i]
    BY <1>5, <1>7, <2>1
  <2>3. ledger[i].ts \in Nat
    <3>1. ledger[i] \in Entry
      BY <1>1, <2>1, ElementOfSeq
    <3> QED
      BY <3>1 DEF Entry
  <2> QED
    BY <1>1, <2>2, <2>3, ConstantsAssumption
<1>9. /\ Charged(ledger, h - 1) \in Nat /\ Charged(ledger, i - 1) \in Nat
      /\ Charged(ledger, h - 1) <= Charged(ledger, i - 1)
      /\ Charged(ledger, n) \in Nat
  <2>1. i - 1 \in 0 .. n /\ h - 1 \in 0 .. i - 1
    BY <1>1, <1>7, <1>8
  <2>2. /\ Charged(ledger, h - 1) \in Nat /\ Charged(ledger, i - 1) \in Nat
        /\ Charged(ledger, h - 1) <= Charged(ledger, i - 1)
    BY <1>1, <2>1, ChargedMonotone
  <2>3. n \in 0 .. n
    BY <1>1
  <2>4. Charged(ledger, n) \in Nat
    BY <1>1, <2>3, ChargedMonotone
  <2> QED
    BY <2>2, <2>4
<1>10. Charged(ledger', i - 1) = Charged(ledger, i - 1)
  BY <1>1, <1>5
<1>11. /\ Weight[r] \in Nat /\ ceiling \in Nat
       /\ UsedAfterExpiry(h) = Charged(ledger, n) - Charged(ledger, h - 1)
       /\ UsedAfterExpiry(h) + Weight[r] <= ceiling
  BY <1>1, <1>4, <1>7
<1> QED
  BY <1>6, <1>9, <1>10, <1>11

\* Corrections are not admissions, and no other action touches the ledger.
LEMMA OnlyPassAdmits ==
    ASSUME TypeOK, LedgerInv, [Next]_vars, ledger' # ledger,
           Len(ledger') = Len(ledger) + 1, ledger'[Len(ledger) + 1].by = "admission"
    PROVE  \E r \in Requests : Pass(r)
<1>1. ASSUME NEW l \in Seq(Entry), NEW w \in Nat, ledger' = Charge(l, w, "correction")
      PROVE  FALSE
  <2>1. Len(ledger') = Len(l) + 1 /\ ledger'[Len(l) + 1].by = "correction"
    <3>1. now \in Nat
      BY DEF TypeOK
    <3>2. /\ Len(Charge(l, w, "correction")) = Len(l) + 1
          /\ Charge(l, w, "correction")[Len(l) + 1] =
                [ts |-> now, upto |-> Charged(l, Len(l)) + w, by |-> "correction"]
      BY <3>1, ChargeAppends
    <3> QED
      BY <1>1, <3>2
  <2>2. Len(l) = Len(ledger)
    BY <2>1, LenProperties DEF TypeOK
  <2> QED
    BY <2>1, <2>2
<1>2. ASSUME NEW r \in Requests, Response(r) PROVE FALSE
  <2>1. PICK reported \in Reports :
            \/ Answered(r, reported)
            \/ \E retryAfter \in BanLengths : Answered418(r, reported, retryAfter)
            \/ \E retryAfter \in Backoffs : Answered429(r, reported, retryAfter)
    BY <1>2 DEF Response
  <2>2. reported \in Nat /\ used \in Nat /\ ceiling \in Nat /\ ledger \in Seq(Entry)
    BY ReportsAreNat DEF TypeOK
  <2>3. Observed(reported) = ledger \/ Observed(reported) = Charge(ledger, reported - used, "correction")
    BY DEF Observed
  <2>4. ledger' = Observed(reported) => FALSE
    <3>1. reported > used => reported - used \in Nat
      BY <2>2
    <3> QED
      BY <1>1, <2>2, <3>1 DEF Observed
  <2>5. Consistent(Observed(reported), head, UsedObserved(reported))
    <3>1. now \in Nat
      BY DEF TypeOK
    <3> QED
      BY <2>2, <3>1, ObservedConsistent
  <2>6. ASSUME NEW retryAfter \in Backoffs, Answered429(r, reported, retryAfter)
        PROVE  FALSE
    <3> DEFINE u == UsedObserved(reported)
               rest == IF u < ceiling THEN ceiling - u ELSE 0
    <3>1. u \in Nat
      BY <2>2 DEF UsedObserved
    <3>2. ledger' = Charge(Observed(reported), rest, "correction")
      BY <2>6 DEF Answered429
    <3> HIDE DEF u
    <3>3. rest \in Nat
      BY <2>2, <3>1
    <3> HIDE DEF rest
    <3> QED
      BY <1>1, <2>5, <3>2, <3>3 DEF Consistent
  <2> QED
    BY <2>1, <2>4, <2>6 DEF Answered, Answered418
<1>3. ASSUME NEW r \in Requests, Step(r), ~Pass(r) PROVE FALSE
  BY <1>2, <1>3
  DEF Step, Call, RefuseBanned, TakeLock, Recheck, Arrive, BackoffEnds, Fail, Cancel, governor
<1> QED
  BY <1>3 DEF Next, Tighten, Tick, vars, governor

-----------------------------------------------------------------------------
(* Theorems *)

IInv == TypeOK /\ LedgerInv /\ BanInv

\* The inductive invariant: types, ledger and ban together.
LEMMA Invariance == Spec => []IInv
<1>1. Init => IInv
  <2> SUFFICES ASSUME Init PROVE IInv
    OBVIOUS
  <2>1. TypeOK
    <3>1. ledger \in Seq(Entry) /\ Len(ledger) = 0 /\ queue \in Seq(Requests)
      BY EmptySeq DEF Init
    <3>2. InitialCeiling \in Nat \ {0}
      BY ConstantsAssumption
    <3>3. pc \in [Requests -> PC] /\ wake \in [Requests -> Nat]
      BY DEF Init, PC
    <3> HIDE DEF InitialCeiling
    <3> QED
      BY <3>1, <3>2, <3>3 DEF Init, TypeOK
  <2>2. LedgerInv
    BY DEF Init, LedgerInv, Consistent, OrderedLedger, Charged
  <2>3. BanInv
    BY DEF Init, BanInv, SleeperHoldsLock, NoSleeperOnceSlipped, OneRequestPerBan
  <2> QED
    BY <2>1, <2>2, <2>3 DEF IInv
<1>2. IInv /\ [Next]_vars => IInv'
  BY LedgerStep, TypeStep, BanStep DEF IInv
<1> QED
  BY <1>1, <1>2, PTL DEF Spec

\* Type correctness: the counter _used stays a natural number, whatever the
\* exchange reports and however entries expire.
THEOREM TypeCorrect == Spec => []TypeOK
<1>1. IInv => TypeOK
  BY DEF IInv
<1> QED
  BY <1>1, Invariance, PTL

\* The counter _used is the weight of the entries still in the deque.
THEOREM LedgerIsExact == Spec => []LedgerExact
<1>1. IInv => LedgerExact
  BY DEF IInv, LedgerInv, Consistent, LedgerExact
<1> QED
  BY <1>1, Invariance, PTL

\* One 418 is followed by at most one more request while its ban lasts.
THEOREM BanLeaksOneRequest == Spec => []OneRequestPerBan
<1>1. IInv => OneRequestPerBan
  BY DEF IInv, BanInv
<1> QED
  BY <1>1, Invariance, PTL

\* acquire never lets a request through that would bring the weight charged in
\* the sliding window over the ceiling.
THEOREM AdmissionsFitWindow == Spec => AdmissionFitsWindow
<1> DEFINE n == Len(ledger) + 1
           A == Len(ledger') = n /\ ledger'[n].by = "admission" =>
                  \A i \in 1 .. n :
                      ledger'[i].ts + Window > now =>
                          ledger'[n].upto - Charged(ledger', i - 1) <= ceiling
<1>1. IInv /\ [Next]_vars => [A]_vars
  <2> SUFFICES ASSUME IInv, [Next]_vars, Len(ledger') = n, ledger'[n].by = "admission",
                      NEW i \in 1 .. n, ledger'[i].ts + Window > now
               PROVE  ledger'[n].upto - Charged(ledger', i - 1) <= ceiling
    OBVIOUS
  <2>1. ledger' # ledger
    BY LenProperties DEF IInv, TypeOK
  <2>2. PICK r \in Requests : Pass(r)
    BY <2>1, OnlyPassAdmits DEF IInv
  <2> QED
    BY <2>1, <2>2, AdmissionStep DEF IInv
<1> QED
  BY <1>1, Invariance, PTL DEF Spec, AdmissionFitsWindow

-----------------------------------------------------------------------------
(* The exchange's minutes *)

\* What makes a margin of one half enough.  The code's values satisfy both: the
\* default safety_fraction is 0.5 (get_shared_governor, ExchangeConfig), and the
\* client gives a request up long before a minute is over.
HalfKeptBack == SafetyPercent <= 50 /\ Latency <= Window

\* Every admission on the ledger fitted into its window.
AdmittedFit(l) ==
    \A n \in 1 .. Len(l) : l[n].by = "admission" =>
        \A i \in 1 .. n :
            l[i].ts + Window > l[n].ts => l[n].upto - Charged(l, i - 1) <= InitialCeiling

\* An entry the exchange can have counted in minute m.
Counts(l, m, k) ==
    /\ l[k].by = "admission"
    /\ l[k].ts < (m + 1) * Window
    /\ m * Window <= l[k].ts + Latency

\* seen[j] is the weight of those of the first j entries that the exchange has
\* counted in minute m; between i and j it has counted no more than was charged.
Segment(l, m, seen, i, j) ==
    /\ seen[i] <= seen[j]
    /\ seen[j] - seen[i] <= Charged(l, j) - Charged(l, i)
    /\ (\A k \in i + 1 .. j : ~Counts(l, m, k)) => seen[i] = seen[j]

\* Entry k is the admission of request r, which the exchange has not counted yet.
Owes(l, wk, seen, r, k) ==
    /\ k \in 1 .. Len(l)
    /\ l[k].by = "admission"
    /\ Charged(l, k) = Charged(l, k - 1) + Weight[r]
    /\ wk[r] = l[k].ts + Latency
    /\ seen[k] = seen[k - 1]

\* The exchange's count, entry by entry; S holds the requests on their way to it.
Books(l, ex, S, wk, at, seen) ==
    /\ at \in [Requests -> Nat] /\ seen \in [Nat -> Nat]
    /\ seen[0] = 0 /\ seen[Len(l)] = ex.weight
    /\ \A i \in 0 .. Len(l) : \A j \in i .. Len(l) : Segment(l, ex.minute, seen, i, j)
    /\ \A r \in S : Owes(l, wk, seen, r, at[r])
    /\ \A r, s \in S : r # s => at[r] # at[s]

OnTheirWay == {r \in Requests : pc[r] = "sent"}

\* Which entry is whose, and what was counted, is not in the state: it exists.
MinuteInv ==
    /\ ceiling <= InitialCeiling
    /\ AdmittedFit(ledger)
    /\ \A r \in Requests : pc[r] = "sent" => now <= wake[r]
    /\ \E at \in [Requests -> Nat], seen \in [Nat -> Nat] :
          Books(ledger, exchange, OnTheirWay, wake, at, seen)

\* What was counted between two entries is no more than what was charged.
LEMMA CountedFits ==
    ASSUME NEW a \in Nat, NEW b \in Nat, NEW c \in Nat, NEW d \in Nat, NEW limit \in Nat,
           b - a <= d - c, d - c <= limit
    PROVE  b - a <= limit
  OBVIOUS

\* Stamps a window apart, both counted in the minute from s: the second lies in
\* its second half at the earliest, and the last entry counted less than a window on.
LEMMA LateHalf ==
    ASSUME NEW a \in Nat, NEW c \in Nat, NEW z \in Nat, NEW s \in Nat, NEW w \in Nat,
           NEW t \in Nat, t <= w, z < s + w, s <= a + t, ~(c < a + w)
    PROVE  c + w > z
  OBVIOUS

\* Two halves.
LEMMA TwoHalves ==
    ASSUME NEW b \in Nat, NEW z \in Nat, NEW c \in Nat, NEW limit \in Nat, NEW most \in Nat,
           b <= limit, z - c <= limit, c = b, 2 * limit <= most
    PROVE  z <= most
  OBVIOUS

\* Two windows cover all the entries that can have been counted in one minute.
LEMMA MinuteFits ==
    ASSUME HalfKeptBack, NEW l \in Seq(Entry), AdmittedFit(l), NEW m \in Nat,
           NEW seen \in [Nat -> Nat], seen[0] = 0,
           \A i \in 0 .. Len(l) : \A j \in i .. Len(l) : Segment(l, m, seen, i, j)
    PROVE  seen[Len(l)] <= MaxWeight
<1> DEFINE n == Len(l)
           C == {k \in 1 .. n : Counts(l, m, k)}
<1>a. n \in Nat /\ \A k \in 1 .. n : l[k].ts \in Nat /\ l[k].upto \in Nat
  <2>1. \A k \in 1 .. n : l[k] \in Entry
    BY ElementOfSeq
  <2> QED
    BY <2>1, LenProperties DEF Entry
<1>b. \A i \in 0 .. n : seen[i] \in Nat /\ Charged(l, i) \in Nat
  BY <1>a DEF Charged
<1>c. Window \in Nat \ {0} /\ Latency \in Nat /\ Latency <= Window
  BY ConstantsAssumption DEF HalfKeptBack
<1>d. InitialCeiling \in Nat /\ 2 * InitialCeiling <= MaxWeight /\ MaxWeight \in Nat
  BY ConstantsAssumption DEF HalfKeptBack, InitialCeiling
<1>e. /\ C \subseteq 1 .. n /\ C \subseteq Nat /\ C \subseteq 0 .. n
      /\ \A k \in C : Counts(l, m, k)
      /\ \A k \in 1 .. n : k \in C \/ ~Counts(l, m, k)
  BY <1>a
<1> HIDE DEF n, C
<1>1. CASE C = {}
  <2>1. Segment(l, m, seen, 0, n)
    BY <1>a DEF n
  <2>2. seen[0] = seen[n]
    BY <1>1, <1>a, <1>e, <2>1 DEF Segment
  <2> QED
    BY <1>d, <2>2 DEF n
<1>2. CASE C # {}
  <2>1. PICK a \in C : \A k \in C : a <= k
    BY <1>2, <1>e, LeastOf
  <2>2. PICK z \in C : \A k \in C : k <= z
    BY <1>2, <1>a, <1>e, GreatestOf
  <2>3. a \in 1 .. n /\ z \in 1 .. n /\ a <= z /\ Counts(l, m, a) /\ Counts(l, m, z)
    BY <1>a, <1>e, <2>1, <2>2
  \* What was counted up to an entry, after the entry before another one.
  <2>4. ASSUME NEW x \in C, NEW y \in C, x <= y, l[x].ts + Window > l[y].ts
        PROVE  seen[y] - seen[x - 1] <= InitialCeiling
    <3>1. x \in 1 .. n /\ y \in 1 .. n /\ x - 1 \in 0 .. n /\ y \in x - 1 .. n /\ x \in 1 .. y
      <4>1. x \in 1 .. n /\ y \in 1 .. n /\ n \in Nat /\ x <= y
        BY <1>a, <1>e, <2>4
      <4> QED
        BY ONLY <4>1
    <3>2. l[y].upto - Charged(l, x - 1) <= InitialCeiling
      BY <1>e, <2>4, <3>1 DEF AdmittedFit, Counts, n
    <3>3. Charged(l, y) = l[y].upto
      BY <3>1 DEF Charged
    <3>4. seen[y] - seen[x - 1] <= Charged(l, y) - Charged(l, x - 1)
      BY <3>1 DEF Segment, n
    <3>5. /\ seen[y] \in Nat /\ seen[x - 1] \in Nat
          /\ Charged(l, y) \in Nat /\ Charged(l, x - 1) \in Nat
      <4>1. y \in 0 .. n
        BY <1>a, <3>1
      <4> QED
        BY <1>b, <3>1, <4>1
    <3>6. Charged(l, y) - Charged(l, x - 1) <= InitialCeiling
      BY <3>2, <3>3
    <3> QED
      BY <1>d, <3>4, <3>5, <3>6, CountedFits
  <2>5. seen[a - 1] = 0
    <3>1. 0 \in 0 .. n /\ a - 1 \in 0 .. n /\ \A k \in 0 + 1 .. a - 1 : ~Counts(l, m, k)
      BY <1>a, <1>e, <2>1, <2>3
    <3> QED
      BY <3>1 DEF Segment, n
  <2>6. seen[n] = seen[z]
    <3>1. n \in z .. n /\ z \in 0 .. n /\ \A k \in z + 1 .. n : ~Counts(l, m, k)
      BY <1>a, <1>e, <2>2, <2>3
    <3> QED
      BY <3>1 DEF Segment, n
  <2>7. CASE l[a].ts + Window > l[z].ts
    <3>1. seen[z] - seen[a - 1] <= InitialCeiling
      BY <2>3, <2>4, <2>7
    <3>2. seen[n] \in Nat
      BY <1>a, <1>b
    <3> QED
      BY <1>d, <2>5, <2>6, <3>1, <3>2 DEF n
  <2>8. CASE ~(l[a].ts + Window > l[z].ts)
    <3> DEFINE E == {k \in C : l[k].ts < l[a].ts + Window}
               F == {k \in C : ~(l[k].ts < l[a].ts + Window)}
    <3>1. a \in E /\ z \in F
      <4>1. l[a].ts \in Nat /\ l[z].ts \in Nat
        BY <1>a, <2>3
      <4>2. l[a].ts < l[a].ts + Window /\ ~(l[z].ts < l[a].ts + Window)
        <5>1. \A x, y \in Nat, w \in Nat \ {0} :
                 ~(x + w > y) => x < x + w /\ ~(y < x + w)
          OBVIOUS
        <5> QED
          BY <1>c, <2>8, <4>1, <5>1
      <4> QED
        BY <4>2
    <3>e. E \subseteq C /\ F \subseteq C /\ C = E \cup F
      OBVIOUS
    <3>f. /\ \A k \in E : l[k].ts < l[a].ts + Window
          /\ \A k \in F : ~(l[k].ts < l[a].ts + Window)
      OBVIOUS
    <3> HIDE DEF E, F
    <3>2. PICK c \in F : \A k \in F : c <= k
      <4>1. F \subseteq Nat /\ F # {}
        BY <1>e, <3>1, <3>e
      <4> QED
        BY <4>1, LeastOf
    <3>3. PICK b \in {k \in E : k < c} : \A k \in {k \in E : k < c} : k <= b
      <4>1. a < c
        <5>1. a # c
          BY <3>1, <3>2, <3>f
        <5>2. a <= c /\ c \in Nat
          BY <1>e, <2>1, <3>2, <3>e
        <5> QED
          BY <2>3, <5>1, <5>2
      <4>2. {k \in E : k < c} \in SUBSET (0 .. n) /\ {k \in E : k < c} # {}
        BY <1>e, <3>1, <3>e, <4>1
      <4> QED
        BY <1>a, <4>2, GreatestOf
    <3>4. /\ b \in C /\ c \in C /\ a \in C /\ z \in C
          /\ b \in 1 .. n /\ c \in 1 .. n /\ a <= b /\ b < c /\ c <= z
      BY <1>a, <1>e, <2>1, <2>2, <3>2, <3>3, <3>e
    <3>5. seen[c - 1] = seen[b]
      <4>1. b \in 0 .. n /\ c - 1 \in b .. n
        <5>1. n \in Nat /\ b \in 1 .. n /\ c \in 1 .. n /\ b < c
          BY <1>a, <3>4
        <5> QED
          BY ONLY <5>1
      <4>2. ASSUME NEW k \in b + 1 .. c - 1 PROVE ~Counts(l, m, k)
        <5>1. k \in 1 .. n /\ b < k /\ k < c
          <6>1. n \in Nat /\ b \in 1 .. n /\ c \in 1 .. n /\ k \in b + 1 .. c - 1
            BY <1>a, <3>4
          <6> QED
            BY ONLY <6>1
        <5>2. k \notin F
          BY <3>2, <3>4, <5>1
        <5>3. k \notin E
          BY <3>3, <3>4, <5>1
        <5> QED
          BY <1>e, <3>e, <5>1, <5>2, <5>3
      <4> QED
        BY <4>1, <4>2 DEF Segment, n
    <3>6. seen[b] - seen[a - 1] <= InitialCeiling
      <4>1. l[a].ts + Window > l[b].ts
        BY <1>a, <1>c, <2>3, <3>3, <3>4, <3>f
      <4> QED
        BY <2>4, <3>4, <4>1
    <3>7. seen[z] - seen[c - 1] <= InitialCeiling
      <4> DEFINE s == m * Window
      <4>1. s \in Nat /\ (m + 1) * Window = s + Window
        BY <1>c
      <4>2. l[z].ts < s + Window /\ s <= l[a].ts + Latency
                /\ ~(l[c].ts < l[a].ts + Window)
        <5>1. l[z].ts < s + Window /\ s <= l[a].ts + Latency
          BY <2>3, <4>1 DEF Counts
        <5>2. ~(l[c].ts < l[a].ts + Window)
          BY <3>2, <3>f
        <5> QED
          BY <5>1, <5>2
      <4> HIDE DEF s
      <4>3. l[c].ts + Window > l[z].ts
        <5>1. l[c].ts \in Nat /\ l[a].ts \in Nat /\ l[z].ts \in Nat /\ Window \in Nat
          BY <1>a, <1>c, <2>3, <3>4
        <5> QED
          BY <1>c, <4>1, <4>2, <5>1, LateHalf
      <4> QED
        BY <2>4, <3>4, <4>3
    <3>8. seen[z] \in Nat /\ seen[b] \in Nat /\ seen[b] <= InitialCeiling
      <4>1. seen[z] \in Nat /\ seen[b] \in Nat
        BY <2>3, <3>4
      <4> QED
        BY <2>5, <3>6, <4>1
    <3>9. seen[z] <= MaxWeight
      BY <1>d, <3>5, <3>7, <3>8, TwoHalves
    <3> QED
      BY <2>6, <3>9 DEF n
  <2> QED
    BY <2>7, <2>8
<1> QED
  BY <1>1, <1>2
\* The instant lies in its minute.
LEMMA MinuteBounds ==
    ASSUME NEW t \in Nat, NEW w \in Nat \ {0}
    PROVE  t \div w \in Nat /\ (t \div w) * w <= t /\ t < (t \div w + 1) * w
  OBVIOUS

\* Fewer requests on their way, the same books.
LEMMA BooksOfFewer ==
    ASSUME NEW l, NEW ex, NEW S, NEW wk, NEW at, NEW seen, Books(l, ex, S, wk, at, seen),
           NEW T \in SUBSET S, NEW wk2, \A r \in T : wk2[r] = wk[r]
    PROVE  Books(l, ex, T, wk2, at, seen)
BY DEF Books, Owes

\* An appended entry that the exchange has not counted changes nothing before it.
LEMMA BooksAppend ==
    ASSUME NEW l \in Seq(Entry), OrderedLedger(l), now \in Nat,
           NEW w \in Nat, NEW by \in {"admission", "correction"},
           NEW ex, NEW S, NEW wk, NEW at, NEW seen, Books(l, ex, S, wk, at, seen)
    PROVE  LET n == Len(l) IN
           Books(Charge(l, w, by), ex, S, wk, at, [seen EXCEPT ![n + 1] = seen[n]])
<1> DEFINE n == Len(l)
           c == Charge(l, w, by)
           s == [seen EXCEPT ![n + 1] = seen[n]]
<1>1. /\ c \in Seq(Entry) /\ Len(c) = n + 1
      /\ \A k \in 1 .. n : c[k] = l[k]
      /\ \A k \in 0 .. n : Charged(c, k) = Charged(l, k)
      /\ Charged(c, n + 1) = Charged(l, n) + w
      /\ n \in Nat
  BY ChargeAppends, ChargeKeepsOrder, LenProperties
<1>2. /\ seen \in [Nat -> Nat] /\ at \in [Requests -> Nat] /\ seen[0] = 0 /\ seen[n] = ex.weight
      /\ \A i \in 0 .. n : \A j \in i .. n : Segment(l, ex.minute, seen, i, j)
      /\ \A r \in S : Owes(l, wk, seen, r, at[r])
      /\ \A r, q \in S : r # q => at[r] # at[q]
  BY DEF Books
<1>3. \A k \in 0 .. n : Charged(l, k) \in Nat
  <2>1. \A k \in 0 .. n : n \in 0 .. n /\ k \in 0 .. n
    BY <1>1
  <2> QED
    BY <2>1, ChargedMonotone
<1>4. s \in [Nat -> Nat] /\ s[n + 1] = seen[n] /\ \A k \in 0 .. n : s[k] = seen[k]
  <2>1. n \in Nat /\ seen \in [Nat -> Nat]
    BY <1>1, <1>2
  <2> HIDE DEF n
  <2>2. n + 1 \in Nat /\ seen[n] \in Nat /\ \A k \in 0 .. n : k \in Nat /\ k # n + 1
    BY ONLY <2>1
  <2> QED
    BY ONLY <2>1, <2>2
<1> HIDE DEF n, c, s
<1>5. ASSUME NEW k \in 1 .. n PROVE Counts(c, ex.minute, k) <=> Counts(l, ex.minute, k)
  BY <1>1, <1>5 DEF Counts
<1>6. ASSUME NEW i \in 0 .. n + 1, NEW j \in i .. n + 1
      PROVE  Segment(c, ex.minute, s, i, j)
  <2>1. CASE j \in 0 .. n
    <3>1. i \in 0 .. n /\ j \in i .. n /\ i + 1 .. j \subseteq 1 .. n
      BY <1>1, <2>1
    <3>2. Segment(l, ex.minute, seen, i, j)
      BY <1>2, <3>1
    <3>3. /\ s[i] = seen[i] /\ s[j] = seen[j]
          /\ Charged(c, i) = Charged(l, i) /\ Charged(c, j) = Charged(l, j)
      BY <1>1, <1>4, <2>1, <3>1
    <3> QED
      BY <1>5, <3>1, <3>2, <3>3 DEF Segment
  <2>2. CASE i \in 0 .. n /\ j = n + 1
    <3>1. n \in i .. n /\ i + 1 .. n \subseteq 1 .. n /\ i + 1 .. n \subseteq i + 1 .. j /\ n \in 0 .. n
      BY <1>1, <2>2
    <3>2. Segment(l, ex.minute, seen, i, n)
      BY <1>2, <2>2, <3>1
    <3>3. /\ s[i] = seen[i] /\ s[j] = seen[n]
          /\ Charged(c, i) = Charged(l, i) /\ Charged(c, j) = Charged(l, n) + w
      BY <1>1, <1>4, <2>2
    <3>4. s[i] <= s[j]
      BY <3>2, <3>3 DEF Segment
    <3>5. s[j] - s[i] <= Charged(c, j) - Charged(c, i)
      <4>1. seen[n] - seen[i] <= Charged(l, n) - Charged(l, i)
        BY <3>2 DEF Segment
      <4>2. /\ Charged(l, n) \in Nat /\ Charged(l, i) \in Nat
            /\ seen[n] \in Nat /\ seen[i] \in Nat
        <5>1. i \in Nat /\ n \in Nat
          BY <1>1, <2>2
        <5> QED
          BY <1>2, <1>3, <2>2, <3>1, <5>1
      <4> QED
        BY <3>3, <4>1, <4>2
    <3>6. ASSUME \A k \in i + 1 .. j : ~Counts(c, ex.minute, k) PROVE s[i] = s[j]
      <4>1. \A k \in i + 1 .. n : ~Counts(l, ex.minute, k)
        BY <1>5, <3>1, <3>6
      <4> QED
        BY <3>2, <3>3, <4>1 DEF Segment
    <3> QED
      BY <3>4, <3>5, <3>6 DEF Segment
  <2>3. CASE i = n + 1 /\ j = n + 1
    <3>1. s[j] \in Nat /\ Charged(c, j) \in Nat
      <4>1. n \in 0 .. n /\ seen[n] \in Nat
        <5>1. seen \in [Nat -> Nat]
          BY <1>2
        <5> QED
          BY <1>1, <5>1
      <4>2. Charged(l, n) \in Nat
        BY <1>3, <4>1
      <4>3. s[j] = seen[n] /\ Charged(c, j) = Charged(l, n) + w
        BY <1>1, <1>4, <2>3
      <4>4. Charged(l, n) + w \in Nat
        BY <4>2
      <4> QED
        BY <4>1, <4>3, <4>4
    <3> QED
      BY <2>3, <3>1 DEF Segment
  <2>4. \/ j \in 0 .. n
        \/ i \in 0 .. n /\ j = n + 1
        \/ i = n + 1 /\ j = n + 1
    BY <1>1
  <2> QED
    BY <2>1, <2>2, <2>3, <2>4
<1>7. ASSUME NEW r \in S PROVE Owes(c, wk, s, r, at[r])
  <2> DEFINE k == at[r]
  <2>1. Owes(l, wk, seen, r, k)
    BY <1>2, <1>7
  <2>2. k \in 1 .. n
    BY <2>1 DEF Owes, n
  <2> HIDE DEF k
  <2>3. k \in 1 .. n + 1 /\ k \in 0 .. n /\ k - 1 \in 0 .. n
    BY <1>1, <2>2
  <2>4. /\ c[k] = l[k] /\ Charged(c, k) = Charged(l, k) /\ Charged(c, k - 1) = Charged(l, k - 1)
        /\ s[k] = seen[k] /\ s[k - 1] = seen[k - 1]
    BY <1>1, <1>4, <2>2, <2>3
  <2>5. Owes(c, wk, s, r, k)
    BY <1>1, <2>1, <2>3, <2>4 DEF Owes
  <2> QED
    BY <2>5 DEF k
<1>8. s[0] = 0 /\ s[Len(c)] = ex.weight
  BY <1>1, <1>2, <1>4
<1>9. Books(c, ex, S, wk, at, s)
  BY <1>1, <1>2, <1>4, <1>6, <1>7, <1>8 DEF Books
<1> QED
  BY <1>9 DEF n, c, s

\* An admission is an entry the exchange has yet to count.
LEMMA BooksAdmit ==
    ASSUME NEW l \in Seq(Entry), OrderedLedger(l), now \in Nat,
           NEW S \in SUBSET Requests, NEW r \in Requests \ S,
           NEW ex, NEW wk \in [Requests -> Nat], NEW at, NEW seen,
           Books(l, ex, S, wk, at, seen)
    PROVE  LET n == Len(l) IN
           Books(Charge(l, Weight[r], "admission"), ex, S \cup {r},
                 [wk EXCEPT ![r] = now + Latency], [at EXCEPT ![r] = n + 1],
                 [seen EXCEPT ![n + 1] = seen[n]])
<1> DEFINE n == Len(l)
           c == Charge(l, Weight[r], "admission")
           s == [seen EXCEPT ![n + 1] = seen[n]]
           a == [at EXCEPT ![r] = n + 1]
           w == [wk EXCEPT ![r] = now + Latency]
<1>0. Weight[r] \in Nat /\ n \in Nat
  BY ConstantsAssumption, LenProperties
<1>1. Books(c, ex, S, wk, at, s)
  BY <1>0, BooksAppend
<1>2. /\ Len(c) = n + 1
      /\ c[n + 1] = [ts |-> now, upto |-> Charged(l, n) + Weight[r], by |-> "admission"]
      /\ \A k \in 0 .. n : Charged(c, k) = Charged(l, k)
      /\ Charged(c, n + 1) = Charged(l, n) + Weight[r]
  BY <1>0, ChargeAppends, ChargeKeepsOrder
<1>3. /\ seen \in [Nat -> Nat] /\ at \in [Requests -> Nat]
      /\ \A q \in S : at[q] \in 1 .. n
  BY DEF Books, Owes
<1>z. n + 1 \in Nat /\ r \notin S
  BY <1>0
<1>4. /\ a \in [Requests -> Nat] /\ a[r] = n + 1
      /\ \A q \in S : a[q] = at[q] /\ w[q] = wk[q]
      /\ w[r] = now + Latency
  <2> HIDE DEF n
  <2>1. a \in [Requests -> Nat] /\ a[r] = n + 1
    BY <1>z, <1>3
  <2>2. ASSUME NEW q \in S PROVE a[q] = at[q] /\ w[q] = wk[q]
    BY <1>z, <1>3, <2>2
  <2>3. w[r] = now + Latency
    OBVIOUS
  <2> QED
    BY <2>1, <2>2, <2>3
<1>5. s[n + 1] = seen[n] /\ s[n] = seen[n] /\ n + 1 - 1 = n
  BY <1>0, <1>3
<1> HIDE DEF n, c, s, a, w
<1>6. Owes(c, w, s, r, n + 1)
  BY <1>0, <1>2, <1>4, <1>5 DEF Owes
<1>7. ASSUME NEW q \in S PROVE Owes(c, w, s, q, a[q])
  BY <1>1, <1>4, <1>7 DEF Books, Owes
<1>8. ASSUME NEW p \in S \cup {r}, NEW q \in S \cup {r}, p # q PROVE a[p] # a[q]
  <2>1. ASSUME NEW t \in S PROVE a[t] # n + 1 /\ a[t] = at[t]
    <3>1. a[t] \in 1 .. n
      BY <1>3, <1>4, <2>1
    <3> QED
      BY <1>0, <1>4, <2>1, <3>1
  <2>2. \A t, v \in S : t # v => at[t] # at[v]
    BY <1>1 DEF Books
  <2> QED
    BY <1>4, <1>8, <2>1, <2>2
<1>9. Books(c, ex, S \cup {r}, w, a, s)
  BY <1>1, <1>4, <1>6, <1>7, <1>8 DEF Books
<1> QED
  BY <1>9 DEF n, c, s, a, w

\* In a new minute nothing has been counted yet.
LEMMA BooksOfNewMinute ==
    ASSUME NEW l \in Seq(Entry), OrderedLedger(l), NEW m,
           NEW ex, NEW S, NEW wk, NEW at, NEW seen, Books(l, ex, S, wk, at, seen)
    PROVE  Books(l, [minute |-> m, weight |-> 0], S, wk, at, [j \in Nat |-> 0])
<1> DEFINE zero == [j \in Nat |-> 0]
           e == [minute |-> m, weight |-> 0]
<1>1. zero \in [Nat -> Nat] /\ \A j \in Nat : zero[j] = 0
  OBVIOUS
<1>2. e.minute = m /\ e.weight = 0 /\ Len(l) \in Nat
  BY LenProperties
<1> HIDE DEF zero, e
<1>3. ASSUME NEW i \in 0 .. Len(l), NEW j \in i .. Len(l) PROVE Segment(l, m, zero, i, j)
  <2>1. j \in 0 .. Len(l) /\ i \in 0 .. j
    BY <1>2
  <2>2. Charged(l, i) \in Nat /\ Charged(l, j) \in Nat /\ Charged(l, i) <= Charged(l, j)
    BY <2>1, ChargedMonotone
  <2>3. zero[i] = 0 /\ zero[j] = 0
    BY <1>1, <1>2
  <2> QED
    BY <2>2, <2>3 DEF Segment
<1>4. ASSUME NEW r \in S PROVE Owes(l, wk, zero, r, at[r])
  <2>1. Owes(l, wk, seen, r, at[r])
    BY <1>4 DEF Books
  <2>2. zero[at[r]] = 0 /\ zero[at[r] - 1] = 0
    BY <1>1, <1>2, <2>1 DEF Owes
  <2> QED
    BY <2>1, <2>2 DEF Owes
<1>5. Books(l, e, S, wk, at, zero)
  BY <1>1, <1>2, <1>3, <1>4 DEF Books
<1> QED
  BY <1>5 DEF zero, e

\* Counting the entry at its place keeps both halves below what was charged.
LEMMA Across ==
    ASSUME NEW a \in Nat, NEW b \in Nat, NEW c \in Nat, NEW w \in Nat,
           NEW p \in Nat, NEW q \in Nat, NEW u \in Nat,
           a <= b, b - a <= q - p, b <= c, c - b <= u - (q + w)
    PROVE  a <= c + w /\ (c + w) - a <= u - p
  OBVIOUS

\* A request reaches the exchange: its entry is counted.
LEMMA BooksArrive ==
    ASSUME NEW l \in Seq(Entry), OrderedLedger(l), NEW ex \in [minute : Nat, weight : Nat],
           NEW S \in SUBSET Requests, NEW wk, NEW at, NEW seen, Books(l, ex, S, wk, at, seen),
           NEW r \in S, Counts(l, ex.minute, at[r])
    PROVE  Books(l, [minute |-> ex.minute, weight |-> ex.weight + Weight[r]], S \ {r}, wk, at,
                 [j \in Nat |-> IF j < at[r] THEN seen[j] ELSE seen[j] + Weight[r]])
<1> DEFINE n == Len(l)
           k == at[r]
           m == ex.minute
           w == Weight[r]
           e == [minute |-> ex.minute, weight |-> ex.weight + Weight[r]]
           s == [j \in Nat |-> IF j < at[r] THEN seen[j] ELSE seen[j] + Weight[r]]
<1>1. /\ n \in Nat /\ w \in Nat /\ m \in Nat /\ ex.weight \in Nat
      /\ e.minute = m /\ e.weight = ex.weight + w
  BY ConstantsAssumption, LenProperties
<1>2. /\ seen \in [Nat -> Nat] /\ at \in [Requests -> Nat] /\ seen[0] = 0 /\ seen[n] = ex.weight
      /\ \A i \in 0 .. n : \A j \in i .. n : Segment(l, m, seen, i, j)
      /\ \A q \in S : Owes(l, wk, seen, q, at[q])
      /\ \A p, q \in S : p # q => at[p] # at[q]
  BY DEF Books
<1>3. /\ k \in 1 .. n /\ Charged(l, k) = Charged(l, k - 1) + w /\ seen[k] = seen[k - 1]
      /\ k \in Nat /\ k - 1 \in 0 .. n /\ k \in 0 .. n /\ k - 1 < k
  <2>1. Owes(l, wk, seen, r, k)
    BY <1>2
  <2>2. k \in 1 .. n /\ Charged(l, k) = Charged(l, k - 1) + w /\ seen[k] = seen[k - 1]
    BY <2>1 DEF Owes
  <2> HIDE DEF k
  <2> QED
    BY <1>1, <2>2
<1>4. Counts(l, m, k)
  OBVIOUS
<1>5. /\ \A j \in Nat : j < k => s[j] = seen[j]
      /\ \A j \in Nat : ~(j < k) => s[j] = seen[j] + w
      /\ s \in [Nat -> Nat]
  <2>0. seen \in [Nat -> Nat]
    BY <1>2
  <2>w. w \in Nat
    BY <1>1
  <2>1. ASSUME NEW j \in Nat PROVE seen[j] \in Nat /\ seen[j] + w \in Nat
    <3>1. seen[j] \in Nat
      BY <2>0
    <3> HIDE DEF w
    <3> QED
      BY <2>w, <3>1
  <2>2. s = [j \in Nat |-> IF j < k THEN seen[j] ELSE seen[j] + w]
    OBVIOUS
  <2> HIDE DEF s, k, w
  <2> QED
    BY <2>1, <2>2
<1>6. \A j \in 0 .. n : Charged(l, j) \in Nat /\ seen[j] \in Nat /\ j \in Nat
  <2>1. \A j \in 0 .. n : n \in 0 .. n /\ j \in 0 .. n
    BY <1>1
  <2> QED
    BY <1>1, <1>2, <2>1, ChargedMonotone
<1> HIDE DEF n, k, m, w, e, s
<1>7. ASSUME NEW i \in 0 .. n, NEW j \in i .. n PROVE Segment(l, m, s, i, j)
  <2>0. /\ i \in Nat /\ j \in Nat /\ j \in 0 .. n /\ i <= j
        /\ seen[i] \in Nat /\ seen[j] \in Nat /\ Charged(l, i) \in Nat /\ Charged(l, j) \in Nat
    <3>1. i \in Nat /\ j \in Nat /\ j \in 0 .. n /\ i <= j
      BY <1>1, <1>7
    <3> QED
      BY <1>6, <1>7, <3>1
  <2>1. Segment(l, m, seen, i, j)
    BY <1>2, <1>7
  <2>2. CASE j < k
    <3>1. i < k
      BY <1>3, <2>0, <2>2
    <3>2. s[i] = seen[i] /\ s[j] = seen[j]
      BY <1>5, <2>0, <2>2, <3>1
    <3> QED
      BY <2>1, <3>2 DEF Segment
  <2>3. CASE ~(i < k)
    <3>1. ~(j < k)
      BY <1>3, <2>0, <2>3
    <3>2. s[i] = seen[i] + w /\ s[j] = seen[j] + w
      BY <1>5, <2>0, <2>3, <3>1
    <3>3. seen[i] + w <= seen[j] + w
      BY <1>1, <2>0, <2>1 DEF Segment
    <3>4. (seen[j] + w) - (seen[i] + w) = seen[j] - seen[i]
      BY <1>1, <2>0
    <3> QED
      BY <2>1, <3>2, <3>3, <3>4 DEF Segment
  <2>4. CASE i < k /\ ~(j < k)
    <3>1. k - 1 \in i .. n /\ j \in k .. n /\ k \in i + 1 .. j
      BY <1>1, <1>3, <2>0, <2>4
    <3>2. Segment(l, m, seen, i, k - 1) /\ Segment(l, m, seen, k, j)
      BY <1>2, <1>3, <1>7, <3>1
    <3>3. s[i] = seen[i] /\ s[j] = seen[j] + w
      BY <1>5, <2>0, <2>4
    <3>4. /\ seen[k - 1] \in Nat /\ Charged(l, k - 1) \in Nat
          /\ seen[i] <= seen[k - 1]
          /\ seen[k - 1] - seen[i] <= Charged(l, k - 1) - Charged(l, i)
          /\ seen[k - 1] <= seen[j]
          /\ seen[j] - seen[k - 1] <= Charged(l, j) - (Charged(l, k - 1) + w)
      BY <1>3, <1>6, <3>2 DEF Segment
    <3>5. /\ seen[i] <= seen[j] + w
          /\ (seen[j] + w) - seen[i] <= Charged(l, j) - Charged(l, i)
      <4> DEFINE sa == seen[i]  sb == seen[k - 1]  sc == seen[j]
                 cp == Charged(l, i)  cq == Charged(l, k - 1)  cu == Charged(l, j)
      <4>1. /\ sa \in Nat /\ sb \in Nat /\ sc \in Nat
            /\ cp \in Nat /\ cq \in Nat /\ cu \in Nat /\ w \in Nat
            /\ sa <= sb /\ sb - sa <= cq - cp /\ sb <= sc /\ sc - sb <= cu - (cq + w)
        BY <1>1, <2>0, <3>4
      <4> HIDE DEF sa, sb, sc, cp, cq, cu
      <4>2. sa <= sc + w /\ (sc + w) - sa <= cu - cp
        BY <4>1, Across
      <4> QED
        BY <4>2 DEF sa, sb, sc, cp, cq, cu
    <3> QED
      BY <1>4, <3>1, <3>3, <3>5 DEF Segment
  <2> QED
    BY <2>2, <2>3, <2>4
<1>8. ASSUME NEW q \in S \ {r} PROVE Owes(l, wk, s, q, at[q])
  <2> DEFINE h == at[q]
  <2>1. Owes(l, wk, seen, q, h) /\ h # k
    BY <1>2, <1>8 DEF k
  <2>2. h \in 1 .. n
    BY <2>1 DEF Owes, n
  <2> HIDE DEF h
  <2>3. s[h] = s[h - 1]
    <3>1. seen[h] = seen[h - 1] /\ h \in Nat /\ h - 1 \in Nat
      BY <1>1, <2>1, <2>2 DEF Owes
    <3>2. (h < k /\ h - 1 < k) \/ (~(h < k) /\ ~(h - 1 < k))
      BY <1>3, <2>1, <3>1
    <3> QED
      BY <1>5, <3>1, <3>2
  <2>4. Owes(l, wk, s, q, h)
    BY <2>1, <2>3 DEF Owes
  <2> QED
    BY <2>4 DEF h
<1>9. s[0] = 0 /\ s[n] = e.weight
  <2>1. 0 < k /\ ~(n < k)
    BY <1>1, <1>3
  <2> QED
    BY <1>1, <1>2, <1>5, <2>1
<1>10. Books(l, e, S \ {r}, wk, at, s)
  BY <1>1, <1>2, <1>5, <1>7, <1>8, <1>9 DEF Books, n, m
<1> QED
  BY <1>10 DEF e, s

\* An appended entry keeps AdmittedFit if it is a correction or fits itself.
LEMMA AdmittedFitAppend ==
    ASSUME NEW l \in Seq(Entry), OrderedLedger(l), now \in Nat, AdmittedFit(l),
           NEW w \in Nat, NEW by \in {"admission", "correction"}, NEW c, c = Charge(l, w, by),
           by = "admission" =>
               \A i \in 1 .. Len(l) + 1 :
                   c[i].ts + Window > now =>
                       c[Len(l) + 1].upto - Charged(c, i - 1) <= InitialCeiling
    PROVE  AdmittedFit(c)
<1>1. /\ Len(c) = Len(l) + 1 /\ Len(l) \in Nat
      /\ \A k \in 1 .. Len(l) : c[k] = l[k]
      /\ \A k \in 0 .. Len(l) : Charged(c, k) = Charged(l, k)
      /\ c[Len(l) + 1].ts = now /\ c[Len(l) + 1].by = by
  <2>1. /\ Len(c) = Len(l) + 1
        /\ \A k \in 1 .. Len(l) : c[k] = l[k]
        /\ c[Len(l) + 1] = [ts |-> now, upto |-> Charged(l, Len(l)) + w, by |-> by]
    BY ChargeAppends
  <2>2. \A k \in 0 .. Len(l) : Charged(c, k) = Charged(l, k)
    BY ChargeKeepsOrder
  <2>3. c[Len(l) + 1].ts = now /\ c[Len(l) + 1].by = by /\ Len(l) \in Nat
    BY <2>1, LenProperties
  <2> QED
    BY <2>1, <2>2, <2>3
<1> SUFFICES ASSUME NEW n \in 1 .. Len(c), c[n].by = "admission",
                    NEW i \in 1 .. n, c[i].ts + Window > c[n].ts
             PROVE  c[n].upto - Charged(c, i - 1) <= InitialCeiling
  BY DEF AdmittedFit
<1>2. CASE n \in 1 .. Len(l)
  <2>1. i \in 1 .. Len(l) /\ i - 1 \in 0 .. Len(l)
    BY <1>1, <1>2
  <2>2. c[n] = l[n] /\ c[i] = l[i] /\ Charged(c, i - 1) = Charged(l, i - 1)
    BY <1>1, <1>2, <2>1
  <2> QED
    BY <1>2, <2>2 DEF AdmittedFit
<1>3. CASE n = Len(l) + 1
  BY <1>1, <1>3
<1> QED
  BY <1>1, <1>2, <1>3

\* A step that neither appends to the ledger nor reaches the exchange.
LEMMA QuietStep ==
    ASSUME MinuteInv, ceiling \in Nat, ceiling' \in Nat, ceiling' <= ceiling,
           UNCHANGED <<ledger, exchange>>,
           \A s \in Requests :
               pc'[s] = "sent" => pc[s] = "sent" /\ wake'[s] = wake[s] /\ now' <= wake[s]
    PROVE  MinuteInv'
<1>1. ceiling' <= InitialCeiling
  <2>1. ceiling <= InitialCeiling /\ InitialCeiling \in Nat
    BY ConstantsAssumption DEF MinuteInv
  <2> QED
    BY <2>1
<1>2. PICK at \in [Requests -> Nat], seen \in [Nat -> Nat] :
          Books(ledger, exchange, OnTheirWay, wake, at, seen)
  BY DEF MinuteInv
<1>3. OnTheirWay' \subseteq OnTheirWay /\ \A s \in OnTheirWay' : wake'[s] = wake[s]
  BY DEF OnTheirWay
<1>4. Books(ledger', exchange', OnTheirWay', wake', at, seen)
  BY <1>2, <1>3, BooksOfFewer
<1>5. AdmittedFit(ledger') /\ \A s \in Requests : pc'[s] = "sent" => now' <= wake'[s]
  BY DEF MinuteInv
<1> QED
  BY <1>1, <1>4, <1>5 DEF MinuteInv

\* acquire's pass: sleeping changes nothing, an admission fits and is not counted yet.
LEMMA PassMinute ==
    ASSUME TypeOK, LedgerInv, MinuteInv, NEW r \in Requests, Pass(r), pc[r] # "sent"
    PROVE  MinuteInv'
<1>1. /\ now \in Nat /\ ceiling \in Nat /\ now' = now /\ ceiling' = ceiling
      /\ exchange' = exchange /\ pc \in [Requests -> PC] /\ wake \in [Requests -> Nat]
      /\ ledger \in Seq(Entry) /\ OrderedLedger(ledger) /\ Len(ledger) \in Nat
      /\ ceiling <= InitialCeiling /\ InitialCeiling \in Nat
      /\ Weight[r] \in Nat /\ Latency \in Nat
  BY LenProperties, ConstantsAssumption DEF TypeOK, LedgerInv, Consistent, Pass, MinuteInv
<1>2. PICK h \in head .. Len(ledger) + 1 : ExpiresTo(h) /\ (Admit(r, h) \/ Sleep(r, h))
  BY DEF Pass
<1>3. CASE Sleep(r, h)
  <2>1. ledger' = ledger /\ ceiling' <= ceiling
    BY <1>1, <1>3 DEF Sleep
  <2>2. \A s \in Requests : pc'[s] = "sent" => s # r /\ pc[s] = "sent" /\ wake'[s] = wake[s]
    BY <1>1, <1>3 DEF Sleep
  <2>3. \A s \in Requests : pc[s] = "sent" => now' <= wake[s]
    BY <1>1 DEF MinuteInv
  <2> QED
    BY <1>1, <2>1, <2>2, <2>3, QuietStep
<1>4. CASE Admit(r, h)
  <2>1. /\ ledger' = Charge(ledger, Weight[r], "admission")
        /\ pc' = [pc EXCEPT ![r] = "sent"] /\ wake' = [wake EXCEPT ![r] = now + Latency]
    BY <1>4 DEF Admit
  <2>2. AdmittedFit(ledger')
    <3>1. Len(ledger') = Len(ledger) + 1
      BY <1>1, <2>1, ChargeAppends
    <3>2. ledger' # ledger
      BY <1>1, <3>1
    <3>3. ASSUME NEW i \in 1 .. Len(ledger) + 1, ledger'[i].ts + Window > now
          PROVE  ledger'[Len(ledger) + 1].upto - Charged(ledger', i - 1) <= InitialCeiling
      <4> DEFINE x == ledger'[Len(ledger) + 1].upto - Charged(ledger', i - 1)
      <4>1. x <= ceiling
        BY <3>2, <3>3, AdmissionStep
      <4>2. x \in Int
        <5>1. ledger' \in Seq(Entry)
          BY <1>1, <2>1, ChargeAppends
        <5>2. \A k \in 1 .. Len(ledger) + 1 : ledger'[k].upto \in Nat
          <6>1. \A k \in 1 .. Len(ledger) + 1 : ledger'[k] \in Entry
            BY <3>1, <5>1, ElementOfSeq
          <6> QED
            BY <6>1 DEF Entry
        <5>3. Charged(ledger', i - 1) \in Nat
          <6>1. i - 1 = 0 \/ i - 1 \in 1 .. Len(ledger) + 1
            BY <1>1
          <6> QED
            BY <5>2, <6>1 DEF Charged
        <5>4. ledger'[Len(ledger) + 1].upto \in Nat
          BY <1>1, <5>2
        <5> QED
          BY <5>3, <5>4
      <4> HIDE DEF x
      <4>3. x <= InitialCeiling
        BY <1>1, <4>1, <4>2
      <4> QED
        BY <4>3 DEF x
    <3>4. AdmittedFit(ledger)
      BY DEF MinuteInv
    <3> QED
      BY <1>1, <2>1, <3>3, <3>4, AdmittedFitAppend
  <2>3. PICK at \in [Requests -> Nat], seen \in [Nat -> Nat] :
            Books(ledger, exchange, OnTheirWay, wake, at, seen)
    BY DEF MinuteInv
  <2>4. OnTheirWay' = OnTheirWay \cup {r} /\ r \notin OnTheirWay /\ OnTheirWay \subseteq Requests
    BY <1>1, <2>1 DEF OnTheirWay
  <2>5. \E at2, seen2 : Books(ledger', exchange', OnTheirWay', wake', at2, seen2)
    BY <1>1, <2>1, <2>3, <2>4, BooksAdmit
  <2>6. \E at2 \in [Requests -> Nat], seen2 \in [Nat -> Nat] :
            Books(ledger', exchange', OnTheirWay', wake', at2, seen2)
    BY <2>5 DEF Books
  <2>7. ASSUME NEW s \in Requests, pc'[s] = "sent" PROVE now' <= wake'[s]
    <3>1. CASE s = r
      BY <1>1, <2>1, <3>1
    <3>2. CASE s # r
      BY <1>1, <2>1, <2>7, <3>2 DEF MinuteInv
    <3> QED
      BY <3>1, <3>2
  <2> QED
    BY <1>1, <2>2, <2>6, <2>7 DEF MinuteInv
<1> QED
  BY <1>2, <1>3, <1>4

\* A response charges corrections, which the exchange does not count.
LEMMA CorrectionKeeps ==
    ASSUME NEW l \in Seq(Entry), OrderedLedger(l), now \in Nat, NEW w \in Nat,
           AdmittedFit(l),
           \E at, seen : Books(l, exchange, OnTheirWay, wake, at, seen)
    PROVE  LET c == Charge(l, w, "correction") IN
           /\ c \in Seq(Entry) /\ OrderedLedger(c) /\ AdmittedFit(c)
           /\ \E at, seen : Books(c, exchange, OnTheirWay, wake, at, seen)
<1> DEFINE c == Charge(l, w, "correction")
<1>1. c \in Seq(Entry) /\ OrderedLedger(c)
  BY ChargeAppends, ChargeKeepsOrder
<1>2. AdmittedFit(c)
  <2> HIDE DEF c
  <2>1. c = Charge(l, w, "correction")
    BY DEF c
  <2> QED
    BY <2>1, AdmittedFitAppend
<1>3. \E at, seen : Books(c, exchange, OnTheirWay, wake, at, seen)
  BY BooksAppend
<1> QED
  BY <1>1, <1>2, <1>3

\* A header correction, a 418 and a 429 charge corrections only.
LEMMA ResponseMinute ==
    ASSUME TypeOK, LedgerInv, MinuteInv, NEW r \in Requests, Response(r)
    PROVE  MinuteInv'
<1> DEFINE Kept(l) ==
        /\ l \in Seq(Entry) /\ OrderedLedger(l) /\ AdmittedFit(l)
        /\ \E at, seen : Books(l, exchange, OnTheirWay, wake, at, seen)
<1>1. /\ now \in Nat /\ used \in Nat /\ ceiling \in Nat /\ pc \in [Requests -> PC]
      /\ wake \in [Requests -> Nat]
  BY DEF TypeOK
<1>2. Kept(ledger)
  BY DEF MinuteInv, LedgerInv, Consistent
<1>3. ASSUME NEW l, Kept(l), NEW w \in Nat PROVE Kept(Charge(l, w, "correction"))
  BY <1>1, <1>3, CorrectionKeeps
<1> HIDE DEF Kept
<1>4. PICK reported \in Reports :
          \/ Answered(r, reported)
          \/ \E retryAfter \in BanLengths : Answered418(r, reported, retryAfter)
          \/ \E retryAfter \in Backoffs : Answered429(r, reported, retryAfter)
  BY DEF Response
<1>5. reported \in Nat
  BY ReportsAreNat
<1>6. Kept(Observed(reported))
  <2>1. reported > used => reported - used \in Nat
    BY <1>1, <1>5
  <2> QED
    BY <1>2, <1>3, <2>1 DEF Observed
<1>7. Kept(ledger')
  <2>1. CASE ledger' = Observed(reported)
    BY <1>6, <2>1
  <2>2. ASSUME NEW retryAfter \in Backoffs, Answered429(r, reported, retryAfter)
        PROVE  Kept(ledger')
    <3> DEFINE u == UsedObserved(reported)
               rest == IF u < ceiling THEN ceiling - u ELSE 0
    <3>1. u \in Nat
      BY <1>1, <1>5 DEF UsedObserved
    <3>2. ledger' = Charge(Observed(reported), rest, "correction")
      BY <2>2 DEF Answered429
    <3> HIDE DEF u
    <3>3. rest \in Nat
      BY <1>1, <3>1
    <3> HIDE DEF rest
    <3> QED
      BY <1>3, <1>6, <3>2, <3>3
  <2> QED
    BY <1>4, <2>1, <2>2 DEF Answered, Answered418
<1>8. /\ now' = now /\ ceiling' = ceiling /\ exchange' = exchange
      /\ \A s \in Requests : pc'[s] = "sent" => pc[s] = "sent" /\ wake'[s] = wake[s]
  BY <1>1, <1>4 DEF Answered, Answered418, Answered429, Finish
<1>9. \E at \in [Requests -> Nat], seen \in [Nat -> Nat] :
          Books(ledger', exchange', OnTheirWay', wake', at, seen)
  <2>1. PICK at, seen : Books(ledger', exchange, OnTheirWay, wake, at, seen)
    BY <1>7 DEF Kept
  <2>2. OnTheirWay' \subseteq OnTheirWay /\ \A s \in OnTheirWay' : wake'[s] = wake[s]
    BY <1>8 DEF OnTheirWay
  <2>3. Books(ledger', exchange', OnTheirWay', wake', at, seen)
    BY <1>8, <2>1, <2>2, BooksOfFewer
  <2> QED
    BY <2>3 DEF Books
<1>10. ceiling' <= InitialCeiling /\ \A s \in Requests : pc'[s] = "sent" => now' <= wake'[s]
  BY <1>8 DEF MinuteInv
<1>11. AdmittedFit(ledger')
  BY <1>7 DEF Kept
<1> QED
  BY <1>9, <1>10, <1>11 DEF MinuteInv

\* An instant within the delay of a stamp, in the minute [lo, hi).
LEMMA InTime ==
    ASSUME NEW t \in Nat, NEW n \in Nat, NEW d \in Nat, NEW lo \in Nat, NEW hi \in Nat,
           t <= n, n <= t + d, lo <= n, n < hi
    PROVE  t < hi /\ lo <= t + d
  OBVIOUS

\* A request reaches the exchange in time for the minute its window overlaps.
LEMMA ArriveMinute ==
    ASSUME TypeOK, LedgerInv, MinuteInv, NEW r \in Requests, Arrive(r)
    PROVE  MinuteInv'
<1> DEFINE m == MinuteOf(now)
           w == Weight[r]
<1>1. /\ now \in Nat /\ ceiling \in Nat /\ Window \in Nat \ {0} /\ Latency \in Nat /\ w \in Nat
      /\ pc \in [Requests -> PC]
      /\ ledger \in Seq(Entry) /\ OrderedLedger(ledger)
      /\ exchange \in [minute : Nat, weight : Nat]
  BY ConstantsAssumption DEF TypeOK, LedgerInv, Consistent
<1>2. /\ pc[r] = "sent" /\ UNCHANGED <<now, ledger, ceiling, wake>>
      /\ pc' = [pc EXCEPT ![r] = "arrived"]
      /\ exchange' = [minute |-> m, weight |-> InMinute(w)]
  BY DEF Arrive, governor
<1>3. m \in Nat /\ m * Window <= now /\ now < (m + 1) * Window
  BY <1>1, MinuteBounds DEF MinuteOf
<1> HIDE DEF m
<1>4. PICK at \in [Requests -> Nat], seen \in [Nat -> Nat] :
          Books(ledger, exchange, OnTheirWay, wake, at, seen)
  BY DEF MinuteInv
<1>5. r \in OnTheirWay /\ OnTheirWay' = OnTheirWay \ {r} /\ OnTheirWay \subseteq Requests
  BY <1>1, <1>2 DEF OnTheirWay
<1>6. Counts(ledger, m, at[r])
  <2> DEFINE k == at[r]
  <2>1. Owes(ledger, wake, seen, r, k) /\ now <= wake[r]
    BY <1>2, <1>4, <1>5 DEF Books, MinuteInv
  <2> HIDE DEF k
  <2>2. /\ k \in 1 .. Len(ledger) /\ ledger[k].by = "admission"
        /\ now <= ledger[k].ts + Latency /\ ledger[k].ts <= now
    BY <1>1, <2>1 DEF Owes, OrderedLedger
  <2>3. ledger[k].ts \in Nat
    <3>1. ledger[k] \in Entry
      BY <1>1, <2>2, ElementOfSeq
    <3> QED
      BY <3>1 DEF Entry
  <2> DEFINE lo == m * Window
             hi == (m + 1) * Window
  <2>4. lo \in Nat /\ hi \in Nat /\ lo <= now /\ now < hi
    BY <1>1, <1>3
  <2> HIDE DEF lo, hi
  <2>5. ledger[k].ts < hi /\ lo <= ledger[k].ts + Latency
    <3> DEFINE t == ledger[k].ts
    <3>1. t \in Nat /\ t <= now /\ now <= t + Latency
      BY <2>2, <2>3
    <3> HIDE DEF t
    <3>2. t < hi /\ lo <= t + Latency
      BY <1>1, <2>4, <3>1, InTime
    <3> QED
      BY <3>2 DEF t
  <2>6. Counts(ledger, m, k)
    BY <2>2, <2>5 DEF Counts, lo, hi
  <2> QED
    BY <2>6 DEF k
<1>7. \E at2, seen2 : Books(ledger, exchange', OnTheirWay \ {r}, wake, at2, seen2)
  <2>1. CASE exchange.minute = m
    <3>1. exchange' = [minute |-> exchange.minute, weight |-> exchange.weight + w]
      BY <1>2, <2>1 DEF InMinute, m
    <3> QED
      BY <1>1, <1>4, <1>5, <1>6, <2>1, <3>1, BooksArrive
  <2>2. CASE exchange.minute # m
    <3> DEFINE e == [minute |-> m, weight |-> 0]
               zero == [j \in Nat |-> 0]
    <3>1. Books(ledger, e, OnTheirWay, wake, at, zero)
      BY <1>1, <1>4, BooksOfNewMinute
    <3>2. e \in [minute : Nat, weight : Nat] /\ e.minute = m /\ e.weight = 0
      BY <1>3
    <3>3. exchange' = [minute |-> e.minute, weight |-> e.weight + w]
      <4>1. InMinute(w) = w
        BY <2>2 DEF InMinute, m
      <4>2. e.weight + w = w
        <5>1. w \in Nat
          BY <1>1
        <5> HIDE DEF w
        <5>2. 0 + w = w
          BY <5>1
        <5> QED
          BY <3>2, <5>2
      <4> QED
        BY <1>2, <3>2, <4>1, <4>2
    <3> HIDE DEF e, zero
    <3> QED
      BY <1>1, <1>5, <1>6, <3>1, <3>2, <3>3, BooksArrive
  <2> QED
    BY <2>1, <2>2
<1>8. \E at2 \in [Requests -> Nat], seen2 \in [Nat -> Nat] :
          Books(ledger', exchange', OnTheirWay', wake', at2, seen2)
  BY <1>2, <1>5, <1>7 DEF Books
<1>9. \A s \in Requests : pc'[s] = "sent" => now' <= wake'[s]
  BY <1>1, <1>2 DEF MinuteInv
<1> QED
  BY <1>2, <1>8, <1>9 DEF MinuteInv

\* Every step of the governor and of the exchange keeps the books.
LEMMA MinuteStep ==
    ASSUME TypeOK, TypeOK', LedgerInv, MinuteInv, [Next]_vars
    PROVE  MinuteInv'
<1>1. /\ now \in Nat /\ ceiling \in Nat /\ ceiling' \in Nat /\ pc \in [Requests -> PC]
      /\ wake \in [Requests -> Nat] /\ Latency \in Nat
      /\ \A s \in Requests : pc[s] = "sent" => now <= wake[s]
  BY ConstantsAssumption DEF TypeOK, MinuteInv
<1>2. ASSUME NEW r \in Requests,
             Call(r) \/ RefuseBanned(r) \/ BackoffEnds(r) \/ Fail(r) \/ Cancel(r)
      PROVE  MinuteInv'
  <2>1. UNCHANGED <<now, ledger, ceiling, exchange>>
    BY <1>2 DEF Call, RefuseBanned, BackoffEnds, Fail, Cancel, governor
  <2>2. \A s \in Requests : pc'[s] = "sent" => pc[s] = "sent" /\ wake'[s] = wake[s]
    BY <1>1, <1>2 DEF Call, RefuseBanned, BackoffEnds, Fail, Cancel, Finish
  <2> QED
    BY <1>1, <2>1, <2>2, QuietStep
<1>3. ASSUME NEW r \in Requests, TakeLock(r) \/ Recheck(r) PROVE MinuteInv'
  <2>1. Pass(r) /\ pc[r] # "sent"
    BY <1>3 DEF TakeLock, Recheck
  <2> QED
    BY <2>1, PassMinute
<1>4. ASSUME NEW r \in Requests, Arrive(r) \/ Response(r) PROVE MinuteInv'
  BY <1>4, ArriveMinute, ResponseMinute
<1>5. ASSUME NEW c \in Tightened, Tighten(c) PROVE MinuteInv'
  <2>1. ceiling' <= ceiling /\ UNCHANGED <<now, ledger, pc, wake, exchange>>
    BY <1>1, <1>5 DEF Tighten
  <2> QED
    BY <1>1, <2>1, QuietStep
<1>6. CASE Tick
  <2>1. now' = now + 1 /\ UNCHANGED <<ledger, ceiling, pc, wake, exchange>>
    BY <1>6 DEF Tick, governor
  <2>2. ASSUME NEW s \in Requests, pc[s] = "sent" PROVE now' <= wake[s]
    <3>1. now < wake[s]
      BY <1>6, <2>2 DEF Tick, Delivered, UnderWay
    <3> QED
      BY <1>1, <2>1, <3>1
  <2> QED
    BY <1>1, <2>1, <2>2, QuietStep
<1>7. CASE UNCHANGED vars
  <2>1. UNCHANGED <<now, ledger, ceiling, pc, wake, exchange>>
    BY <1>7 DEF vars, governor
  <2> QED
    BY <1>1, <2>1, QuietStep
<1> QED
  BY <1>2, <1>3, <1>4, <1>5, <1>6, <1>7 DEF Next, Step

\* An empty ledger, an empty minute.
LEMMA MinuteInit == Init => MinuteInv
<1> SUFFICES ASSUME Init PROVE MinuteInv
  OBVIOUS
<1>1. InitialCeiling \in Nat /\ ceiling = InitialCeiling
  BY ConstantsAssumption DEF Init
<1>2. ledger = <<>> /\ Len(ledger) = 0 /\ exchange = [minute |-> 0, weight |-> 0]
  BY EmptySeq DEF Init
<1>3. AdmittedFit(ledger)
  BY <1>2 DEF AdmittedFit
<1>4. OnTheirWay = {}
  BY DEF OnTheirWay, Init
<1> DEFINE at == [s \in Requests |-> 0]
           seen == [j \in Nat |-> 0]
<1>5. at \in [Requests -> Nat] /\ seen \in [Nat -> Nat] /\ seen[0] = 0
  OBVIOUS
<1> HIDE DEF at, seen
<1>6. \A i \in 0 .. 0 : \A j \in i .. 0 : Segment(ledger, 0, seen, i, j)
  BY <1>5 DEF Segment, Charged
<1>7. Books(ledger, exchange, OnTheirWay, wake, at, seen)
  BY <1>2, <1>4, <1>5, <1>6 DEF Books
<1>8. \A r \in Requests : pc[r] # "sent"
  BY DEF Init
<1> HIDE DEF InitialCeiling
<1> QED
  BY <1>1, <1>3, <1>5, <1>7, <1>8 DEF MinuteInv

\* The exchange never counts more than its limit in a minute of its own, provided
\* at most half of the limit is used (safety_fraction, 0.5 by default) and a request
\* arrives within a window of its admission (the client's timeout).
THEOREM ExchangeLimitHolds ==
    ASSUME HalfKeptBack
    PROVE  Spec => []WithinExchangeLimit
<1>1. Init => MinuteInv
  BY MinuteInit
<1>2. IInv /\ IInv' /\ MinuteInv /\ [Next]_vars => MinuteInv'
  BY MinuteStep DEF IInv
<1>3. IInv /\ MinuteInv => WithinExchangeLimit
  <2> SUFFICES ASSUME IInv, MinuteInv PROVE WithinExchangeLimit
    OBVIOUS
  <2>1. PICK at \in [Requests -> Nat], seen \in [Nat -> Nat] :
            Books(ledger, exchange, OnTheirWay, wake, at, seen)
    BY DEF MinuteInv
  <2>2. ledger \in Seq(Entry) /\ AdmittedFit(ledger) /\ exchange.minute \in Nat
    BY DEF IInv, TypeOK, MinuteInv
  <2>3. seen[Len(ledger)] <= MaxWeight
    BY <2>1, <2>2, MinuteFits DEF Books
  <2> QED
    BY <2>1, <2>3 DEF Books, WithinExchangeLimit
<1> QED
  BY <1>1, <1>2, <1>3, Invariance, PTL DEF Spec

=============================================================================
