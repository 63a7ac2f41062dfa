-------------------------- MODULE RecordingProofs ---------------------------
(***************************************************************************)
(* Proofs about what a recording run rests on.  The caches implement       *)
(* BoundedStaleness, for any number of concurrent calls and any times of   *)
(* refresh and grace: PoolStateCache for prices and ticks along any path   *)
(* of the price (an entry of it is one full read with a later price it     *)
(* covers), GasPricing for the native price, PoolSelector for the fee      *)
(* tier.  Recorder accounts for every observation, for any targets and any *)
(* number of failing writes; and what AuditTrail keeps and reads is what   *)
(* was decided, for any pairs, nets and clock, and through any number of   *)
(* runs.  With the quotes of ChainProofs, all that MCRecording runs.       *)
(***************************************************************************)
EXTENDS ChainProofs, MCRecording, FunctionTheorems

-----------------------------------------------------------------------------
(* PoolStateCache *)

\* What is true of the entry, and of whatever a call looked up, at instant n when
\* the prices so far are at.
SoundIn(e, n, at) ==
    /\ 0 <= e.ticksOf /\ e.ticksOf <= e.readAt /\ e.readAt <= n
    /\ e.ticksOf <= e.priceOf /\ e.priceOf <= n
    /\ e.readAt - e.ticksOf <= ReadBy
    /\ e.lower = at[e.ticksOf + 1] - Span
    /\ e.upper = at[e.ticksOf + 1] + Span
    /\ e.lower < at[e.priceOf + 1] /\ at[e.priceOf + 1] < e.upper

Sound(e) == SoundIn(e, now, tickAt)

\* A call waits no longer than a read can take, and what it holds was young
\* enough when it looked it up.
CallSound(r) ==
    /\ call[r].step # "idle" => call[r].since <= now /\ now - call[r].since <= ReadBy
    /\ call[r].step = "slot0" =>
          /\ Sound(call[r].held)
          /\ call[r].held.readAt <= call[r].since
          /\ call[r].since - call[r].held.readAt < Reread

CacheInv ==
    /\ PoolTypeOK
    /\ entry # Absent => Sound(entry)
    /\ \A r \in Readers : CallSound(r)

\* The price of a block that has been stays what it was.
LEMMA PastStands ==
    ASSUME PoolTypeOK, NEW t \in Ticks, tickAt' = Append(tickAt, t), now' = now + 1
    PROVE  /\ tickAt' \in Seq(Ticks) /\ Len(tickAt') = now' + 1
           /\ \A b \in 0 .. now : tickAt'[b + 1] = tickAt[b + 1]
  BY DEF PoolTypeOK

\* The price of every block so far is an integer.
LEMMA PricesAreIntegers ==
    ASSUME PoolTypeOK, NEW b \in 0 .. now
    PROVE  tickAt[b + 1] \in Int
<1>1. b + 1 \in 1 .. Len(tickAt)
  BY DEF PoolTypeOK
<1>2. tickAt[b + 1] \in Ticks
  BY <1>1 DEF PoolTypeOK
<1> QED
  BY <1>2, PoolAssumption

\* Nothing that was sound ceases to be when a block is added.
LEMMA SoundLater ==
    ASSUME PoolTypeOK, NEW t \in Ticks, tickAt' = Append(tickAt, t), now' = now + 1,
           NEW e \in Entries, Sound(e)
    PROVE  SoundIn(e, now', tickAt')
<1>1. e.ticksOf \in 0 .. now /\ e.priceOf \in 0 .. now
  <2>1. now \in Int /\ e.ticksOf \in Int /\ e.priceOf \in Int /\ e.readAt \in Int
    BY DEF PoolTypeOK, Entries
  <2>2. /\ 0 <= e.ticksOf /\ e.ticksOf <= e.readAt /\ e.readAt <= now
        /\ e.ticksOf <= e.priceOf /\ e.priceOf <= now
    BY DEF Sound, SoundIn
  <2> QED
    BY <2>1, <2>2
<1>2. /\ tickAt'[e.ticksOf + 1] = tickAt[e.ticksOf + 1]
      /\ tickAt'[e.priceOf + 1] = tickAt[e.priceOf + 1]
  BY <1>1, PastStands
<1>3. e.priceOf <= now' /\ e.readAt <= now'
  <2>1. now \in Int /\ e.priceOf \in Int /\ e.readAt \in Int /\ now' = now + 1
    BY DEF PoolTypeOK, Entries
  <2>2. e.priceOf <= now /\ e.readAt <= now
    BY DEF Sound, SoundIn
  <2> QED
    BY ONLY <2>1, <2>2
<1>4. SoundIn(e, now, tickAt)
  BY DEF Sound
<1> QED
  BY ONLY <1>2, <1>3, <1>4 DEF SoundIn

\* What a full read brings is sound if its block is one of those it can pin.
LEMMA FullReadSound ==
    ASSUME PoolTypeOK, NEW b \in 0 .. now, now - b <= ReadBy
    PROVE  FullRead(b) \in Entries /\ Sound(FullRead(b)) /\ FullRead(b) # Absent
<1>1. tickAt[b + 1] \in Int
  BY PricesAreIntegers
<1> QED
  BY <1>1, PoolAssumption DEF PoolTypeOK, FullRead, Sound, SoundIn, Entries, Absent

\* So is what a new price makes of a sound entry that covers it.
LEMMA PricedSound ==
    ASSUME PoolTypeOK, NEW r \in Readers, CallSound(r), call[r].step = "slot0",
           NEW b \in Pinned(r), Inside(call[r].held, b)
    PROVE  /\ Priced(r, b) \in Entries /\ Sound(Priced(r, b)) /\ Priced(r, b) # Absent
           /\ Priced(r, b).priceOf = b /\ Priced(r, b).ticksOf = call[r].held.ticksOf
           /\ 0 <= b /\ b <= now /\ now - b <= ReadBy
           /\ 0 <= call[r].held.ticksOf
           /\ now - call[r].held.ticksOf <= Reread - 1 + 2 * ReadBy
<1> DEFINE h == call[r].held
<1>1. h \in Entries /\ call[r].since \in Nat /\ now \in Nat
  BY DEF PoolTypeOK
<1>2. b \in Nat /\ call[r].since <= b /\ b <= now
  BY <1>1 DEF Pinned
<1>3. Sound(h) /\ h.readAt <= call[r].since /\ call[r].since - h.readAt < Reread
      /\ now - call[r].since <= ReadBy
  BY DEF CallSound
<1>4. /\ Priced(r, b) = [h EXCEPT !.priceOf = b]
      /\ Priced(r, b) \in Entries
      /\ Priced(r, b).priceOf = b /\ Priced(r, b).ticksOf = h.ticksOf
      /\ Priced(r, b).readAt = h.readAt
      /\ Priced(r, b).lower = h.lower /\ Priced(r, b).upper = h.upper
  BY <1>1, <1>2 DEF Priced, Entries
<1>5. Inside(h, b)
  OBVIOUS
<1> HIDE DEF h
<1>6. Sound(Priced(r, b))
  BY <1>1, <1>2, <1>3, <1>4, <1>5 DEF Sound, SoundIn, Inside, Entries
<1>7. Priced(r, b) # Absent
  BY <1>2, <1>4 DEF Absent
<1>8. 0 <= h.ticksOf /\ now - h.ticksOf <= Reread - 1 + 2 * ReadBy
  BY <1>1, <1>2, <1>3, PoolAssumption DEF Sound, SoundIn, Entries
<1>9. 0 <= b /\ b <= now /\ now - b <= ReadBy
  BY <1>1, <1>2, <1>3, PoolAssumption
<1> QED
  BY <1>4, <1>6, <1>7, <1>8, <1>9 DEF h

\* An empty cache and idle readers satisfy the invariant.
LEMMA CacheStarts == PoolInit => CacheInv
<1> SUFFICES ASSUME PoolInit PROVE CacheInv
  OBVIOUS
<1>1. Absent \in Entries
  BY DEF Absent, Entries
<1>2. tickAt \in Seq(Ticks) /\ Len(tickAt) = now + 1
  <2>1. PICK t \in Ticks : tickAt = <<t>>
    BY DEF PoolInit
  <2> QED
    BY <2>1 DEF PoolInit
<1>3. PoolTypeOK
  BY <1>1, <1>2 DEF PoolInit, PoolTypeOK, Idle
<1> QED
  BY <1>3 DEF PoolInit, CacheInv, CallSound, Idle

\* A call that looks at the entry, or a call that is over, disturbs no other.
LEMMA CallReplaced ==
    ASSUME CacheInv, NEW r \in Readers,
           NEW c \in [step : {"idle", "slot0", "full"}, since : Nat, held : Entries],
           call' = [call EXCEPT ![r] = c], now' = now, tickAt' = tickAt,
           c.step # "idle" => c.since <= now /\ now - c.since <= ReadBy,
           c.step = "slot0" => Sound(c.held) /\ c.held.readAt <= c.since
                               /\ c.since - c.held.readAt < Reread
    PROVE  /\ call' \in [Readers -> [step : {"idle", "slot0", "full"}, since : Nat, held : Entries]]
           /\ \A q \in Readers : CallSound(q)'
<1>1. call' \in [Readers -> [step : {"idle", "slot0", "full"}, since : Nat, held : Entries]]
  BY DEF CacheInv, PoolTypeOK
<1>2. call'[r] = c
  BY DEF CacheInv, PoolTypeOK
<1>3. ASSUME NEW q \in Readers, q # r PROVE call'[q] = call[q]
  BY <1>3 DEF CacheInv, PoolTypeOK
<1>4. CallSound(r)'
  BY <1>2 DEF CallSound, Sound
<1>5. ASSUME NEW q \in Readers, q # r PROVE CallSound(q)'
  <2>1. CallSound(q)
    BY DEF CacheInv
  <2> QED
    BY <1>3, <1>5, <2>1 DEF CallSound, Sound
<1> QED
  BY <1>1, <1>4, <1>5

\* Every step of a reader and every block keeps the invariant.
LEMMA CacheStep == CacheInv /\ [PoolNext]_<<now, poolVars>> => CacheInv'
<1> SUFFICES ASSUME CacheInv, [PoolNext]_<<now, poolVars>> PROVE CacheInv'
  OBVIOUS
<1> USE DEF CacheInv
<1>0. Absent \in Entries /\ Idle \in [step : {"idle", "slot0", "full"}, since : Nat, held : Entries]
      /\ Idle.step = "idle"
  BY DEF Absent, Entries, Idle
<1>1. ASSUME NEW r \in Readers, Refresh(r) PROVE CacheInv'
  <2> DEFINE c == [step |-> IF NeedsFullRead THEN "full" ELSE "slot0",
                   since |-> now, held |-> entry]
  <2>1. now \in Nat /\ entry \in Entries
    BY DEF PoolTypeOK
  <2>2. c \in [step : {"idle", "slot0", "full"}, since : Nat, held : Entries]
    BY <2>1
  <2>3. now - now <= ReadBy
    BY <2>1, PoolAssumption
  <2>4. c.step = "slot0" => Sound(c.held) /\ c.held.readAt <= c.since
                            /\ c.since - c.held.readAt < Reread
    BY <2>1, PoolAssumption DEF NeedsFullRead, Sound, SoundIn, Entries
  <2>5. call' = [call EXCEPT ![r] = c] /\ UNCHANGED <<now, tickAt, entry, told>>
    BY <1>1 DEF Refresh
  <2>6. c.since = now
    OBVIOUS
  <2>10. c.step # "idle" => c.since <= now /\ now - c.since <= ReadBy
    BY <2>1, <2>3, <2>6
  <2>11. now' = now /\ tickAt' = tickAt /\ call' = [call EXCEPT ![r] = c]
    BY <2>5
  <2> HIDE DEF c
  <2> HIDE DEF CacheInv
  <2>7. /\ call' \in [Readers -> [step : {"idle", "slot0", "full"}, since : Nat, held : Entries]]
        /\ \A q \in Readers : CallSound(q)'
    BY <2>2, <2>4, <2>10, <2>11, CallReplaced
  <2> USE DEF CacheInv
  <2>8. PoolTypeOK'
    BY <2>5, <2>7 DEF PoolTypeOK
  <2>9. entry' # Absent => Sound(entry)'
    BY <2>5 DEF Sound
  <2> QED
    BY <2>7, <2>8, <2>9
<1>2. ASSUME NEW r \in Readers, NEW e \in Entries, Return(r, e), UNCHANGED <<now, tickAt>>,
             entry' \in Entries, entry' # Absent => Sound(entry')
      PROVE  CacheInv'
  <2>1. call' = [call EXCEPT ![r] = Idle]
    BY <1>2 DEF Return
  <2>2. /\ call' \in [Readers -> [step : {"idle", "slot0", "full"}, since : Nat, held : Entries]]
        /\ \A q \in Readers : CallSound(q)'
    BY <1>0, <1>2, <2>1, CallReplaced
  <2>3. told' \in [Readers -> [price : Int, ticks : Int]]
    BY <1>2 DEF Return, PoolTypeOK, Entries
  <2>4. PoolTypeOK'
    BY <1>2, <2>2, <2>3 DEF PoolTypeOK
  <2>5. entry' # Absent => Sound(entry)'
    BY <1>2 DEF Sound
  <2> QED
    BY <2>2, <2>4, <2>5
<1>3. ASSUME NEW r \in Readers, Slot0Returns(r) PROVE CacheInv'
  <2>1. PICK b \in Pinned(r) :
          IF Inside(call[r].held, b)
          THEN entry' = Priced(r, b) /\ Return(r, entry')
          ELSE /\ call' = [call EXCEPT ![r] = [@ EXCEPT !.step = "full", !.since = now]]
               /\ UNCHANGED <<entry, told>>
    BY <1>3 DEF Slot0Returns
  <2>2. UNCHANGED <<now, tickAt>> /\ call[r].step = "slot0" /\ CallSound(r)
    BY <1>3 DEF Slot0Returns
  <2>3. CASE Inside(call[r].held, b)
    BY <1>2, <2>1, <2>2, <2>3, PricedSound
  <2>4. CASE ~Inside(call[r].held, b)
    <3> DEFINE c == [call[r] EXCEPT !.step = "full", !.since = now]
    <3>1. c \in [step : {"idle", "slot0", "full"}, since : Nat, held : Entries]
          /\ c.step = "full" /\ c.since = now /\ now \in Nat
      BY DEF PoolTypeOK
    <3>2. now - now <= ReadBy
      BY <3>1, PoolAssumption
    <3>3. call' = [call EXCEPT ![r] = c] /\ UNCHANGED <<entry, told>>
      BY <2>1, <2>4 DEF PoolTypeOK
    <3>10. c.step # "idle" => c.since <= now /\ now - c.since <= ReadBy
      BY <3>1, <3>2
    <3>11. now' = now /\ tickAt' = tickAt /\ call' = [call EXCEPT ![r] = c] /\ c.step # "slot0"
      BY <2>2, <3>1, <3>3
    <3> HIDE DEF c
    <3> HIDE DEF CacheInv
    <3>4. /\ call' \in [Readers -> [step : {"idle", "slot0", "full"}, since : Nat, held : Entries]]
          /\ \A q \in Readers : CallSound(q)'
      BY <3>1, <3>10, <3>11, CallReplaced
    <3> USE DEF CacheInv
    <3>5. PoolTypeOK'
      BY <2>2, <3>3, <3>4 DEF PoolTypeOK
    <3>6. entry' # Absent => Sound(entry)'
      BY <2>2, <3>3 DEF Sound
    <3> QED
      BY <3>4, <3>5, <3>6
  <2> QED
    BY <2>3, <2>4
<1>4. ASSUME NEW r \in Readers, FullReturns(r) PROVE CacheInv'
  <2>1. PICK b \in Pinned(r) : entry' = FullRead(b) /\ Return(r, entry')
    BY <1>4 DEF FullReturns
  <2>2. UNCHANGED <<now, tickAt>> /\ call[r].step = "full" /\ CallSound(r)
    BY <1>4 DEF FullReturns
  <2>3. b \in 0 .. now /\ now - b <= ReadBy
    BY <2>2, PoolAssumption DEF Pinned, CallSound, PoolTypeOK
  <2> QED
    BY <1>2, <2>1, <2>2, <2>3, FullReadSound
<1>5. ASSUME NEW r \in Readers, ReadRaises(r) PROVE CacheInv'
  <2>1. UNCHANGED <<now, tickAt, entry>> /\ Return(r, Absent)
    BY <1>5 DEF ReadRaises
  <2>2. entry' \in Entries /\ (entry' # Absent => Sound(entry'))
    BY <2>1 DEF PoolTypeOK
  <2> QED
    BY <1>0, <1>2, <2>1, <2>2
<1>6. CASE Block
  <2>1. PICK t \in Ticks : tickAt' = Append(tickAt, t)
    BY <1>6 DEF Block
  <2>2. now' = now + 1 /\ UNCHANGED <<entry, call, told>> /\ now \in Nat
    BY <1>6 DEF Block, PoolTypeOK
  <2>3. PoolTypeOK'
    BY <2>1, <2>2, PastStands DEF PoolTypeOK
  <2>4. entry' # Absent => Sound(entry)'
    BY <2>1, <2>2, SoundLater DEF PoolTypeOK, Sound
  <2>5. ASSUME NEW r \in Readers PROVE CallSound(r)'
    <3>1. call[r] \in [step : {"idle", "slot0", "full"}, since : Nat, held : Entries]
      BY DEF PoolTypeOK
    <3>2. call[r].step # "idle" => call[r].since <= now' /\ now' - call[r].since <= ReadBy
      BY <1>6, <2>2, <3>1, PoolAssumption DEF Block, CallSound
    <3>3. call[r].step = "slot0" => SoundIn(call[r].held, now', tickAt')
      BY <2>1, <2>2, <3>1, SoundLater DEF CallSound, Sound
    <3>4. CallSound(r)
      OBVIOUS
    <3> QED
      BY <2>2, <3>2, <3>3, <3>4 DEF CallSound, Sound
  <2> QED
    BY <2>3, <2>4, <2>5
<1>7. CASE UNCHANGED <<now, poolVars>>
  BY <1>7 DEF poolVars, PoolTypeOK, Sound, CallSound
<1> QED
  BY <1>1, <1>3, <1>4, <1>5, <1>6, <1>7 DEF PoolNext

\* The invariant of the pool cache holds throughout.
LEMMA CacheInvariant == PoolSpec => []CacheInv
  BY CacheStarts, CacheStep, PTL DEF PoolSpec

\* The cache's state keeps its types (_Entry and the snapshots of
\* PoolStateCache.refresh).
THEOREM CacheTypeCorrect == PoolSpec => []PoolTypeOK
  BY CacheInvariant, PTL DEF CacheInv

\* However calls of refresh overlap, an entry is one full read with a price its
\* window covers.
THEOREM EntriesAreOneRead == PoolSpec => []EntryOfOneRead
<1>1. CacheInv => EntryOfOneRead
  BY DEF CacheInv, EntryOfOneRead, Sound, SoundIn, Inside
<1> QED
  BY <1>1, CacheInvariant, PTL

\* What one step tells is an answer of the specification with the greater age.
LEMMA ToldByStep ==
    ASSUME CacheInv, [PoolNext]_<<now, poolVars>>
    PROVE  \/ UNCHANGED <<now, told>>
           \/ now' = now + 1 /\ UNCHANGED told
           \/ \E r \in Readers, p, t \in Int :
                 /\ told' = [told EXCEPT ![r] = [price |-> p, ticks |-> t]]
                 /\ UNCHANGED now
                 /\ p = -1 \/ (p \in 0 .. now /\ now - p <= ReadBy)
                 /\ t = -1 \/ (t \in 0 .. now /\ now - t <= Reread - 1 + 2 * ReadBy)
<1> USE DEF CacheInv
<1>1. ASSUME NEW r \in Readers, Slot0Returns(r), UNCHANGED told PROVE UNCHANGED <<now, told>>
  BY <1>1 DEF Slot0Returns
<1>2. ASSUME NEW r \in Readers, Slot0Returns(r), told' # told
      PROVE \E p, t \in Int :
                 /\ told' = [told EXCEPT ![r] = [price |-> p, ticks |-> t]]
                 /\ UNCHANGED now
                 /\ p \in 0 .. now /\ now - p <= ReadBy
                 /\ t \in 0 .. now /\ now - t <= Reread - 1 + 2 * ReadBy
  <2>1. PICK b \in Pinned(r) :
          /\ Inside(call[r].held, b) /\ entry' = Priced(r, b)
          /\ told' = [told EXCEPT ![r] = [price |-> Priced(r, b).priceOf,
                                          ticks |-> Priced(r, b).ticksOf]]
    BY <1>2 DEF Slot0Returns, Return
  <2>2. call[r].step = "slot0" /\ CallSound(r) /\ UNCHANGED now
    BY <1>2 DEF Slot0Returns
  <2>3. b \in Int /\ call[r].held.ticksOf \in Int
    BY DEF PoolTypeOK, Entries, Pinned
  <2>4. /\ Priced(r, b).priceOf = b /\ Priced(r, b).ticksOf = call[r].held.ticksOf
        /\ b \in 0 .. now /\ now - b <= ReadBy
        /\ now - call[r].held.ticksOf <= Reread - 1 + 2 * ReadBy
        /\ 0 <= call[r].held.ticksOf
    BY <2>1, <2>2, <2>3, PricedSound DEF PoolTypeOK
  <2>5. call[r].held.ticksOf \in 0 .. now
    <3>1. call[r].held.readAt \in Int /\ now \in Int
      BY DEF PoolTypeOK, Entries
    <3>2. call[r].held.ticksOf <= call[r].held.readAt /\ call[r].held.readAt <= now
      BY <2>2 DEF CallSound, Sound, SoundIn
    <3> QED
      BY ONLY <2>3, <2>4, <3>1, <3>2
  <2> QED
    BY <2>1, <2>2, <2>3, <2>4, <2>5
<1>3. ASSUME NEW r \in Readers, FullReturns(r)
      PROVE \E b \in 0 .. now :
                 /\ told' = [told EXCEPT ![r] = [price |-> b, ticks |-> b]]
                 /\ UNCHANGED now /\ now - b <= ReadBy
                 /\ now - b <= Reread - 1 + 2 * ReadBy
  <2>1. PICK b \in Pinned(r) : told' = [told EXCEPT ![r] = [price |-> b, ticks |-> b]]
    <3>1. PICK b \in Pinned(r) :
            /\ entry' = FullRead(b)
            /\ told' = [told EXCEPT ![r] = [price |-> entry'.priceOf, ticks |-> entry'.ticksOf]]
      BY <1>3 DEF FullReturns, Return
    <3>2. FullRead(b).priceOf = b /\ FullRead(b).ticksOf = b
      BY DEF FullRead
    <3> QED
      BY <3>1, <3>2
  <2>2. call[r].step = "full" /\ CallSound(r) /\ UNCHANGED now
    BY <1>3 DEF FullReturns
  <2>3. b \in 0 .. now /\ now - b <= ReadBy
    <3>1. now \in Nat /\ call[r].since \in Nat
      BY DEF PoolTypeOK
    <3>2. call[r].since <= now /\ now - call[r].since <= ReadBy
      BY <2>2 DEF CallSound
    <3> QED
      BY <3>1, <3>2, PoolAssumption DEF Pinned
  <2>4. now - b <= Reread - 1 + 2 * ReadBy
    BY <2>3, PoolAssumption DEF PoolTypeOK
  <2> QED
    BY <2>1, <2>2, <2>3, <2>4
<1>4. ASSUME NEW r \in Readers, ReadRaises(r)
      PROVE told' = [told EXCEPT ![r] = [price |-> -1, ticks |-> -1]] /\ UNCHANGED now
  BY <1>4 DEF ReadRaises, Return, Absent
<1>5. ASSUME NEW r \in Readers, Refresh(r) PROVE UNCHANGED <<now, told>>
  BY <1>5 DEF Refresh
<1>6. CASE Block
  BY <1>6 DEF Block
<1>7. CASE UNCHANGED <<now, poolVars>>
  BY <1>7 DEF poolVars
<1>8. CASE \E r \in Readers : Refresh(r) \/ Slot0Returns(r) \/ FullReturns(r) \/ ReadRaises(r)
  BY <1>1, <1>2, <1>3, <1>4, <1>5, <1>8
<1> QED
  BY <1>6, <1>7, <1>8 DEF PoolNext

\* The cache implements BoundedStaleness for the price: what refresh returns was
\* read after the call began, for however many calls at once.
THEOREM PriceIsFresh == PoolSpec => PriceFresh
<1>1. PoolInit => PoolPrice!Init
  BY DEF PoolInit, PoolPrice!Init
<1>2. CacheInv /\ [PoolNext]_<<now, poolVars>>
        => [PoolPrice!Next]_<<now, [r \in Readers |-> told[r].price]>>
  <2> SUFFICES ASSUME CacheInv, [PoolNext]_<<now, poolVars>>
               PROVE [PoolPrice!Next]_<<now, [r \in Readers |-> told[r].price]>>
    OBVIOUS
  <2>1. told \in [Readers -> [price : Int, ticks : Int]] /\ now \in Nat
    BY DEF CacheInv, PoolTypeOK
  <2>2. CASE UNCHANGED <<now, told>>
    BY <2>2
  <2>3. CASE now' = now + 1 /\ UNCHANGED told
    BY <2>3 DEF PoolPrice!Next, PoolPrice!Advance
  <2>4. ASSUME NEW r \in Readers, NEW p \in Int, NEW t \in Int,
               told' = [told EXCEPT ![r] = [price |-> p, ticks |-> t]], UNCHANGED now,
               p = -1 \/ (p \in 0 .. now /\ now - p <= ReadBy)
        PROVE PoolPrice!Next
    <3>1. [q \in Readers |-> told[q].price]' = [[q \in Readers |-> told[q].price] EXCEPT ![r] = p]
      BY <2>1, <2>4
    <3>2. p \in PoolPrice!Recent \cup {-1}
      BY <2>4 DEF PoolPrice!Recent
    <3> QED
      BY <2>4, <3>1, <3>2 DEF PoolPrice!Next, PoolPrice!Answer
  <2> QED
    BY <2>2, <2>3, <2>4, ToldByStep
<1> QED
  BY <1>1, <1>2, CacheInvariant, PTL DEF PoolSpec, PriceFresh, PoolPrice!Spec

\* And for the ticks, whose age is that of the last full read when it is served,
\* and of the two reads around it.
THEOREM TicksAreFresh == PoolSpec => TicksFresh
<1>1. PoolInit => PoolTicks!Init
  BY DEF PoolInit, PoolTicks!Init
<1>2. CacheInv /\ [PoolNext]_<<now, poolVars>>
        => [PoolTicks!Next]_<<now, [r \in Readers |-> told[r].ticks]>>
  <2> SUFFICES ASSUME CacheInv, [PoolNext]_<<now, poolVars>>
               PROVE [PoolTicks!Next]_<<now, [r \in Readers |-> told[r].ticks]>>
    OBVIOUS
  <2>1. told \in [Readers -> [price : Int, ticks : Int]] /\ now \in Nat
    BY DEF CacheInv, PoolTypeOK
  <2>2. CASE UNCHANGED <<now, told>>
    BY <2>2
  <2>3. CASE now' = now + 1 /\ UNCHANGED told
    BY <2>3 DEF PoolTicks!Next, PoolTicks!Advance
  <2>4. ASSUME NEW r \in Readers, NEW p \in Int, NEW t \in Int,
               told' = [told EXCEPT ![r] = [price |-> p, ticks |-> t]], UNCHANGED now,
               t = -1 \/ (t \in 0 .. now /\ now - t <= Reread - 1 + 2 * ReadBy)
        PROVE PoolTicks!Next
    <3>1. [q \in Readers |-> told[q].ticks]' = [[q \in Readers |-> told[q].ticks] EXCEPT ![r] = t]
      BY <2>1, <2>4
    <3>2. t \in PoolTicks!Recent \cup {-1}
      BY <2>4 DEF PoolTicks!Recent
    <3> QED
      BY <2>4, <3>1, <3>2 DEF PoolTicks!Next, PoolTicks!Answer
  <2> QED
    BY <2>2, <2>3, <2>4, ToldByStep
<1> QED
  BY <1>1, <1>2, CacheInvariant, PTL DEF PoolSpec, TicksFresh, PoolTicks!Spec

-----------------------------------------------------------------------------
(* GasPricing *)

\* An entry of the oracle was true when it was stamped or later.
NativeSound(k) == k = Unpriced \/ (0 <= k.at /\ k.at <= k.of /\ k.of <= time)

\* An entry of GasReader is as old as the oracle's answers can be at its stamp.
GasSound ==
    \/ gas.of = -1
    \/ /\ 0 <= gas.of /\ gas.of <= time /\ gas.at <= time
       /\ gas.at - gas.of <= OracleAge

AskSound(a) ==
    /\ ask[a].began <= time
    /\ ask[a].step = "fetch" =>
          /\ ask[a].since <= time /\ time - ask[a].since <= FetchBy
          /\ NativeSound(ask[a].held)

GasInv ==
    /\ GasTypeOK
    /\ NativeSound(native)
    /\ GasSound
    /\ \A a \in Askers : AskSound(a)

\* The records a call can be at.
Asks == [step : {"rest", "gas", "fetch"}, began : Nat, since : Nat, held : Kept]

\* An answer of the oracle that is not older than its own bound.
OfOracle(of) == of = -1 \/ (of \in 0 .. time /\ time - of <= OracleAge)

\* The three ways an answer can age fit the bound.
LEMMA OracleAgeBounds ==
    /\ OracleAge \in Int /\ NativeAge \in Int
    /\ FetchBy <= OracleAge
    /\ Ttl > 0 => Ttl - 1 <= OracleAge
    /\ Grace > 0 => FetchBy + Grace - 1 <= OracleAge
    /\ OracleAge <= NativeAge
    /\ GasTtl > 0 => OracleAge + GasTtl - 1 <= NativeAge
  BY GasAssumption DEF OracleAge, NativeAge

\* An oracle that has fetched nothing satisfies the invariant.
LEMMA GasInitInv == GasInit => GasInv
<1> SUFFICES ASSUME GasInit PROVE GasInv
  OBVIOUS
<1>1. GasTypeOK
  BY DEF GasInit, GasTypeOK, AtRest, Unpriced, Kept
<1> QED
  BY <1>1 DEF GasInit, GasInv, NativeSound, GasSound, AskSound, AtRest, Unpriced

\* Where a call goes next disturbs no other call.
LEMMA AskReplaced ==
    ASSUME GasInv, NEW a \in Askers, NEW c \in Asks, ask' = [ask EXCEPT ![a] = c], time' = time,
           c.began <= time,
           c.step = "fetch" => /\ c.since <= time /\ time - c.since <= FetchBy
                               /\ NativeSound(c.held)
    PROVE  ask' \in [Askers -> Asks] /\ \A b \in Askers : AskSound(b)'
<1>1. ask \in [Askers -> Asks]
  BY DEF GasInv, GasTypeOK, Asks
<1>2. ask' \in [Askers -> Asks] /\ ask'[a] = c
  BY <1>1
<1>3. ASSUME NEW b \in Askers, b # a PROVE ask'[b] = ask[b]
  BY <1>1, <1>3
<1>4. AskSound(a)'
  BY <1>2 DEF AskSound, NativeSound
<1>5. ASSUME NEW b \in Askers, b # a PROVE AskSound(b)'
  <2>1. AskSound(b)
    BY DEF GasInv
  <2> QED
    BY <1>3, <1>5, <2>1 DEF AskSound, NativeSound
<1> QED
  BY <1>2, <1>4, <1>5

\* A call that is over rests.
LEMMA AskGiven ==
    ASSUME GasInv, NEW a \in Askers, NEW of \in Int, Give(a, of), time' = time
    PROVE  /\ ask' \in [Askers -> Asks] /\ quoted' \in [Askers -> Int]
           /\ \A b \in Askers : AskSound(b)'
<1>1. AtRest \in Asks /\ AtRest.began = 0 /\ AtRest.step = "rest"
  BY DEF AtRest, Asks, Kept, Unpriced
<1>2. ask' = [ask EXCEPT ![a] = AtRest] /\ quoted' = [quoted EXCEPT ![a] = of]
  BY DEF Give
<1>3. time \in Nat /\ quoted \in [Askers -> Int]
  BY DEF GasInv, GasTypeOK
<1>4. quoted' \in [Askers -> Int]
  BY <1>2, <1>3
<1>5. AtRest.began <= time
  BY <1>1, <1>3
<1> HIDE DEF Give
<1> QED
  BY <1>1, <1>2, <1>4, <1>5, AskReplaced

\* What GasReader keeps of an answer is sound under the instant the call began.
LEMMA ReadKept ==
    ASSUME GasInv, NEW a \in Askers, NEW of \in Int, OfOracle(of), GiveRead(a, of), time' = time
    PROVE  gas' \in Kept /\ GasSound'
<1>1. ask[a].began \in Nat /\ time \in Nat /\ ask[a].began <= time
  BY DEF GasInv, GasTypeOK, AskSound
<1>2. gas' \in Kept /\ gas'.of = of /\ gas'.at = ask[a].began
  BY <1>1 DEF GiveRead, Kept
<1>3. of # -1 => 0 <= of /\ of <= time /\ ask[a].began - of <= OracleAge
  BY <1>1, OracleAgeBounds DEF OfOracle
<1> QED
  BY <1>1, <1>2, <1>3 DEF GasSound, OracleAge

\* What every answer of the oracle is: a kept one within its time, a fetched one,
\* or one within the grace.
LEMMA FromOracle ==
    ASSUME GasInv, NEW a \in Askers
    PROVE  /\ Younger(native, time, Ttl) => native.of \in Int /\ OfOracle(native.of)
           /\ ask[a].step = "fetch" =>
                 /\ \A t \in ask[a].since .. time : OfOracle(t)
                 /\ ServedInGrace(a) \in Int /\ OfOracle(ServedInGrace(a))
<1>1. /\ time \in Nat /\ native.of \in Int /\ native.at \in Int
      /\ ask[a].since \in Nat /\ ask[a].held.of \in Int /\ ask[a].held.at \in Int
  BY DEF GasInv, GasTypeOK, Kept
<1>2. Younger(native, time, Ttl) => OfOracle(native.of)
  <2> SUFFICES ASSUME Younger(native, time, Ttl) PROVE OfOracle(native.of)
    OBVIOUS
  <2>1. 0 <= native.at /\ native.at <= native.of /\ native.of <= time /\ time - native.at < Ttl
    BY DEF GasInv, NativeSound, Younger
  <2> QED
    BY <1>1, <2>1, OracleAgeBounds, GasAssumption DEF OfOracle
<1>3. ASSUME ask[a].step = "fetch", NEW t \in ask[a].since .. time PROVE OfOracle(t)
  <2>1. time - ask[a].since <= FetchBy
    BY <1>3 DEF GasInv, AskSound
  <2> QED
    BY <1>1, <1>3, <2>1, OracleAgeBounds, GasAssumption DEF OfOracle
<1>4. ASSUME ask[a].step = "fetch", Younger(ask[a].held, ask[a].since, Grace)
      PROVE  OfOracle(ask[a].held.of)
  <2> DEFINE h == ask[a].held
  <2>1. /\ 0 <= h.at /\ h.at <= h.of /\ h.of <= time
        /\ ask[a].since - h.at < Grace /\ time - ask[a].since <= FetchBy
    BY <1>4 DEF GasInv, AskSound, NativeSound, Younger
  <2> HIDE DEF h
  <2>2. h.of \in Int /\ h.at \in Int
    BY <1>1 DEF h
  <2>3. OfOracle(h.of)
    BY <1>1, <2>1, <2>2, OracleAgeBounds, GasAssumption DEF OfOracle
  <2> QED
    BY <2>3 DEF h
<1>5. OfOracle(-1)
  BY DEF OfOracle
<1>6. ask[a].step = "fetch" => ServedInGrace(a) \in Int /\ OfOracle(ServedInGrace(a))
  BY <1>1, <1>4, <1>5 DEF ServedInGrace
<1> QED
  BY <1>1, <1>2, <1>3, <1>6

\* Every look-up, answer, failure and instant keeps the invariant.
LEMMA GasStepInv == GasInv /\ [GasNext]_gasVars => GasInv'
<1> SUFFICES ASSUME GasInv, [GasNext]_gasVars PROVE GasInv'
  OBVIOUS
<1>1. /\ time \in Nat /\ native \in Kept /\ gas \in Kept
      /\ ask \in [Askers -> Asks] /\ quoted \in [Askers -> Int]
      /\ NativeSound(native) /\ GasSound
  BY DEF GasInv, GasTypeOK, Asks
<1>2. ASSUME NEW a \in Askers, NEW of \in Int, Give(a, of), UNCHANGED <<time, native, gas>>
      PROVE  GasInv'
  <2>1. ask' \in [Askers -> Asks] /\ quoted' \in [Askers -> Int] /\ \A b \in Askers : AskSound(b)'
    BY <1>2, AskGiven
  <2> QED
    BY <1>1, <1>2, <2>1 DEF GasInv, GasTypeOK, Asks, NativeSound, GasSound, OracleAge
<1>3. ASSUME NEW a \in Askers, NEW of \in Int, GiveRead(a, of), OfOracle(of), time' = time,
             native' \in Kept, NativeSound(native)'
      PROVE  GasInv'
  <2>1. ask' \in [Askers -> Asks] /\ quoted' \in [Askers -> Int] /\ \A b \in Askers : AskSound(b)'
    BY <1>3, AskGiven DEF GiveRead
  <2>2. gas' \in Kept /\ GasSound'
    BY <1>3, ReadKept
  <2> QED
    BY <1>1, <1>3, <2>1, <2>2 DEF GasInv, GasTypeOK, Asks
<1>4. ASSUME NEW a \in Askers, NEW c \in Asks, ask' = [ask EXCEPT ![a] = c],
             UNCHANGED <<time, native, gas, quoted>>, c.began <= time,
             c.step = "fetch" => c.since <= time /\ time - c.since <= FetchBy /\ NativeSound(c.held)
      PROVE  GasInv'
  <2>1. ask' \in [Askers -> Asks] /\ \A b \in Askers : AskSound(b)'
    BY <1>4, AskReplaced
  <2> QED
    BY <1>1, <1>4, <2>1 DEF GasInv, GasTypeOK, Asks, NativeSound, GasSound, OracleAge
<1>5. ASSUME NEW a \in Askers, ReadGas(a) PROVE GasInv'
  <2>1. CASE Younger(gas, time, GasTtl)
    <3>1. Give(a, gas.of) /\ UNCHANGED <<time, native, gas>> /\ gas.of \in Int
      BY <1>1, <1>5, <2>1 DEF ReadGas, Kept
    <3> QED
      BY <1>2, <3>1
  <2>2. CASE ~Younger(gas, time, GasTtl)
    <3> DEFINE c == [AtRest EXCEPT !.step = "gas", !.began = time]
    <3>1. AtRest \in Asks
      BY DEF AtRest, Asks, Kept, Unpriced
    <3>2. c \in Asks /\ c.began = time /\ c.step = "gas"
      BY <1>1, <3>1 DEF Asks
    <3>3. ask' = [ask EXCEPT ![a] = c] /\ UNCHANGED <<time, native, gas, quoted>>
      BY <1>5, <2>2 DEF ReadGas
    <3> HIDE DEF c
    <3>4. c.began <= time /\ c.step # "fetch"
      BY <1>1, <3>2
    <3> QED
      BY <1>4, <3>2, <3>3, <3>4
  <2> QED
    BY <2>1, <2>2
<1>6. ASSUME NEW a \in Askers, GasCallRaises(a) PROVE GasInv'
  BY <1>2, <1>6 DEF GasCallRaises
<1>7. ASSUME NEW a \in Askers, GetUsdPrice(a) PROVE GasInv'
  <2>1. CASE Younger(native, time, Ttl)
    <3>1. GiveRead(a, native.of) /\ UNCHANGED <<time, native>>
      BY <1>7, <2>1 DEF GetUsdPrice
    <3>2. native.of \in Int /\ OfOracle(native.of)
      BY <2>1, FromOracle
    <3>3. native' \in Kept /\ NativeSound(native)'
      BY <1>1, <3>1 DEF NativeSound
    <3> QED
      BY <1>3, <3>1, <3>2, <3>3
  <2>2. CASE ~Younger(native, time, Ttl)
    <3> DEFINE c == [ask[a] EXCEPT !.step = "fetch", !.since = time, !.held = native]
    <3>1. ask[a] \in Asks
      BY <1>1
    <3>2. c \in Asks /\ c.began = ask[a].began /\ c.step = "fetch" /\ c.since = time
          /\ c.held = native
      BY <1>1, <3>1 DEF Asks
    <3>3. ask' = [ask EXCEPT ![a] = c] /\ UNCHANGED <<time, native, gas, quoted>>
      BY <1>1, <1>7, <2>2 DEF GetUsdPrice
    <3>4. ask[a].began <= time
      BY DEF GasInv, AskSound
    <3>5. time - time <= FetchBy /\ time <= time
      BY <1>1, GasAssumption
    <3> HIDE DEF c
    <3>6. /\ c.began <= time
          /\ c.since <= time /\ time - c.since <= FetchBy /\ NativeSound(c.held)
      BY <1>1, <3>2, <3>4, <3>5
    <3> QED
      BY <1>4, <3>2, <3>3, <3>6
  <2> QED
    BY <2>1, <2>2
<1>8. ASSUME NEW a \in Askers, Fetched(a) PROVE GasInv'
  <2>1. PICK t \in ask[a].since .. time :
              native' = [of |-> t, at |-> ask[a].since] /\ GiveRead(a, t)
    BY <1>8 DEF Fetched
  <2>2. ask[a].step = "fetch" /\ time' = time /\ ask[a].since \in Nat
    BY <1>1, <1>8 DEF Fetched, Asks
  <2>3. t \in Int /\ ask[a].since <= t /\ t <= time
    BY <1>1, <2>2
  <2>4. OfOracle(t)
    BY <2>1, <2>2, FromOracle
  <2>5. native' \in Kept /\ NativeSound(native)'
    BY <1>1, <2>1, <2>2, <2>3 DEF Kept, NativeSound
  <2> QED
    BY <1>3, <2>1, <2>2, <2>3, <2>4, <2>5
<1>9. ASSUME NEW a \in Askers, FetchFails(a) PROVE GasInv'
  <2>1. GiveRead(a, ServedInGrace(a)) /\ UNCHANGED <<time, native>> /\ ask[a].step = "fetch"
    BY <1>9 DEF FetchFails
  <2>2. ServedInGrace(a) \in Int /\ OfOracle(ServedInGrace(a))
    BY <2>1, FromOracle
  <2>3. native' \in Kept /\ NativeSound(native)'
    BY <1>1, <2>1 DEF NativeSound
  <2> QED
    BY <1>3, <2>1, <2>2, <2>3
<1>10. CASE GasClock
  <2>1. time' = time + 1 /\ UNCHANGED <<native, gas, ask, quoted>>
    BY <1>10 DEF GasClock
  <2>2. ASSUME NEW k \in Kept, NativeSound(k) PROVE k = Unpriced \/ (0 <= k.at /\ k.at <= k.of /\ k.of <= time')
    BY <1>1, <2>1, <2>2 DEF NativeSound, Kept
  <2>3. NativeSound(native)'
    BY <1>1, <2>1, <2>2 DEF NativeSound
  <2>4. GasSound'
    BY <1>1, <2>1 DEF GasSound, Kept, OracleAge
  <2>5. ASSUME NEW a \in Askers PROVE AskSound(a)'
    <3>1. ask[a] \in Asks /\ AskSound(a)
      BY <1>1 DEF GasInv
    <3>2. ask[a].step = "fetch" => time' - ask[a].since <= FetchBy
      BY <1>1, <1>10, <2>1, <3>1, GasAssumption DEF GasClock, Asks
    <3>3. ask[a].began <= time' /\ (ask[a].step = "fetch" => ask[a].since <= time')
      BY <1>1, <2>1, <3>1 DEF AskSound, Asks
    <3>4. ask[a].step = "fetch" => NativeSound(ask[a].held) /\ ask[a].held \in Kept
      BY <3>1 DEF AskSound, Asks
    <3> QED
      BY <2>1, <2>2, <3>2, <3>3, <3>4 DEF AskSound, NativeSound
  <2> QED
    BY <1>1, <2>1, <2>3, <2>4, <2>5 DEF GasInv, GasTypeOK, Asks
<1>11. CASE UNCHANGED gasVars
  BY <1>11 DEF gasVars, GasInv, GasTypeOK, GasSound, AskSound, NativeSound, OracleAge
<1> QED
  BY <1>5, <1>6, <1>7, <1>8, <1>9, <1>10, <1>11 DEF GasNext

\* The invariant of the oracle holds throughout.
LEMMA GasInvariant == GasSpec => []GasInv
  BY GasInitInv, GasStepInv, PTL DEF GasSpec

\* The state of the oracle and of GasReader keeps its types.
THEOREM GasTypeCorrect == GasSpec => []GasTypeOK
  BY GasInvariant, PTL DEF GasInv

\* What one step gives a caller.
LEMMA GivenByStep ==
    ASSUME GasInv, [GasNext]_gasVars
    PROVE  \/ UNCHANGED <<time, quoted>>
           \/ time' = time + 1 /\ UNCHANGED quoted
           \/ \E a \in Askers, of \in Int :
                 /\ quoted' = [quoted EXCEPT ![a] = of] /\ UNCHANGED time
                 /\ of = -1 \/ (of \in 0 .. time /\ time - of <= NativeAge)
<1>1. time \in Nat /\ gas \in Kept /\ GasSound /\ \A a \in Askers : ask[a].since \in Nat
  BY DEF GasInv, GasTypeOK
<1>2. ASSUME NEW of \in Int, OfOracle(of)
      PROVE  of = -1 \/ (of \in 0 .. time /\ time - of <= NativeAge)
  BY <1>1, <1>2, OracleAgeBounds DEF OfOracle
<1>3. Younger(gas, time, GasTtl) => gas.of = -1 \/ (gas.of \in 0 .. time /\ time - gas.of <= NativeAge)
  BY <1>1, OracleAgeBounds, GasAssumption DEF GasSound, Younger, Kept
<1>4. gas.of \in Int
  BY <1>1 DEF Kept
<1>5. ASSUME NEW a \in Askers, ReadGas(a)
      PROVE  \/ UNCHANGED <<time, quoted>>
             \/ /\ quoted' = [quoted EXCEPT ![a] = gas.of] /\ UNCHANGED time
                /\ gas.of = -1 \/ (gas.of \in 0 .. time /\ time - gas.of <= NativeAge)
  BY <1>3, <1>5 DEF ReadGas, Give
<1>6. ASSUME NEW a \in Askers, GasCallRaises(a)
      PROVE  quoted' = [quoted EXCEPT ![a] = -1] /\ UNCHANGED time
  BY <1>6 DEF GasCallRaises, Give
<1>7. ASSUME NEW a \in Askers, GetUsdPrice(a)
      PROVE  \/ UNCHANGED <<time, quoted>>
             \/ /\ quoted' = [quoted EXCEPT ![a] = native.of] /\ UNCHANGED time
                /\ native.of \in Int /\ OfOracle(native.of)
  BY <1>7, FromOracle DEF GetUsdPrice, GiveRead, Give
<1>8. ASSUME NEW a \in Askers, Fetched(a)
      PROVE  \E t \in Int : /\ quoted' = [quoted EXCEPT ![a] = t] /\ UNCHANGED time
                            /\ OfOracle(t)
  <2>1. PICK t \in ask[a].since .. time : quoted' = [quoted EXCEPT ![a] = t]
    BY <1>8 DEF Fetched, GiveRead, Give
  <2>2. time' = time /\ ask[a].step = "fetch" /\ t \in Int
    BY <1>1, <1>8 DEF Fetched
  <2> QED
    BY <2>1, <2>2, FromOracle
<1>9. ASSUME NEW a \in Askers, FetchFails(a)
      PROVE  /\ quoted' = [quoted EXCEPT ![a] = ServedInGrace(a)] /\ UNCHANGED time
             /\ ServedInGrace(a) \in Int /\ OfOracle(ServedInGrace(a))
  BY <1>9, FromOracle DEF FetchFails, GiveRead, Give
<1>10. CASE GasClock
  BY <1>10 DEF GasClock
<1>11. CASE UNCHANGED gasVars
  BY <1>11 DEF gasVars
<1>12. CASE \E a \in Askers : \/ ReadGas(a) \/ GasCallRaises(a)
                              \/ GetUsdPrice(a) \/ Fetched(a) \/ FetchFails(a)
  BY <1>2, <1>4, <1>5, <1>6, <1>7, <1>8, <1>9, <1>12
<1> QED
  BY <1>10, <1>11, <1>12 DEF GasNext

\* Gas is never priced with a native price older than the two caches, the grace and
\* one fetch account for, however fetches overlap, fail or overtake one another.
THEOREM NativePriceIsFresh == GasSpec => NativePriceFresh
<1>1. GasInit => NativePrice!Init
  BY DEF GasInit, NativePrice!Init
<1>2. GasInv /\ [GasNext]_gasVars => [NativePrice!Next]_<<time, quoted>>
  <2> SUFFICES ASSUME GasInv, [GasNext]_gasVars PROVE [NativePrice!Next]_<<time, quoted>>
    OBVIOUS
  <2>1. CASE UNCHANGED <<time, quoted>>
    BY <2>1
  <2>2. CASE time' = time + 1 /\ UNCHANGED quoted
    BY <2>2 DEF NativePrice!Next, NativePrice!Advance
  <2>3. ASSUME NEW a \in Askers, NEW of \in Int, quoted' = [quoted EXCEPT ![a] = of], UNCHANGED time,
               of = -1 \/ (of \in 0 .. time /\ time - of <= NativeAge)
        PROVE  NativePrice!Next
    <3>1. of \in NativePrice!Recent \cup {-1}
      BY <2>3 DEF NativePrice!Recent
    <3> QED
      BY <2>3, <3>1 DEF NativePrice!Next, NativePrice!Answer
  <2> QED
    BY <2>1, <2>2, <2>3, GivenByStep
<1> QED
  BY <1>1, <1>2, GasInvariant, PTL DEF GasSpec, NativePriceFresh, NativePrice!Spec, gasVars

-----------------------------------------------------------------------------
(* PoolSelector *)

Measured == {Tiers[i] : i \in DOMAIN Tiers}

\* The time the quotes of k tiers may take.
Budget(k) == k * QuoteBy

\* A choice is stamped at the end of the measurement it comes from.
ChoiceSound(c) ==
    c # Unchosen => /\ c.of <= c.at /\ c.at <= instant
                    /\ c.at - c.of <= Budget(Len(Tiers))

\* A measurement takes at most QuoteBy for each tier quoted so far, and ends at
\* once after the last of them.
PickSound(p) ==
    Picking(p) =>
        /\ pick[p].since <= pick[p].step /\ pick[p].step <= instant
        /\ pick[p].step - pick[p].since <= Budget(pick[p].quoted)
        /\ IF pick[p].quoted < Len(Tiers) THEN instant - pick[p].step <= QuoteBy
           ELSE instant = pick[p].step

PickInv ==
    /\ SelectorTypeOK
    /\ ChoiceSound(chosen)
    /\ \A p \in Pickers : PickSound(p)

Picks == [quoted : -1 .. Len(Tiers), since : Nat, step : Nat, rank : Nat, tier : {0} \cup Measured]

\* The time a measurement may take grows by QuoteBy with every tier.
LEMMA QuoteBudget ==
    /\ Len(Tiers) \in Nat /\ Budget(Len(Tiers)) \in Nat
    /\ Budget(0) = 0
    /\ \A k \in Nat : Budget(k) \in Nat /\ Budget(k + 1) = Budget(k) + QuoteBy
<1>1. Len(Tiers) \in Nat /\ QuoteBy \in Nat
  BY SelectorAssumption
<1>2. ASSUME NEW k \in Nat PROVE k * QuoteBy \in Nat /\ (k + 1) * QuoteBy = k * QuoteBy + QuoteBy
  BY <1>1
<1> QED
  BY <1>1, <1>2 DEF Budget

\* Tiers are the measured ones, in their order.
LEMMA TiersMeasured ==
    /\ DOMAIN Tiers = 1 .. Len(Tiers)
    /\ Measured \subseteq Nat \ {0}
    /\ \A k \in 1 .. Len(Tiers) : Tiers[k] \in Measured
  BY SelectorAssumption DEF Measured

\* A selector that has measured nothing satisfies the invariant.
LEMMA PickInitInv == SelectorInit => PickInv
<1> SUFFICES ASSUME SelectorInit PROVE PickInv
  OBVIOUS
<1>1. Len(Tiers) \in Nat
  BY SelectorAssumption
<1>2. NotPicking \in Picks /\ NotPicking.quoted = -1
  BY <1>1 DEF NotPicking, Picks
<1>3. SelectorTypeOK
  BY <1>2 DEF SelectorInit, SelectorTypeOK, TierChoices, Picks, Measured
<1> QED
  BY <1>2, <1>3 DEF SelectorInit, PickInv, ChoiceSound, PickSound, Picking

\* A measurement that moves on, begins or ends disturbs no other.
LEMMA PickReplaced ==
    ASSUME PickInv, NEW p \in Pickers, NEW c \in Picks, pick' = [pick EXCEPT ![p] = c],
           instant' = instant,
           c.quoted >= 0 =>
                /\ c.since <= c.step /\ c.step <= instant
                /\ c.step - c.since <= Budget(c.quoted)
                /\ IF c.quoted < Len(Tiers) THEN instant - c.step <= QuoteBy
                   ELSE instant = c.step
    PROVE  pick' \in [Pickers -> Picks] /\ \A q \in Pickers : PickSound(q)'
<1>1. pick \in [Pickers -> Picks]
  BY DEF PickInv, SelectorTypeOK, Picks, Measured
<1>2. pick' \in [Pickers -> Picks] /\ pick'[p] = c
  BY <1>1
<1>3. ASSUME NEW q \in Pickers, q # p PROVE pick'[q] = pick[q]
  BY <1>1, <1>3
<1>4. PickSound(p)'
  BY <1>2 DEF PickSound, Picking
<1>5. ASSUME NEW q \in Pickers, q # p PROVE PickSound(q)'
  <2>1. PickSound(q)
    BY DEF PickInv
  <2> QED
    BY <1>3, <1>5, <2>1 DEF PickSound, Picking
<1> QED
  BY <1>2, <1>4, <1>5

\* What is returned is a choice, and the caller picks no longer.
LEMMA PickDone ==
    ASSUME PickInv, NEW p \in Pickers, NEW c \in TierChoices, Done(p, c), instant' = instant,
           chosen' \in TierChoices, ChoiceSound(chosen)'
    PROVE  PickInv'
<1>1. NotPicking \in Picks /\ NotPicking.quoted = -1
  BY QuoteBudget DEF NotPicking, Picks
<1>2. pick' = [pick EXCEPT ![p] = NotPicking] /\ fee' = [fee EXCEPT ![p] = c]
  BY DEF Done
<1>3. ~(NotPicking.quoted >= 0)
  BY <1>1
<1>4. pick' \in [Pickers -> Picks] /\ \A q \in Pickers : PickSound(q)'
  BY <1>1, <1>2, <1>3, PickReplaced
<1>5. fee' \in [Pickers -> TierChoices]
  BY <1>2 DEF PickInv, SelectorTypeOK
<1> QED
  BY <1>4, <1>5 DEF PickInv, SelectorTypeOK, Picks, Measured

\* When all tiers are quoted, no time has passed since the last quote.
LEMMA MeasurementOver ==
    ASSUME PickInv, NEW p \in Pickers, pick[p].quoted = Len(Tiers)
    PROVE  /\ pick[p].since <= instant
           /\ instant - pick[p].since <= Budget(Len(Tiers))
<1>1. Picking(p) /\ ~(pick[p].quoted < Len(Tiers)) /\ PickSound(p)
  BY QuoteBudget DEF Picking, PickInv
<1>2. /\ pick[p].since <= pick[p].step
      /\ pick[p].step - pick[p].since <= Budget(pick[p].quoted) /\ instant = pick[p].step
  BY <1>1 DEF PickSound
<1> QED
  BY <1>2

\* Every quote, choice, failure and instant keeps the invariant.
LEMMA PickStepInv == PickInv /\ [SelectorNext]_pickVars => PickInv'
<1> SUFFICES ASSUME PickInv, [SelectorNext]_pickVars PROVE PickInv'
  OBVIOUS
<1>1. /\ instant \in Nat /\ chosen \in TierChoices /\ ChoiceSound(chosen)
      /\ pick \in [Pickers -> Picks] /\ fee \in [Pickers -> TierChoices]
      /\ QuoteBy \in Nat /\ Unchosen \in TierChoices
  BY SelectorAssumption DEF PickInv, SelectorTypeOK, Picks, Measured, TierChoices
<1>2. ASSUME NEW p \in Pickers, BestFee(p) PROVE PickInv'
  <2>1. CASE chosen # Unchosen /\ instant - chosen.at < RefreshEvery
    <3>1. Done(p, chosen) /\ UNCHANGED <<instant, chosen>>
      BY <1>2, <2>1 DEF BestFee
    <3>2. ChoiceSound(chosen)'
      BY <1>1, <3>1 DEF ChoiceSound
    <3> QED
      BY <1>1, <3>1, <3>2, PickDone
  <2>2. CASE ~(chosen # Unchosen /\ instant - chosen.at < RefreshEvery) /\ Len(Tiers) = 1
    <3>1. /\ chosen' = [tier |-> Tiers[1], of |-> instant, at |-> instant]
          /\ Done(p, chosen') /\ instant' = instant
      BY <1>2, <2>2 DEF BestFee
    <3>2. Tiers[1] \in Measured
      BY <2>2, TiersMeasured
    <3>3. chosen' \in TierChoices
      BY <1>1, <3>1, <3>2 DEF TierChoices, Measured
    <3>4. ChoiceSound(chosen)'
      BY <1>1, <3>1, QuoteBudget DEF ChoiceSound
    <3> QED
      BY <3>1, <3>3, <3>4, PickDone
  <2>3. CASE ~(chosen # Unchosen /\ instant - chosen.at < RefreshEvery) /\ Len(Tiers) # 1
    <3> DEFINE c == [NotPicking EXCEPT !.quoted = 0, !.since = instant, !.step = instant]
    <3>1. NotPicking \in Picks
      BY QuoteBudget DEF NotPicking, Picks
    <3>2. 0 \in -1 .. Len(Tiers)
      BY QuoteBudget
    <3>3. c \in Picks /\ c.quoted = 0 /\ c.since = instant /\ c.step = instant
      BY <1>1, <3>1, <3>2 DEF Picks
    <3>4. pick' = [pick EXCEPT ![p] = c] /\ UNCHANGED <<instant, chosen, fee>>
      BY <1>2, <2>3 DEF BestFee
    <3> HIDE DEF c
    <3>5. /\ c.since <= c.step /\ c.step <= instant
          /\ c.step - c.since <= Budget(c.quoted)
          /\ instant - c.step <= QuoteBy /\ instant = c.step
      BY <1>1, <3>3, QuoteBudget
    <3>6. pick' \in [Pickers -> Picks] /\ \A q \in Pickers : PickSound(q)'
      BY <3>3, <3>4, <3>5, PickReplaced
    <3> QED
      BY <1>1, <3>4, <3>6 DEF PickInv, SelectorTypeOK, Picks, Measured, ChoiceSound
  <2> QED
    BY <2>1, <2>2, <2>3
<1>3. ASSUME NEW p \in Pickers, QuoteTier(p) PROVE PickInv'
  <2>1. PICK rank \in Ranks : pick' = [pick EXCEPT ![p] = Quoted(p, rank)]
    BY <1>3 DEF QuoteTier
  <2> DEFINE c == Quoted(p, rank)
  <2>2. /\ UNCHANGED <<instant, chosen, fee>> /\ pick[p] \in Picks
        /\ pick[p].quoted \in 0 .. Len(Tiers) /\ pick[p].quoted < Len(Tiers)
        /\ rank \in Nat
    BY <1>1, <1>3, SelectorAssumption DEF QuoteTier, Picking, Picks
  <2>3. /\ pick[p].quoted \in Nat /\ pick[p].quoted + 1 \in 1 .. Len(Tiers)
         /\ pick[p].quoted + 1 \in -1 .. Len(Tiers)
    <3>1. Len(Tiers) \in Nat
      BY QuoteBudget
    <3> QED
      BY <2>2, <3>1
  <2>4. Tiers[pick[p].quoted + 1] \in Measured
    BY <2>3, TiersMeasured
  <2>5. /\ c \in Picks /\ c.quoted = pick[p].quoted + 1 /\ c.step = instant
        /\ c.since = pick[p].since
    BY <1>1, <2>2, <2>4, <2>3 DEF Picks, Quoted
  <2>6. pick' = [pick EXCEPT ![p] = c]
    BY <2>1
  <2> HIDE DEF c
  <2>7. /\ pick[p].since <= pick[p].step /\ pick[p].step <= instant
        /\ pick[p].step - pick[p].since <= Budget(pick[p].quoted)
        /\ instant - pick[p].step <= QuoteBy
    BY <1>3, <2>2 DEF PickInv, PickSound, QuoteTier
  <2>8. /\ Budget(pick[p].quoted) \in Nat
        /\ Budget(c.quoted) = Budget(pick[p].quoted) + QuoteBy
    BY <2>5, <2>3, QuoteBudget
  <2>9. pick[p].since \in Nat /\ pick[p].step \in Nat
    BY <2>2 DEF Picks
  <2>10. /\ c.since <= c.step /\ c.step <= instant
        /\ c.step - c.since <= Budget(c.quoted)
        /\ instant - c.step <= QuoteBy /\ instant = c.step
    BY <1>1, <2>5, <2>7, <2>8, <2>9
  <2>11. pick' \in [Pickers -> Picks] /\ \A q \in Pickers : PickSound(q)'
    BY <2>2, <2>5, <2>6, <2>10, PickReplaced
  <2> QED
    BY <1>1, <2>2, <2>11 DEF PickInv, SelectorTypeOK, Picks, Measured, ChoiceSound
<1>4. ASSUME NEW p \in Pickers, Choose(p) PROVE PickInv'
  <2>1. CASE pick[p].tier = 0
    <3>1. Done(p, Unchosen) /\ UNCHANGED <<instant, chosen>>
      BY <1>4, <2>1 DEF Choose
    <3>2. ChoiceSound(chosen)'
      BY <1>1, <3>1 DEF ChoiceSound
    <3> QED
      BY <1>1, <3>1, <3>2, PickDone
  <2>2. CASE pick[p].tier # 0
    <3>1. /\ chosen' = [tier |-> pick[p].tier, of |-> pick[p].since, at |-> instant]
          /\ Done(p, chosen') /\ instant' = instant /\ pick[p].quoted = Len(Tiers)
      BY <1>4, <2>2 DEF Choose
    <3>2. pick[p] \in Picks /\ pick[p].tier \in Measured /\ pick[p].since \in Nat
      BY <1>1, <2>2 DEF Picks
    <3>3. chosen' \in TierChoices
      BY <1>1, <3>1, <3>2 DEF TierChoices, Measured
    <3>4. /\ pick[p].since <= instant /\ instant - pick[p].since <= Budget(Len(Tiers))
      BY <3>1, MeasurementOver
    <3>5. ChoiceSound(chosen)'
      BY <1>1, <3>1, <3>2, <3>4 DEF ChoiceSound
    <3> QED
      BY <3>1, <3>3, <3>5, PickDone
  <2> QED
    BY <2>1, <2>2
<1>5. ASSUME NEW p \in Pickers, MeasureRaises(p) PROVE PickInv'
  <2>1. Done(p, Unchosen) /\ UNCHANGED <<instant, chosen>>
    BY <1>5 DEF MeasureRaises
  <2>2. ChoiceSound(chosen)'
    BY <1>1, <2>1 DEF ChoiceSound
  <2> QED
    BY <1>1, <2>1, <2>2, PickDone
<1>6. CASE PickClock
  <2>1. instant' = instant + 1 /\ UNCHANGED <<chosen, pick, fee>>
    BY <1>6 DEF PickClock
  <2>2. ChoiceSound(chosen)'
    <3>1. chosen # Unchosen => chosen.at \in Nat
      BY <1>1 DEF TierChoices
    <3> QED
      BY <1>1, <2>1, <3>1 DEF ChoiceSound
  <2>3. ASSUME NEW p \in Pickers PROVE PickSound(p)'
    <3>1. pick[p] \in Picks /\ PickSound(p)
      BY <1>1 DEF PickInv
    <3>2. Picking(p) => pick[p].quoted < Len(Tiers) /\ instant - pick[p].step < QuoteBy
      BY <1>6 DEF PickClock
    <3>3. pick[p].step \in Nat
      BY <3>1 DEF Picks
    <3> QED
      BY <1>1, <2>1, <3>1, <3>2, <3>3 DEF PickSound, Picking
  <2> QED
    BY <1>1, <2>1, <2>2, <2>3 DEF PickInv, SelectorTypeOK, Picks, Measured
<1>7. CASE UNCHANGED pickVars
  BY <1>7 DEF pickVars, PickInv, SelectorTypeOK, ChoiceSound, PickSound, Picking
<1> QED
  BY <1>2, <1>3, <1>4, <1>5, <1>6, <1>7 DEF SelectorNext

\* The invariant of the selector holds throughout.
LEMMA PickInvariant == SelectorSpec => []PickInv
  BY PickInitInv, PickStepInv, PTL DEF SelectorSpec

\* The selector's state keeps its types; a choice is always of a candidate tier.
THEOREM SelectorTypeCorrect == SelectorSpec => []SelectorTypeOK
  BY PickInvariant, PTL DEF PickInv

\* What one step returns to a caller.
LEMMA PickedByStep ==
    ASSUME PickInv, [SelectorNext]_pickVars
    PROVE  \/ UNCHANGED <<instant, fee>>
           \/ instant' = instant + 1 /\ UNCHANGED fee
           \/ \E p \in Pickers, c \in TierChoices :
                 /\ fee' = [fee EXCEPT ![p] = c] /\ UNCHANGED instant
                 /\ c = Unchosen \/ (c.of \in 0 .. instant
                       /\ instant - c.of <= RefreshEvery - 1 + Budget(Len(Tiers)))
<1>1. /\ instant \in Nat /\ chosen \in TierChoices /\ ChoiceSound(chosen)
      /\ pick \in [Pickers -> Picks] /\ Unchosen \in TierChoices
      /\ RefreshEvery \in Nat \ {0} /\ Budget(Len(Tiers)) \in Nat
  BY SelectorAssumption, QuoteBudget DEF PickInv, SelectorTypeOK, Picks, Measured, TierChoices
<1>2. ASSUME NEW p \in Pickers, BestFee(p)
      PROVE  \/ UNCHANGED <<instant, fee>>
             \/ \E c \in TierChoices :
                 /\ fee' = [fee EXCEPT ![p] = c] /\ UNCHANGED instant
                 /\ c = Unchosen \/ (c.of \in 0 .. instant
                       /\ instant - c.of <= RefreshEvery - 1 + Budget(Len(Tiers)))
  <2>1. CASE chosen # Unchosen /\ instant - chosen.at < RefreshEvery
    <3>1. fee' = [fee EXCEPT ![p] = chosen] /\ UNCHANGED instant
      BY <1>2, <2>1 DEF BestFee, Done
    <3>2. chosen.of \in Nat /\ chosen.at \in Nat
      BY <1>1, <2>1 DEF TierChoices
    <3>3. /\ chosen.of \in 0 .. instant
          /\ instant - chosen.of <= RefreshEvery - 1 + Budget(Len(Tiers))
      BY <1>1, <2>1, <3>2 DEF ChoiceSound
    <3> QED
      BY <1>1, <3>1, <3>3
  <2>2. CASE ~(chosen # Unchosen /\ instant - chosen.at < RefreshEvery) /\ Len(Tiers) = 1
    <3> DEFINE c == [tier |-> Tiers[1], of |-> instant, at |-> instant]
    <3>1. fee' = [fee EXCEPT ![p] = c] /\ UNCHANGED instant
      BY <1>2, <2>2 DEF BestFee, Done
    <3>2. c \in TierChoices /\ c.of = instant
      BY <1>1, <2>2, TiersMeasured DEF TierChoices, Measured
    <3> HIDE DEF c
    <3>3. c.of \in 0 .. instant /\ instant - c.of <= RefreshEvery - 1 + Budget(Len(Tiers))
      BY <1>1, <3>2
    <3> QED
      BY <3>1, <3>2, <3>3
  <2>3. CASE ~(chosen # Unchosen /\ instant - chosen.at < RefreshEvery) /\ Len(Tiers) # 1
    BY <1>2, <2>3 DEF BestFee
  <2> QED
    BY <2>1, <2>2, <2>3
<1>3. ASSUME NEW p \in Pickers, Choose(p), pick[p].tier # 0
      PROVE  \E c \in TierChoices :
                 /\ fee' = [fee EXCEPT ![p] = c] /\ UNCHANGED instant
                 /\ c.of \in 0 .. instant
                 /\ instant - c.of <= RefreshEvery - 1 + Budget(Len(Tiers))
  <2> DEFINE c == [tier |-> pick[p].tier, of |-> pick[p].since, at |-> instant]
  <2>1. fee' = [fee EXCEPT ![p] = c] /\ UNCHANGED instant /\ pick[p].quoted = Len(Tiers)
    BY <1>3 DEF Choose, Done
  <2>2. pick[p] \in Picks /\ pick[p].tier \in Measured /\ pick[p].since \in Nat
    BY <1>1, <1>3 DEF Picks
  <2>3. c \in TierChoices /\ c.of = pick[p].since
    BY <1>1, <2>2 DEF TierChoices, Measured
  <2>4. pick[p].since <= instant /\ instant - pick[p].since <= Budget(Len(Tiers))
    BY <2>1, MeasurementOver
  <2> HIDE DEF c
  <2>5. c.of \in 0 .. instant /\ instant - c.of <= RefreshEvery - 1 + Budget(Len(Tiers))
    BY <1>1, <2>2, <2>3, <2>4
  <2> QED
    BY <2>1, <2>3, <2>5
<1>4. ASSUME NEW p \in Pickers, (Choose(p) /\ pick[p].tier = 0) \/ MeasureRaises(p)
      PROVE  fee' = [fee EXCEPT ![p] = Unchosen] /\ UNCHANGED instant
  BY <1>4 DEF Choose, MeasureRaises, Done
<1>5. ASSUME NEW p \in Pickers, QuoteTier(p) PROVE UNCHANGED <<instant, fee>>
  BY <1>5 DEF QuoteTier
<1>6. CASE PickClock
  BY <1>6 DEF PickClock
<1>7. CASE UNCHANGED pickVars
  BY <1>7 DEF pickVars
<1>8. CASE \E p \in Pickers : BestFee(p) \/ QuoteTier(p) \/ Choose(p) \/ MeasureRaises(p)
  BY <1>1, <1>2, <1>3, <1>4, <1>5, <1>8
<1> QED
  BY <1>6, <1>7, <1>8 DEF SelectorNext

\* A tier is chosen from quotes no older than one refresh and one measurement, however
\* many measurements run at once.
THEOREM TierIsFresh == SelectorSpec => TierFresh
<1>1. SelectorInit => SelectedTier!Init
  BY DEF SelectorInit, SelectedTier!Init, Unchosen
<1>2. PickInv /\ [SelectorNext]_pickVars
        => [SelectedTier!Next]_<<instant, [p \in Pickers |-> fee[p].of]>>
  <2> SUFFICES ASSUME PickInv, [SelectorNext]_pickVars
               PROVE  [SelectedTier!Next]_<<instant, [p \in Pickers |-> fee[p].of]>>
    OBVIOUS
  <2>1. fee \in [Pickers -> TierChoices] /\ instant \in Nat
    BY DEF PickInv, SelectorTypeOK
  <2>2. CASE UNCHANGED <<instant, fee>>
    BY <2>2
  <2>3. CASE instant' = instant + 1 /\ UNCHANGED fee
    BY <2>3 DEF SelectedTier!Next, SelectedTier!Advance
  <2>4. ASSUME NEW p \in Pickers, NEW c \in TierChoices, fee' = [fee EXCEPT ![p] = c], UNCHANGED instant,
               c = Unchosen \/ (c.of \in 0 .. instant
                     /\ instant - c.of <= RefreshEvery - 1 + Budget(Len(Tiers)))
        PROVE  SelectedTier!Next
    <3>1. [q \in Pickers |-> fee[q].of]' = [[q \in Pickers |-> fee[q].of] EXCEPT ![p] = c.of]
      BY <2>1, <2>4
    <3>2. c.of \in SelectedTier!Recent \cup {-1}
      BY <2>4 DEF SelectedTier!Recent, Unchosen, Budget
    <3> QED
      BY <2>4, <3>1, <3>2 DEF SelectedTier!Next, SelectedTier!Answer
  <2> QED
    BY <2>2, <2>3, <2>4, PickedByStep
<1> QED
  BY <1>1, <1>2, PickInvariant, PTL DEF SelectorSpec, TierFresh, SelectedTier!Spec, pickVars

-----------------------------------------------------------------------------
(* Recorder *)

\* Where the outcomes are that still have to be written.
RowsIn(s) == {i \in 1 .. Len(s) : s[i] = "row"}

Outcomes == {"row", "none"}

\* Only a cycle has observations under way or outcomes to look at.
AccountInv ==
    /\ RecorderTypeOK
    /\ loop # "cycle" => observing = {} /\ ready = <<>>
    /\ EveryObservationAccounted

\* Finitely many outcomes of a cycle are rows.
LEMMA RowsFinite ==
    ASSUME NEW s \in Seq(Outcomes)
    PROVE  IsFiniteSet(RowsIn(s)) /\ Cardinality(RowsIn(s)) \in Nat
<1>1. IsFiniteSet(1 .. Len(s)) /\ RowsIn(s) \in SUBSET (1 .. Len(s))
  BY FS_Interval DEF RowsIn
<1> QED
  BY <1>1, FS_Subset, FS_CardinalityType

\* An outcome that is appended is one row more if it is one.
LEMMA RowsAppended ==
    ASSUME NEW s \in Seq(Outcomes), NEW e \in Outcomes
    PROVE  Cardinality(RowsIn(Append(s, e)))
             = Cardinality(RowsIn(s)) + (IF e = "row" THEN 1 ELSE 0)
<1>1. CASE e = "row"
  <2>1. RowsIn(Append(s, e)) = RowsIn(s) \cup {Len(s) + 1} /\ Len(s) + 1 \notin RowsIn(s)
    BY <1>1 DEF RowsIn
  <2> QED
    BY <1>1, <2>1, RowsFinite, FS_AddElement
<1>2. CASE e # "row"
  <2>1. RowsIn(Append(s, e)) = RowsIn(s)
    BY <1>2 DEF RowsIn
  <2> QED
    BY <1>2, <2>1, RowsFinite
<1> QED
  BY <1>1, <1>2

\* One that is taken from the front is one less.
LEMMA RowsTaken ==
    ASSUME NEW s \in Seq(Outcomes), s # <<>>
    PROVE  Cardinality(RowsIn(s))
             = Cardinality(RowsIn(Tail(s))) + (IF Head(s) = "row" THEN 1 ELSE 0)
<1> DEFINE rest == RowsIn(s) \ {1}
           next == [i \in RowsIn(Tail(s)) |-> i + 1]
<1>1. /\ Tail(s) \in Seq(Outcomes) /\ Len(Tail(s)) = Len(s) - 1 /\ Len(s) \in Nat \ {0}
      /\ \A i \in 1 .. Len(s) - 1 : Tail(s)[i] = s[i + 1]
      /\ Head(s) = s[1]
  OBVIOUS
<1>2. rest = {i + 1 : i \in RowsIn(Tail(s))}
  <2>1. ASSUME NEW i \in RowsIn(Tail(s)) PROVE i + 1 \in rest
    BY <1>1 DEF RowsIn
  <2>2. ASSUME NEW j \in rest PROVE j - 1 \in RowsIn(Tail(s)) /\ j = (j - 1) + 1
    BY <1>1 DEF RowsIn
  <2> QED
    BY <2>1, <2>2
<1>3. next \in Bijection(RowsIn(Tail(s)), rest)
  <2>1. next \in [RowsIn(Tail(s)) -> rest]
    BY <1>2
  <2>2. \A i, j \in RowsIn(Tail(s)) : next[i] = next[j] => i = j
    BY DEF RowsIn
  <2>3. \A j \in rest : \E i \in RowsIn(Tail(s)) : next[i] = j
    BY <1>2
  <2> QED
    BY <2>1, <2>2, <2>3, Fun_IsBij
<1>4. Cardinality(rest) = Cardinality(RowsIn(Tail(s)))
  BY <1>1, <1>3, RowsFinite, FS_Bijection DEF ExistsBijection
<1>5. 1 \in RowsIn(s) <=> Head(s) = "row"
  BY <1>1 DEF RowsIn
<1>6. Cardinality(rest) = IF 1 \in RowsIn(s) THEN Cardinality(RowsIn(s)) - 1 ELSE Cardinality(RowsIn(s))
  <2>1. IsFiniteSet(RowsIn(s))
    BY RowsFinite
  <2> QED
    BY <2>1, FS_RemoveElement
<1>7. Cardinality(RowsIn(s)) \in Nat /\ Cardinality(RowsIn(Tail(s))) \in Nat
  BY <1>1, RowsFinite
<1> HIDE DEF rest
<1> QED
  BY <1>4, <1>5, <1>6, <1>7

\* An empty cycle has none.
LEMMA NoRows == RowsIn(<<>>) = {} /\ Cardinality({}) = 0
  BY FS_EmptySet DEF RowsIn

\* Finitely many observations are under way.
LEMMA UnderWay ==
    ASSUME RecorderTypeOK
    PROVE  IsFiniteSet(observing) /\ Cardinality(observing) \in Nat
  BY RecorderAssumption, FS_Subset, FS_CardinalityType DEF RecorderTypeOK

\* EveryObservationAccounted with the rows by their name.
LEMMA AccountOf ==
    EveryObservationAccounted <=>
        /\ tally.recorded = tally.rows
        /\ begun = tally.recorded + tally.failed + lost + strays + Cardinality(observing)
                   + Cardinality(RowsIn(ready))
        /\ (lost > 0 \/ strays > 0) => faults > 0
  BY DEF EveryObservationAccounted, RowsIn

\* The same of the state after a step.
LEMMA AccountOfNext ==
    EveryObservationAccounted' <=>
        /\ tally'.recorded = tally'.rows
        /\ begun' = tally'.recorded + tally'.failed + lost' + strays' + Cardinality(observing')
                    + Cardinality(RowsIn(ready'))
        /\ (lost' > 0 \/ strays' > 0) => faults' > 0
  BY DEF EveryObservationAccounted, RowsIn

\* The two ways the terms of the account change places.
LEMMA RowIsStored ==
    ASSUME NEW r \in Nat, NEW f \in Nat, NEW l \in Nat, NEW s \in Nat, NEW o \in Nat,
           NEW k \in Nat, NEW n \in Nat
    PROVE  r + f + l + s + o + (k + n) = (r + n) + f + l + s + o + k
  OBVIOUS

\* What a failed write leaves behind moves to lost and strays.
LEMMA RowsAreLost ==
    ASSUME NEW r \in Nat, NEW f \in Nat, NEW l \in Nat, NEW s \in Nat, NEW o \in Nat,
           NEW k \in Nat
    PROVE  r + f + l + s + o + k = r + f + (l + k) + (s + o) + 0 + 0
  OBVIOUS

\* Nothing is begun and nothing is accounted for at first.
LEMMA AccountStarts == RecorderInit => AccountInv
<1> SUFFICES ASSUME RecorderInit PROVE AccountInv
  OBVIOUS
<1>1. RecorderTypeOK
  <2>1. 0 \in 0 .. StoreFaults /\ <<>> \in Seq({"row", "none"})
    BY RecorderAssumption
  <2> QED
    BY <2>1 DEF RecorderInit, RecorderTypeOK
<1>2. EveryObservationAccounted
  <2>1. Cardinality(observing) = 0 /\ Cardinality(RowsIn(ready)) = 0
    BY NoRows DEF RecorderInit
  <2>2. /\ tally.recorded = 0 /\ tally.rows = 0 /\ tally.failed = 0
        /\ begun = 0 /\ lost = 0 /\ strays = 0
    BY DEF RecorderInit
  <2> QED
    BY <2>1, <2>2, AccountOf
<1> QED
  BY <1>1, <1>2 DEF AccountInv, RecorderInit

\* An observation that comes to nothing is counted as failed, and as nothing else.
LEMMA FailureCounted ==
    ASSUME NEW o, tally \in [cycles : Nat, recorded : Nat, failed : Nat, rows : Nat],
           tally' = [tally EXCEPT !.failed = @ + Failure(o)]
    PROVE  /\ tally'.failed = tally.failed + (IF Observed(o) THEN 0 ELSE 1)
           /\ tally'.recorded = tally.recorded /\ tally'.rows = tally.rows
           /\ tally' \in [cycles : Nat, recorded : Nat, failed : Nat, rows : Nat]
<1> DEFINE n == Failure(o)
<1>1. n = (IF Observed(o) THEN 0 ELSE 1) /\ n \in Nat
  BY DEF Failure
<1>2. tally' = [tally EXCEPT !.failed = @ + n]
  OBVIOUS
<1> HIDE DEF n
<1>3. tally'.failed = tally.failed + n /\ tally.failed + n \in Nat
  BY <1>1, <1>2
<1>4. /\ tally'.recorded = tally.recorded /\ tally'.rows = tally.rows
      /\ tally' \in [cycles : Nat, recorded : Nat, failed : Nat, rows : Nat]
  BY <1>2, <1>3
<1> QED
  BY <1>1, <1>3, <1>4

\* Every step of the recorder keeps the account.
LEMMA AccountStep == AccountInv /\ [RecorderNext]_recorderVars => AccountInv'
<1> SUFFICES ASSUME AccountInv, [RecorderNext]_recorderVars PROVE AccountInv'
  OBVIOUS
<1> USE DEF AccountInv
<1>1. /\ tally \in [cycles : Nat, recorded : Nat, failed : Nat, rows : Nat]
      /\ lost \in Nat /\ strays \in Nat /\ faults \in Nat /\ begun \in Nat
      /\ ready \in Seq(Outcomes) /\ observing \subseteq Targets
      /\ tally.recorded \in Nat /\ tally.failed \in Nat /\ tally.rows \in Nat
  BY RecorderAssumption DEF RecorderTypeOK, Outcomes
<1>2. /\ IsFiniteSet(observing) /\ Cardinality(observing) \in Nat
      /\ Cardinality(RowsIn(ready)) \in Nat
  BY <1>1, UnderWay, RowsFinite
<1>3. /\ tally.recorded = tally.rows
      /\ begun = tally.recorded + tally.failed + lost + strays + Cardinality(observing)
                 + Cardinality(RowsIn(ready))
      /\ (lost > 0 \/ strays > 0) => faults > 0
  BY AccountOf
<1>4. /\ lost \in Nat /\ strays \in Nat /\ faults \in Nat /\ begun \in Nat
      /\ tally.recorded \in Nat /\ tally.failed \in Nat /\ tally.rows \in Nat
  BY <1>1
<1>5. ASSUME UNCHANGED <<observing, ready, strays, tally.recorded, tally.failed, tally.rows, lost, faults, begun>>
      PROVE  EveryObservationAccounted'
  BY <1>5 DEF EveryObservationAccounted
<1>6. CASE Run \/ Stop \/ AfterCycle \/ Wakes
  <2>1. UNCHANGED <<observing, ready, strays, tally, lost, faults, begun>>
    BY <1>6 DEF Run, Stop, AfterCycle, Wakes
  <2>2. RecorderTypeOK'
    BY <1>6, <2>1 DEF Run, Stop, AfterCycle, Wakes, RecorderTypeOK
  <2> QED
    BY <1>5, <1>6, <2>1, <2>2 DEF Run, Stop, AfterCycle, Wakes
<1>7. CASE CycleBegins
  <2>1. CASE stop
    <3>1. UNCHANGED <<observing, ready, strays, tally, lost, faults, begun>>
      BY <1>7, <2>1 DEF CycleBegins
    <3>2. RecorderTypeOK'
      BY <1>7, <2>1 DEF CycleBegins, RecorderTypeOK
    <3> QED
      BY <1>5, <1>7, <2>1, <3>1, <3>2 DEF CycleBegins
  <2>2. CASE ~stop
    <3>1. Cardinality(Targets) \in Nat
      BY RecorderAssumption, FS_CardinalityType
    <3>2. observing = {} /\ observing' = Targets /\ begun' = begun + Cardinality(Targets)
          /\ UNCHANGED <<ready, strays, tally, lost, faults>>
      BY <1>7, <2>2 DEF CycleBegins
    <3>3. RecorderTypeOK'
      BY <1>7, <2>2, <3>1, <3>2 DEF CycleBegins, RecorderTypeOK
    <3>4. EveryObservationAccounted'
      <4>1. /\ tally' = tally /\ lost' = lost /\ strays' = strays /\ faults' = faults
            /\ Cardinality(observing) = 0 /\ Cardinality(observing') = Cardinality(Targets)
            /\ begun' = begun + Cardinality(Targets)
            /\ Cardinality(RowsIn(ready')) = Cardinality(RowsIn(ready))
        BY <3>2, NoRows
      <4>2. tally'.recorded = tally'.rows
        BY <1>3, <4>1
      <4>3. begun' = tally'.recorded + tally'.failed + lost' + strays' + Cardinality(observing')
                     + Cardinality(RowsIn(ready'))
        BY <1>2, <1>3, <1>4, <3>1, <4>1
      <4>4. (lost' > 0 \/ strays' > 0) => faults' > 0
        BY <1>2, <1>3, <1>4, <3>1, <4>1
      <4> QED
        BY <4>2, <4>3, <4>4, AccountOfNext
    <3> QED
      BY <1>7, <2>2, <3>3, <3>4 DEF CycleBegins
  <2> QED
    BY <2>1, <2>2
<1>8. ASSUME NEW t \in Targets, Completes(t) PROVE AccountInv'
  <2>1. PICK o \in Outcome :
              /\ ready' = Append(ready, IF Observed(o) THEN "row" ELSE "none")
              /\ tally' = [tally EXCEPT !.failed = @ + Failure(o)]
    BY <1>8 DEF Completes
  <2>2. /\ t \in observing /\ observing' = observing \ {t} /\ loop = "cycle"
        /\ UNCHANGED <<loop, strays, stop, asked, lost, faults, begun>>
    BY <1>8 DEF Completes
  <2>3. Cardinality(observing') = Cardinality(observing) - 1
    BY <1>2, <2>2, FS_RemoveElement
  <2>4. Cardinality(RowsIn(ready')) = Cardinality(RowsIn(ready)) + (IF Observed(o) THEN 1 ELSE 0)
    BY <1>1, <2>1, RowsAppended DEF Outcomes
  <2>5. /\ tally'.failed = tally.failed + (IF Observed(o) THEN 0 ELSE 1)
        /\ tally'.recorded = tally.recorded /\ tally'.rows = tally.rows
        /\ tally' \in [cycles : Nat, recorded : Nat, failed : Nat, rows : Nat]
    BY <1>1, <2>1, FailureCounted
  <2>6. RecorderTypeOK'
    BY <1>1, <2>1, <2>2, <2>5 DEF RecorderTypeOK, Outcomes
  <2>7. EveryObservationAccounted'
    <3>1. tally'.recorded = tally'.rows
      BY <1>2, <1>3, <1>4, <2>2, <2>3, <2>4, <2>5
    <3>2. begun' = tally'.recorded + tally'.failed + lost' + strays' + Cardinality(observing')
                   + Cardinality(RowsIn(ready'))
      <4>1. CASE Observed(o)
        BY <4>1, <1>2, <1>3, <1>4, <2>2, <2>3, <2>4, <2>5
      <4>2. CASE ~Observed(o)
        BY <4>2, <1>2, <1>3, <1>4, <2>2, <2>3, <2>4, <2>5
      <4> QED
        BY <4>1, <4>2
    <3>3. (lost' > 0 \/ strays' > 0) => faults' > 0
      BY <1>2, <1>3, <1>4, <2>2, <2>3, <2>4, <2>5
    <3> QED
      BY <3>1, <3>2, <3>3, AccountOfNext
  <2> QED
    BY <2>2, <2>6, <2>7
<1>9. CASE StrayCompletes
  <2>1. PICK o \in Outcome :
              /\ tally' = [tally EXCEPT !.failed = @ + Failure(o)]
              /\ lost' = lost + (IF Observed(o) THEN 1 ELSE 0)
    BY <1>9 DEF StrayCompletes
  <2>2. /\ strays > 0 /\ strays' = strays - 1
        /\ UNCHANGED <<loop, observing, ready, stop, asked, faults, begun>>
    BY <1>9 DEF StrayCompletes
  <2>3. /\ tally'.failed = tally.failed + (IF Observed(o) THEN 0 ELSE 1)
        /\ tally'.recorded = tally.recorded /\ tally'.rows = tally.rows
        /\ tally' \in [cycles : Nat, recorded : Nat, failed : Nat, rows : Nat]
    BY <1>1, <2>1, FailureCounted
  <2>4. RecorderTypeOK'
    BY <1>1, <2>1, <2>2, <2>3 DEF RecorderTypeOK
  <2>5. EveryObservationAccounted'
    <3>1. tally'.recorded = tally'.rows
      BY <1>2, <1>3, <1>4, <2>1, <2>2, <2>3
    <3>2. begun' = tally'.recorded + tally'.failed + lost' + strays' + Cardinality(observing')
                   + Cardinality(RowsIn(ready'))
      <4>1. CASE Observed(o)
        BY <4>1, <1>2, <1>3, <1>4, <2>1, <2>2, <2>3
      <4>2. CASE ~Observed(o)
        BY <4>2, <1>2, <1>3, <1>4, <2>1, <2>2, <2>3
      <4> QED
        BY <4>1, <4>2
    <3>3. (lost' > 0 \/ strays' > 0) => faults' > 0
      BY <1>2, <1>3, <1>4, <2>1, <2>2, <2>3
    <3> QED
      BY <3>1, <3>2, <3>3, AccountOfNext
  <2> QED
    BY <2>2, <2>4, <2>5
<1>10. CASE Skip \/ Write
  <2>1. /\ ready # <<>> /\ ready' = Tail(ready) /\ loop = "cycle"
        /\ UNCHANGED <<loop, observing, strays, stop, asked, lost, faults, begun>>
    BY <1>10 DEF Skip, Write
  <2>2. Cardinality(RowsIn(ready)) = Cardinality(RowsIn(ready')) + (IF Head(ready) = "row" THEN 1 ELSE 0)
        /\ Cardinality(RowsIn(ready')) \in Nat /\ ready' \in Seq(Outcomes)
    <3>1. ready \in Seq(Outcomes) /\ ready # <<>> /\ ready' \in Seq(Outcomes)
      BY <1>1, <2>1
    <3> QED
      BY <2>1, <3>1, RowsTaken, RowsFinite
  <2>3. /\ tally'.recorded = tally.recorded + (IF Head(ready) = "row" THEN 1 ELSE 0)
        /\ tally'.rows = tally.rows + (IF Head(ready) = "row" THEN 1 ELSE 0)
        /\ tally'.failed = tally.failed
        /\ tally' \in [cycles : Nat, recorded : Nat, failed : Nat, rows : Nat]
    <3>1. CASE Skip
      BY <1>1, <3>1 DEF Skip
    <3>2. CASE Write
      <4>1. /\ tally'.rows = tally.rows + 1 /\ tally'.recorded = tally.recorded + 1
            /\ tally'.failed = tally.failed
        BY <1>1, <3>2 DEF Write
      <4>2. tally' \in [cycles : Nat, recorded : Nat, failed : Nat, rows : Nat]
        <5>1. tally' = [tally EXCEPT !.rows = tally.rows + 1, !.recorded = tally.recorded + 1]
          BY <3>2 DEF Write
        <5>2. tally' = [cycles |-> tally.cycles, recorded |-> tally.recorded + 1,
                        failed |-> tally.failed, rows |-> tally.rows + 1]
          BY <1>1, <5>1
        <5> QED
          BY <1>1, <5>2
      <4>3. Head(ready) = "row"
        BY <3>2 DEF Write
      <4> QED
        BY <4>1, <4>2, <4>3
    <3> QED
      BY <1>10, <3>1, <3>2
  <2>4. RecorderTypeOK'
    BY <1>1, <2>1, <2>2, <2>3 DEF RecorderTypeOK, Outcomes
  <2>5. EveryObservationAccounted'
    <3>1. /\ Cardinality(observing') = Cardinality(observing)
          /\ begun' = begun /\ lost' = lost /\ strays' = strays /\ faults' = faults
      BY <2>1
    <3>2. tally'.recorded = tally'.rows
      BY <1>3, <2>3
    <3>3. begun' = tally'.recorded + tally'.failed + lost' + strays' + Cardinality(observing')
                   + Cardinality(RowsIn(ready'))
      <4> DEFINE n == IF Head(ready) = "row" THEN 1 ELSE 0
      <4>1. n \in Nat
        OBVIOUS
      <4>2. begun = tally.recorded + tally.failed + lost + strays + Cardinality(observing)
                    + (Cardinality(RowsIn(ready')) + n)
        BY <1>3, <2>2
      <4>3. begun = (tally.recorded + n) + tally.failed + lost + strays + Cardinality(observing)
                    + Cardinality(RowsIn(ready'))
        <5>1. Cardinality(RowsIn(ready')) \in Nat /\ Cardinality(observing) \in Nat
          BY <1>2, <2>2
        <5> DEFINE o == Cardinality(observing)
                   k == Cardinality(RowsIn(ready'))
        <5>2. o \in Nat /\ k \in Nat
          BY <5>1
        <5>3. tally.recorded + tally.failed + lost + strays + o + (k + n)
                = (tally.recorded + n) + tally.failed + lost + strays + o + k
          <6> HIDE DEF n, o, k
          <6> QED
            BY <1>4, <4>1, <5>2, RowIsStored
        <5> QED
          BY <4>2, <5>3
      <4>4. tally'.recorded = tally.recorded + n /\ tally'.failed = tally.failed
        BY <2>3
      <4> HIDE DEF n
      <4> QED
        BY <3>1, <4>3, <4>4
    <3>4. (lost' > 0 \/ strays' > 0) => faults' > 0
      BY <1>2, <1>3, <1>4, <2>2, <2>3, <3>1
    <3> QED
      BY <3>2, <3>3, <3>4, AccountOfNext
  <2> QED
    BY <2>1, <2>4, <2>5
<1>11. CASE WriteRaises
  <2>1. /\ faults < StoreFaults /\ faults' = faults + 1 /\ loop' = "after"
        /\ lost' = lost + Cardinality(RowsIn(ready)) /\ ready' = <<>>
        /\ strays' = strays + Cardinality(observing) /\ observing' = {}
        /\ UNCHANGED <<stop, asked, tally, begun>>
    BY <1>11 DEF WriteRaises, RowsIn
  <2>2. RecorderTypeOK'
    BY <1>1, <1>2, <2>1, RecorderAssumption DEF RecorderTypeOK
  <2>3. EveryObservationAccounted'
    <3>1. /\ Cardinality(observing') = 0 /\ Cardinality(RowsIn(ready')) = 0
          /\ begun' = begun /\ tally' = tally
      BY <2>1, NoRows
    <3>2. /\ lost' = lost + Cardinality(RowsIn(ready))
          /\ strays' = strays + Cardinality(observing) /\ faults' = faults + 1
      BY <2>1
    <3>3. tally'.recorded = tally'.rows
      BY <1>3, <3>1
    <3>4. begun' = tally'.recorded + tally'.failed + lost' + strays' + Cardinality(observing')
                   + Cardinality(RowsIn(ready'))
      <4>1. begun = tally.recorded + tally.failed + (lost + Cardinality(RowsIn(ready)))
                    + (strays + Cardinality(observing)) + 0 + 0
        BY <1>2, <1>3, <1>4, RowsAreLost
      <4> QED
        BY <3>1, <3>2, <4>1
    <3>5. (lost' > 0 \/ strays' > 0) => faults' > 0
      BY <1>2, <1>3, <1>4, <3>1, <3>2
    <3> QED
      BY <3>3, <3>4, <3>5, AccountOfNext
  <2> QED
    BY <2>1, <2>2, <2>3
<1>12. CASE CycleEnds
  <2>1. /\ observing = {} /\ ready = <<>> /\ tally' = [tally EXCEPT !.cycles = @ + 1]
        /\ loop' = "after" /\ UNCHANGED <<observing, ready, strays, stop, asked, lost, faults, begun>>
    BY <1>12 DEF CycleEnds
  <2>2. RecorderTypeOK'
    BY <1>1, <2>1 DEF RecorderTypeOK
  <2> QED
    BY <1>5, <1>1, <2>1, <2>2
<1>13. CASE UNCHANGED recorderVars
  BY <1>13 DEF recorderVars, RecorderTypeOK, EveryObservationAccounted
<1> QED
  BY <1>6, <1>7, <1>8, <1>9, <1>10, <1>11, <1>12, <1>13 DEF RecorderNext, RunSteps

\* Types of the recorder's state, for any targets and any number of failing writes.
THEOREM RecorderTypeCorrect == RecorderSpec => []RecorderTypeOK
<1>1. AccountInv => RecorderTypeOK
  BY DEF AccountInv
<1> QED
  BY <1>1, AccountStarts, AccountStep, PTL DEF RecorderSpec

\* EveryObservationAccounted: however observations interleave with writes that raise
\* and outlive the cycle they belong to, each is stored once, counted as failed, under
\* way, or lost to a write that failed.
THEOREM ObservationsAreAccounted == RecorderSpec => []EveryObservationAccounted
<1>1. AccountInv => EveryObservationAccounted
  BY DEF AccountInv
<1> QED
  BY <1>1, AccountStarts, AccountStep, PTL DEF RecorderSpec

-----------------------------------------------------------------------------
(* AuditTrail *)

Dirs == {"CEX_to_DEX", "DEX_to_CEX"}
NetNum == Int \cup {NoNet}
Verdicts == {NoNet} \cup {Verdict[p] : p \in Audited}
Row == [run : Nat, at : 0 .. LastInstant, pair : Audited, dir : Dirs \cup {NoNet},
        out : {"taken", "rejected"}, net : NetNum, verdict : Verdicts]
Decision == [run : Nat, at : 0 .. LastInstant, pair : Audited, nets : {<<>>} \cup (NetNum \X NetNum),
             verdict : Verdicts, kept : SUBSET (Dirs \cup {NoNet})]

\* There are two directions.
LEMMA TwoDirections ==
    /\ Range(Directions2) = Dirs /\ Directions2[1] = "CEX_to_DEX" /\ Directions2[2] = "DEX_to_CEX"
    /\ NoNet \notin Dirs /\ NoNet \notin Int
BY AuditAssumption DEF Directions2, Dirs, Range

\* The rows of a decision: one without a direction, or one for each.
LEMMA RowsShape ==
    ASSUME NEW d \in Decision
    PROVE  /\ RowsOf(d) \in Seq(Row)
           /\ \A i \in 1 .. Len(RowsOf(d)) :
                 LET r == RowsOf(d)[i]
                 IN  r.run = d.run /\ r.at = d.at /\ r.pair = d.pair /\ r.verdict = d.verdict
           /\ d.nets = <<>> => /\ Len(RowsOf(d)) = 1
                               /\ RowsOf(d)[1].dir = NoNet /\ RowsOf(d)[1].net = NoNet
           /\ d.nets # <<>> => /\ Len(RowsOf(d)) = 2
                               /\ RowsOf(d)[1].dir = "CEX_to_DEX" /\ RowsOf(d)[1].net = d.nets[1]
                               /\ RowsOf(d)[2].dir = "DEX_to_CEX" /\ RowsOf(d)[2].net = d.nets[2]
<1> DEFINE row(dir, out, net) == [run |-> d.run, at |-> d.at, pair |-> d.pair, dir |-> dir,
                                  out |-> out, net |-> net, verdict |-> d.verdict]
           above(i) == d.nets[i] # NoNet /\ d.nets[i] >= AuditFloor
           best == IF d.nets = <<>> THEN 0
                   ELSE IF above(1) /\ (above(2) => d.nets[1] >= d.nets[2]) THEN 1
                   ELSE IF above(2) THEN 2 ELSE 0
           out(i) == IF i = best THEN "taken" ELSE "rejected"
<1>1. RowsOf(d) = IF d.nets = <<>> THEN <<row(NoNet, "rejected", NoNet)>>
                  ELSE [i \in 1 .. 2 |-> row(Directions2[i], out(i), d.nets[i])]
  BY DEF RowsOf
<1>2. \A dir \in Dirs \cup {NoNet}, o \in {"taken", "rejected"}, net \in NetNum : row(dir, o, net) \in Row
  BY DEF Row, Decision
<1>3. \A i \in 1 .. 2 : out(i) \in {"taken", "rejected"}
  OBVIOUS
<1> HIDE DEF out, best
<1>4. CASE d.nets = <<>>
  <2>1. RowsOf(d) = <<row(NoNet, "rejected", NoNet)>>
    BY <1>1, <1>4
  <2>2. row(NoNet, "rejected", NoNet) \in Row
    BY <1>2 DEF NetNum
  <2>3. RowsOf(d) \in Seq(Row) /\ Len(RowsOf(d)) = 1 /\ RowsOf(d)[1] = row(NoNet, "rejected", NoNet)
    BY <2>1, <2>2
  <2> QED
    BY <1>4, <2>3
<1>5. CASE d.nets # <<>>
  <2>1. RowsOf(d) = [i \in 1 .. 2 |-> row(Directions2[i], out(i), d.nets[i])]
    BY <1>1, <1>5
  <2>2. d.nets[1] \in NetNum /\ d.nets[2] \in NetNum
    BY <1>5 DEF Decision
  <2>3. /\ row(Directions2[1], out(1), d.nets[1]) \in Row
        /\ row(Directions2[2], out(2), d.nets[2]) \in Row
    BY <1>2, <1>3, <2>2, TwoDirections DEF Dirs
  <2>4. \A i \in 1 .. 2 : RowsOf(d)[i] = row(Directions2[i], out(i), d.nets[i]) /\ RowsOf(d)[i] \in Row
    <3>1. \A i \in 1 .. 2 : i = 1 \/ i = 2
      OBVIOUS
    <3> QED
      BY <2>1, <2>3, <3>1
  <2>5. RowsOf(d) \in Seq(Row) /\ Len(RowsOf(d)) = 2
    <3>1. RowsOf(d) \in [1 .. 2 -> Row]
      BY <2>1, <2>4
    <3> QED
      BY <3>1
  <2> QED
    BY <1>5, <2>4, <2>5, TwoDirections
<1> QED
  BY <1>4, <1>5

\* The rows of a list of one or two that are in a set.
LEMMA ThoseOf ==
    ASSUME NEW S, NEW new \in Seq(S), Len(new) \in {1, 2}, NEW T
    PROVE  /\ Those(new, T) \in Seq(S)
           /\ Those(new, T) = IF new[1] \in T
                              THEN IF Len(new) = 2 /\ new[2] \in T THEN <<new[1], new[2]>> ELSE <<new[1]>>
                              ELSE IF Len(new) = 2 /\ new[2] \in T THEN <<new[2]>> ELSE <<>>
<1>1. DOMAIN new = 1 .. Len(new) /\ 1 \in DOMAIN new /\ (2 \in DOMAIN new <=> Len(new) = 2)
  BY LenProperties
<1>2. new[1] \in S /\ (Len(new) = 2 => new[2] \in S)
  BY <1>1, ElementOfSeq
<1>3. Those(new, T) = (IF new[1] \in T THEN <<new[1]>> ELSE <<>>)
                      \o (IF Len(new) = 2 /\ new[2] \in T THEN <<new[2]>> ELSE <<>>)
  BY <1>1 DEF Those
<1>4. /\ <<new[1]>> \o <<>> = <<new[1]>> /\ <<>> \o <<>> = <<>>
      /\ <<>> \o <<new[2]>> = <<new[2]>>
  OBVIOUS
<1>5. <<new[1]>> \o <<new[2]>> = <<new[1], new[2]>>
  BY PairOf
<1> QED
  BY <1>2, <1>3, <1>4, <1>5

\* What a decision has put on file is rows.
LEMMA KeptTyped ==
    ASSUME NEW d \in Decision
    PROVE  RowsKept(d) \in Seq(Row)
<1>1. RowsOf(d) \in Seq(Row) /\ Len(RowsOf(d)) \in {1, 2}
  BY RowsShape
<1> QED
  BY <1>1, ThoseOf DEF RowsKept

IsFile(f, s) ==
    /\ f \in [0 .. Len(s) -> Seq(Row)] /\ f[0] = <<>>
    /\ \A k \in 1 .. Len(s) : f[k] = Filed(f[k - 1], s[k])
    /\ Written(s) = f[Len(s)]

\* The file grows by one decision after the other.
LEMMA WrittenUnfolds ==
    ASSUME NEW s \in Seq(Decision)
    PROVE  \E f : IsFile(f, s)
<1> DEFINE N == Len(s)
           V == Seq(Row)
           file[k \in 0 .. N] == IF k = 0 THEN <<>> ELSE Filed(file[k - 1], s[k])
           step == [x \in (1 .. N) \X V |-> Filed(x[2], s[x[1]])]
<1>1. N \in Nat
  BY LenProperties
<1>2. step \in [(1 .. N) \X V -> V]
  <2>1. \A x \in (1 .. N) \X V : Filed(x[2], s[x[1]]) \in V
    <3> TAKE x \in (1 .. N) \X V
    <3>1. x[2] \in Seq(Row) /\ x[1] \in 1 .. Len(s)
      OBVIOUS
    <3>2. RowsKept(s[x[1]]) \in Seq(Row)
      BY <3>1, ElementOfSeq, KeptTyped
    <3> QED
      BY <3>1, <3>2, ConcatProperties DEF Filed
  <2> QED
    BY <2>1
<1>3. \A k \in 1 .. N, v \in V : step[<<k, v>>] = Filed(v, s[k])
  OBVIOUS
<1>4. <<>> \in V
  BY EmptySeq
<1> HIDE DEF step, N, V
<1>5. PICK f : Iterates(f, N, V, <<>>, step)
  BY <1>1, <1>2, <1>4, RecursionExists, Zenon
<1>6. /\ f \in [0 .. N -> V] /\ f[0] = <<>>
      /\ \A k \in 1 .. N : f[k] = step[<<k, f[k - 1]>>]
  BY <1>5 DEF Iterates
<1>7. ASSUME NEW k \in 1 .. N PROVE f[k] = Filed(f[k - 1], s[k])
  <2>1. k - 1 \in 0 .. N
    BY <1>1
  <2>2. f[k - 1] \in V
    BY <1>6, <2>1
  <2> QED
    BY <1>3, <1>6, <2>2
<1>8. \A k \in 0 .. N : f[k] = IF k = 0 THEN <<>> ELSE Filed(f[k - 1], s[k])
  <2>1. \A k \in 0 .. N : k = 0 \/ (k \in 1 .. N /\ k # 0)
    BY <1>1
  <2> QED
    BY <1>6, <1>7, <2>1
<1>9. f = [k \in 0 .. N |-> IF k = 0 THEN <<>> ELSE Filed(f[k - 1], s[k])]
  BY <1>6, <1>8
<1>10. file = CHOOSE g : g = [k \in 0 .. N |-> IF k = 0 THEN <<>> ELSE Filed(g[k - 1], s[k])]
  BY DEF file
<1>11. file = [k \in 0 .. N |-> IF k = 0 THEN <<>> ELSE Filed(file[k - 1], s[k])]
  BY <1>9, <1>10
<1>12. Written(s) = file[N]
  BY DEF Written, file, N
<1> HIDE DEF file
<1> DEFINE T == {k \in Nat : k <= N => file[k] = f[k]}
<1>13. 0 \in T
  BY <1>1, <1>6, <1>11
<1>14. ASSUME NEW k \in T PROVE k + 1 \in T
  <2> SUFFICES ASSUME k + 1 <= N PROVE file[k + 1] = f[k + 1]
    OBVIOUS
  <2>1. k \in Nat /\ k + 1 \in 0 .. N /\ k + 1 # 0 /\ k + 1 - 1 = k /\ k <= N /\ k + 1 \in 1 .. N
    BY <1>1
  <2>2. file[k] = f[k]
    BY <2>1
  <2>3. file[k + 1] = Filed(file[k + 1 - 1], s[k + 1])
    BY <1>11, <2>1
  <2>4. f[k + 1] = Filed(f[k + 1 - 1], s[k + 1])
    BY <1>7, <2>1
  <2> QED
    BY <2>1, <2>2, <2>3, <2>4
<1>15. T = Nat
  <2>1. T \in SUBSET Nat
    OBVIOUS
  <2> HIDE DEF T
  <2> QED
    BY <1>13, <1>14, <2>1, InductionOn
<1>16. Written(s) = f[N]
  BY <1>1, <1>12, <1>15
<1> QED
  BY <1>6, <1>7, <1>16 DEF IsFile, N, V

\* The last decision's rows come last.
LEMMA WrittenStep ==
    ASSUME NEW s \in Seq(Decision), NEW d \in Decision
    PROVE  Written(Append(s, d)) = Filed(Written(s), d)
<1> DEFINE u == Append(s, d)
<1>1. /\ u \in Seq(Decision) /\ Len(u) = Len(s) + 1 /\ u[Len(s) + 1] = d
      /\ \A k \in 1 .. Len(s) : u[k] = s[k]
  BY AppendProperties
<1>2. Len(s) \in Nat
  BY LenProperties
<1> HIDE DEF u
<1>3. PICK f : IsFile(f, s)
  BY WrittenUnfolds
<1>4. PICK g : IsFile(g, u)
  BY <1>1, WrittenUnfolds
<1> DEFINE T == {k \in Nat : k <= Len(s) => g[k] = f[k]}
<1>5. /\ f[0] = <<>> /\ Written(s) = f[Len(s)]
      /\ \A k \in 1 .. Len(s) : f[k] = Filed(f[k - 1], s[k])
  BY <1>3 DEF IsFile
<1>6. /\ g[0] = <<>> /\ Written(u) = g[Len(s) + 1]
      /\ \A k \in 1 .. Len(s) + 1 : g[k] = Filed(g[k - 1], u[k])
  BY <1>1, <1>4 DEF IsFile
<1>7. 0 \in T
  BY <1>2, <1>5, <1>6
<1>8. ASSUME NEW k \in T PROVE k + 1 \in T
  <2> SUFFICES ASSUME k + 1 <= Len(s) PROVE g[k + 1] = f[k + 1]
    OBVIOUS
  <2>1. k \in Nat /\ k + 1 - 1 = k /\ k <= Len(s) /\ k + 1 \in 1 .. Len(s) /\ k + 1 \in 1 .. Len(s) + 1
    BY <1>2
  <2>2. g[k] = f[k] /\ u[k + 1] = s[k + 1]
    BY <1>1, <2>1
  <2>3. f[k + 1] = Filed(f[k + 1 - 1], s[k + 1])
    BY <1>5, <2>1
  <2>4. g[k + 1] = Filed(g[k + 1 - 1], u[k + 1])
    BY <1>6, <2>1
  <2> QED
    BY <2>1, <2>2, <2>3, <2>4
<1>9. T = Nat
  <2>1. T \in SUBSET Nat
    OBVIOUS
  <2> HIDE DEF T
  <2> QED
    BY <1>7, <1>8, <2>1, InductionOn
<1>10. g[Len(s)] = f[Len(s)]
  BY <1>2, <1>9
<1>11. g[Len(s) + 1] = Filed(g[Len(s)], u[Len(s) + 1])
  <2>1. Len(s) + 1 \in 1 .. Len(s) + 1 /\ Len(s) + 1 - 1 = Len(s)
    BY <1>2
  <2>2. g[Len(s) + 1] = Filed(g[Len(s) + 1 - 1], u[Len(s) + 1])
    BY <1>6, <2>1
  <2> QED
    BY <2>1, <2>2
<1> QED
  BY <1>1, <1>5, <1>6, <1>10, <1>11 DEF u

\* No decision, no row.
LEMMA NothingWritten == Written(<<>>) = <<>>
<1>1. <<>> \in Seq(Decision) /\ Len(<<>>) = 0
  BY EmptySeq
<1>2. PICK f : IsFile(f, <<>>)
  BY <1>1, WrittenUnfolds
<1> QED
  BY <1>1, <1>2 DEF IsFile

\* What is among those rows: the rows in the set, in their order.
LEMMA AmongThose ==
    ASSUME NEW S, NEW new \in Seq(S), Len(new) \in {1, 2}, NEW T
    PROVE  LET t == Those(new, T)
           IN  /\ \A j \in 1 .. Len(t) : t[j] \in T /\ \E n \in 1 .. Len(new) : new[n] = t[j]
               /\ \A n \in 1 .. Len(new) : new[n] \in T => \E j \in 1 .. Len(t) : t[j] = new[n]
               /\ \A i, j \in 1 .. Len(t) : i < j => t[i] = new[1] /\ t[j] = new[2] /\ Len(new) = 2
<1> DEFINE t == Those(new, T)
<1>1. t = IF new[1] \in T
          THEN IF Len(new) = 2 /\ new[2] \in T THEN <<new[1], new[2]>> ELSE <<new[1]>>
          ELSE IF Len(new) = 2 /\ new[2] \in T THEN <<new[2]>> ELSE <<>>
  BY ThoseOf
<1> HIDE DEF t
<1>2. \A n \in 1 .. Len(new) : n = 1 \/ (n = 2 /\ Len(new) = 2)
  <2>1. CASE Len(new) = 1
    BY <2>1
  <2>2. CASE Len(new) = 2
    BY <2>2
  <2> QED
    BY <2>1, <2>2
<1>3. CASE new[1] \in T /\ Len(new) = 2 /\ new[2] \in T
  <2>1. Len(t) = 2 /\ t[1] = new[1] /\ t[2] = new[2]
    BY <1>1, <1>3
  <2>2. \A j \in 1 .. 2 : j = 1 \/ j = 2
    OBVIOUS
  <2> QED
    BY <1>3, <2>1, <2>2 DEF t
<1>4. CASE new[1] \in T /\ ~(Len(new) = 2 /\ new[2] \in T)
  <2>1. Len(t) = 1 /\ t[1] = new[1]
    BY <1>1, <1>4
  <2>2. \A j \in 1 .. 1 : j = 1
    OBVIOUS
  <2> QED
    BY <1>4, <1>2, <2>1, <2>2 DEF t
<1>5. CASE new[1] \notin T /\ Len(new) = 2 /\ new[2] \in T
  <2>1. Len(t) = 1 /\ t[1] = new[2]
    BY <1>1, <1>5
  <2>2. \A j \in 1 .. 1 : j = 1
    OBVIOUS
  <2> QED
    BY <1>5, <1>2, <2>1, <2>2 DEF t
<1>6. CASE new[1] \notin T /\ ~(Len(new) = 2 /\ new[2] \in T)
  <2>1. Len(t) = 0
    BY <1>1, <1>6
  <2> QED
    BY <1>6, <1>2, <2>1 DEF t
<1> QED
  BY <1>3, <1>4, <1>5, <1>6

\* The rows of a decision differ in their direction.
LEMMA RowsDiffer ==
    ASSUME NEW d \in Decision, NEW m \in 1 .. Len(RowsOf(d)), NEW n \in 1 .. Len(RowsOf(d)),
           RowsOf(d)[m].dir = RowsOf(d)[n].dir
    PROVE  m = n
<1>1. CASE d.nets = <<>>
  BY <1>1, RowsShape
<1>2. CASE d.nets # <<>>
  <2>1. Len(RowsOf(d)) = 2 /\ RowsOf(d)[1].dir # RowsOf(d)[2].dir
    BY <1>2, RowsShape
  <2>2. (m = 1 \/ m = 2) /\ (n = 1 \/ n = 2)
    BY <2>1
  <2> QED
    BY <2>1, <2>2
<1> QED
  BY <1>1, <1>2

\* What a decision adds to the file, and remembers to have added.
LEMMA EmitRows ==
    ASSUME NEW d0 \in Decision, NEW rows, NEW failing
    PROVE  LET new == RowsOf(d0)
               added == Insert(rows, new, failing)
               d == [d0 EXCEPT !.kept = {r.dir : r \in Range(added)}]
           IN  /\ d \in Decision /\ RowsOf(d) = new /\ RowsKept(d) = added /\ added \in Seq(Row)
               /\ d = [run |-> d0.run, at |-> d0.at, pair |-> d0.pair, nets |-> d0.nets,
                       verdict |-> d0.verdict, kept |-> d.kept]
               /\ \A n \in 1 .. Len(new) :
                     new[n].dir \in d.kept <=> new[n] \notin failing /\ ~Refuses(rows, new[n])
               /\ \A j \in 1 .. Len(added) :
                     \E n \in 1 .. Len(new) : added[j] = new[n] /\ new[n].dir \in d.kept
               /\ \A n \in 1 .. Len(new) :
                     new[n].dir \in d.kept => \E j \in 1 .. Len(added) : added[j] = new[n]
               /\ \A i, j \in 1 .. Len(added) : added[i].dir = added[j].dir => i = j
               /\ \A i, j \in 1 .. Len(added) : i < j => added[i].dir # "DEX_to_CEX"
<1> DEFINE new == RowsOf(d0)
           T == {r \in Range(new) \ failing : ~Refuses(rows, r)}
           added == Those(new, T)
           K == {r.dir : r \in Range(added)}
           d == [d0 EXCEPT !.kept = K]
<1>1. Insert(rows, new, failing) = added
  BY DEF Insert
<1>2. new \in Seq(Row) /\ Len(new) \in {1, 2} /\ DOMAIN new = 1 .. Len(new)
  BY RowsShape, LenProperties
<1>3. \A m, n \in 1 .. Len(new) : new[m].dir = new[n].dir => m = n
  BY RowsDiffer
<1>4. \A n \in 1 .. Len(new) : new[n] \in Row /\ new[n] \in Range(new)
  BY <1>2, ElementOfSeq DEF Range
<1>5. \A n \in 1 .. Len(new) : new[n] \in T <=> new[n] \notin failing /\ ~Refuses(rows, new[n])
  BY <1>4
<1> HIDE DEF T
<1>6. added \in Seq(Row)
  BY <1>2, ThoseOf
<1>7. /\ \A j \in 1 .. Len(added) : added[j] \in T /\ \E n \in 1 .. Len(new) : new[n] = added[j]
      /\ \A n \in 1 .. Len(new) : new[n] \in T => \E j \in 1 .. Len(added) : added[j] = new[n]
      /\ \A i, j \in 1 .. Len(added) : i < j => added[i] = new[1] /\ added[j] = new[2] /\ Len(new) = 2
  BY <1>2, AmongThose
<1>8. DOMAIN added = 1 .. Len(added) /\ Len(added) \in Nat
  BY <1>6, LenProperties
<1> HIDE DEF added
<1>9. K = {added[j].dir : j \in 1 .. Len(added)}
  BY <1>8 DEF Range
<1> HIDE DEF K, new
<1>10. \A n \in 1 .. Len(new) : new[n].dir \in K <=> new[n] \in T
  <2> TAKE n \in 1 .. Len(new)
  <2>1. ASSUME new[n].dir \in K PROVE new[n] \in T
    <3>1. PICK j \in 1 .. Len(added) : new[n].dir = added[j].dir
      BY <1>9, <2>1
    <3>2. PICK m \in 1 .. Len(new) : new[m] = added[j] /\ added[j] \in T
      BY <1>7
    <3> QED
      BY <1>3, <3>1, <3>2
  <2>2. ASSUME new[n] \in T PROVE new[n].dir \in K
    BY <1>7, <1>9, <2>2
  <2> QED
    BY <2>1, <2>2
<1>11. K \subseteq Dirs \cup {NoNet}
  <2>1. \A j \in 1 .. Len(added) : added[j] \in Row
    BY <1>6, ElementOfSeq
  <2> QED
    BY <1>9, <2>1 DEF Row
<1>12. /\ d = [run |-> d0.run, at |-> d0.at, pair |-> d0.pair, nets |-> d0.nets,
               verdict |-> d0.verdict, kept |-> K]
       /\ d \in Decision /\ d.kept = K
  BY <1>11 DEF Decision
<1>13. d.run = d0.run /\ d.at = d0.at /\ d.pair = d0.pair /\ d.nets = d0.nets /\ d.verdict = d0.verdict
  BY <1>12
<1> HIDE DEF d
<1>14. RowsOf(d) = new
  BY <1>13 DEF RowsOf, new
<1>15. RowsKept(d) = added
  <2> DEFINE U == {r \in Range(new) : r.dir \in K}
  <2>1. RowsKept(d) = Those(new, U)
    BY <1>12, <1>14 DEF RowsKept
  <2>2. \A n \in 1 .. Len(new) : new[n] \in U <=> new[n] \in T
    BY <1>4, <1>10
  <2> HIDE DEF U
  <2>3. Those(new, U) = Those(new, T)
    <3>1. 1 \in 1 .. Len(new) /\ (Len(new) = 2 => 2 \in 1 .. Len(new))
      BY <1>2
    <3> QED
      BY <1>2, <2>2, <3>1, ThoseOf
  <2> QED
    BY <2>1, <2>3 DEF added
<1>16. \A i, j \in 1 .. Len(added) : added[i].dir = added[j].dir => i = j
  <2> SUFFICES ASSUME NEW i \in 1 .. Len(added), NEW j \in 1 .. Len(added), added[i].dir = added[j].dir,
                      i < j
               PROVE  FALSE
    <3>1. \A i, j \in 1 .. Len(added) : i = j \/ i < j \/ j < i
      BY <1>8
    <3> QED
      BY <3>1
  <2>1. added[i] = new[1] /\ added[j] = new[2] /\ Len(new) = 2
    BY <1>7
  <2> QED
    BY <1>3, <2>1
<1>17. \A j \in 1 .. Len(added) : \E n \in 1 .. Len(new) : added[j] = new[n] /\ new[n].dir \in K
  BY <1>7, <1>10
<1>18. \A n \in 1 .. Len(new) : new[n].dir \in K => \E j \in 1 .. Len(added) : added[j] = new[n]
  BY <1>7, <1>10
<1>19. \A n \in 1 .. Len(new) : new[n].dir \in K <=> new[n] \notin failing /\ ~Refuses(rows, new[n])
  BY <1>5, <1>10
<1>20. \A i, j \in 1 .. Len(added) : i < j => added[i].dir # "DEX_to_CEX"
  <2>1. new[1].dir # "DEX_to_CEX"
    BY RowsShape, AuditAssumption DEF new
  <2> QED
    BY <1>7, <2>1
<1>21. d = [d0 EXCEPT !.kept = {r.dir : r \in Range(added)}]
  BY DEF d, K
<1> QED
  BY <1>1, <1>6, <1>12, <1>14, <1>15, <1>16, <1>17, <1>18, <1>19, <1>20, <1>21 DEF new

AuditShape ==
    /\ trail = [current |-> trail.current, rows |-> trail.rows] /\ trail.current \in BOOLEAN
    /\ trail.rows \in Seq(Row) /\ past \in Seq(Decision)
    /\ process.run \in Nat /\ process.pairs \subseteq Audited
    /\ process.pairs # {} => process.run > 0
    /\ due \subseteq process.pairs
    /\ wallClock \in 0 .. LastInstant
    /\ slips = [writes |-> slips.writes, clock |-> slips.clock]
    /\ slips.writes \in Nat /\ slips.clock \in Nat

\* Every row on file is one that a decision put there, and all that it did are there.
Traced ==
    /\ \A i \in 1 .. Len(trail.rows) : \E k \in 1 .. Len(past) : \E n \in 1 .. Len(RowsOf(past[k])) :
          RowsOf(past[k])[n] = trail.rows[i] /\ trail.rows[i].dir \in past[k].kept
    /\ \A k \in 1 .. Len(past) : \A n \in 1 .. Len(RowsOf(past[k])) :
          RowsOf(past[k])[n].dir \in past[k].kept =>
             \E i \in 1 .. Len(trail.rows) : trail.rows[i] = RowsOf(past[k])[n]

Same(a, b) == a.run = b.run /\ a.at = b.at /\ a.pair = b.pair /\ a.dir = b.dir /\ a.out = b.out

\* The unique index.
Indexed ==
    \A i, j \in 1 .. Len(trail.rows) :
        trail.rows[i].dir # NoNet /\ Same(trail.rows[i], trail.rows[j]) => i = j

\* Of a decision the row towards the pool comes first.
InTwoDecisions(ds, r) ==
    \E k, m \in 1 .. Len(ds) :
        /\ k # m
        /\ ds[k].run = r.run /\ ds[k].at = r.at /\ ds[k].pair = r.pair
        /\ ds[m].run = r.run /\ ds[m].at = r.at /\ ds[m].pair = r.pair

Turned(a, b) ==
    a.run = b.run /\ a.at = b.at /\ a.pair = b.pair /\ a.dir = "DEX_to_CEX" /\ b.dir = "CEX_to_DEX"

FirstThenSecond ==
    \A i, j \in 1 .. Len(trail.rows) :
        i < j /\ Turned(trail.rows[i], trail.rows[j]) => InTwoDecisions(past, trail.rows[i])

\* A run is one process, and none comes after a later one.
RunsInOrder ==
    /\ \A k \in 1 .. Len(past) : past[k].run = 0 \/ past[k].verdict = Verdict[past[k].pair]
    /\ \E b \in Nat : \A k \in 1 .. Len(past) : past[k].run <= b
    /\ process.pairs # {} => \A k \in 1 .. Len(past) : past[k].run <= process.run
    /\ \A i, j \in 1 .. Len(trail.rows) : i < j => trail.rows[i].run <= trail.rows[j].run

\* The rows are in the order of their times unless the clock was set back.
TimesInOrder ==
    slips.clock = 0 =>
        /\ \A i \in 1 .. Len(trail.rows) : trail.rows[i].at <= wallClock
        /\ \A i, j \in 1 .. Len(trail.rows) : i < j => trail.rows[i].at <= trail.rows[j].at

\* A row is missing for a reason.
Repeats(r, d) == r \in {[q EXCEPT !.net = r.net] : q \in Range(RowsOf(d))}

Excused ==
    \A k \in 1 .. Len(past) : \A n \in 1 .. Len(RowsOf(past[k])) :
        \/ RowsOf(past[k])[n].dir \in past[k].kept \/ slips.writes > 0
        \/ \E m \in 1 .. k - 1 : Repeats(RowsOf(past[k])[n], past[m])

AuditInv ==
    /\ AuditShape /\ Traced /\ Indexed /\ FirstThenSecond /\ RunsInOrder /\ TimesInOrder
    /\ Excused
    /\ trail.rows = Written(past)

\* The present columns make no difference to what is on file.
LEMMA FileUnchanged ==
    ASSUME AuditInv, UNCHANGED past, trail'.rows = trail.rows, slips'.writes = slips.writes, wallClock \in Nat,
           wallClock' \in Nat,
           slips'.clock = 0 => slips.clock = 0 /\ wallClock <= wallClock'
    PROVE  Traced' /\ Indexed' /\ FirstThenSecond' /\ TimesInOrder' /\ Excused' /\ trail'.rows = Written(past')
<1>1. trail'.rows = trail.rows /\ past' = past
  OBVIOUS
<1>2. Traced' /\ Indexed'
  BY <1>1 DEF AuditInv, Traced, Indexed
<1>3. FirstThenSecond'
  BY <1>1 DEF AuditInv, FirstThenSecond
<1>4. trail'.rows = Written(past')
  BY <1>1 DEF AuditInv
<1>5. Excused'
  BY <1>1 DEF AuditInv, Excused
<1>6. TimesInOrder'
  <2> SUFFICES ASSUME slips'.clock = 0
               PROVE  /\ \A i \in 1 .. Len(trail.rows) : trail.rows[i].at <= wallClock'
                      /\ \A i, j \in 1 .. Len(trail.rows) : i < j => trail.rows[i].at <= trail.rows[j].at
    BY <1>1 DEF TimesInOrder
  <2>1. \A i \in 1 .. Len(trail.rows) : trail.rows[i].at \in Nat
    <3>1. trail.rows \in Seq(Row)
      BY DEF AuditInv, AuditShape
    <3>2. LastInstant \in Nat
      BY AuditAssumption
    <3>3. \A i \in 1 .. Len(trail.rows) : trail.rows[i] \in Row
      BY <3>1, ElementOfSeq
    <3> QED
      BY <3>2, <3>3 DEF Row
  <2>2. /\ \A i \in 1 .. Len(trail.rows) : trail.rows[i].at <= wallClock
        /\ \A i, j \in 1 .. Len(trail.rows) : i < j => trail.rows[i].at <= trail.rows[j].at
    BY DEF AuditInv, TimesInOrder
  <2> QED
    BY <2>1, <2>2
<1> QED
  BY <1>2, <1>4, <1>5, <1>6, <1>3

\* A decision puts its rows on file: what is traced, indexed and ordered stays so, and
\* what it does not put there is excused.
LEMMA EmitKeeps ==
    ASSUME AuditInv, NEW p \in Audited, Emit(p)
    PROVE  AuditInv'
<1>1. /\ AuditShape /\ Traced /\ Indexed /\ FirstThenSecond /\ RunsInOrder /\ TimesInOrder
      /\ Excused
      /\ trail.rows = Written(past)
  BY DEF AuditInv
<1>2. PICK nets \in NetsOf[p] \cup {<<>>} :
         LET d == [run |-> process.run, at |-> wallClock, pair |-> p, nets |-> nets,
                   verdict |-> Verdict[p], kept |-> {}]
             new == RowsOf(d)
         IN  \E failing \in SUBSET Range(new) :
                LET kept == Insert(trail.rows, new, failing) IN
                /\ slips.writes + slips.clock + Cardinality(failing) <= MaxSlips
                /\ slips' = [slips EXCEPT !.writes = @ + Cardinality(failing)]
                /\ trail' = [trail EXCEPT !.rows = @ \o kept]
                /\ past' = Append(past, [d EXCEPT !.kept = {r.dir : r \in Range(kept)}])
  BY DEF Emit
<1> DEFINE d0 == [run |-> process.run, at |-> wallClock, pair |-> p, nets |-> nets,
                  verdict |-> Verdict[p], kept |-> {}]
           new == RowsOf(d0)
<1>3. PICK failing \in SUBSET Range(new) :
         /\ slips' = [slips EXCEPT !.writes = @ + Cardinality(failing)]
         /\ trail' = [trail EXCEPT !.rows = @ \o Insert(trail.rows, new, failing)]
         /\ past' = Append(past, [d0 EXCEPT !.kept = {r.dir : r \in Range(Insert(trail.rows, new, failing))}])
  BY <1>2
<1> DEFINE added == Insert(trail.rows, new, failing)
           d == [d0 EXCEPT !.kept = {r.dir : r \in Range(added)}]
<1>4. /\ p \in due /\ due' = due \ {p} /\ process' = process /\ wallClock' = wallClock
  BY DEF Emit
<1>5. /\ process.pairs # {} /\ process.run > 0 /\ process.run \in Nat /\ wallClock \in 0 .. LastInstant
      /\ trail.rows \in Seq(Row) /\ past \in Seq(Decision)
      /\ trail = [current |-> trail.current, rows |-> trail.rows]
      /\ slips = [writes |-> slips.writes, clock |-> slips.clock]
      /\ slips.writes \in Nat /\ slips.clock \in Nat
  BY <1>1, <1>4 DEF AuditShape
<1>6. d0 \in Decision
  <2>1. nets \in {<<>>} \cup (NetNum \X NetNum)
    BY AuditAssumption DEF NetNum
  <2>2. Verdict[p] \in Verdicts
    BY DEF Verdicts
  <2> QED
    BY <1>5, <2>1, <2>2 DEF Decision
<1>7. d0.run = process.run /\ d0.at = wallClock /\ d0.pair = p /\ d0.verdict = Verdict[p]
  OBVIOUS
<1>8. new \in Seq(Row) /\ Len(new) \in {1, 2} /\ Len(new) \in Nat /\ DOMAIN new = 1 .. Len(new)
  BY <1>6, RowsShape, LenProperties
<1>9. \A n \in 1 .. Len(new) :
         /\ new[n] \in Row /\ new[n].run = process.run /\ new[n].at = wallClock
         /\ new[n].pair = p /\ new[n].verdict = Verdict[p]
  BY <1>6, <1>7, <1>8, RowsShape, ElementOfSeq
<1> HIDE DEF d0
<1>10. /\ d \in Decision /\ RowsOf(d) = new /\ RowsKept(d) = added /\ added \in Seq(Row)
       /\ d = [run |-> d0.run, at |-> d0.at, pair |-> d0.pair, nets |-> d0.nets,
               verdict |-> d0.verdict, kept |-> d.kept]
       /\ \A n \in 1 .. Len(new) :
             new[n].dir \in d.kept <=> new[n] \notin failing /\ ~Refuses(trail.rows, new[n])
       /\ \A j \in 1 .. Len(added) :
             \E n \in 1 .. Len(new) : added[j] = new[n] /\ new[n].dir \in d.kept
       /\ \A n \in 1 .. Len(new) :
             new[n].dir \in d.kept => \E j \in 1 .. Len(added) : added[j] = new[n]
       /\ \A i, j \in 1 .. Len(added) : added[i].dir = added[j].dir => i = j
       /\ \A i, j \in 1 .. Len(added) : i < j => added[i].dir # "DEX_to_CEX"
  BY <1>6, EmitRows
<1>11. /\ slips' = [writes |-> slips.writes + Cardinality(failing), clock |-> slips.clock]
       /\ trail' = [current |-> trail.current, rows |-> trail.rows \o added]
       /\ past' = Append(past, d)
  BY <1>3, <1>5
<1>12. d.run = process.run /\ d.verdict = Verdict[p] /\ d.pair = p /\ d.at = wallClock
  BY <1>7, <1>10
<1> HIDE DEF added, d, new
<1>13. Cardinality(failing) \in Nat /\ (failing # {} => Cardinality(failing) > 0)
  <2>1. IsFiniteSet(Range(new))
    <3>1. Range(new) = {new[n] : n \in 1 .. Len(new)}
      BY <1>8 DEF Range
    <3>2. Range(new) \subseteq {new[1], new[2]}
      <4>1. \A n \in 1 .. Len(new) : n = 1 \/ n = 2
        BY <1>8
      <4> QED
        BY <3>1, <4>1
    <3>3. IsFiniteSet({new[1], new[2]})
      <4>1. IsFiniteSet({} \cup {new[1]})
        BY FS_EmptySet, FS_AddElement
      <4>2. IsFiniteSet({new[1]} \cup {new[2]})
        <5>1. {} \cup {new[1]} = {new[1]}
          OBVIOUS
        <5> QED
          BY <4>1, <5>1, FS_AddElement
      <4>3. {new[1]} \cup {new[2]} = {new[1], new[2]}
        OBVIOUS
      <4> QED
        BY <4>2, <4>3
    <3> QED
      BY <3>2, <3>3, FS_Subset
  <2>2. IsFiniteSet(failing)
    BY <2>1, FS_Subset
  <2>3. Cardinality(failing) \in Nat /\ (Cardinality(failing) = 0 <=> failing = {})
    BY <2>2, FS_CardinalityType, FS_EmptySet
  <2> QED
    BY <2>3
<1> DEFINE rows == trail.rows
           R == trail'.rows
<1>14. /\ R \in Seq(Row) /\ Len(R) = Len(rows) + Len(added) /\ Len(rows) \in Nat /\ Len(added) \in Nat
       /\ \A i \in 1 .. Len(rows) : i \in 1 .. Len(R) /\ R[i] = rows[i]
       /\ \A j \in 1 .. Len(added) : Len(rows) + j \in 1 .. Len(R) /\ R[Len(rows) + j] = added[j]
       /\ \A i \in 1 .. Len(R) : \/ i \in 1 .. Len(rows)
                                 \/ \E j \in 1 .. Len(added) : i = Len(rows) + j
  <2>1. R = rows \o added
    BY <1>11
  <2>2. rows \in Seq(Row) /\ added \in Seq(Row) /\ Len(rows) \in Nat /\ Len(added) \in Nat
    BY <1>5, <1>10, LenProperties
  <2> DEFINE c == rows \o added
  <2> HIDE DEF rows, R
  <2>3. /\ c \in Seq(Row) /\ Len(c) = Len(rows) + Len(added)
        /\ \A i \in 1 .. Len(rows) : i \in 1 .. Len(c) /\ c[i] = rows[i]
        /\ \A j \in 1 .. Len(added) : Len(rows) + j \in 1 .. Len(c) /\ c[Len(rows) + j] = added[j]
        /\ \A i \in 1 .. Len(c) : \/ i \in 1 .. Len(rows)
                                  \/ \E j \in 1 .. Len(added) : i = Len(rows) + j
    BY <2>2, ConcatSplits
  <2>4. R = c
    BY <2>1
  <2> HIDE DEF c
  <2> QED
    BY <2>2, <2>3, <2>4
<1>15. /\ past' \in Seq(Decision) /\ Len(past') = Len(past) + 1 /\ past'[Len(past) + 1] = d
       /\ \A k \in 1 .. Len(past) : past'[k] = past[k]
       /\ Len(past) \in Nat
       /\ Len(past) + 1 \in 1 .. Len(past')
       /\ \A k \in 1 .. Len(past') : k \in 1 .. Len(past) \/ k = Len(past) + 1
       /\ \A k \in 1 .. Len(past) : k \in 1 .. Len(past')
  <2>1. /\ past' \in Seq(Decision) /\ Len(past') = Len(past) + 1 /\ past'[Len(past) + 1] = d
        /\ \A k \in 1 .. Len(past) : past'[k] = past[k]
    BY <1>5, <1>10, <1>11, AppendProperties
  <2>2. Len(past) \in Nat
    BY <1>5, LenProperties
  <2> QED
    BY <2>1, <2>2
<1>16. \A j \in 1 .. Len(added) :
          /\ added[j] \in Row /\ added[j].run = process.run /\ added[j].at = wallClock
          /\ added[j].pair = p
  BY <1>9, <1>10
<1>17. \A i \in 1 .. Len(rows) : rows[i] \in Row
  BY <1>5, ElementOfSeq
<1> HIDE DEF rows, R
<1>18. AuditShape'
  <2>1. trail' = [current |-> trail'.current, rows |-> trail'.rows] /\ trail'.current \in BOOLEAN
    BY <1>1, <1>11 DEF AuditShape
  <2>2. trail'.rows \in Seq(Row)
    BY <1>14 DEF R
  <2>3. /\ slips' = [writes |-> slips'.writes, clock |-> slips'.clock]
        /\ slips'.writes \in Nat /\ slips'.clock \in Nat
    BY <1>5, <1>11, <1>13
  <2> QED
    BY <1>1, <1>4, <1>15, <2>1, <2>2, <2>3 DEF AuditShape
<1>19. Traced'
  <2>1. ASSUME NEW i \in 1 .. Len(R)
        PROVE  \E k \in 1 .. Len(past') : \E n \in 1 .. Len(RowsOf(past'[k])) :
                  RowsOf(past'[k])[n] = R[i] /\ R[i].dir \in past'[k].kept
    <3>1. CASE i \in 1 .. Len(rows)
      <4>1. PICK k \in 1 .. Len(past) : \E n \in 1 .. Len(RowsOf(past[k])) :
                  RowsOf(past[k])[n] = rows[i] /\ rows[i].dir \in past[k].kept
        BY <1>1, <3>1 DEF Traced, rows
      <4> QED
        BY <1>14, <1>15, <3>1, <4>1
    <3>2. ASSUME NEW j \in 1 .. Len(added), i = Len(rows) + j
          PROVE  \E k \in 1 .. Len(past') : \E n \in 1 .. Len(RowsOf(past'[k])) :
                    RowsOf(past'[k])[n] = R[i] /\ R[i].dir \in past'[k].kept
      <4>1. R[i] = added[j]
        BY <1>14, <3>2
      <4>2. PICK n \in 1 .. Len(new) : added[j] = new[n] /\ new[n].dir \in d.kept
        BY <1>10
      <4>3. past'[Len(past) + 1] = d /\ RowsOf(d) = new /\ Len(past) + 1 \in 1 .. Len(past')
        BY <1>10, <1>15
      <4>4. n \in 1 .. Len(RowsOf(d)) /\ RowsOf(d)[n] = R[i] /\ R[i].dir \in d.kept
        BY <4>1, <4>2, <4>3
      <4> QED
        BY <4>3, <4>4
    <3> QED
      BY <1>14, <3>1, <3>2
  <2>2. ASSUME NEW k \in 1 .. Len(past'), NEW n \in 1 .. Len(RowsOf(past'[k])),
               RowsOf(past'[k])[n].dir \in past'[k].kept
        PROVE  \E i \in 1 .. Len(R) : R[i] = RowsOf(past'[k])[n]
    <3>1. CASE k \in 1 .. Len(past)
      <4>1. past'[k] = past[k]
        BY <1>15, <3>1
      <4>2. PICK i \in 1 .. Len(rows) : rows[i] = RowsOf(past[k])[n]
        BY <1>1, <2>2, <3>1, <4>1 DEF Traced, rows
      <4> QED
        BY <1>14, <4>1, <4>2
    <3>2. CASE k = Len(past) + 1
      <4>1. past'[k] = d /\ RowsOf(past'[k]) = new
        BY <1>10, <1>15, <3>2
      <4>2. PICK j \in 1 .. Len(added) : added[j] = new[n]
        BY <1>10, <2>2, <4>1
      <4> QED
        BY <1>14, <4>1, <4>2
    <3> QED
      BY <1>15, <3>1, <3>2
  <2> QED
    BY <2>1, <2>2 DEF Traced, R
<1>20. Indexed'
  <2>1. ASSUME NEW i \in 1 .. Len(rows), NEW j \in 1 .. Len(added), added[j].dir # NoNet
        PROVE  ~Same(rows[i], added[j]) /\ ~Same(added[j], rows[i])
    <3>1. PICK n \in 1 .. Len(new) : added[j] = new[n] /\ new[n].dir \in d.kept
      BY <1>10
    <3>2. ~Refuses(trail.rows, added[j])
      BY <1>10, <3>1
    <3>3. i \in DOMAIN trail.rows
      BY <1>5, LenProperties DEF rows
    <3> QED
      BY <2>1, <3>2, <3>3 DEF Refuses, Same, rows
  <2>2. ASSUME NEW i \in 1 .. Len(R), NEW j \in 1 .. Len(R), R[i].dir # NoNet, Same(R[i], R[j])
        PROVE  i = j
    <3>1. CASE i \in 1 .. Len(rows) /\ j \in 1 .. Len(rows)
      BY <1>1, <1>14, <2>2, <3>1 DEF Indexed, rows
    <3>2. ASSUME i \in 1 .. Len(rows), NEW m \in 1 .. Len(added), j = Len(rows) + m PROVE FALSE
      <4>1. R[i] = rows[i] /\ R[j] = added[m]
        BY <1>14, <3>2
      <4> QED
        BY <2>1, <2>2, <3>2, <4>1 DEF Same
    <3>3. ASSUME j \in 1 .. Len(rows), NEW m \in 1 .. Len(added), i = Len(rows) + m PROVE FALSE
      <4>1. R[j] = rows[j] /\ R[i] = added[m]
        BY <1>14, <3>3
      <4> QED
        BY <2>1, <2>2, <3>3, <4>1 DEF Same
    <3>4. ASSUME NEW l \in 1 .. Len(added), NEW m \in 1 .. Len(added),
                 i = Len(rows) + l, j = Len(rows) + m
          PROVE  i = j
      <4>1. R[i] = added[l] /\ R[j] = added[m]
        BY <1>14, <3>4
      <4>2. added[l].dir = added[m].dir
        BY <2>2, <4>1 DEF Same
      <4>3. l = m
        BY <1>10, <4>2
      <4> QED
        BY <3>4, <4>3
    <3> QED
      BY <1>14, <3>1, <3>2, <3>3, <3>4
  <2> QED
    BY <2>2 DEF Indexed, R
<1>21. RunsInOrder'
  <2>1. \A k \in 1 .. Len(past') : past'[k].run = 0 \/ past'[k].verdict = Verdict[past'[k].pair]
    BY <1>1, <1>12, <1>15 DEF RunsInOrder
  <2>2. \A k \in 1 .. Len(past') : past'[k].run <= process.run
    <3>1. \A k \in 1 .. Len(past) : past[k].run <= process.run
      BY <1>1, <1>5 DEF RunsInOrder
    <3>2. process.run <= process.run
      BY <1>5
    <3> QED
      BY <1>12, <1>15, <3>1, <3>2
  <2>3. \A i \in 1 .. Len(rows) : rows[i].run <= process.run
    <3> TAKE i \in 1 .. Len(rows)
    <3>1. PICK k \in 1 .. Len(past) : \E n \in 1 .. Len(RowsOf(past[k])) : RowsOf(past[k])[n] = rows[i]
      BY <1>1 DEF Traced, rows
    <3>2. past[k] \in Decision
      BY <1>5, ElementOfSeq
    <3>3. rows[i].run = past[k].run
      BY <3>1, <3>2, RowsShape
    <3> QED
      BY <1>1, <1>5, <3>3 DEF RunsInOrder
  <2>4. ASSUME NEW i \in 1 .. Len(R), NEW j \in 1 .. Len(R), i < j PROVE R[i].run <= R[j].run
    <3>1. CASE j \in 1 .. Len(rows)
      <4>1. i \in 1 .. Len(rows)
        BY <1>14, <2>4, <3>1
      <4> QED
        BY <1>1, <1>14, <2>4, <3>1, <4>1 DEF RunsInOrder, rows
    <3>2. ASSUME NEW m \in 1 .. Len(added), j = Len(rows) + m PROVE R[i].run <= R[j].run
      <4>1. R[j].run = process.run
        BY <1>14, <1>16, <3>2
      <4>2. R[i].run <= process.run
        <5>1. CASE i \in 1 .. Len(rows)
          BY <1>14, <2>3, <5>1
        <5>2. ASSUME NEW l \in 1 .. Len(added), i = Len(rows) + l PROVE R[i].run <= process.run
          <6>1. R[i].run = process.run
            BY <1>14, <1>16, <5>2
          <6> QED
            BY <1>5, <6>1
        <5> QED
          BY <1>14, <5>1, <5>2
      <4> QED
        BY <4>1, <4>2
    <3> QED
      BY <1>14, <3>1, <3>2
  <2> QED
    BY <1>4, <1>5, <2>1, <2>2, <2>4 DEF RunsInOrder, R
<1>22. TimesInOrder'
  <2> SUFFICES ASSUME slips'.clock = 0
               PROVE  /\ \A i \in 1 .. Len(R) : R[i].at <= wallClock
                      /\ \A i, j \in 1 .. Len(R) : i < j => R[i].at <= R[j].at
    BY <1>4 DEF TimesInOrder, R
  <2>1. /\ \A i \in 1 .. Len(rows) : rows[i].at <= wallClock
        /\ \A i, j \in 1 .. Len(rows) : i < j => rows[i].at <= rows[j].at
    BY <1>1, <1>11 DEF TimesInOrder, rows
  <2>2. wallClock <= wallClock
    BY <1>5
  <2>3. \A i \in 1 .. Len(R) : R[i].at <= wallClock
    <3> TAKE i \in 1 .. Len(R)
    <3>1. CASE i \in 1 .. Len(rows)
      BY <1>14, <2>1, <3>1
    <3>2. ASSUME NEW m \in 1 .. Len(added), i = Len(rows) + m PROVE R[i].at <= wallClock
      <4>1. R[i].at = wallClock
        BY <1>14, <1>16, <3>2
      <4> QED
        BY <2>2, <4>1
    <3> QED
      BY <1>14, <3>1, <3>2
  <2>4. ASSUME NEW i \in 1 .. Len(R), NEW j \in 1 .. Len(R), i < j PROVE R[i].at <= R[j].at
    <3>1. CASE j \in 1 .. Len(rows)
      <4>1. i \in 1 .. Len(rows)
        BY <1>14, <2>4, <3>1
      <4> QED
        BY <1>14, <2>1, <2>4, <3>1, <4>1
    <3>2. ASSUME NEW m \in 1 .. Len(added), j = Len(rows) + m PROVE R[i].at <= R[j].at
      <4>1. R[j].at = wallClock
        BY <1>14, <1>16, <3>2
      <4> QED
        BY <2>3, <4>1
    <3> QED
      BY <1>14, <3>1, <3>2
  <2> QED
    BY <2>3, <2>4
<1>23. Excused'
  <2>1. ASSUME NEW k \in 1 .. Len(past'), NEW n \in 1 .. Len(RowsOf(past'[k]))
        PROVE  \/ RowsOf(past'[k])[n].dir \in past'[k].kept \/ slips'.writes > 0
               \/ \E m \in 1 .. k - 1 : Repeats(RowsOf(past'[k])[n], past'[m])
    <3>1. CASE k \in 1 .. Len(past)
      <4>1. past'[k] = past[k] /\ \A m \in 1 .. k - 1 : m \in 1 .. Len(past) /\ past'[m] = past[m]
        BY <1>15, <3>1
      <4>2. \/ RowsOf(past[k])[n].dir \in past[k].kept \/ slips.writes > 0
            \/ \E m \in 1 .. k - 1 : Repeats(RowsOf(past[k])[n], past[m])
        BY <1>1, <3>1, <4>1 DEF Excused
      <4>3. slips.writes > 0 => slips'.writes > 0
        BY <1>5, <1>11, <1>13
      <4> QED
        BY <4>1, <4>2, <4>3
    <3>2. CASE k = Len(past) + 1
      <4>1. past'[k] = d /\ RowsOf(past'[k]) = new /\ n \in 1 .. Len(new)
        BY <1>10, <1>15, <3>2
      <4> DEFINE r == new[n]
      <4>2. CASE r \in failing
        <5>1. Cardinality(failing) > 0
          BY <1>13, <4>2
        <5> QED
          BY <1>5, <1>11, <1>13, <5>1
      <4>3. CASE Refuses(trail.rows, r)
        <5>1. PICK i \in 1 .. Len(rows) : Same(rows[i], r)
          <6>1. DOMAIN trail.rows = 1 .. Len(rows)
            BY <1>5, LenProperties DEF rows
          <6> QED
            BY <4>3, <6>1 DEF Refuses, Same, rows
        <5>2. PICK m \in 1 .. Len(past) : \E l \in 1 .. Len(RowsOf(past[m])) : RowsOf(past[m])[l] = rows[i]
          BY <1>1 DEF Traced, rows
        <5>3. past[m] \in Decision
          BY <1>5, ElementOfSeq
        <5>4. rows[i].run = past[m].run /\ rows[i].pair = past[m].pair /\ rows[i].verdict = past[m].verdict
          BY <5>2, <5>3, RowsShape
        <5>5. r \in Row /\ r.run = process.run /\ r.pair = p /\ r.verdict = Verdict[p]
          BY <1>9, <4>1
        <5>6. past[m].run # 0 /\ past[m].pair = p
          <6>1. past[m].run = process.run /\ past[m].pair = p
            BY <5>1, <5>4, <5>5 DEF Same
          <6> QED
            BY <1>5, <6>1
        <5>7. rows[i].verdict = Verdict[p]
          BY <1>1, <5>4, <5>6 DEF RunsInOrder
        <5>8. r = [rows[i] EXCEPT !.net = r.net]
          <6> HIDE DEF r
          <6>1. rows[i] \in Row
            BY <1>17
          <6> QED
            BY <5>1, <5>5, <5>7, <6>1 DEF Row, Same
        <5>9. rows[i] \in Range(RowsOf(past[m]))
          <6>1. DOMAIN RowsOf(past[m]) = 1 .. Len(RowsOf(past[m]))
            BY <5>3, RowsShape, LenProperties
          <6> QED
            BY <5>2, <6>1 DEF Range
        <5>10. Repeats(r, past[m])
          BY <5>8, <5>9 DEF Repeats
        <5>11. m \in 1 .. k - 1 /\ past'[m] = past[m]
          BY <1>15, <3>2
        <5> QED
          BY <4>1, <5>10, <5>11
      <4>4. CASE r \notin failing /\ ~Refuses(trail.rows, r)
        BY <1>10, <4>1, <4>4
      <4> QED
        BY <4>2, <4>3, <4>4
    <3> QED
      BY <1>15, <3>1, <3>2
  <2> QED
    BY <2>1 DEF Excused
<1>24. trail'.rows = Written(past')
  <2>1. Written(past') = Filed(Written(past), d)
    BY <1>5, <1>10, <1>11, WrittenStep
  <2> QED
    BY <1>1, <1>10, <1>11, <2>1 DEF Filed
<1>25. FirstThenSecond'
  <2>1. ASSUME NEW r, InTwoDecisions(past, r) PROVE InTwoDecisions(past', r)
    <3>1. PICK k \in 1 .. Len(past), m \in 1 .. Len(past) :
             /\ k # m
             /\ past[k].run = r.run /\ past[k].at = r.at /\ past[k].pair = r.pair
             /\ past[m].run = r.run /\ past[m].at = r.at /\ past[m].pair = r.pair
      BY <2>1 DEF InTwoDecisions
    <3>2. /\ k \in 1 .. Len(past') /\ m \in 1 .. Len(past') /\ past'[k] = past[k] /\ past'[m] = past[m]
      BY <1>15
    <3> QED
      BY <3>1, <3>2 DEF InTwoDecisions
  <2>2. ASSUME NEW i \in 1 .. Len(R), NEW j \in 1 .. Len(R), i < j, Turned(R[i], R[j])
        PROVE  InTwoDecisions(past', R[i])
    <3>1. CASE j \in 1 .. Len(rows)
      <4>1. i \in 1 .. Len(rows)
        BY <1>14, <2>2, <3>1
      <4>2. R[i] = rows[i] /\ R[j] = rows[j]
        BY <1>14, <3>1, <4>1
      <4> QED
        BY <1>1, <2>1, <2>2, <3>1, <4>1, <4>2 DEF FirstThenSecond, rows
    <3>2. ASSUME i \in 1 .. Len(rows), NEW m \in 1 .. Len(added), j = Len(rows) + m
          PROVE  InTwoDecisions(past', R[i])
      <4>1. R[i] = rows[i] /\ R[j] = added[m]
        BY <1>14, <3>2
      <4>2. R[i].run = process.run /\ R[i].at = wallClock /\ R[i].pair = p
        BY <1>16, <2>2, <4>1 DEF Turned
      <4>3. PICK k \in 1 .. Len(past) : \E n \in 1 .. Len(RowsOf(past[k])) : RowsOf(past[k])[n] = rows[i]
        BY <1>1, <3>2 DEF Traced, rows
      <4>4. past[k].run = R[i].run /\ past[k].at = R[i].at /\ past[k].pair = R[i].pair
        <5>1. past[k] \in Decision
          BY <1>5, ElementOfSeq
        <5> QED
          BY <4>1, <4>3, <5>1, RowsShape
      <4>5. /\ k # Len(past) + 1 /\ k \in 1 .. Len(past') /\ past'[k] = past[k]
            /\ Len(past) + 1 \in 1 .. Len(past') /\ past'[Len(past) + 1] = d
        BY <1>15
      <4> QED
        BY <1>12, <4>2, <4>4, <4>5 DEF InTwoDecisions
    <3>3. ASSUME NEW l \in 1 .. Len(added), NEW m \in 1 .. Len(added),
                 i = Len(rows) + l, j = Len(rows) + m
          PROVE  FALSE
      <4>1. R[i] = added[l]
        BY <1>14, <3>3
      <4>2. Len(rows) \in Nat /\ l \in Int /\ m \in Int
        BY <1>14
      <4>3. l < m
        BY <2>2, <3>3, <4>2
      <4> QED
        BY <1>10, <2>2, <4>1, <4>3 DEF Turned
    <3>4. ASSUME j \notin 1 .. Len(rows) PROVE \E m \in 1 .. Len(added) : j = Len(rows) + m
      BY <1>14, <3>4
    <3> QED
      BY <1>14, <3>1, <3>2, <3>3, <3>4
  <2> QED
    BY <2>2 DEF FirstThenSecond, R
<1> QED
  BY <1>18, <1>19, <1>20, <1>21, <1>22, <1>23, <1>24, <1>25 DEF AuditInv

\* Opening the file, a cycle that starts, the end of a process and a clock set back
\* leave the rows alone.
LEMMA QuietSteps ==
    ASSUME AuditInv, OpenTrail \/ CycleStarts \/ Dies \/ ClockSetBack
    PROVE  AuditInv'
<1>1. /\ AuditShape /\ RunsInOrder
  BY DEF AuditInv
<1>2. /\ trail = [current |-> trail.current, rows |-> trail.rows] /\ trail.current \in BOOLEAN
      /\ trail.rows \in Seq(Row) /\ past \in Seq(Decision)
      /\ process.run \in Nat /\ process.pairs \subseteq Audited
      /\ process.pairs # {} => process.run > 0
      /\ due \subseteq process.pairs
      /\ wallClock \in 0 .. LastInstant /\ LastInstant \in Nat
      /\ slips = [writes |-> slips.writes, clock |-> slips.clock]
      /\ slips.writes \in Nat /\ slips.clock \in Nat
  BY <1>1, AuditAssumption DEF AuditShape
<1>3. /\ \A k \in 1 .. Len(past) : past[k].run = 0 \/ past[k].verdict = Verdict[past[k].pair]
      /\ \E b \in Nat : \A k \in 1 .. Len(past) : past[k].run <= b
      /\ \A i, j \in 1 .. Len(trail.rows) : i < j => trail.rows[i].run <= trail.rows[j].run
  BY <1>1 DEF RunsInOrder
<1>4. CASE OpenTrail
  <2>1. PICK pairs \in Listings :
           process' = [run |-> 1 + Max({0} \cup {past[i].run : i \in DOMAIN past}), pairs |-> pairs]
    BY <1>4 DEF OpenTrail
  <2>2. /\ trail' = [current |-> TRUE, rows |-> trail.rows]
        /\ wallClock' = wallClock /\ due' = due /\ past' = past /\ slips' = slips /\ process.pairs = {}
    BY <1>2, <1>4 DEF OpenTrail, Ended
  <2>3. pairs \subseteq Audited
    BY AuditAssumption
  <2> DEFINE S == {0} \cup {past[i].run : i \in DOMAIN past}
  <2>4. DOMAIN past = 1 .. Len(past) /\ \A k \in 1 .. Len(past) : past[k].run \in Nat
    <3>1. \A k \in 1 .. Len(past) : past[k] \in Decision
      BY <1>2, ElementOfSeq
    <3> QED
      BY <1>2, <3>1, LenProperties DEF Decision
  <2>5. PICK b \in Nat : \A k \in 1 .. Len(past) : past[k].run <= b
    BY <1>3
  <2>6. S \in SUBSET (0 .. b) /\ S # {}
    <3>1. \A k \in 1 .. Len(past) : past[k].run \in 0 .. b
      BY <2>4, <2>5
    <3> QED
      BY <2>4, <3>1
  <2> HIDE DEF S
  <2>7. Max(S) \in S /\ \A k \in S : k <= Max(S)
    BY <2>6, MaxOf
  <2>8. Max(S) \in Nat
    <3>1. \A k \in S : k \in Nat
      BY <2>6
    <3> QED
      BY <2>7, <3>1
  <2>9. process'.run = 1 + Max(S) /\ process'.pairs = pairs
    BY <2>1 DEF S
  <2>10. \A k \in 1 .. Len(past) : past[k].run <= process'.run
    <3>1. \A k \in 1 .. Len(past) : past[k].run \in S
      BY <2>4 DEF S
    <3> QED
      BY <2>4, <2>7, <2>8, <2>9, <3>1
  <2>11. AuditShape'
    BY <1>2, <2>2, <2>3, <2>8, <2>9 DEF AuditShape
  <2>12. RunsInOrder'
    BY <1>3, <2>2, <2>10 DEF RunsInOrder
  <2> QED
    BY <1>2, <2>2, <2>11, <2>12, FileUnchanged DEF AuditInv
<1>5. CASE CycleStarts
  <2>1. PICK g \in CycleGaps : wallClock' = wallClock + g
    BY <1>5 DEF CycleStarts
  <2>2. trail' = trail /\ process' = process /\ past' = past /\ slips' = slips
        /\ due' = process.pairs /\ wallClock' <= LastInstant
    BY <1>5 DEF CycleStarts
  <2>3. g \in Nat
    BY AuditAssumption
  <2>4. wallClock' \in 0 .. LastInstant /\ wallClock <= wallClock'
    BY <1>2, <2>1, <2>2, <2>3
  <2>5. AuditShape'
    BY <1>2, <2>2, <2>4 DEF AuditShape
  <2>6. RunsInOrder'
    BY <1>1, <2>2 DEF RunsInOrder
  <2> QED
    BY <1>2, <2>2, <2>4, <2>5, <2>6, FileUnchanged DEF AuditInv
<1>6. CASE Dies
  <2>1. trail' = trail /\ past' = past /\ slips' = slips /\ wallClock' = wallClock /\ due' = {}
        /\ process'.run = 0 /\ process'.pairs = {}
    BY <1>6 DEF Dies, Ended
  <2>2. AuditShape'
    BY <1>2, <2>1 DEF AuditShape
  <2>3. RunsInOrder'
    BY <1>3, <2>1 DEF RunsInOrder
  <2> QED
    BY <1>2, <2>1, <2>2, <2>3, FileUnchanged DEF AuditInv
<1>7. CASE ClockSetBack
  <2>1. trail' = trail /\ past' = past /\ process' = process /\ due' = due
        /\ wallClock' = wallClock - 1 /\ wallClock > 0
        /\ slips' = [writes |-> slips.writes, clock |-> slips.clock + 1]
    BY <1>2, <1>7 DEF ClockSetBack
  <2>2. wallClock' \in 0 .. LastInstant /\ slips'.writes = slips.writes /\ slips'.clock = slips.clock + 1
    BY <1>2, <2>1
  <2>3. slips'.clock \in Nat /\ slips'.clock # 0
    BY <1>2, <2>2
  <2>4. AuditShape'
    BY <1>2, <2>1, <2>2, <2>3 DEF AuditShape
  <2>5. RunsInOrder'
    BY <1>1, <2>1 DEF RunsInOrder
  <2> QED
    BY <1>2, <2>1, <2>2, <2>3, <2>4, <2>5, FileUnchanged DEF AuditInv
<1> QED
  BY <1>4, <1>5, <1>6, <1>7

\* A file of before, or none.
LEMMA AuditStarts == AuditInit => AuditInv
<1> SUFFICES ASSUME AuditInit PROVE AuditInv
  OBVIOUS
<1>1. /\ process.run = 0 /\ process.pairs = {} /\ wallClock = 0 /\ due = {}
      /\ slips = [writes |-> 0, clock |-> 0] /\ LastInstant \in Nat
  BY AuditAssumption DEF AuditInit, Ended
<1>2. PICK p \in Audited :
         LET d == [run |-> 0, at |-> 0, pair |-> p, nets |-> <<1, NoNet>>, verdict |-> NoNet,
                   kept |-> {"CEX_to_DEX", "DEX_to_CEX"}]
         IN  \/ trail = [current |-> FALSE, rows |-> <<>>] /\ past = <<>>
             \/ trail = [current |-> FALSE, rows |-> RowsOf(d)] /\ past = <<d>>
  BY DEF AuditInit
<1> DEFINE d == [run |-> 0, at |-> 0, pair |-> p, nets |-> <<1, NoNet>>, verdict |-> NoNet,
                 kept |-> {"CEX_to_DEX", "DEX_to_CEX"}]
<1>3. CASE trail = [current |-> FALSE, rows |-> <<>>] /\ past = <<>>
  <2>1. /\ trail.rows = <<>> /\ Len(trail.rows) = 0 /\ past = <<>> /\ Len(past) = 0
        /\ trail.current = FALSE
        /\ <<>> \in Seq(Row) /\ <<>> \in Seq(Decision)
    BY <1>3, EmptySeq
  <2>2. AuditShape
    BY <1>1, <1>3, <2>1 DEF AuditShape
  <2>3. Traced /\ Indexed /\ FirstThenSecond /\ TimesInOrder /\ Excused
    BY <2>1 DEF Traced, Indexed, FirstThenSecond, TimesInOrder, Excused
  <2>4. RunsInOrder
    BY <1>1, <2>1 DEF RunsInOrder
  <2> QED
    BY <2>1, <2>2, <2>3, <2>4, NothingWritten DEF AuditInv
<1>4. CASE trail = [current |-> FALSE, rows |-> RowsOf(d)] /\ past = <<d>>
  <2>1. d \in Decision /\ d.nets # <<>> /\ d.run = 0 /\ d.at = 0 /\ d.kept = Dirs
    <3>1. <<1, NoNet>> \in NetNum \X NetNum /\ <<1, NoNet>> # <<>>
      BY DEF NetNum
    <3> QED
      BY <1>1, <3>1 DEF Decision, Verdicts, Dirs
  <2> HIDE DEF d
  <2> DEFINE new == RowsOf(d)
  <2>2. /\ new \in Seq(Row) /\ Len(new) = 2 /\ new[1].dir = "CEX_to_DEX" /\ new[2].dir = "DEX_to_CEX"
        /\ new[1].run = 0 /\ new[2].run = 0 /\ new[1].at = 0 /\ new[2].at = 0
    <3>1. /\ new \in Seq(Row) /\ Len(new) = 2 /\ new[1].dir = "CEX_to_DEX" /\ new[2].dir = "DEX_to_CEX"
          /\ \A i \in 1 .. Len(new) : new[i].run = d.run /\ new[i].at = d.at
      BY <2>1, RowsShape
    <3>2. 1 \in 1 .. Len(new) /\ 2 \in 1 .. Len(new)
      BY <3>1
    <3> QED
      BY <2>1, <3>1, <3>2
  <2>3. /\ trail.rows = new /\ trail.current = FALSE /\ past = <<d>> /\ past \in Seq(Decision)
        /\ Len(past) = 1 /\ past[1] = d
    BY <1>4, <2>1 DEF d
  <2>4. (\A i \in 1 .. Len(new) : i = 1 \/ i = 2) /\ (\A k \in 1 .. Len(past) : k = 1) /\ 1 \in 1 .. Len(past)
    BY <2>2, <2>3
  <2>5. \A n \in 1 .. Len(new) : new[n].dir \in d.kept /\ new[n].run = 0 /\ new[n].at = 0
    BY <2>1, <2>2, <2>4 DEF Dirs
  <2>6. trail = [current |-> trail.current, rows |-> trail.rows]
    BY <1>4
  <2> HIDE DEF new
  <2>7. AuditShape
    <3>1. slips.writes = 0 /\ slips.clock = 0 /\ wallClock \in 0 .. LastInstant
      BY <1>1
    <3>2. trail.rows \in Seq(Row) /\ trail.current \in BOOLEAN
      BY <2>2, <2>3
    <3> QED
      BY <1>1, <2>3, <2>6, <3>1, <3>2 DEF AuditShape
  <2>8. Traced
    <3>1. RowsOf(past[1]) = new
      BY <2>3 DEF new
    <3> QED
      BY <2>3, <2>4, <2>5, <3>1 DEF Traced
  <2>9. Indexed
    BY <2>2, <2>3, <2>4 DEF Indexed, Same
  <2>10. RunsInOrder
    <3>1. \A k \in 1 .. Len(past) : past[k].run = 0
      BY <2>1, <2>3, <2>4
    <3>2. \E b \in Nat : \A k \in 1 .. Len(past) : past[k].run <= b
      <4>1. 0 \in Nat /\ \A k \in 1 .. Len(past) : past[k].run <= 0
        BY <3>1
      <4> QED
        BY <4>1
    <3> QED
      BY <1>1, <2>3, <2>5, <3>1, <3>2 DEF RunsInOrder
  <2>11. TimesInOrder
    BY <1>1, <2>3, <2>5 DEF TimesInOrder
  <2>12. Excused
    BY <2>3, <2>4, <2>5 DEF Excused, new
  <2>13. trail.rows = Written(past)
    <3>1. past = Append(<<>>, d) /\ <<>> \in Seq(Decision)
      BY <2>1, <2>3, EmptySeq
    <3>2. Written(past) = Filed(<<>>, d)
      BY <2>1, <3>1, NothingWritten, WrittenStep
    <3>3. RowsKept(d) = new
      <4> DEFINE T == {r \in Range(new) : r.dir \in d.kept}
      <4>1. RowsKept(d) = Those(new, T)
        BY DEF RowsKept, new
      <4>2. new[1] \in T /\ new[2] \in T
        <5>1. 1 \in DOMAIN new /\ 2 \in DOMAIN new /\ 1 \in 1 .. Len(new) /\ 2 \in 1 .. Len(new)
          BY <2>2, LenProperties
        <5> QED
          BY <2>5, <5>1 DEF Range
      <4> HIDE DEF T
      <4>3. Those(new, T) = <<new[1], new[2]>>
        BY <2>2, <4>2, ThoseOf
      <4>4. new = <<new[1], new[2]>>
        <5> DEFINE t == <<new[1], new[2]>>
        <5>1. t \in Seq(Row) /\ Len(t) = 2 /\ t[1] = new[1] /\ t[2] = new[2]
          <6>1. 1 \in 1 .. Len(new) /\ 2 \in 1 .. Len(new)
            BY <2>2
          <6>2. new[1] \in Row /\ new[2] \in Row
            BY <2>2, <6>1, ElementOfSeq
          <6> QED
            BY <6>2
        <5> HIDE DEF t
        <5>2. \A i \in 1 .. Len(new) : new[i] = t[i]
          BY <2>4, <5>1
        <5>3. new = t
          BY <2>2, <5>1, <5>2, SeqEqual
        <5> QED
          BY <5>3 DEF t
      <4> QED
        BY <4>1, <4>3, <4>4
    <3>4. <<>> \o new = new
      BY <2>2, ConcatEmptySeq
    <3> QED
      BY <2>3, <3>2, <3>3, <3>4 DEF Filed
  <2>14. FirstThenSecond
    <3>1. \A i, j \in 1 .. Len(new) : i < j => new[i].dir # "DEX_to_CEX"
      BY <2>2, <2>4
    <3> QED
      BY <2>3, <3>1 DEF FirstThenSecond, Turned
  <2> QED
    BY <2>14, <2>7, <2>8, <2>9, <2>10, <2>11, <2>12, <2>13 DEF AuditInv
<1> QED
  BY <1>2, <1>3, <1>4

\* The file through any number of runs.
LEMMA AuditInvariance == AuditSpec => []AuditInv
<1>1. AuditInv /\ [AuditNext]_auditVars => AuditInv'
  <2> SUFFICES ASSUME AuditInv, [AuditNext]_auditVars PROVE AuditInv'
    OBVIOUS
  <2>1. ASSUME NEW p \in Audited, Emit(p) PROVE AuditInv'
    BY <2>1, EmitKeeps
  <2>2. CASE OpenTrail \/ CycleStarts \/ Dies \/ ClockSetBack
    BY <2>2, QuietSteps
  <2>3. CASE UNCHANGED auditVars
    <3>1. UNCHANGED <<trail, process, wallClock, due, past, slips>>
      BY <2>3 DEF auditVars
    <3>2. AuditShape /\ RunsInOrder /\ wallClock \in Nat
      BY AuditAssumption DEF AuditInv, AuditShape
    <3>3. AuditShape' /\ RunsInOrder'
      BY <3>1, <3>2 DEF AuditShape, RunsInOrder
    <3> QED
      BY <3>1, <3>2, <3>3, FileUnchanged DEF AuditInv
  <2> QED
    BY <2>1, <2>2, <2>3 DEF AuditNext
<1> QED
  BY <1>1, AuditStarts, PTL DEF AuditSpec

\* AuditTypeOK: the file and the process keep their types.
THEOREM AuditTypeCorrect == AuditSpec => []AuditTypeOK
<1>1. AuditInv => AuditTypeOK
  <2> SUFFICES ASSUME AuditInv PROVE AuditTypeOK
    OBVIOUS
  <2>1. AuditShape
    BY DEF AuditInv
  <2>2. DOMAIN trail.rows = 1 .. Len(trail.rows) /\ \A i \in 1 .. Len(trail.rows) : trail.rows[i] \in Row
    BY <2>1, LenProperties, ElementOfSeq DEF AuditShape
  <2> QED
    BY <2>1, <2>2, TwoDirections DEF AuditShape, AuditTypeOK, Row, NetNum
<1> QED
  BY <1>1, AuditInvariance, PTL

\* The file says what was decided.
LEMMA TrailIsFaithful ==
    ASSUME AuditInv
    PROVE  TrailFaithful
<1>1. AuditShape /\ Excused /\ trail.rows = Written(past)
  BY DEF AuditInv
<1>2. past \in Seq(Decision) /\ DOMAIN past = 1 .. Len(past)
  BY <1>1, LenProperties DEF AuditShape
<1>3. ASSUME NEW k \in DOMAIN past, NEW r \in Range(RowsOf(past[k]))
      PROVE  \/ r.dir \in past[k].kept \/ slips.writes > 0
             \/ \E m \in 1 .. k - 1 : r \in {[q EXCEPT !.net = r.net] : q \in Range(RowsOf(past[m]))}
  <2>1. k \in 1 .. Len(past) /\ past[k] \in Decision
    BY <1>2, ElementOfSeq
  <2>2. PICK n \in DOMAIN RowsOf(past[k]) : r = RowsOf(past[k])[n]
    BY DEF Range
  <2>3. n \in 1 .. Len(RowsOf(past[k]))
    BY <2>1, RowsShape, LenProperties
  <2>4. \/ RowsOf(past[k])[n].dir \in past[k].kept \/ slips.writes > 0
        \/ \E m \in 1 .. k - 1 : Repeats(RowsOf(past[k])[n], past[m])
    BY <1>1, <2>1, <2>3 DEF Excused
  <2> QED
    BY <2>2, <2>4 DEF Repeats
<1> QED
  BY <1>1, <1>3 DEF TrailFaithful

\* The run of the latest row is the last one.
LEMMA LatestIsChosen ==
    ASSUME AuditInv
    PROVE  LatestChosen
<1> SUFFICES ASSUME trail.rows # <<>>, slips.clock = 0
             PROVE  ChosenRun(trail.rows) = Last(trail.rows).run
  BY DEF LatestChosen
<1> DEFINE rows == trail.rows
           N == Len(rows)
<1>1. /\ rows \in Seq(Row) /\ DOMAIN rows = 1 .. N /\ N \in Nat /\ N # 0 /\ N \in 1 .. N
      /\ LastInstant \in Nat
  <2>1. rows \in Seq(Row)
    BY DEF AuditInv, AuditShape
  <2>2. DOMAIN rows = 1 .. N /\ N \in Nat
    BY <2>1, LenProperties
  <2>3. N # 0
    BY <2>1, EmptySeq
  <2> QED
    BY <2>1, <2>2, <2>3, AuditAssumption
<1>2. \A i \in 1 .. N : rows[i].at \in 0 .. LastInstant /\ rows[i].at \in Nat /\ rows[i].run \in Nat
  <2>1. \A i \in 1 .. N : rows[i] \in Row
    BY <1>1, ElementOfSeq
  <2> QED
    BY <1>1, <2>1 DEF Row
<1>3. \A i \in 1 .. N : i < N => rows[i].at <= rows[N].at /\ rows[i].run <= rows[N].run
  BY <1>1 DEF AuditInv, RunsInOrder, TimesInOrder
<1>4. \A i \in 1 .. N : i = N \/ i < N
  BY <1>1
<1>5. \A i \in 1 .. N : rows[i].at <= rows[N].at /\ rows[i].run <= rows[N].run
  <2>1. rows[N].at <= rows[N].at /\ rows[N].run <= rows[N].run
    BY <1>1, <1>2
  <2> QED
    BY <1>3, <1>4, <2>1
<1> DEFINE A == {rows[i].at : i \in DOMAIN rows}
           latest == Max(A)
           B == {rows[i].run : i \in {j \in DOMAIN rows : rows[j].at = latest}}
<1>6. ChosenRun(rows) = Max(B) /\ Last(rows) = rows[N]
  BY DEF ChosenRun, Last
<1> HIDE DEF rows, N
<1>7. A \in SUBSET (0 .. LastInstant) /\ rows[N].at \in A /\ \A a \in A : a <= rows[N].at
  BY <1>1, <1>2, <1>5
<1> HIDE DEF A
<1>8. latest = rows[N].at
  <2>1. latest \in A /\ \A k \in A : k <= latest
    BY <1>1, <1>7, MaxOf
  <2> HIDE DEF latest
  <2>2. latest \in Nat /\ rows[N].at \in Nat
    BY <1>1, <1>2, <1>7, <2>1
  <2>3. latest <= rows[N].at /\ rows[N].at <= latest
    BY <1>7, <2>1
  <2> QED
    BY <2>2, <2>3
<1> HIDE DEF latest
<1>9. rows[N].run \in B /\ (\A b \in B : b <= rows[N].run) /\ B \in SUBSET (0 .. rows[N].run)
  <2>1. rows[N].run \in B
    BY <1>1, <1>8
  <2>2. ASSUME NEW b \in B PROVE b <= rows[N].run /\ b \in 0 .. rows[N].run
    <3>1. PICK i \in 1 .. N : b = rows[i].run
      BY <1>1
    <3> QED
      BY <1>1, <1>2, <1>5, <3>1
  <2> QED
    BY <2>1, <2>2
<1> HIDE DEF B
<1>10. Max(B) = rows[N].run
  <2>1. Max(B) \in B /\ \A k \in B : k <= Max(B)
    BY <1>1, <1>2, <1>9, MaxOf
  <2>2. Max(B) \in Nat /\ rows[N].run \in Nat
    <3>1. \A b \in B : b \in Nat
      BY <1>9
    <3> QED
      BY <1>1, <1>2, <2>1, <3>1
  <2>3. Max(B) <= rows[N].run /\ rows[N].run <= Max(B)
    BY <1>9, <2>1
  <2> QED
    BY <2>2, <2>3
<1> QED
  BY <1>6, <1>10 DEF rows

\* How far two instants are apart.
LEMMA ApartTyped ==
    ASSUME NEW a \in Nat, NEW b \in Nat, NEW c \in Nat
    PROVE  Apart(a, b + c) \in Nat /\ Apart(a, b) \in Nat /\ Apart(a, b) = Apart(b, a) /\ Apart(a, a) = 0
BY DEF Apart

\* The nearest row and the first of several: one that no other is ahead of.
LEMMA NearestExists ==
    ASSUME NEW S \in SUBSET Nat, S # {}, NEW off, \A j \in S : off[j] \in Nat
    PROVE  \E b \in S : {j \in S : \A k \in S : off[j] < off[k] \/ (off[j] = off[k] /\ j <= k)} = {b}
<1> DEFINE D == {off[j] : j \in S}
<1>1. D \in SUBSET Nat /\ D # {}
  OBVIOUS
<1>2. PICK m \in D : \A x \in D : m <= x
  BY <1>1, LeastOf
<1> DEFINE E == {j \in S : off[j] = m}
<1>3. E \in SUBSET Nat /\ E # {}
  BY <1>2
<1>4. PICK b \in E : \A k \in E : b <= k
  BY <1>3, LeastOf
<1>5. b \in S /\ off[b] = m /\ b \in Nat /\ m \in Nat
  BY <1>1, <1>3
<1>6. \A k \in S : off[k] \in Nat /\ m <= off[k] /\ k \in Nat
  BY <1>2
<1>7. \A k \in S : off[k] = m => b <= k
  BY <1>4
<1> HIDE DEF D, E
<1>8. ASSUME NEW k \in S PROVE off[b] < off[k] \/ (off[b] = off[k] /\ b <= k)
  <2>1. off[k] \in Nat /\ m <= off[k]
    BY <1>6
  <2>2. CASE off[k] = m
    BY <1>5, <1>7, <2>2
  <2>3. CASE off[k] # m
    BY <1>5, <2>1, <2>3
  <2> QED
    BY <2>2, <2>3
<1>9. ASSUME NEW j \in S, \A k \in S : off[j] < off[k] \/ (off[j] = off[k] /\ j <= k)
      PROVE  j = b
  <2>1. off[j] < off[b] \/ (off[j] = off[b] /\ j <= b)
    BY <1>5, <1>9
  <2>2. off[b] < off[j] \/ (off[b] = off[j] /\ b <= j)
    BY <1>8
  <2>3. off[j] \in Nat /\ off[b] \in Nat /\ j \in Nat /\ b \in Nat
    BY <1>5, <1>6
  <2> QED
    BY <2>1, <2>2, <2>3
<1> DEFINE best == {j \in S : \A k \in S : off[j] < off[k] \/ (off[j] = off[k] /\ j <= k)}
<1>10. best = {b}
  <2>1. b \in best
    BY <1>5, <1>8
  <2>2. \A j \in best : j = b
    BY <1>9
  <2> HIDE DEF best
  <2> QED
    BY <2>1, <2>2
<1> QED
  BY <1>5, <1>10

\* A markout is the net of the row nearest to the offset.
LEMMA MarkoutIsTrue ==
    ASSUME AuditInv
    PROVE  MarkoutTrue
<1> SUFFICES ASSUME NEW i \in DOMAIN trail.rows
             PROVE  LET r == trail.rows[i]
                        n(d) == CHOOSE k \in 1 .. 2 : Directions2[k] = r.dir
                        series == {k \in DOMAIN past :
                                      LET d == past[k] IN
                                      /\ d.run = r.run /\ d.pair = r.pair
                                      /\ d.nets # <<>> /\ r.dir \in d.kept /\ d.nets[n(d)] # NoNet
                                      /\ Apart(d.at, r.at + Offset) <= Within}
                        a == Markout(trail.rows, i)
                    IN  IF a # NoNet
                        THEN \E k \in series :
                                /\ past[k].nets[n(past[k])] = a
                                /\ \A m \in series :
                                      \/ Apart(past[k].at, r.at + Offset) <= Apart(past[m].at, r.at + Offset)
                                      \/ past[m].at = r.at
                        ELSE r.dir = NoNet \/ \A k \in series : past[k].at = r.at
  BY DEF MarkoutTrue
<1> DEFINE rows == trail.rows
           r == rows[i]
           c == CHOOSE k \in 1 .. 2 : Directions2[k] = r.dir
           off == [j \in DOMAIN rows |-> Apart(rows[j].at, r.at + Offset)]
           among == MarkoutRows(rows, i)
           series == {k \in DOMAIN past :
                         /\ past[k].run = r.run /\ past[k].pair = r.pair
                         /\ past[k].nets # <<>> /\ r.dir \in past[k].kept /\ past[k].nets[c] # NoNet
                         /\ Apart(past[k].at, r.at + Offset) <= Within}
<1>1. /\ rows \in Seq(Row) /\ DOMAIN rows = 1 .. Len(rows) /\ Len(rows) \in Nat
      /\ past \in Seq(Decision) /\ DOMAIN past = 1 .. Len(past)
      /\ Offset \in Nat /\ Within \in Nat /\ LastInstant \in Nat
  BY AuditAssumption, LenProperties DEF AuditInv, AuditShape
<1>2. \A j \in DOMAIN rows : rows[j] \in Row
  BY <1>1, ElementOfSeq
<1>3. \A j \in DOMAIN rows : off[j] \in Nat
  <2> TAKE j \in DOMAIN rows
  <2>1. rows[j].at \in Nat /\ r.at \in Nat
    BY <1>1, <1>2 DEF Row
  <2>2. Apart(rows[j].at, r.at + Offset) \in Nat
    BY <1>1, <2>1, ApartTyped
  <2> QED
    BY <2>2
<1>4. /\ among \subseteq DOMAIN rows \ {i}
      /\ \A j \in DOMAIN rows : j \in among <=>
            /\ j # i /\ rows[j].pair = r.pair /\ rows[j].dir = r.dir /\ rows[j].run = r.run
            /\ rows[j].net # NoNet /\ off[j] <= Within
  BY DEF MarkoutRows
<1>5. Markout(rows, i) =
         LET best == {j \in among : \A k \in among : off[j] < off[k] \/ (off[j] = off[k] /\ j <= k)}
         IN  IF among = {} THEN NoNet ELSE rows[Max(best)].net
  BY <1>4 DEF Markout
<1>6. r \in Row /\ (r.dir \in Dirs => c \in 1 .. 2 /\ Directions2[c] = r.dir)
  <2>1. r \in Row
    BY <1>2
  <2>2. ASSUME r.dir \in Dirs PROVE \E k \in 1 .. 2 : Directions2[k] = r.dir
    BY <2>2, TwoDirections DEF Dirs
  <2> QED
    BY <2>1, <2>2
<1> HIDE DEF among, off, c, rows
<1>7. ASSUME NEW k \in series, r.dir \in Dirs
      PROVE  \E j \in DOMAIN rows : /\ rows[j].pair = r.pair /\ rows[j].dir = r.dir /\ rows[j].run = r.run
                                    /\ rows[j].net = past[k].nets[c] /\ rows[j].at = past[k].at
  <2>1. k \in 1 .. Len(past) /\ past[k] \in Decision
    BY <1>1, ElementOfSeq
  <2>2. c \in 1 .. Len(RowsOf(past[k])) /\ RowsOf(past[k])[c].dir = r.dir
        /\ RowsOf(past[k])[c].net = past[k].nets[c]
    BY <1>6, <1>7, <2>1, RowsShape, TwoDirections
  <2>3. PICK j \in 1 .. Len(rows) : rows[j] = RowsOf(past[k])[c]
    BY <2>1, <2>2 DEF AuditInv, Traced, rows
  <2>4. rows[j].run = past[k].run /\ rows[j].at = past[k].at /\ rows[j].pair = past[k].pair
    BY <2>1, <2>2, <2>3, RowsShape
  <2> QED
    BY <1>1, <2>2, <2>3, <2>4
<1>8. ASSUME NEW k \in series, r.dir \in Dirs
      PROVE  past[k].at = r.at \/ \E j \in among : off[j] = Apart(past[k].at, r.at + Offset)
  <2>1. PICK j \in DOMAIN rows : /\ rows[j].pair = r.pair /\ rows[j].dir = r.dir /\ rows[j].run = r.run
                                 /\ rows[j].net = past[k].nets[c] /\ rows[j].at = past[k].at
    BY <1>7, <1>8
  <2>2. off[j] = Apart(past[k].at, r.at + Offset)
    BY <2>1 DEF off
  <2>3. CASE j = i
    BY <2>1, <2>3
  <2>4. CASE j # i
    BY <1>4, <2>1, <2>2, <2>4
  <2> QED
    BY <2>3, <2>4
<1>9. CASE among = {}
  <2>1. Markout(rows, i) = NoNet
    BY <1>5, <1>9
  <2>2. r.dir \in Dirs \/ r.dir = NoNet
    BY <1>6 DEF Row
  <2>3. r.dir = NoNet \/ \A k \in series : past[k].at = r.at
    BY <1>8, <1>9, <2>2
  <2> QED
    BY <2>1, <2>3 DEF c, rows
<1>10. CASE among # {}
  <2> DEFINE best == {j \in among : \A k \in among : off[j] < off[k] \/ (off[j] = off[k] /\ j <= k)}
  <2>1. among \in SUBSET Nat /\ \A j \in among : off[j] \in Nat /\ j \in DOMAIN rows
    BY <1>1, <1>3, <1>4
  <2>2. PICK b \in among : best = {b}
    BY <1>10, <2>1, NearestExists
  <2>3. b \in DOMAIN rows /\ b \in Nat
    BY <1>1, <2>1
  <2>4. Max({b}) = b
    BY <2>3 DEF Max
  <2>5. Markout(rows, i) = rows[b].net
    BY <1>5, <1>10, <2>2, <2>4
  <2>6. /\ rows[b].pair = r.pair /\ rows[b].dir = r.dir /\ rows[b].run = r.run
        /\ rows[b].net # NoNet /\ off[b] <= Within
    BY <1>4, <2>3
  <2>7. PICK k \in 1 .. Len(past) : \E n \in 1 .. Len(RowsOf(past[k])) :
                  RowsOf(past[k])[n] = rows[b] /\ rows[b].dir \in past[k].kept
    BY <1>1, <2>3 DEF AuditInv, Traced, rows
  <2>8. PICK n \in 1 .. Len(RowsOf(past[k])) : RowsOf(past[k])[n] = rows[b] /\ rows[b].dir \in past[k].kept
    BY <2>7
  <2>9. past[k] \in Decision
    BY <1>1, ElementOfSeq
  <2>10. past[k].nets # <<>>
    <3>1. CASE past[k].nets = <<>>
      <4>1. Len(RowsOf(past[k])) = 1 /\ RowsOf(past[k])[1].net = NoNet
        BY <2>9, <3>1, RowsShape
      <4>2. n = 1
        BY <4>1
      <4> QED
        BY <2>6, <2>8, <4>1, <4>2
    <3> QED
      BY <3>1
  <2>11. /\ Len(RowsOf(past[k])) = 2
         /\ RowsOf(past[k])[1].dir = "CEX_to_DEX" /\ RowsOf(past[k])[1].net = past[k].nets[1]
         /\ RowsOf(past[k])[2].dir = "DEX_to_CEX" /\ RowsOf(past[k])[2].net = past[k].nets[2]
    BY <2>9, <2>10, RowsShape
  <2>12. r.dir \in Dirs /\ c = n
    <3>1. n = 1 \/ n = 2
      BY <2>11
    <3>2. r.dir \in Dirs /\ Directions2[n] = r.dir /\ n \in 1 .. 2
      BY <2>6, <2>8, <2>11, <3>1, TwoDirections DEF Dirs
    <3>3. c \in 1 .. 2 /\ Directions2[c] = r.dir
      BY <1>6, <3>2
    <3>4. c = 1 \/ c = 2
      BY <3>3
    <3> QED
      BY <3>1, <3>2, <3>3, <3>4, TwoDirections
  <2>13. past[k].nets[c] = rows[b].net
    BY <2>8, <2>11, <2>12
  <2>14. past[k].run = rows[b].run /\ past[k].at = rows[b].at /\ past[k].pair = rows[b].pair
    BY <2>8, <2>9, RowsShape
  <2>15. off[b] = Apart(past[k].at, r.at + Offset)
    BY <2>3, <2>14 DEF off
  <2>16. k \in series
    BY <1>1, <2>6, <2>8, <2>10, <2>13, <2>14, <2>15
  <2>17. ASSUME NEW m \in series
         PROVE  \/ Apart(past[k].at, r.at + Offset) <= Apart(past[m].at, r.at + Offset)
                \/ past[m].at = r.at
    <3>1. CASE past[m].at = r.at
      BY <3>1
    <3>2. ASSUME NEW j \in among, off[j] = Apart(past[m].at, r.at + Offset)
          PROVE  off[b] <= off[j]
      <4>1. off[b] < off[j] \/ (off[b] = off[j] /\ b <= j)
        BY <2>2
      <4>2. off[b] \in Nat /\ off[j] \in Nat
        BY <2>1
      <4> QED
        BY <4>1, <4>2
    <3> QED
      BY <1>8, <2>12, <2>15, <3>1, <3>2
  <2> HIDE DEF series
  <2>18. /\ Markout(rows, i) # NoNet
         /\ \E l \in series :
              /\ past[l].nets[c] = Markout(rows, i)
              /\ \A m \in series :
                    \/ Apart(past[l].at, r.at + Offset) <= Apart(past[m].at, r.at + Offset)
                    \/ past[m].at = r.at
    BY <2>5, <2>6, <2>13, <2>16, <2>17
  <2> QED
    BY <2>18 DEF c, rows, series
<1> QED
  BY <1>9, <1>10

NetRow == {r \in Row : r.dir \in Dirs /\ r.net \in Int}
Standing == [first : {<<>>} \cup {<<r>> : r \in NetRow}, won : [Dirs -> Nat]]

\* A row is counted with the one before it or waits for the next.
LEMMA CompareTyped ==
    ASSUME NEW acc \in Standing, NEW r \in NetRow
    PROVE  Compare(acc, r) \in Standing
<1> DEFINE better == IF acc.first[1].net > r.net THEN acc.first[1].dir ELSE r.dir
<1>1. CASE acc.first # <<>>
  <2>1. PICK q \in NetRow : acc.first = <<q>>
    BY <1>1 DEF Standing
  <2>2. better \in Dirs
    BY <2>1 DEF NetRow
  <2> HIDE DEF better
  <2>3. [acc.won EXCEPT ![better] = @ + 1] \in [Dirs -> Nat]
    BY <2>2 DEF Standing
  <2>4. [first |-> <<>>, won |-> [acc.won EXCEPT ![better] = @ + 1]] \in Standing
    BY <2>3 DEF Standing
  <2>5. [acc EXCEPT !.first = <<r>>] \in Standing
    BY DEF Standing
  <2> QED
    BY <2>4, <2>5 DEF Compare, better
<1>2. CASE acc.first = <<>>
  <2>1. [acc EXCEPT !.first = <<r>>] \in Standing
    BY DEF Standing
  <2> QED
    BY <1>2, <2>1 DEF Compare
<1> QED
  BY <1>1, <1>2

PricedRows(rows, S) == rows \in Seq(Row) /\ S \subseteq 1 .. Len(rows) /\ \A j \in S : rows[j] \in NetRow

\* A row that is not of the instant is passed over.
LEMMA VisitTyped ==
    ASSUME NEW rows, NEW S, PricedRows(rows, S), NEW acc \in Standing, NEW i, NEW t
    PROVE  Visit(acc, rows, i, t, S) \in Standing
BY CompareTyped DEF Visit, PricedRows

IsScan(f, rows, t, acc, S) ==
    /\ f \in [0 .. Len(rows) -> Standing] /\ f[0] = acc
    /\ \A i \in 1 .. Len(rows) : f[i] = Visit(f[i - 1], rows, i, t, S)
    /\ AtInstant(rows, t, acc, S) = f[Len(rows)]

\* The rows of an instant are compared one after the other.
LEMMA AtInstantUnfolds ==
    ASSUME NEW rows, NEW S, PricedRows(rows, S), NEW acc \in Standing, NEW t
    PROVE  \E f : IsScan(f, rows, t, acc, S)
<1> DEFINE N == Len(rows)
           V == Standing
           seen[i \in 0 .. N] == IF i = 0 THEN acc ELSE Visit(seen[i - 1], rows, i, t, S)
           step == [x \in (1 .. N) \X V |-> Visit(x[2], rows, x[1], t, S)]
<1>1. N \in Nat
  BY LenProperties DEF PricedRows
<1>2. step \in [(1 .. N) \X V -> V]
  BY VisitTyped
<1>3. \A k \in 1 .. N, v \in V : step[<<k, v>>] = Visit(v, rows, k, t, S)
  OBVIOUS
<1>4. acc \in V
  OBVIOUS
<1> HIDE DEF step, N, V
<1>5. PICK f : Iterates(f, N, V, acc, step)
  BY <1>1, <1>2, <1>4, RecursionExists, Zenon
<1>6. /\ f \in [0 .. N -> V] /\ f[0] = acc
      /\ \A k \in 1 .. N : f[k] = step[<<k, f[k - 1]>>]
  BY <1>5 DEF Iterates
<1>7. ASSUME NEW k \in 1 .. N PROVE f[k] = Visit(f[k - 1], rows, k, t, S)
  <2>1. k - 1 \in 0 .. N
    BY <1>1
  <2>2. f[k - 1] \in V
    BY <1>6, <2>1
  <2> QED
    BY <1>3, <1>6, <2>2
<1>8. \A k \in 0 .. N : f[k] = IF k = 0 THEN acc ELSE Visit(f[k - 1], rows, k, t, S)
  <2>1. \A k \in 0 .. N : k = 0 \/ (k \in 1 .. N /\ k # 0)
    BY <1>1
  <2> QED
    BY <1>6, <1>7, <2>1
<1>9. f = [k \in 0 .. N |-> IF k = 0 THEN acc ELSE Visit(f[k - 1], rows, k, t, S)]
  BY <1>6, <1>8
<1>10. seen = CHOOSE g : g = [k \in 0 .. N |-> IF k = 0 THEN acc ELSE Visit(g[k - 1], rows, k, t, S)]
  BY DEF seen
<1>11. seen = [k \in 0 .. N |-> IF k = 0 THEN acc ELSE Visit(seen[k - 1], rows, k, t, S)]
  BY <1>9, <1>10
<1>12. AtInstant(rows, t, acc, S) = seen[N]
  BY DEF AtInstant, seen, N
<1> HIDE DEF seen
<1> DEFINE T == {k \in Nat : k <= N => seen[k] = f[k]}
<1>13. 0 \in T
  BY <1>1, <1>6, <1>11
<1>14. ASSUME NEW k \in T PROVE k + 1 \in T
  <2> SUFFICES ASSUME k + 1 <= N PROVE seen[k + 1] = f[k + 1]
    OBVIOUS
  <2>1. k \in Nat /\ k + 1 \in 0 .. N /\ k + 1 # 0 /\ k + 1 - 1 = k /\ k <= N /\ k + 1 \in 1 .. N
    BY <1>1
  <2>2. seen[k] = f[k]
    BY <2>1
  <2>3. seen[k + 1] = Visit(seen[k + 1 - 1], rows, k + 1, t, S)
    BY <1>11, <2>1
  <2>4. f[k + 1] = Visit(f[k + 1 - 1], rows, k + 1, t, S)
    BY <1>7, <2>1
  <2> QED
    BY <2>1, <2>2, <2>3, <2>4
<1>15. T = Nat
  <2>1. T \in SUBSET Nat
    OBVIOUS
  <2> HIDE DEF T
  <2> QED
    BY <1>13, <1>14, <2>1, InductionOn
<1>16. AtInstant(rows, t, acc, S) = f[N]
  BY <1>1, <1>12, <1>15
<1> QED
  BY <1>6, <1>7, <1>16 DEF IsScan, N, V

NoneYet == [first |-> <<>>, won |-> [d \in Dirs |-> 0]]

IsBalance(g, rows, S, won) ==
    /\ g \in [0 .. LastInstant + 1 -> Standing] /\ g[0] = NoneYet
    /\ \A t \in 1 .. LastInstant + 1 : g[t] = AtInstant(rows, t - 1, g[t - 1], S)
    /\ won = g[LastInstant + 1].won

\* And one instant after the other.
LEMMA BalanceUnfolds ==
    ASSUME NEW rows, NEW run, NEW p, PricedRows(rows, Tradeable(rows, run, p))
    PROVE  \E g : IsBalance(g, rows, Tradeable(rows, run, p), Balance(rows, run, p))
<1> DEFINE S == Tradeable(rows, run, p)
           N == LastInstant + 1
           V == Standing
           start == [first |-> <<>>, won |-> [d \in Range(Directions2) |-> 0]]
           before[t \in 0 .. N] == IF t = 0 THEN start ELSE AtInstant(rows, t - 1, before[t - 1], S)
           step == [x \in (1 .. N) \X V |-> AtInstant(rows, x[1] - 1, x[2], S)]
<1>1. N \in Nat /\ LastInstant \in Nat
  BY AuditAssumption
<1>2. PricedRows(rows, S)
  OBVIOUS
<1>3. start = NoneYet
  BY TwoDirections DEF NoneYet
<1>4. ASSUME NEW v \in V, NEW t PROVE AtInstant(rows, t, v, S) \in V
  <2>1. PICK f : IsScan(f, rows, t, v, S)
    BY <1>2, AtInstantUnfolds
  <2>2. Len(rows) \in 0 .. Len(rows)
    BY <1>2, LenProperties DEF PricedRows
  <2> QED
    BY <2>1, <2>2 DEF IsScan
<1>5. Balance(rows, run, p) = before[N].won
  BY DEF Balance, before, N
<1>6. before = CHOOSE g : g = [t \in 0 .. N |-> IF t = 0 THEN start ELSE AtInstant(rows, t - 1, g[t - 1], S)]
  BY DEF before
<1> HIDE DEF S, before, start, N
<1>7. step \in [(1 .. N) \X V -> V]
  BY <1>4
<1>8. \A k \in 1 .. N, v \in V : step[<<k, v>>] = AtInstant(rows, k - 1, v, S)
  OBVIOUS
<1>9. start \in V
  BY <1>3 DEF NoneYet, Standing
<1> HIDE DEF step, V
<1>10. PICK f : Iterates(f, N, V, start, step)
  BY <1>1, <1>7, <1>9, RecursionExists, Zenon
<1>11. /\ f \in [0 .. N -> V] /\ f[0] = start
      /\ \A k \in 1 .. N : f[k] = step[<<k, f[k - 1]>>]
  BY <1>10 DEF Iterates
<1>12. ASSUME NEW k \in 1 .. N PROVE f[k] = AtInstant(rows, k - 1, f[k - 1], S)
  <2>1. k - 1 \in 0 .. N
    BY <1>1
  <2>2. f[k - 1] \in V
    BY <1>11, <2>1
  <2> QED
    BY <1>8, <1>11, <2>2
<1>13. \A k \in 0 .. N : f[k] = IF k = 0 THEN start ELSE AtInstant(rows, k - 1, f[k - 1], S)
  <2>1. \A k \in 0 .. N : k = 0 \/ (k \in 1 .. N /\ k # 0)
    BY <1>1
  <2> QED
    BY <1>11, <1>12, <2>1
<1>14. f = [k \in 0 .. N |-> IF k = 0 THEN start ELSE AtInstant(rows, k - 1, f[k - 1], S)]
  BY <1>11, <1>13
<1>15. before = [k \in 0 .. N |-> IF k = 0 THEN start ELSE AtInstant(rows, k - 1, before[k - 1], S)]
  BY <1>14, <1>6
<1> DEFINE T == {k \in Nat : k <= N => before[k] = f[k]}
<1>16. 0 \in T
  BY <1>1, <1>11, <1>15
<1>17. ASSUME NEW k \in T PROVE k + 1 \in T
  <2> SUFFICES ASSUME k + 1 <= N PROVE before[k + 1] = f[k + 1]
    OBVIOUS
  <2>1. k \in Nat /\ k + 1 \in 0 .. N /\ k + 1 # 0 /\ k + 1 - 1 = k /\ k <= N /\ k + 1 \in 1 .. N
    BY <1>1
  <2>2. before[k] = f[k]
    BY <2>1
  <2>3. before[k + 1] = AtInstant(rows, k + 1 - 1, before[k + 1 - 1], S)
    BY <1>15, <2>1
  <2>4. f[k + 1] = AtInstant(rows, k + 1 - 1, f[k + 1 - 1], S)
    BY <1>12, <2>1
  <2> QED
    BY <2>1, <2>2, <2>3, <2>4
<1>18. T = Nat
  <2>1. T \in SUBSET Nat
    OBVIOUS
  <2> HIDE DEF T
  <2> QED
    BY <1>16, <1>17, <2>1, InductionOn
<1>19. Balance(rows, run, p) = f[N].won
  BY <1>1, <1>5, <1>18
<1> QED
  BY <1>3, <1>11, <1>12, <1>19 DEF IsBalance, N, V, S

\* The rows in S of a pair's cycles: those with two prices have one row for each
\* direction, the one towards the pool first, and no other rows are as near in time.
Cycles(rows, S, both, fst, snd) ==
    /\ PricedRows(rows, S)
    /\ IsFiniteSet(both) /\ fst \in [both -> S] /\ snd \in [both -> S]
    /\ \A k \in both : /\ rows[fst[k]].dir = "CEX_to_DEX" /\ rows[snd[k]].dir = "DEX_to_CEX"
                       /\ rows[fst[k]].at = rows[snd[k]].at /\ fst[k] < snd[k]
    /\ \A i, j \in S : Apart(rows[i].at, rows[j].at) <= SameCycle => rows[i].at = rows[j].at
    /\ \A i, j \in S : rows[i].at = rows[j].at /\ rows[i].dir = rows[j].dir => i = j
    /\ \A i, j \in S : rows[i].at = rows[j].at /\ rows[i].dir = "CEX_to_DEX" /\ rows[j].dir = "DEX_to_CEX"
                       => \E k \in both : fst[k] = i /\ snd[k] = j
    /\ \A k, m \in both : fst[k] = fst[m] => k = m

Towards(rows, both, fst, snd, D) == {k \in both : snd[k] \in D /\ rows[fst[k]].net > rows[snd[k]].net}
Back(rows, both, fst, snd, D) == {k \in both : snd[k] \in D /\ rows[fst[k]].net <= rows[snd[k]].net}

\* What has been counted when the rows in D have been compared.
BalanceAt(acc, D, rows, both, fst, snd) ==
    /\ acc \in Standing
    /\ acc.first = <<>> \/ \E j \in D : acc.first = <<rows[j]>>
    /\ \A k \in both : snd[k] \in D => fst[k] \in D
    /\ \A k \in both : fst[k] \in D /\ snd[k] \notin D => acc.first = <<rows[fst[k]]>>
    /\ acc.won["CEX_to_DEX"] = Cardinality(Towards(rows, both, fst, snd, D))
    /\ acc.won["DEX_to_CEX"] = Cardinality(Back(rows, both, fst, snd, D))

\* The next row in the order of the times completes a cycle, which is counted, or
\* begins one.
LEMMA BalanceStep ==
    ASSUME NEW rows, NEW S, NEW both, NEW fst, NEW snd, Cycles(rows, S, both, fst, snd),
           NEW D \in SUBSET S, NEW i \in S \ D, NEW acc, BalanceAt(acc, D, rows, both, fst, snd),
           \A j \in D : rows[j].at < rows[i].at \/ (rows[j].at = rows[i].at /\ j < i),
           \A j \in S \ D : rows[i].at < rows[j].at \/ (rows[i].at = rows[j].at /\ i <= j)
    PROVE  BalanceAt(Compare(acc, rows[i]), D \cup {i}, rows, both, fst, snd)
<1> DEFINE r == rows[i]
           E == D \cup {i}
           next == Compare(acc, r)
           joins == /\ acc.first # <<>> /\ Apart(acc.first[1].at, r.at) <= SameCycle
                    /\ acc.first[1].dir # r.dir
<1>1. /\ \A j \in S : rows[j].at \in Nat /\ j \in Nat /\ rows[j].dir \in Dirs /\ rows[j].net \in Int
      /\ \A j \in S : rows[j] \in NetRow
  <2>1. LastInstant \in Nat
    BY AuditAssumption
  <2>2. \A j \in S : rows[j] \in NetRow /\ j \in Nat
    BY DEF Cycles, PricedRows
  <2> QED
    BY <2>1, <2>2 DEF NetRow, Row
<1>2. /\ \A k \in both : /\ fst[k] \in S /\ snd[k] \in S
                         /\ rows[fst[k]].dir = "CEX_to_DEX" /\ rows[snd[k]].dir = "DEX_to_CEX"
                         /\ rows[fst[k]].at = rows[snd[k]].at /\ fst[k] < snd[k]
      /\ \A a, b \in S : Apart(rows[a].at, rows[b].at) <= SameCycle => rows[a].at = rows[b].at
      /\ \A a, b \in S : rows[a].at = rows[b].at /\ rows[a].dir = rows[b].dir => a = b
      /\ \A a, b \in S : rows[a].at = rows[b].at /\ rows[a].dir = "CEX_to_DEX" /\ rows[b].dir = "DEX_to_CEX"
                         => \E k \in both : fst[k] = a /\ snd[k] = b
      /\ \A k, m \in both : fst[k] = fst[m] => k = m
      /\ IsFiniteSet(both)
  BY DEF Cycles
<1>3. /\ acc \in Standing
      /\ acc.first = <<>> \/ \E j \in D : acc.first = <<rows[j]>>
      /\ \A k \in both : snd[k] \in D => fst[k] \in D
      /\ \A k \in both : fst[k] \in D /\ snd[k] \notin D => acc.first = <<rows[fst[k]]>>
      /\ acc.won["CEX_to_DEX"] = Cardinality(Towards(rows, both, fst, snd, D))
      /\ acc.won["DEX_to_CEX"] = Cardinality(Back(rows, both, fst, snd, D))
  BY DEF BalanceAt
<1>4. next \in Standing
  BY <1>1, <1>3, CompareTyped
<1>5. next = IF joins
             THEN LET better == IF acc.first[1].net > r.net THEN acc.first[1].dir ELSE r.dir
                  IN  [first |-> <<>>, won |-> [acc.won EXCEPT ![better] = @ + 1]]
             ELSE [acc EXCEPT !.first = <<r>>]
  BY DEF Compare
<1>6. \A k, m \in both : snd[k] = snd[m] => k = m
  BY <1>2
<1>7. \A k \in both : snd[k] \in E => fst[k] \in E
  <2> SUFFICES ASSUME NEW k \in both, snd[k] = i, fst[k] \notin D
               PROVE  FALSE
    BY <1>3
  <2>1. fst[k] \in S \ D /\ rows[fst[k]].at = rows[i].at /\ fst[k] < i
    BY <1>2
  <2>2. i <= fst[k]
    BY <1>1, <2>1
  <2> QED
    BY <1>1, <2>1, <2>2
<1>8. IsFiniteSet(Towards(rows, both, fst, snd, D)) /\ IsFiniteSet(Back(rows, both, fst, snd, D))
  BY <1>2, FS_Subset DEF Towards, Back
<1>9. CASE joins
  <2>1. PICK j \in D : acc.first = <<rows[j]>>
    BY <1>3, <1>9
  <2>2. j \in S /\ acc.first[1] = rows[j]
    BY <2>1
  <2>3. rows[j].at = rows[i].at /\ rows[j].dir # rows[i].dir
    BY <1>2, <1>9, <2>2
  <2>4. \E k \in both : fst[k] = j /\ snd[k] = i
    <3>1. CASE rows[j].dir = "CEX_to_DEX"
      <4>1. rows[i].dir = "DEX_to_CEX"
        BY <1>1, <2>3, <3>1 DEF Dirs
      <4> QED
        BY <1>2, <2>2, <2>3, <3>1, <4>1
    <3>2. CASE rows[j].dir = "DEX_to_CEX"
      <4>1. rows[i].dir = "CEX_to_DEX"
        BY <1>1, <2>3, <3>2 DEF Dirs
      <4>2. PICK k \in both : fst[k] = i /\ snd[k] = j
        BY <1>2, <2>2, <2>3, <3>2, <4>1
      <4> QED
        BY <1>3, <4>2
    <3> QED
      BY <1>1, <2>2, <3>1, <3>2 DEF Dirs
  <2>5. PICK k \in both : fst[k] = j /\ snd[k] = i
    BY <2>4
  <2>6. rows[j].dir = "CEX_to_DEX" /\ rows[i].dir = "DEX_to_CEX"
    BY <1>2, <2>5
  <2> DEFINE ahead == rows[j].net > rows[i].net
  <2>7. next = [first |-> <<>>,
                won |-> [acc.won EXCEPT ![IF ahead THEN "CEX_to_DEX" ELSE "DEX_to_CEX"] = @ + 1]]
    BY <1>5, <1>9, <2>2, <2>6
  <2>8. next.first = <<>>
    BY <2>7
  <2>9. \A m \in both : snd[m] \in E <=> snd[m] \in D \/ m = k
    BY <1>6, <2>5
  <2>10. snd[k] \notin D
    BY <2>5
  <2>11. acc.won \in [Dirs -> Nat]
    BY <1>3 DEF Standing
  <2>12. \A m \in both : ~(fst[m] \in E /\ snd[m] \notin E)
    <3> SUFFICES ASSUME NEW m \in both, fst[m] \in E, snd[m] \notin E
                 PROVE  FALSE
      OBVIOUS
    <3>1. fst[m] # i
      BY <1>2, <2>6, AuditAssumption
    <3>2. acc.first = <<rows[fst[m]]>>
      BY <1>3, <3>1
    <3>3. rows[fst[m]] = rows[j]
      <4>1. <<rows[fst[m]]>>[1] = <<rows[j]>>[1]
        BY <2>1, <3>2
      <4> QED
        BY <4>1
    <3>4. fst[m] = j
      BY <1>2, <2>2, <3>3
    <3> QED
      BY <1>2, <2>5, <3>4
  <2>13. CASE ahead
    <3>1. Towards(rows, both, fst, snd, E) = Towards(rows, both, fst, snd, D) \cup {k}
      BY <2>5, <2>9, <2>13 DEF Towards
    <3>2. Back(rows, both, fst, snd, E) = Back(rows, both, fst, snd, D)
      <4>1. ~(rows[fst[k]].net <= rows[snd[k]].net)
        BY <1>1, <2>2, <2>5, <2>13
      <4> QED
        BY <2>9, <4>1 DEF Back
    <3>3. k \notin Towards(rows, both, fst, snd, D)
      BY <2>10 DEF Towards
    <3>4. /\ Cardinality(Towards(rows, both, fst, snd, E))
                = Cardinality(Towards(rows, both, fst, snd, D)) + 1
      BY <1>8, <3>1, <3>3, FS_AddElement
    <3>5. next.won = [acc.won EXCEPT !["CEX_to_DEX"] = @ + 1]
      BY <2>7, <2>13
    <3>6. /\ next.won["CEX_to_DEX"] = acc.won["CEX_to_DEX"] + 1
          /\ next.won["DEX_to_CEX"] = acc.won["DEX_to_CEX"]
      BY <2>11, <3>5 DEF Dirs
    <3> QED
      BY <1>3, <1>4, <1>7, <2>8, <2>12, <3>2, <3>4, <3>6 DEF BalanceAt
  <2>14. CASE ~ahead
    <3>1. Back(rows, both, fst, snd, E) = Back(rows, both, fst, snd, D) \cup {k}
      <4>1. rows[fst[k]].net <= rows[snd[k]].net
        BY <1>1, <2>2, <2>5, <2>14
      <4> QED
        BY <2>9, <4>1 DEF Back
    <3>2. Towards(rows, both, fst, snd, E) = Towards(rows, both, fst, snd, D)
      BY <2>5, <2>9, <2>14 DEF Towards
    <3>3. k \notin Back(rows, both, fst, snd, D)
      BY <2>10 DEF Back
    <3>4. /\ Cardinality(Back(rows, both, fst, snd, E))
                = Cardinality(Back(rows, both, fst, snd, D)) + 1
      BY <1>8, <3>1, <3>3, FS_AddElement
    <3>5. next.won = [acc.won EXCEPT !["DEX_to_CEX"] = @ + 1]
      BY <2>7, <2>14
    <3>6. /\ next.won["DEX_to_CEX"] = acc.won["DEX_to_CEX"] + 1
          /\ next.won["CEX_to_DEX"] = acc.won["CEX_to_DEX"]
      BY <2>11, <3>5 DEF Dirs
    <3> QED
      BY <1>3, <1>4, <1>7, <2>8, <2>12, <3>2, <3>4, <3>6 DEF BalanceAt
  <2> QED
    BY <2>13, <2>14
<1>10. CASE ~joins
  <2>1. next = [acc EXCEPT !.first = <<r>>]
    BY <1>5, <1>10
  <2>2. next.first = <<rows[i]>> /\ next.won = acc.won
    BY <1>3, <2>1 DEF Standing
  <2>3. \A k \in both : snd[k] # i
    <3> SUFFICES ASSUME NEW k \in both, snd[k] = i
                 PROVE  FALSE
      OBVIOUS
    <3>1. fst[k] \in E /\ fst[k] # i
      BY <1>1, <1>2, <1>7
    <3>2. acc.first = <<rows[fst[k]]>>
      BY <1>3, <3>1
    <3>3. acc.first # <<>> /\ acc.first[1] = rows[fst[k]]
      BY <3>2
    <3>4. Apart(rows[fst[k]].at, r.at) <= SameCycle
      <4>1. SameCycle \in Nat
        BY AuditAssumption
      <4>2. Apart(rows[fst[k]].at, r.at) = 0
        BY <1>1, <1>2 DEF Apart
      <4> QED
        BY <4>1, <4>2
    <3> QED
      BY <1>2, <1>10, <3>3, <3>4
  <2>4. /\ Towards(rows, both, fst, snd, E) = Towards(rows, both, fst, snd, D)
        /\ Back(rows, both, fst, snd, E) = Back(rows, both, fst, snd, D)
    BY <2>3 DEF Towards, Back
  <2>5. ASSUME NEW k \in both, fst[k] \in E, snd[k] \notin E
        PROVE  next.first = <<rows[fst[k]]>>
    <3>1. CASE fst[k] = i
      BY <2>2, <3>1
    <3>2. CASE fst[k] # i
      <4>1. fst[k] \in D /\ snd[k] \in S \ D
        BY <1>2, <2>5, <3>2
      <4>2. rows[fst[k]].at <= rows[i].at /\ rows[i].at <= rows[snd[k]].at
        BY <1>1, <1>2, <4>1
      <4>3. rows[fst[k]].at = rows[i].at /\ rows[snd[k]].at = rows[i].at
        <5>1. rows[fst[k]].at = rows[snd[k]].at /\ fst[k] \in S /\ snd[k] \in S
          BY <1>2
        <5> QED
          BY <1>1, <4>2, <5>1
      <4>4. i = fst[k] \/ i = snd[k]
        <5>1. rows[i].dir = "CEX_to_DEX" \/ rows[i].dir = "DEX_to_CEX"
          BY <1>1 DEF Dirs
        <5> QED
          BY <1>2, <4>3, <5>1
      <4> QED
        BY <2>5, <3>2, <4>4
    <3> QED
      BY <3>1, <3>2
  <2> QED
    BY <1>3, <1>4, <1>7, <2>2, <2>4, <2>5 DEF BalanceAt
<1> QED
  BY <1>9, <1>10

Upto(rows, S, t) == {j \in S : rows[j].at < t}

\* The rows of an instant are compared in the order in which they were written.
LEMMA InstantStep ==
    ASSUME NEW rows, NEW S, NEW both, NEW fst, NEW snd, Cycles(rows, S, both, fst, snd),
           NEW t \in Nat, NEW acc, BalanceAt(acc, Upto(rows, S, t), rows, both, fst, snd)
    PROVE  BalanceAt(AtInstant(rows, t, acc, S), Upto(rows, S, t + 1), rows, both, fst, snd)
<1> DEFINE N == Len(rows)
           Compared(i) == Upto(rows, S, t) \cup {j \in S : rows[j].at = t /\ j <= i}
<1>1. PricedRows(rows, S) /\ acc \in Standing
  BY DEF Cycles, BalanceAt
<1>2. N \in Nat /\ \A j \in S : rows[j].at \in Nat /\ j \in 1 .. N /\ j \in Nat
  <2>1. LastInstant \in Nat /\ N \in Nat
    BY <1>1, LenProperties, AuditAssumption DEF PricedRows
  <2>2. \A j \in S : rows[j] \in NetRow /\ j \in 1 .. N
    BY <1>1 DEF PricedRows
  <2> QED
    BY <2>1, <2>2 DEF NetRow, Row
<1>3. PICK f : IsScan(f, rows, t, acc, S)
  BY <1>1, AtInstantUnfolds
<1> HIDE DEF N
<1>4. /\ f[0] = acc /\ AtInstant(rows, t, acc, S) = f[N]
      /\ \A i \in 1 .. N : f[i] = Visit(f[i - 1], rows, i, t, S)
  BY <1>3 DEF IsScan, N
<1> DEFINE T == {i \in Nat : i <= N => BalanceAt(f[i], Compared(i), rows, both, fst, snd)}
<1>5. 0 \in T
  <2>1. Compared(0) = Upto(rows, S, t)
    BY <1>2
  <2> HIDE DEF Compared
  <2> QED
    BY <1>4, <2>1
<1>6. ASSUME NEW i \in T PROVE i + 1 \in T
  <2> SUFFICES ASSUME i + 1 <= N PROVE BalanceAt(f[i + 1], Compared(i + 1), rows, both, fst, snd)
    OBVIOUS
  <2> DEFINE n == i + 1
  <2>1. i \in Nat /\ n \in 1 .. N /\ n - 1 = i /\ i <= N /\ n \in Nat
    BY <1>2
  <2>2. BalanceAt(f[i], Compared(i), rows, both, fst, snd)
    BY <2>1
  <2>3. f[n] = Visit(f[n - 1], rows, n, t, S)
    BY <1>4, <2>1
  <2>4. f[n] = Visit(f[i], rows, n, t, S)
    BY <2>1, <2>3
  <2>5. \A j \in S : j <= n <=> j <= i \/ j = n
    BY <1>2, <2>1
  <2>6. CASE n \in S /\ rows[n].at = t
    <3>1. Compared(n) = Compared(i) \cup {n}
      BY <2>5, <2>6
    <3>2. Compared(i) \in SUBSET S /\ n \in S \ Compared(i)
      BY <1>2, <2>1, <2>6 DEF Upto
    <3>3. \A j \in Compared(i) : rows[j].at < rows[n].at \/ (rows[j].at = rows[n].at /\ j < n)
      BY <1>2, <2>1, <2>6 DEF Upto
    <3>4. \A j \in S \ Compared(i) : rows[n].at < rows[j].at \/ (rows[n].at = rows[j].at /\ n <= j)
      BY <1>2, <2>1, <2>6 DEF Upto
    <3>5. f[n] = Compare(f[i], rows[n])
      BY <2>4, <2>6 DEF Visit
    <3> HIDE DEF Compared, n
    <3>6. BalanceAt(Compare(f[i], rows[n]), Compared(i) \cup {n}, rows, both, fst, snd)
      BY <2>2, <3>2, <3>3, <3>4, BalanceStep
    <3>7. BalanceAt(f[n], Compared(n), rows, both, fst, snd)
      BY <3>1, <3>5, <3>6
    <3> QED
      BY <3>7 DEF n
  <2>7. CASE ~(n \in S /\ rows[n].at = t)
    <3>1. Compared(n) = Compared(i)
      BY <2>5, <2>7
    <3>2. f[n] = f[i]
      BY <2>4, <2>7 DEF Visit
    <3> HIDE DEF Compared
    <3> QED
      BY <2>2, <3>1, <3>2
  <2> QED
    BY <2>6, <2>7
<1>7. T = Nat
  <2>1. T \in SUBSET Nat
    OBVIOUS
  <2> HIDE DEF T
  <2> QED
    BY <1>5, <1>6, <2>1, InductionOn
<1>8. BalanceAt(f[N], Compared(N), rows, both, fst, snd)
  <2>1. N \in T
    BY <1>2, <1>7
  <2> HIDE DEF Compared
  <2> QED
    BY <1>2, <2>1
<1>9. Compared(N) = Upto(rows, S, t + 1)
  BY <1>2 DEF Upto
<1> HIDE DEF Compared
<1> QED
  BY <1>4, <1>8, <1>9

\* Every cycle is counted, and for the direction that was the better.
LEMMA BalanceCounts ==
    ASSUME NEW rows, NEW S, NEW both, NEW fst, NEW snd, Cycles(rows, S, both, fst, snd),
           NEW g, NEW won, IsBalance(g, rows, S, won)
    PROVE  /\ won["CEX_to_DEX"] = Cardinality({k \in both : rows[fst[k]].net > rows[snd[k]].net})
           /\ won["DEX_to_CEX"] = Cardinality({k \in both : rows[fst[k]].net <= rows[snd[k]].net})
<1> DEFINE N == LastInstant + 1
           T == {t \in Nat : t <= N => BalanceAt(g[t], Upto(rows, S, t), rows, both, fst, snd)}
<1>1. LastInstant \in Nat /\ N \in Nat
  BY AuditAssumption
<1>2. /\ g[0] = NoneYet /\ won = g[N].won
      /\ \A t \in 1 .. N : g[t] = AtInstant(rows, t - 1, g[t - 1], S)
  BY DEF IsBalance
<1>3. \A j \in S : rows[j].at \in 0 .. LastInstant
  BY DEF Cycles, PricedRows, NetRow, Row
<1>4. fst \in [both -> S] /\ snd \in [both -> S]
  BY DEF Cycles
<1>5. 0 \in T
  <2>1. Upto(rows, S, 0) = {}
    BY <1>1, <1>3 DEF Upto
  <2>2. /\ Towards(rows, both, fst, snd, {}) = {} /\ Back(rows, both, fst, snd, {}) = {}
    BY DEF Towards, Back
  <2>3. NoneYet \in Standing /\ NoneYet.first = <<>>
        /\ NoneYet.won["CEX_to_DEX"] = 0 /\ NoneYet.won["DEX_to_CEX"] = 0
    BY DEF NoneYet, Standing, Dirs
  <2>4. Cardinality({}) = 0
    BY FS_EmptySet
  <2>5. BalanceAt(NoneYet, {}, rows, both, fst, snd)
    BY <2>2, <2>3, <2>4 DEF BalanceAt
  <2> QED
    BY <1>2, <2>1, <2>5
<1> HIDE DEF N
<1>6. ASSUME NEW t \in T PROVE t + 1 \in T
  <2> SUFFICES ASSUME t + 1 <= N PROVE BalanceAt(g[t + 1], Upto(rows, S, t + 1), rows, both, fst, snd)
    OBVIOUS
  <2>1. t \in Nat /\ t + 1 \in 1 .. N /\ t + 1 - 1 = t /\ t <= N
    BY <1>1
  <2>2. BalanceAt(g[t], Upto(rows, S, t), rows, both, fst, snd)
    BY <2>1
  <2>3. g[t + 1] = AtInstant(rows, t + 1 - 1, g[t + 1 - 1], S)
    BY <1>2, <2>1
  <2>4. g[t + 1] = AtInstant(rows, t, g[t], S)
    BY <2>1, <2>3
  <2> QED
    BY <2>1, <2>2, <2>4, InstantStep
<1>7. T = Nat
  <2>1. T \in SUBSET Nat
    OBVIOUS
  <2> HIDE DEF T
  <2> QED
    BY <1>5, <1>6, <2>1, InductionOn
<1>8. BalanceAt(g[N], Upto(rows, S, N), rows, both, fst, snd)
  <2>1. N \in T
    BY <1>1, <1>7
  <2> QED
    BY <1>1, <2>1
<1>9. Upto(rows, S, N) = S
  BY <1>1, <1>3 DEF Upto, N
<1>10. /\ Towards(rows, both, fst, snd, S) = {k \in both : rows[fst[k]].net > rows[snd[k]].net}
       /\ Back(rows, both, fst, snd, S) = {k \in both : rows[fst[k]].net <= rows[snd[k]].net}
  BY <1>4 DEF Towards, Back
<1> QED
  BY <1>2, <1>8, <1>9, <1>10 DEF BalanceAt

\* Row i was put there by decision k, as its n-th.
PutBy(i, k, n) ==
    /\ k \in 1 .. Len(past) /\ n \in 1 .. 2 /\ past[k] \in Decision
    /\ past[k].nets # <<>> /\ Len(RowsOf(past[k])) = 2 /\ RowsOf(past[k])[n] = trail.rows[i]
    /\ trail.rows[i].dir = Directions2[n] /\ trail.rows[i].dir \in past[k].kept
    /\ trail.rows[i].net = past[k].nets[n]
    /\ trail.rows[i].run = past[k].run /\ trail.rows[i].pair = past[k].pair
    /\ trail.rows[i].at = past[k].at /\ trail.rows[i].verdict = past[k].verdict

\* A row with a price was put there by a decision with a direction.
LEMMA PricedRowPut ==
    ASSUME AuditInv, NEW i \in 1 .. Len(trail.rows), trail.rows[i].net # NoNet
    PROVE  trail.rows[i] \in NetRow /\ \E k \in 1 .. Len(past), n \in 1 .. 2 : PutBy(i, k, n)
<1>1. trail.rows \in Seq(Row) /\ past \in Seq(Decision)
  BY DEF AuditInv, AuditShape
<1>2. PICK k \in 1 .. Len(past) : \E n \in 1 .. Len(RowsOf(past[k])) :
                RowsOf(past[k])[n] = trail.rows[i] /\ trail.rows[i].dir \in past[k].kept
  BY DEF AuditInv, Traced
<1>3. PICK n \in 1 .. Len(RowsOf(past[k])) :
         RowsOf(past[k])[n] = trail.rows[i] /\ trail.rows[i].dir \in past[k].kept
  BY <1>2
<1>4. past[k] \in Decision /\ trail.rows[i] \in Row
  BY <1>1, ElementOfSeq
<1>5. past[k].nets # <<>>
  <2>1. CASE past[k].nets = <<>>
    <3>1. Len(RowsOf(past[k])) = 1 /\ RowsOf(past[k])[1].net = NoNet
      BY <1>4, <2>1, RowsShape
    <3>2. n = 1
      BY <3>1
    <3> QED
      BY <1>3, <3>1, <3>2
  <2> QED
    BY <2>1
<1>6. /\ Len(RowsOf(past[k])) = 2
      /\ RowsOf(past[k])[1].dir = "CEX_to_DEX" /\ RowsOf(past[k])[1].net = past[k].nets[1]
      /\ RowsOf(past[k])[2].dir = "DEX_to_CEX" /\ RowsOf(past[k])[2].net = past[k].nets[2]
  BY <1>4, <1>5, RowsShape
<1>7. n \in 1 .. 2 /\ trail.rows[i].dir = Directions2[n] /\ trail.rows[i].net = past[k].nets[n]
      /\ trail.rows[i].dir \in Dirs
  <2>1. n = 1 \/ n = 2
    BY <1>6
  <2> QED
    BY <1>3, <1>6, <2>1, TwoDirections DEF Dirs
<1>8. /\ trail.rows[i].run = past[k].run /\ trail.rows[i].pair = past[k].pair
      /\ trail.rows[i].at = past[k].at /\ trail.rows[i].verdict = past[k].verdict
  BY <1>3, <1>4, RowsShape
<1>9. trail.rows[i] \in NetRow
  BY <1>4, <1>7 DEF NetRow, Row, NetNum
<1> QED
  BY <1>3, <1>4, <1>5, <1>6, <1>7, <1>8, <1>9 DEF PutBy

\* Every decision of a pair in a run that was counted has two rows, and no others are
\* as near as they are.
LEMMA BalanceIsTrue ==
    ASSUME AuditInv
    PROVE  BalanceTrue
<1> DEFINE rows == trail.rows
           run == ChosenRun(rows)
           own(p) == {k \in DOMAIN past : past[k].run = run /\ past[k].pair = p}
           both(p) == {k \in own(p) :
                         /\ past[k].nets # <<>> /\ Range(Directions2) \subseteq past[k].kept
                         /\ past[k].nets[1] # NoNet /\ past[k].nets[2] # NoNet
                         /\ past[k].verdict \in {NoNet, "allowed"}}
<1> SUFFICES ASSUME NEW p \in Audited,
                    \A k, m \in own(p) : k # m => Apart(past[k].at, past[m].at) > SameCycle
             PROVE  /\ Balance(rows, run, p)["CEX_to_DEX"] =
                          Cardinality({k \in both(p) : past[k].nets[1] > past[k].nets[2]})
                    /\ Balance(rows, run, p)["DEX_to_CEX"] =
                          Cardinality({k \in both(p) : past[k].nets[1] <= past[k].nets[2]})
  BY DEF BalanceTrue
<1> DEFINE S == Tradeable(rows, run, p)
           Own == own(p)
           Both == both(p)
           N == Len(rows)
<1>1. /\ rows \in Seq(Row) /\ DOMAIN rows = 1 .. N /\ N \in Nat
      /\ past \in Seq(Decision) /\ DOMAIN past = 1 .. Len(past) /\ Len(past) \in Nat
      /\ SameCycle \in Nat /\ LastInstant \in Nat
  BY AuditAssumption, LenProperties DEF AuditInv, AuditShape
<1>2. S \subseteq 1 .. N
      /\ \A i \in 1 .. N : i \in S <=> /\ rows[i].run = run /\ rows[i].pair = p
                                       /\ rows[i].verdict \in {NoNet, "allowed"} /\ rows[i].net # NoNet
  BY <1>1 DEF Tradeable
<1>3. \A k, m \in Own : past[k].at = past[m].at => k = m
  <2> SUFFICES ASSUME NEW k \in Own, NEW m \in Own, past[k].at = past[m].at, k # m
               PROVE  FALSE
    OBVIOUS
  <2>1. past[k] \in Decision /\ past[m] \in Decision
    BY <1>1, ElementOfSeq
  <2>2. past[k].at \in Nat
    BY <1>1, <2>1 DEF Decision
  <2>3. Apart(past[k].at, past[m].at) = 0
    BY <2>2, ApartTyped
  <2>4. Apart(past[k].at, past[m].at) > SameCycle
    OBVIOUS
  <2> QED
    BY <1>1, <2>3, <2>4
<1>4. \A k, m \in Own : Apart(past[k].at, past[m].at) <= SameCycle => k = m
  <2> SUFFICES ASSUME NEW k \in Own, NEW m \in Own, Apart(past[k].at, past[m].at) <= SameCycle, k # m
               PROVE  FALSE
    OBVIOUS
  <2>1. past[k] \in Decision /\ past[m] \in Decision
    BY <1>1, ElementOfSeq
  <2>2. past[k].at \in Nat /\ past[m].at \in Nat
    BY <1>1, <2>1 DEF Decision
  <2>3. Apart(past[k].at, past[m].at) \in Nat
    BY <2>2, ApartTyped
  <2>4. Apart(past[k].at, past[m].at) > SameCycle
    OBVIOUS
  <2> QED
    BY <1>1, <2>3, <2>4
<1>5. \A k \in 1 .. Len(past) : k \in Own <=> past[k].run = run /\ past[k].pair = p
  BY <1>1
<1>6. Both \subseteq Own /\ Own \subseteq 1 .. Len(past)
      /\ \A k \in Own : k \in Both <=> /\ past[k].nets # <<>> /\ Dirs \subseteq past[k].kept
                                       /\ past[k].nets[1] # NoNet /\ past[k].nets[2] # NoNet
                                       /\ past[k].verdict \in {NoNet, "allowed"}
  BY <1>1, TwoDirections
<1> HIDE DEF S, Own, Both, N, run
<1>7. \A i \in S : rows[i] \in NetRow /\ \E k \in Own, n \in 1 .. 2 : PutBy(i, k, n)
  <2> TAKE i \in S
  <2>1. i \in 1 .. Len(trail.rows) /\ trail.rows[i].net # NoNet /\ rows[i].run = run /\ rows[i].pair = p
    BY <1>2 DEF N
  <2>2. trail.rows[i] \in NetRow /\ \E k \in 1 .. Len(past), n \in 1 .. 2 : PutBy(i, k, n)
    BY <2>1, PricedRowPut
  <2>3. PICK k \in 1 .. Len(past), n \in 1 .. 2 : PutBy(i, k, n)
    BY <2>2
  <2>4. k \in Own
    BY <1>5, <2>1, <2>3 DEF PutBy
  <2> QED
    BY <2>2, <2>3, <2>4
<1>8. ASSUME NEW i \in S, NEW j \in S, NEW k \in Own, NEW n \in 1 .. 2, PutBy(i, k, n), PutBy(j, k, n)
      PROVE  i = j
  <2>1. rows[i] = rows[j] /\ rows[i].dir # NoNet
    BY <1>8, TwoDirections DEF PutBy, Dirs
  <2>2. i \in 1 .. Len(trail.rows) /\ j \in 1 .. Len(trail.rows)
    BY <1>2 DEF N
  <2> QED
    BY <2>1, <2>2 DEF AuditInv, Indexed, Same
<1>9. ASSUME NEW i \in S, NEW j \in S, rows[i].at = rows[j].at
      PROVE  \E k \in Own, n \in 1 .. 2, m \in 1 .. 2 : PutBy(i, k, n) /\ PutBy(j, k, m)
  <2>1. PICK k \in Own, n \in 1 .. 2 : PutBy(i, k, n)
    BY <1>7
  <2>2. PICK l \in Own, m \in 1 .. 2 : PutBy(j, l, m)
    BY <1>7
  <2>3. past[k].at = past[l].at
    BY <1>9, <2>1, <2>2 DEF PutBy
  <2>4. k = l
    BY <1>3, <2>3
  <2> QED
    BY <2>1, <2>2, <2>4
<1> DEFINE at(k, n) == CHOOSE i \in S : PutBy(i, k, n)
           fst == [k \in Both |-> at(k, 1)]
           snd == [k \in Both |-> at(k, 2)]
<1>10. ASSUME NEW k \in Both, NEW n \in 1 .. 2
       PROVE  at(k, n) \in S /\ PutBy(at(k, n), k, n)
  <2>1. past[k] \in Decision /\ k \in Own /\ k \in 1 .. Len(past)
    BY <1>1, <1>6, ElementOfSeq
  <2>2. past[k].nets # <<>> /\ past[k].nets[n] # NoNet /\ Directions2[n] \in past[k].kept
    <3>1. n = 1 \/ n = 2
      OBVIOUS
    <3> QED
      BY <1>6, <2>1, <3>1, TwoDirections DEF Dirs
  <2>3. n \in 1 .. Len(RowsOf(past[k])) /\ RowsOf(past[k])[n].dir = Directions2[n]
        /\ RowsOf(past[k])[n].net = past[k].nets[n] /\ Len(RowsOf(past[k])) = 2
    <3>1. n = 1 \/ n = 2
      OBVIOUS
    <3> QED
      BY <2>1, <2>2, <3>1, RowsShape, TwoDirections
  <2>4. PICK i \in 1 .. Len(trail.rows) : trail.rows[i] = RowsOf(past[k])[n]
    BY <2>1, <2>2, <2>3 DEF AuditInv, Traced
  <2>5. /\ trail.rows[i].run = past[k].run /\ trail.rows[i].pair = past[k].pair
        /\ trail.rows[i].at = past[k].at /\ trail.rows[i].verdict = past[k].verdict
    BY <2>1, <2>3, <2>4, RowsShape
  <2>6. PutBy(i, k, n)
    BY <2>1, <2>2, <2>3, <2>4, <2>5 DEF PutBy
  <2>7. past[k].run = run /\ past[k].pair = p /\ past[k].verdict \in {NoNet, "allowed"}
    BY <1>5, <1>6, <2>1
  <2>8. i \in S
    <3>1. i \in 1 .. N
      BY DEF N
    <3> QED
      BY <1>2, <2>2, <2>3, <2>4, <2>5, <2>7, <3>1
  <2> QED
    BY <2>6, <2>8
<1> HIDE DEF at
<1>11. \A k \in Both : /\ fst[k] = at(k, 1) /\ snd[k] = at(k, 2)
                       /\ fst[k] \in S /\ PutBy(fst[k], k, 1) /\ snd[k] \in S /\ PutBy(snd[k], k, 2)
  BY <1>10
<1>12. fst \in [Both -> S] /\ snd \in [Both -> S]
  BY <1>10
<1> HIDE DEF fst, snd
<1>13. \A i, j \in S : rows[i].at = rows[j].at /\ rows[i].dir = rows[j].dir => i = j
  <2> SUFFICES ASSUME NEW i \in S, NEW j \in S, rows[i].at = rows[j].at, rows[i].dir = rows[j].dir
               PROVE  i = j
    OBVIOUS
  <2>1. PICK k \in Own, n \in 1 .. 2, m \in 1 .. 2 : PutBy(i, k, n) /\ PutBy(j, k, m)
    BY <1>9
  <2>2. Directions2[n] = Directions2[m]
    BY <2>1 DEF PutBy
  <2>3. n = m
    <3>1. (n = 1 \/ n = 2) /\ (m = 1 \/ m = 2)
      OBVIOUS
    <3> QED
      BY <2>2, <3>1, TwoDirections
  <2> QED
    BY <1>8, <2>1, <2>3
<1>14. ASSUME NEW i \in S, NEW j \in S, rows[i].at = rows[j].at,
              rows[i].dir = "CEX_to_DEX", rows[j].dir = "DEX_to_CEX"
       PROVE  \E k \in Both : fst[k] = i /\ snd[k] = j
  <2>1. PICK k \in Own, n \in 1 .. 2, m \in 1 .. 2 : PutBy(i, k, n) /\ PutBy(j, k, m)
    BY <1>9, <1>14
  <2>2. n = 1 /\ m = 2
    <3>1. (n = 1 \/ n = 2) /\ (m = 1 \/ m = 2)
      OBVIOUS
    <3> QED
      BY <1>14, <2>1, <3>1, TwoDirections DEF PutBy
  <2>3. past[k].nets # <<>> /\ Dirs \subseteq past[k].kept
    BY <2>1, <2>2, TwoDirections DEF PutBy, Dirs
  <2>4. /\ past[k].nets[1] = rows[i].net /\ past[k].nets[2] = rows[j].net
        /\ past[k].verdict = rows[i].verdict
    BY <2>1, <2>2 DEF PutBy
  <2>5. /\ rows[i].net # NoNet /\ rows[j].net # NoNet /\ rows[i].verdict \in {NoNet, "allowed"}
    BY <1>2
  <2>6. k \in Both
    BY <1>6, <2>3, <2>4, <2>5
  <2>7. fst[k] = i /\ snd[k] = j
    BY <1>8, <1>11, <2>1, <2>2, <2>6
  <2> QED
    BY <2>6, <2>7
<1>15. ASSUME NEW k \in Both
       PROVE  /\ rows[fst[k]].dir = "CEX_to_DEX" /\ rows[snd[k]].dir = "DEX_to_CEX"
              /\ rows[fst[k]].at = rows[snd[k]].at /\ fst[k] < snd[k]
  <2>1. PutBy(fst[k], k, 1) /\ PutBy(snd[k], k, 2) /\ fst[k] \in S /\ snd[k] \in S /\ k \in Own
    BY <1>6, <1>11
  <2>2. /\ rows[fst[k]].dir = "CEX_to_DEX" /\ rows[snd[k]].dir = "DEX_to_CEX"
        /\ rows[fst[k]].at = rows[snd[k]].at /\ rows[fst[k]].run = rows[snd[k]].run
        /\ rows[fst[k]].pair = rows[snd[k]].pair
        /\ rows[snd[k]].run = run /\ rows[snd[k]].pair = p
    BY <1>5, <1>6, <2>1, TwoDirections DEF PutBy
  <2>3. fst[k] \in 1 .. N /\ snd[k] \in 1 .. N
    BY <1>2, <2>1
  <2>4. fst[k] # snd[k]
    BY <2>2
  <2>5. ASSUME snd[k] < fst[k] PROVE FALSE
    <3>1. Turned(rows[snd[k]], rows[fst[k]])
      BY <2>2 DEF Turned
    <3>2. InTwoDecisions(past, rows[snd[k]])
      BY <2>3, <2>5, <3>1 DEF AuditInv, FirstThenSecond, N
    <3>3. PICK l \in 1 .. Len(past), m \in 1 .. Len(past) :
             /\ l # m
             /\ past[l].run = run /\ past[l].at = rows[snd[k]].at /\ past[l].pair = p
             /\ past[m].run = run /\ past[m].at = rows[snd[k]].at /\ past[m].pair = p
      BY <2>2, <3>2 DEF InTwoDecisions
    <3>4. l \in Own /\ m \in Own
      BY <1>5, <3>3
    <3> QED
      BY <1>3, <3>3, <3>4
  <2>6. fst[k] < snd[k] \/ fst[k] = snd[k] \/ snd[k] < fst[k]
    BY <1>1, <2>3
  <2> QED
    BY <2>2, <2>4, <2>5, <2>6
<1>16. \A i, j \in S : Apart(rows[i].at, rows[j].at) <= SameCycle => rows[i].at = rows[j].at
  <2> SUFFICES ASSUME NEW i \in S, NEW j \in S, Apart(rows[i].at, rows[j].at) <= SameCycle
               PROVE  rows[i].at = rows[j].at
    OBVIOUS
  <2>1. PICK k \in Own, n \in 1 .. 2 : PutBy(i, k, n)
    BY <1>7
  <2>2. PICK l \in Own, m \in 1 .. 2 : PutBy(j, l, m)
    BY <1>7
  <2>3. past[k].at = rows[i].at /\ past[l].at = rows[j].at
    BY <2>1, <2>2 DEF PutBy
  <2>4. k = l
    BY <1>4, <2>3
  <2> QED
    BY <2>3, <2>4
<1>17. \A k, m \in Both : fst[k] = fst[m] => k = m
  <2> SUFFICES ASSUME NEW k \in Both, NEW m \in Both, fst[k] = fst[m]
               PROVE  k = m
    OBVIOUS
  <2>1. past[k].at = past[m].at /\ k \in Own /\ m \in Own
    BY <1>6, <1>11 DEF PutBy
  <2> QED
    BY <1>3, <2>1
<1>18. IsFiniteSet(Both)
  <2>1. Both \subseteq 1 .. Len(past) /\ IsFiniteSet(1 .. Len(past))
    BY <1>1, <1>6, FS_Interval
  <2> QED
    BY <2>1, FS_Subset
<1>19. PricedRows(rows, S)
  BY <1>1, <1>2, <1>7 DEF PricedRows, N
<1>20. Cycles(rows, S, Both, fst, snd)
  BY <1>12, <1>13, <1>14, <1>15, <1>16, <1>17, <1>18, <1>19 DEF Cycles
<1>21. PICK g : IsBalance(g, rows, S, Balance(rows, run, p))
  BY <1>19, BalanceUnfolds DEF S
<1>22. /\ Balance(rows, run, p)["CEX_to_DEX"] = Cardinality({k \in Both : rows[fst[k]].net > rows[snd[k]].net})
       /\ Balance(rows, run, p)["DEX_to_CEX"] = Cardinality({k \in Both : rows[fst[k]].net <= rows[snd[k]].net})
  BY <1>20, <1>21, BalanceCounts
<1>23. \A k \in Both : rows[fst[k]].net = past[k].nets[1] /\ rows[snd[k]].net = past[k].nets[2]
  BY <1>11 DEF PutBy
<1>24. /\ {k \in Both : rows[fst[k]].net > rows[snd[k]].net} = {k \in Both : past[k].nets[1] > past[k].nets[2]}
       /\ {k \in Both : rows[fst[k]].net <= rows[snd[k]].net} = {k \in Both : past[k].nets[1] <= past[k].nets[2]}
  BY <1>23
<1>25. Both = both(p)
  BY DEF Both
<1> HIDE DEF both, rows
<1> QED
  BY <1>22, <1>24, <1>25

\* AuditFaithful: the file says what was decided, a markout is the net of the row
\* nearest to its offset, every cycle is counted once and for the better direction,
\* and the run analysed is the last one.
THEOREM AuditIsFaithful == AuditSpec => []AuditFaithful
<1>1. AuditInv => AuditFaithful
  BY TrailIsFaithful, MarkoutIsTrue, BalanceIsTrue, LatestIsChosen DEF AuditFaithful
<1> QED
  BY <1>1, AuditInvariance, PTL

-----------------------------------------------------------------------------
(* MCRecording *)

recordingVars == <<part, now, poolVars, gasVars, pickVars, recorderVars, auditVars, quoteVars>>

\* Every part begins as it does alone; the quotes do where they are the part taken.
LEMMA PartsBegin ==
    Init => /\ PoolInit /\ GasInit /\ SelectorInit /\ RecorderInit /\ AuditInit
            /\ part = "quote" => QuotingInit
  BY DEF Init

\* What is a step of one part is none of any other, and the part taken stays taken.
LEMMA PartsKeepApart ==
    [Next]_recordingVars =>
        /\ [PoolNext]_<<now, poolVars>> /\ [GasNext]_gasVars /\ [SelectorNext]_pickVars
        /\ [RecorderNext]_recorderVars /\ [AuditNext]_auditVars /\ [QuotingNext]_quoteVars
        /\ part' = part
<1> SUFFICES ASSUME [Next]_recordingVars
             PROVE  /\ [PoolNext]_<<now, poolVars>> /\ [GasNext]_gasVars /\ [SelectorNext]_pickVars
                    /\ [RecorderNext]_recorderVars /\ [AuditNext]_auditVars
                    /\ [QuotingNext]_quoteVars /\ part' = part
  OBVIOUS
<1>1. CASE Pool
  BY <1>1 DEF Pool
<1>2. CASE Gas
  BY <1>2 DEF Gas
<1>3. CASE Tier
  BY <1>3 DEF Tier
<1>4. CASE Recording
  BY <1>4 DEF Recording
<1>5. CASE Audit
  BY <1>5 DEF Audit
<1>6. CASE Quote
  BY <1>6 DEF Quote
<1>7. CASE UNCHANGED recordingVars
  BY <1>7 DEF recordingVars
<1> QED
  BY <1>1, <1>2, <1>3, <1>4, <1>5, <1>6, <1>7 DEF Next

\* Pool cache, oracle, selector, recorder, audit trail and quotes run beside each other
\* as each runs alone: what is proved of one of them holds of all that MCRecording runs.
THEOREM RecordingRunsItsParts ==
    Spec => /\ PoolSpec /\ GasSpec /\ SelectorSpec /\ AuditSpec
            /\ RecorderInit /\ [][RecorderNext]_recorderVars
            /\ part = "recorder" => RecorderSpec
            /\ part = "quote" => QuotingSpec
  BY PartsBegin, PartsKeepApart, PTL
  DEF Spec, recordingVars, PoolSpec, GasSpec, SelectorSpec, AuditSpec, RecorderSpec, QuotingSpec

\* The state of a quote has its type where a quote is the part taken.
LEMMA QuotesTyped == Spec => [](part = "quote" => QuotingTypeOK)
<1> DEFINE QuoteKept == part = "quote" => QuoteInv
<1>1. Init => QuoteKept
  BY PartsBegin, QuoteInitInv
<1>2. QuoteKept /\ [Next]_recordingVars => QuoteKept'
  BY PartsKeepApart, QuoteNextInv
<1>3. QuoteKept => (part = "quote" => QuotingTypeOK)
  BY DEF QuoteInv
<1> HIDE DEF QuoteKept
<1> QED
  BY <1>1, <1>2, <1>3, PTL DEF Spec, recordingVars

\* The caches, the recorder and its trail, and the quotes keep their types, whichever
\* of them runs.
THEOREM RecordingTypeCorrect == Spec => []TypeOK
<1>1. AccountInv => RecorderTypeOK
  BY DEF AccountInv
<1>2. RecorderInit /\ [][RecorderNext]_recorderVars => []RecorderTypeOK
  BY <1>1, AccountStarts, AccountStep, PTL
<1> QED
  BY <1>2, RecordingRunsItsParts, CacheTypeCorrect, GasTypeCorrect, SelectorTypeCorrect,
     AuditTypeCorrect, QuotesTyped, PTL DEF TypeOK

=============================================================================
