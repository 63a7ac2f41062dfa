--------------------------- MODULE PoolStateCache ---------------------------
(***************************************************************************)
(* One pool in PoolStateCache (src/exchange/pool_state_cache.py) over      *)
(* ChainPoolReader (src/exchange/pool_state.py).                           *)
(*                                                                         *)
(* A block is an instant: the chain's state at block b is tickAt[b + 1],   *)
(* and data read at block b are "of" b.  Several calls of refresh may be   *)
(* under way at once; each suspends in its reads and works with the entry  *)
(* it looked up before.                                                    *)
(***************************************************************************)
EXTENDS Integers, Sequences

CONSTANTS
    Readers,     \* concurrent calls of refresh
    Reread,      \* full_reread_seconds
    Span,        \* how far the scanned window reaches from the tick
    Ticks,       \* the ticks the price can be at
    ReadBy,      \* bound: a read returns or fails within this time
    MaxTime      \* bound: the last instant

ASSUME PoolAssumption ==
    /\ Reread \in Nat \ {0}
    /\ Span \in Nat \ {0}
    /\ Ticks \subseteq Int
    /\ Ticks # {}
    /\ ReadBy \in Nat
    /\ MaxTime \in Nat

VARIABLES
    now,      \* the latest block
    tickAt,   \* the price of every block so far
    entry,    \* _entries[key]
    call,     \* where each call of refresh is, and the entry it looked up
    told      \* the blocks of the price and the ticks it returned; -1: it raised

poolVars == <<tickAt, entry, call, told>>

Entries == [priceOf : Int, ticksOf : Int, readAt : Int, lower : Int, upper : Int]

Absent == [priceOf |-> -1, ticksOf |-> -1, readAt |-> -1, lower |-> 0, upper |-> 0]

Idle == [step |-> "idle", since |-> 0, held |-> Absent]

PoolTypeOK ==
    /\ now \in Nat
    /\ tickAt \in Seq(Ticks) /\ Len(tickAt) = now + 1
    /\ entry \in Entries
    /\ call \in [Readers -> [step : {"idle", "slot0", "full"}, since : Nat, held : Entries]]
    /\ told \in [Readers -> [price : Int, ticks : Int]]

PoolInit ==
    /\ now = 0
    /\ tickAt \in {<<t>> : t \in Ticks}
    /\ entry = Absent
    /\ call = [r \in Readers |-> Idle]
    /\ told = [r \in Readers |-> [price |-> -1, ticks |-> -1]]

-----------------------------------------------------------------------------
(* refresh *)

\* No entry, or one whose ticks are too old: everything is read again.
NeedsFullRead == entry = Absent \/ now - entry.readAt >= Reread

Refresh(r) ==
    /\ call[r].step = "idle"
    /\ call' = [call EXCEPT ![r] =
                 [step |-> IF NeedsFullRead THEN "full" ELSE "slot0",
                  since |-> now, held |-> entry]]
    /\ UNCHANGED <<now, tickAt, entry, told>>

\* read_slot0 and read_full pin one block, some block since they were called.
Pinned(r) == call[r].since .. now

Inside(held, b) == held.lower < tickAt[b + 1] /\ tickAt[b + 1] < held.upper

\* Slip: the entry held now gets the price, not the one looked up before.
PricedNow(r, b) == [entry EXCEPT !.ticksOf = call[r].held.ticksOf, !.priceOf = b]

\* Slip: a new price makes the ticks look freshly read.
PricedRestamped(r, b) == [call[r].held EXCEPT !.priceOf = b, !.readAt = now]

\* Slip: the held snapshot is handed out as it is.
PricedAsHeld(r, b) == call[r].held

Priced(r, b) == [call[r].held EXCEPT !.priceOf = b]

\* The call is over: it returned the snapshot of e.
Return(r, e) ==
    /\ call' = [call EXCEPT ![r] = Idle]
    /\ told' = [told EXCEPT ![r] = [price |-> e.priceOf, ticks |-> e.ticksOf]]

Slot0Returns(r) ==
    /\ call[r].step = "slot0"
    /\ \E b \in Pinned(r) :
          IF Inside(call[r].held, b)
          THEN entry' = Priced(r, b) /\ Return(r, entry')
          ELSE /\ call' = [call EXCEPT ![r] = [@ EXCEPT !.step = "full", !.since = now]]
               /\ UNCHANGED <<entry, told>>
    /\ UNCHANGED <<now, tickAt>>

\* The age of the ticks counts from the end of the read.
FullRead(b) ==
    [priceOf |-> b, ticksOf |-> b, readAt |-> now,
     lower |-> tickAt[b + 1] - Span, upper |-> tickAt[b + 1] + Span]

FullReturns(r) ==
    /\ call[r].step = "full"
    /\ \E b \in Pinned(r) : entry' = FullRead(b) /\ Return(r, entry')
    /\ UNCHANGED <<now, tickAt>>

\* An RPC error or a short multicall answer reaches the caller; the entry stays.
ReadRaises(r) ==
    /\ call[r].step # "idle"
    /\ Return(r, Absent)
    /\ UNCHANGED <<now, tickAt, entry>>

\* The next block.  No read outlasts ReadBy.
Block ==
    /\ now < MaxTime
    /\ \A r \in Readers : call[r].step # "idle" => now - call[r].since < ReadBy
    /\ now' = now + 1
    /\ \E t \in Ticks : tickAt' = Append(tickAt, t)
    /\ UNCHANGED <<entry, call, told>>

PoolNext ==
    \/ Block
    \/ \E r \in Readers : Refresh(r) \/ Slot0Returns(r) \/ FullReturns(r) \/ ReadRaises(r)

PoolSpec == PoolInit /\ [][PoolNext]_<<now, poolVars>>

-----------------------------------------------------------------------------
(* Properties *)

\* A price refresh returns is at most as old as the one read it waited for.
PoolPrice == INSTANCE BoundedStaleness WITH
    Callers <- Readers, MaxAge <- ReadBy, clock <- now,
    answer <- [r \in Readers |-> told[r].price]

\* The price refresh returns was read after the call began, however the calls
\* of several readers overlap: a held price is never passed on.
PriceFresh == PoolPrice!Spec

\* Ticks are reused for less than Reread from the end of the read that brought
\* them; that read and the one the caller waits for add at most ReadBy each.
PoolTicks == INSTANCE BoundedStaleness WITH
    Callers <- Readers, MaxAge <- Reread - 1 + 2 * ReadBy, clock <- now,
    answer <- [r \in Readers |-> told[r].ticks]

\* No snapshot is returned whose ticks are older than that, whichever call
\* wrote the entry last and however often its price was replaced.
TicksFresh == PoolTicks!Spec

\* An entry is one full read with a later price: its bounds are those of the
\* very read its ticks come from, and its price is one they cover, although a
\* slow refresh may overwrite what a full read has stored meanwhile.
EntryOfOneRead ==
    entry # Absent =>
        LET centre == tickAt[entry.ticksOf + 1] IN
        /\ 0 <= entry.ticksOf /\ entry.ticksOf <= entry.priceOf
        /\ entry.ticksOf <= entry.readAt /\ entry.readAt <= now
        /\ entry.lower = centre - Span /\ entry.upper = centre + Span
        /\ Inside(entry, entry.priceOf)

=============================================================================
