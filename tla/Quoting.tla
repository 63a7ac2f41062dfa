------------------------------- MODULE Quoting -------------------------------
(***************************************************************************)
(* From a pool on the chain to a locally computed price: the full read of  *)
(* src/exchange/pool_state.py, _tick_reader.py and multicall.py, the row a *)
(* snapshot is stored as, and the swap loop of src/exchange/univ3_math.py. *)
(*                                                                         *)
(* The fixed point is Q instead of 2^96, prices are the table SqrtAt       *)
(* instead of 1.0001^(tick/2), and one bitmap word spans every tick.       *)
(***************************************************************************)
EXTENDS Integers, FiniteSets, FiniteSetsExt

CONSTANTS
    Q,              \* Q96
    FeeUnits, Fee,  \* FEE_DENOMINATOR and the pool's fee
    MinTick, MaxTick, Spacing,
    SqrtAt,         \* sqrt price of every tick
    Positions,      \* bound: the liquidity positions a pool can hold
    Starts,         \* bound: the sqrt prices it can be at
    Inputs,         \* bound: the amounts asked about
    Scan,           \* tick_range, in spacings
    MaxTicks,       \* max_ticks
    MaxBatch,       \* max_batch
    MaxCrossings,   \* the swap loop's bound
    NoPrice         \* price_for_amount_in's None

TickRange == MinTick .. MaxTick

ASSUME QuotingAssumption ==
    /\ Q \in Nat \ {0} /\ Fee \in Nat /\ FeeUnits \in Nat /\ Fee < FeeUnits
    /\ Spacing \in Nat \ {0} /\ Scan \in Nat \ {0}
    /\ MinTick \in Int /\ MaxTick \in Int /\ MinTick < MaxTick
    /\ SqrtAt \in [TickRange -> Nat \ {0}]
    /\ \A t \in MinTick .. MaxTick - 1 : SqrtAt[t] < SqrtAt[t + 1]
    /\ Positions \subseteq [lower : TickRange, upper : TickRange, amount : Nat]
    /\ IsFiniteSet(Positions)
    /\ \A p \in Positions : p.lower % Spacing = 0 /\ p.upper % Spacing = 0
    /\ Starts \subseteq Nat \ {0} /\ Inputs \subseteq Nat
    /\ MaxTicks \in Nat /\ MaxBatch \in Nat /\ MaxCrossings \in Nat
    /\ NoPrice \notin Nat

VARIABLES
    pool,    \* the chain at the pinned block: positions, price and tick
    query,     \* the amount and the direction of the quote
    snap,    \* the snapshot: candidate ticks left to read, nets read, window
    swap,    \* the locals of swap_exact_in_detailed
    price,   \* what price_for_amount_in returned
    stage

quoteVars == <<pool, query, snap, swap, price, stage>>

-----------------------------------------------------------------------------
(* The pool *)

Liquidity(S) == MapThenSumSet(LAMBDA p : p.amount, S)

NetAt(S, t) == Liquidity({p \in S : p.lower = t}) - Liquidity({p \in S : p.upper = t})

Initialised(S) == {p.lower : p \in S} \cup {p.upper : p \in S}

ActiveAt(S, t) == Liquidity({p \in S : p.lower <= t /\ t < p.upper})

\* A swap down that stops exactly on a tick leaves slot0 one tick below it.
TicksOf(s) ==
    {t \in TickRange \ {MaxTick} :
        SqrtAt[t] <= s /\ (s < SqrtAt[t + 1] \/ s = SqrtAt[t + 1])}

NoSnapshot ==
    [toRead |-> {}, nets |-> {}, lower |-> MinTick, upper |-> MaxTick, windowed |-> TRUE]

NoSwap == [sqrt |-> 0, tick |-> 0, liq |-> 0, left |-> 0, out |-> 0, 
           exhausted |-> FALSE, turns |-> 0]

QuotingTypeOK ==
    /\ pool \in [positions : SUBSET Positions, sqrt : Starts, tick : TickRange]
    /\ query \in [amount : Inputs, down : BOOLEAN]
    /\ snap \in [toRead : SUBSET TickRange, nets : SUBSET [tick : TickRange, net : Int \ {0}],
                 lower : Int, upper : Int, windowed : BOOLEAN]
    /\ swap \in [sqrt : Nat, tick : Int, liq : Int, left : Nat, out : Nat,
                  exhausted : BOOLEAN, turns : 0 .. MaxCrossings]
    /\ price \in Nat \cup {NoPrice}
    /\ stage \in {"new", "nets", "raised", "snapshot", "swap", "priced"}

QuotingInit ==
    /\ \E S \in SUBSET Positions, s \in Starts :
          \E t \in TicksOf(s) : pool = [positions |-> S, sqrt |-> s, tick |-> t]
    /\ query \in [amount : Inputs, down : BOOLEAN]
    /\ snap = NoSnapshot
    /\ swap = NoSwap
    /\ price = NoPrice
    /\ stage = "new"

-----------------------------------------------------------------------------
(* The read *)

Nearer(t, u) ==
    LET d(x) == IF x > pool.tick THEN x - pool.tick ELSE pool.tick - x
    IN  d(t) < d(u) \/ (d(t) = d(u) /\ t < u)

Retained(T) == {t \in T : Cardinality({u \in T : Nearer(u, t)}) < MaxTicks}

\* Slip: the window still spans the ticks that were dropped.
ClampOfScan(T, lo, hi) == [ticks |-> Retained(T), lower |-> lo, upper |-> hi]

\* The ticks nearest the price, and a window that stops short of the others.
Clamp(T, lo, hi) ==
    LET below == {t \in T \ Retained(T) : t <= pool.tick}
        above == {t \in T \ Retained(T) : t > pool.tick}
    IN  [ticks |-> Retained(T),
         lower |-> Max({lo} \cup {t + 1 : t \in below}),
         upper |-> Min({hi} \cup {t - 1 : t \in above})]

\* tick_range spacings to each side.  The division rounds down, so the window can begin
\* below the least tick.
ReadBitmap ==
    /\ stage = "new"
    /\ LET compressed == pool.tick \div Spacing
           lo == Spacing * Max({MinTick \div Spacing, compressed - Scan})
           hi == Spacing * Min({MaxTick \div Spacing, compressed + Scan})
           c == Clamp(Initialised(pool.positions) \cap lo .. hi, lo, hi)
       IN  snap' = [toRead |-> c.ticks, nets |-> {},
                    lower |-> c.lower, upper |-> c.upper, windowed |-> TRUE]
    /\ stage' = "nets"
    /\ UNCHANGED <<pool, query, swap, price>>

\* The ticks of the next aggregate call, in order.
Batch == {t \in snap.toRead : Cardinality({u \in snap.toRead : u < t}) < MaxBatch}

\* One batch of ticks is answered; a net of zero is not kept.
NetsArrive ==
    /\ stage = "nets" /\ snap.toRead # {}
    /\ snap' = [snap EXCEPT !.toRead = @ \ Batch,
                            !.nets = @ \cup {x \in {[tick |-> t, net |-> NetAt(pool.positions, t)] :
                                                       t \in Batch} : x.net # 0}]
    /\ UNCHANGED <<pool, query, swap, price, stage>>

\* A batch with fewer answers than calls is refused: there is no snapshot.
NetsShort ==
    /\ stage = "nets" /\ snap.toRead # {}
    /\ stage' = "raised"
    /\ UNCHANGED <<pool, query, snap, swap, price>>

\* The snapshot is quoted live, or from its row; rows of old have no window.
SnapshotReady ==
    /\ stage = "nets" /\ snap.toRead = {}
    /\ \E w \in BOOLEAN : snap' = [snap EXCEPT !.windowed = w]
    /\ stage' = "snapshot"
    /\ UNCHANGED <<pool, query, swap, price>>

-----------------------------------------------------------------------------
(* Amounts between two sqrt prices a < b, rounded against the trader *)

CeilDiv(x, y) == (x + y - 1) \div y

Token0(a, b, l, up) ==
    IF up THEN CeilDiv(CeilDiv(l * Q * (b - a), b), a)
    ELSE ((l * Q * (b - a)) \div b) \div a

Token1(a, b, l, up) ==
    IF up THEN CeilDiv(l * (b - a), Q) ELSE (l * (b - a)) \div Q

InputFor(s, target, l, down) ==
    IF down THEN Token0(target, s, l, TRUE) ELSE Token1(s, target, l, TRUE)

OutputFor(s, next, l, down) ==
    IF down THEN Token1(next, s, l, FALSE) ELSE Token0(s, next, l, FALSE)

SqrtAfter(s, l, x, down) ==
    IF down THEN CeilDiv(l * Q * s, l * Q + x * s) ELSE s + (x * Q) \div l

-----------------------------------------------------------------------------
(* The swap loop *)

BeginSwap ==
    /\ stage = "snapshot"
    /\ LET l == ActiveAt(pool.positions, pool.tick)
       IN  swap' = [NoSwap EXCEPT !.sqrt = pool.sqrt, !.tick = pool.tick, !.liq = l,
                                  !.left = IF l = 0 THEN 0 ELSE query.amount]
    /\ stage' = "swap"
    /\ UNCHANGED <<pool, query, snap, price>>

TicksAhead ==
    {t \in snap.nets : IF query.down THEN t.tick < swap.tick ELSE t.tick > swap.tick}

NextInitialised ==
    CHOOSE t \in TicksAhead : \A u \in TicksAhead :
        IF query.down THEN u.tick <= t.tick ELSE t.tick <= u.tick

\* How far the data goes that way; at most one value.
ObservedBound ==
    LET seen == {t.tick : t \in snap.nets}
    IN  IF snap.windowed THEN {IF query.down THEN snap.lower ELSE snap.upper}
        ELSE {t \in seen : \A u \in seen : IF query.down THEN t <= u ELSE u <= t}

AtOrBeyond(s, target) == IF query.down THEN s <= target ELSE s >= target

Running ==
    /\ stage = "swap" /\ swap.left > 0 /\ swap.liq > 0 /\ ~swap.exhausted
    /\ swap.turns < MaxCrossings

\* Fills what the range up to the target takes of the input.
Filled(target) ==
    LET maxIn == InputFor(swap.sqrt, target, swap.liq, query.down)
        gross == maxIn + CeilDiv(maxIn * Fee, FeeUnits - Fee)
        whole == maxIn > 0 /\ swap.left >= gross
        net == swap.left - CeilDiv(swap.left * Fee, FeeUnits)
        next == IF whole THEN target ELSE SqrtAfter(swap.sqrt, swap.liq, net, query.down)
    IN  [swap EXCEPT !.sqrt = next,
                     !.left = IF whole THEN @ - gross ELSE 0,
                     !.out = @ + OutputFor(swap.sqrt, next, swap.liq, query.down),
                     !.turns = @ + 1]

StepToTick ==
    /\ Running /\ TicksAhead # {}
    /\ LET t == NextInitialised
           f == Filled(SqrtAt[t.tick])
       IN  swap' = IF f.sqrt = SqrtAt[t.tick]
                   THEN [f EXCEPT !.liq = IF query.down THEN @ - t.net ELSE @ + t.net,
                                  !.tick = IF query.down THEN t.tick - 1 ELSE t.tick]
                   ELSE [f EXCEPT !.exhausted = f.left > 0]
    /\ UNCHANGED <<pool, query, snap, price, stage>>

\* No further tick is known: the answer reaches as far as the observation does.
StepToBound ==
    /\ Running /\ TicksAhead = {} /\ ObservedBound \subseteq TickRange
    /\ swap' = IF \E b \in ObservedBound : ~AtOrBeyond(swap.sqrt, SqrtAt[b])
               THEN LET b == CHOOSE b \in ObservedBound : TRUE
                        f == Filled(SqrtAt[b])
                    IN  [f EXCEPT !.exhausted = f.sqrt = SqrtAt[b] \/ f.left > 0]
               ELSE [swap EXCEPT !.exhausted = TRUE]
    /\ UNCHANGED <<pool, query, snap, price, stage>>

\* No price exists below the least tick: the table refuses the bound.
BoundRaises ==
    /\ Running /\ TicksAhead = {} /\ ~(ObservedBound \subseteq TickRange)
    /\ stage' = "raised"
    /\ UNCHANGED <<pool, query, snap, swap, price>>

\* Input that is left makes range_exhausted true however the loop ended.
PriceOf == IF swap.out = 0 \/ swap.exhausted \/ swap.left > 0 THEN NoPrice ELSE swap.out

PriceReturned ==
    /\ stage = "swap" /\ ~Running
    /\ price' = PriceOf
    /\ stage' = "priced"
    /\ UNCHANGED <<pool, query, snap, swap>>

QuotingNext ==
    \/ ReadBitmap \/ NetsArrive \/ NetsShort \/ SnapshotReady
    \/ BeginSwap \/ StepToTick \/ StepToBound \/ BoundRaises \/ PriceReturned

QuotingSpec == QuotingInit /\ [][QuotingNext]_quoteVars

-----------------------------------------------------------------------------
(* The deployed contract, within one word of its bitmap *)

\* On the way down the tick the price is in counts as the next one.
ContractNext(S, down, tick) ==
    IF down THEN Max({MinTick} \cup {t \in Initialised(S) : t <= tick})
    ELSE Min({MaxTick} \cup {t \in Initialised(S) : t > tick})

ContractStep(S, down, c) ==
    LET t == ContractNext(S, down, c.tick)
        maxIn == InputFor(c.sqrt, SqrtAt[t], c.liq, down)
        net == (c.left * (FeeUnits - Fee)) \div FeeUnits
        next == IF net >= maxIn THEN SqrtAt[t] ELSE SqrtAfter(c.sqrt, c.liq, net, down)
        reached == next = SqrtAt[t]
    IN  [sqrt |-> next,
         tick |-> IF ~reached THEN c.tick ELSE IF down THEN t - 1 ELSE t,
         left |-> IF reached THEN c.left - maxIn - CeilDiv(maxIn * Fee, FeeUnits - Fee) ELSE 0,
         out |-> c.out + OutputFor(c.sqrt, next, c.liq, down),
         liq |-> IF ~reached THEN c.liq
                 ELSE IF down THEN c.liq - NetAt(S, t) ELSE c.liq + NetAt(S, t)]

AtLimit(s, down) == s = SqrtAt[IF down THEN MinTick ELSE MaxTick]

\* One turn of the contract's loop; none once the input is used or the limit reached.
ContractTurn(S, down, c) ==
    IF c.left > 0 /\ ~AtLimit(c.sqrt, down) THEN ContractStep(S, down, c) ELSE c

ContractStart ==
    [sqrt |-> pool.sqrt, tick |-> pool.tick, left |-> query.amount, out |-> 0,
     liq |-> ActiveAt(pool.positions, pool.tick)]

\* Turns enough for every tick there is.
Turns == MaxTick - MinTick + 1

\* What QuoterV2 answers for the whole input at the block that was read.
ContractPays ==
    LET run[k \in 0 .. Turns] ==
            IF k = 0 THEN ContractStart
            ELSE ContractTurn(pool.positions, query.down, run[k - 1])
    IN  run[Turns]

-----------------------------------------------------------------------------
(* Properties *)

Agrees == price = NoPrice \/ (price = ContractPays.out /\ ContractPays.left = 0)

\* No tick that changes liquidity lies where the price is, on its way.
PriceOffTicks ==
    IF query.down THEN pool.tick \notin Initialised(pool.positions)
    ELSE pool.sqrt # SqrtAt[pool.tick + 1]

\* No position ends where others of the same liquidity begin.  The contract stops at
\* such a tick and rounds there; the read keeps no net of zero, and the quote goes by.
NetsShow == \A t \in Initialised(pool.positions) : NetAt(pool.positions, t) # 0

\* No initialised tick lies right below another.  After a crossing downwards the search
\* begins below the tick just under the one crossed, so in a pool of spacing one it
\* goes by such a tick.
TicksApart == \A t, u \in Initialised(pool.positions) : t # u - 1

\* Whatever was scanned, dropped for the budget, or lost with the window of an
\* old row, a size either gets no price or gets, to the last unit, what the
\* deployed contract would pay for all of it.
QuoteExact == PriceOffTicks /\ NetsShow /\ TicksApart => Agrees

\* univ3_math.py: "Exact agreement with the deployed QuoterV2", at any price.
QuoterAgreement == Agrees

=============================================================================
