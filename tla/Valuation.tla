------------------------------ MODULE Valuation ------------------------------
(***************************************************************************)
(* What one evaluation of one pair claims a trade is worth: the two        *)
(* directions of src/strategy/detector.py priced with                      *)
(* src/strategy/costs.py, the decision and its rows, and the legs          *)
(* src/strategy/executor.py makes of the opportunity.                      *)
(*                                                                         *)
(* Amounts of money are exact: a price enters as the value of a size at    *)
(* it, and net values are counted in parts of 1 / Per, Per being the       *)
(* number of basis points in one.                                          *)
(***************************************************************************)
EXTENDS Integers, Sequences, FiniteSets, SequencesExt

CONSTANTS
    Notional,       \* target_notional_usd
    AskLadders,     \* the asks a book can have, best first
    BidLadders,     \* the bids
    Intermediates,  \* best bid and ask an intermediate asset can have
    PoolPrices,     \* what a pool can quote for one base, in its quote token
    FeeTiers, OwnTier,  \* the tiers that can be routed to, and the configured one
    Per,            \* TEN_THOUSAND
    TakerFee,       \* taker_fee_bps
    Gas,            \* gas_cost_quote
    WithdrawalFee, BridgeGas, FloatQuote,  \* rotation
    TransferRisk,   \* transfer_risk_bps
    MinNet,         \* min_net_bps
    SanityNet,      \* max_net_bps_sanity
    PriceCap,       \* price_ceiling_quote
    EdgeCap,        \* max_edge_bps of the pair
    Unpriced        \* an evaluation without economics

\* Price levels of one side of a book.
IsLadder(l) ==
    /\ Len(l) \in Nat \ {0} /\ DOMAIN l = 1 .. Len(l)
    /\ \A i \in 1 .. Len(l) : l[i].price \in Nat \ {0} /\ l[i].size \in Nat

\* walk_book raises on a book that is not in order.  Sizes come out whole.
ASSUME ValuationAssumption ==
    /\ Notional \in Nat \ {0} /\ Per \in Nat \ {0}
    /\ FloatQuote \in Nat /\ FloatQuote >= Notional
    /\ {TakerFee, Gas, WithdrawalFee, BridgeGas} \subseteq Nat
    /\ {MinNet, TransferRisk, SanityNet, PriceCap, EdgeCap} \subseteq Int
    /\ ((WithdrawalFee + BridgeGas) * Notional) % FloatQuote = 0
    /\ \A l \in AskLadders \cup BidLadders : IsLadder(l)
    /\ \A l \in AskLadders :
          /\ Notional % l[1].price = 0
          /\ \A i \in 2 .. Len(l) : l[i - 1].price <= l[i].price
    /\ \A l \in BidLadders : \A i \in 2 .. Len(l) : l[i - 1].price >= l[i].price
    /\ PoolPrices \subseteq Nat \ {0} /\ Intermediates \subseteq [bid : Nat \ {0}, ask : Nat \ {0}]
    /\ \A p \in PoolPrices, a \in {1} \cup {i.ask : i \in Intermediates} :
          Notional % a = 0 /\ Notional % (p * a) = 0

VARIABLES
    quotes,    \* the captured book, and the price of the pool's quote token
    side,      \* per direction, how far its evaluation is and what it has found
    rowsOf,    \* what was recorded
    claim,     \* the opportunity, or Unpriced
    plan,      \* the legs and result of the summary, or Unpriced
    phase

valuationVars == <<quotes, side, rowsOf, claim, plan, phase>>

Ways == {"CEX_to_DEX", "DEX_to_CEX"}

NotYet == [at |-> "tier", tier |-> OwnTier, price |-> 0, econ |-> Unpriced]

ValuationInit ==
    /\ quotes = [asks |-> <<>>, bids |-> <<>>, mid |-> [bid |-> 1, ask |-> 1], legs |-> 1]
    /\ side = [d \in Ways |-> NotYet]
    /\ rowsOf = {}
    /\ claim = Unpriced
    /\ plan = Unpriced
    /\ phase = "idle"

-----------------------------------------------------------------------------
(* costs.py *)

\* Fills the levels in order; complete when the size was there.
Fill(f, l, size) ==
    LET taken == IF l.size < size - f.filled THEN l.size ELSE size - f.filled
    IN  [filled |-> f.filled + taken, value |-> f.value + taken * l.price]

WalkBook(levels, size) ==
    LET after[i \in 0 .. Len(levels)] ==
            IF i = 0 THEN [filled |-> 0, value |-> 0] ELSE Fill(after[i - 1], levels[i], size)
    IN  after[Len(levels)]

Complete(fill, size) == fill.filled >= size

RotationCost == ((WithdrawalFee + BridgeGas) * Notional) \div FloatQuote

\* The risk of inventory on its way raises the floor, not the cost.
NetFloor == MinNet + TransferRisk

\* Slip: the fee of a second order is forgotten.
OneLegFee(cex, legs) == cex * TakerFee

CexFee(cex, legs) == cex * TakerFee * legs

\* evaluate_trade, given the value traded on each venue.
EconomicsWith(gas, d, size, cex, dex, legs) ==
    LET bought == IF d = "CEX_to_DEX" THEN cex ELSE dex
        gross == IF d = "CEX_to_DEX" THEN dex - cex ELSE cex - dex
    IN  [size |-> size, cex |-> cex, dex |-> dex, notional |-> bought,
         fee |-> CexFee(cex, legs),
         net |-> Per * gross - CexFee(cex, legs) - Per * gas - Per * RotationCost]

Economics(d, size, cex, dex, legs) == EconomicsWith(Gas, d, size, cex, dex, legs)

-----------------------------------------------------------------------------
(* detector.py: both directions *)

\* A usable book; for a synthetic pair the price of the intermediate asset as well.
Capture ==
    /\ phase = "idle"
    /\ \E a \in AskLadders, b \in BidLadders :
          \/ quotes' = [asks |-> a, bids |-> b, mid |-> [bid |-> 1, ask |-> 1], legs |-> 1]
          \/ \E i \in Intermediates :
                quotes' = [asks |-> a, bids |-> b, mid |-> i, legs |-> 2]
    /\ phase' = "pricing"
    /\ UNCHANGED <<side, rowsOf, claim, plan>>

\* _quoting_pair: the selector answers with a tier, or the configured one stays.
Route(d) ==
    /\ phase = "pricing" /\ side[d].at = "tier"
    /\ \E t \in FeeTiers \cup {OwnTier} :
          side' = [side EXCEPT ![d].at = "quote", ![d].tier = t]
    /\ UNCHANGED <<quotes, rowsOf, claim, plan, phase>>

Found(d, price, econ) ==
    side' = [side EXCEPT ![d].at = "done", ![d].price = price, ![d].econ = econ]

\* Buys base on the exchange and sells what it got on the chain.  What an
\* intermediate asset brings is its bid.
SellQuoted ==
    LET size == Notional \div quotes.asks[1].price
        fill == WalkBook(quotes.asks, size)
    IN  /\ phase = "pricing" /\ side["CEX_to_DEX"].at = "quote"
        /\ Complete(fill, size)
        /\ \E p \in PoolPrices :
              Found("CEX_to_DEX", p,
                    Economics("CEX_to_DEX", fill.filled, fill.value,
                              fill.filled * p * quotes.mid.bid, quotes.legs))
        /\ UNCHANGED <<quotes, rowsOf, claim, plan, phase>>

\* Spends the notional on the chain, of an intermediate asset what it buys at its
\* ask, and sells the base on the exchange.
BuyQuoted ==
    /\ phase = "pricing" /\ side["DEX_to_CEX"].at = "quote"
    /\ \E p \in PoolPrices :
          LET size == Notional \div (p * quotes.mid.ask)
              fill == WalkBook(quotes.bids, size)
          IN  Found("DEX_to_CEX", p,
                    IF Complete(fill, size)
                    THEN Economics("DEX_to_CEX", size, fill.value, Notional, quotes.legs)
                    ELSE Unpriced)
    /\ UNCHANGED <<quotes, rowsOf, claim, plan, phase>>

\* Too little depth, no quote, a failed call, or anything raised: a reason, and the
\* other direction goes on.
Unanswered(d) ==
    /\ phase = "pricing" /\ side[d].at # "done"
    /\ Found(d, 0, Unpriced)
    /\ UNCHANGED <<quotes, rowsOf, claim, plan, phase>>

-----------------------------------------------------------------------------
(* _decide, _emit, _to_opportunity *)

Plausible(e) == e.net <= SanityNet * e.notional

Clears(e) == e.net >= NetFloor * e.notional

Row(d, best) ==
    [dir |-> d, tier |-> side[d].tier, econ |-> side[d].econ, floor |-> NetFloor, taken |-> d = best]

Decide ==
    /\ phase = "pricing" /\ \A d \in Ways : side[d].at = "done"
    /\ LET viable == {d \in Ways : side[d].econ # Unpriced
                                    /\ Plausible(side[d].econ) /\ Clears(side[d].econ)}
           top == {d \in viable : \A e \in viable : side[e].econ.net <= side[d].econ.net}
           best == IF top = {} THEN "none"
                   ELSE IF "CEX_to_DEX" \in top THEN "CEX_to_DEX" ELSE "DEX_to_CEX"
       IN  /\ rowsOf' = {Row(d, best) : d \in Ways}
           /\ claim' = IF best = "none" THEN Unpriced
                       ELSE [dir |-> best, tier |-> side[best].tier, econ |-> side[best].econ]
    /\ phase' = "decided"
    /\ UNCHANGED <<quotes, side, plan>>

-----------------------------------------------------------------------------
(* executor.py *)

Leg(venue, action, value, fee) ==
    [venue |-> venue, side |-> action, value |-> value, size |-> claim.econ.size, fee |-> fee]

BuildLegs ==
    LET e == claim.econ IN
    IF claim.dir = "DEX_to_CEX"
    THEN <<Leg("DEX", "buy", e.dex, 0), Leg("CEX", "sell", e.cex, e.fee)>>
    ELSE <<Leg("CEX", "buy", e.cex, e.fee), Leg("DEX", "sell", e.dex, 0)>>

\* The pair's own limits on both prices and on the edge.
Sane(e) ==
    /\ \A value \in {e.cex, e.dex} : 0 < value /\ value <= PriceCap * e.size
    /\ e.net <= EdgeCap * e.notional /\ -e.net <= EdgeCap * e.notional

\* In time and sane: a summary with legs, and the claim as its result.
Execute ==
    /\ phase = "decided" /\ claim # Unpriced /\ Sane(claim.econ)
    /\ plan' = [legs |-> BuildLegs, pnl |-> claim.econ.net]
    /\ phase' = "over"
    /\ UNCHANGED <<quotes, side, rowsOf, claim>>

\* Otherwise, or past its deadline, a summary of nothing.
Refuse ==
    /\ phase = "decided" /\ claim # Unpriced
    /\ plan' = [legs |-> <<>>, pnl |-> 0]
    /\ phase' = "over"
    /\ UNCHANGED <<quotes, side, rowsOf, claim>>

ValuationNext ==
    \/ Capture \/ SellQuoted \/ BuyQuoted \/ Decide \/ Execute \/ Refuse
    \/ \E d \in Ways : Route(d) \/ Unanswered(d)

ValuationSpec == ValuationInit /\ [][ValuationNext]_valuationVars

\* The values the state can have, those of the two bounded searches left open.
ValuationTypeOK ==
    /\ phase \in {"idle", "pricing", "decided", "over"}
    /\ quotes.legs \in {1, 2} /\ quotes.mid \in [bid : Nat, ask : Nat \ {0}]
    /\ \A d \in Ways :
          /\ side[d].at \in {"tier", "quote", "done"}
          /\ side[d].tier \in FeeTiers \cup {OwnTier}
          /\ side[d].price \in PoolPrices \cup {0}
          /\ side[d].econ # Unpriced =>
                side[d].econ \in [size : Nat, cex : Nat, dex : Nat, notional : Nat,
                                  fee : Nat, net : Int]
    /\ (phase \in {"decided", "over"}) = (rowsOf # {})
    /\ claim # Unpriced => claim.dir \in Ways

-----------------------------------------------------------------------------
(* What carrying it out does to the accounts *)

Total(a, n) ==
    LET upto[i \in 0 .. n] == IF i = 0 THEN 0 ELSE upto[i - 1] + a[i]
    IN  upto[n]

\* The best that can be had for a size of these levels, in whatever portions.
Portions(levels, size) ==
    {a \in [1 .. Len(levels) -> 0 .. size] :
        /\ \A i \in 1 .. Len(levels) : a[i] <= levels[i].size
        /\ Total(a, Len(levels)) = size}

Value(levels, a) ==
    Total([i \in 1 .. Len(levels) |-> a[i] * levels[i].price], Len(levels))

\* What every order moves, in the quote currency and before fees: in CEX_to_DEX the
\* base is bought, swapped, and the proceeds sold if they are an intermediate asset.
Traded ==
    LET p == side[claim.dir].price
        size == claim.econ.size
    IN  IF claim.dir = "CEX_to_DEX"
        THEN <<Min({Value(quotes.asks, a) : a \in Portions(quotes.asks, size)}),
               size * p * quotes.mid.bid>>
        ELSE <<(Notional \div quotes.mid.ask) * quotes.mid.ask,
               Max({Value(quotes.bids, a) : a \in Portions(quotes.bids, size)})>>

\* Fees are due on every order placed on the exchange: a synthetic pair has two.
FeesDue ==
    TakerFee * (IF quotes.legs = 2 THEN Traded[1] + Traded[2]
                ELSE IF claim.dir = "CEX_to_DEX" THEN Traded[1] ELSE Traded[2])

CashFlow == Per * (Traded[2] - Traded[1]) - FeesDue - Per * Gas - Per * RotationCost

-----------------------------------------------------------------------------
(* Properties *)

\* What an opportunity claims is what carrying it out brings: the book eaten at its
\* best, the pool at the quote of the tier named, an intermediate asset bought or sold
\* for just what the swap needs, gas and rotation once.  With two exchange orders the
\* fee is taken on one value twice, so the claim is off by the fee on their difference.
\* The legs executed sell the size they buy and add up to that result, and every row
\* holds what its decision can be made from again.
ClaimIsCashFlow ==
    claim # Unpriced =>
        LET e == claim.econ
            off == IF quotes.legs = 2 THEN TakerFee * (Traded[2] - Traded[1]) ELSE 0
        IN  /\ e.net - CashFlow = (IF claim.dir = "CEX_to_DEX" THEN off ELSE -off)
            /\ claim.dir = "DEX_to_CEX" =>
                  e.size * side[claim.dir].price = Notional \div quotes.mid.ask
            /\ {r \in rowsOf : r.taken} =
                  {[dir |-> claim.dir, tier |-> claim.tier, econ |-> e,
                    floor |-> NetFloor, taken |-> TRUE]}
            /\ \A r \in rowsOf : r.econ # Unpriced /\ r.econ.net > e.net =>
                  \/ r.econ.net > SanityNet * r.econ.notional
                  \/ r.econ.net < r.floor * r.econ.notional
            /\ plan # Unpriced /\ plan.legs # <<>> =>
                  LET buy == plan.legs[1]  sell == plan.legs[2] IN
                  /\ buy.side = "buy" /\ sell.side = "sell" /\ buy.size = sell.size
                  /\ plan.pnl = Per * (sell.value - buy.value) - buy.fee - sell.fee
                                - Per * Gas - Per * RotationCost

=============================================================================
