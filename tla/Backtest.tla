------------------------------ MODULE Backtest ------------------------------
(***************************************************************************)
(* backtest/simulator.py: a dataset of prices, row by row through the      *)
(* detector, the risk manager without a file and the executor.  A row is   *)
(* a book of one level per side, one price of the pool for both            *)
(* directions, and what its gas can be worked out from.                    *)
(***************************************************************************)
EXTENDS Valuation

CONSTANTS
    Records,     \* rows a dataset can hold: ask, bid, price, gas, gwei, native
    MaxRecords,  \* bound: rows of a dataset
    LevelDepth,  \* depth_per_level_base
    GasUnits,    \* swap_gas_estimate_units
    NotionalCaps, \* max_notional_per_leg_quote, as configured
    LossLimit    \* max_daily_loss_quote

\* Sizes come out whole.
ASSUME BacktestAssumption ==
    /\ MaxRecords \in Nat /\ LevelDepth \in Nat /\ GasUnits \in Nat
    /\ NotionalCaps \subseteq Nat /\ LossLimit \in Nat \ {0}
    /\ Unpriced \notin [dir : Ways, econ : [size : Nat, cex : Nat, dex : Nat, notional : Nat,
                                            fee : Nat, net : Int]]
    /\ Records \subseteq [ask : {Unpriced} \cup (Nat \ {0}), bid : Nat, price : Nat \ {0},
                          gas : {Unpriced} \cup Nat, gwei : {Unpriced} \cup Nat,
                          native : {Unpriced} \cup Nat]
    /\ \A r \in Records : r.ask # Unpriced => Notional % r.ask = 0 /\ Notional % r.price = 0

VARIABLES
    history,  \* the rows of the dataset
    sim,      \* rows evaluated, opportunities, refusals, the results and the row of each
    budget,   \* the risk manager: daily_pnl, halted and the cap it has
    pending,  \* the opportunity at hand, or Unpriced
    progress

backtestVars == <<history, sim, budget, pending, progress>>

BacktestInit ==
    /\ history = <<>>
    /\ sim = [rows |-> 0, found |-> 0, refused |-> 0, results |-> <<>>]
    /\ budget \in [pnl : {0}, halted : {FALSE}, cap : NotionalCaps]
    /\ pending = Unpriced
    /\ progress = "new"

-----------------------------------------------------------------------------

\* gas_quote_for_row: the column, else what the gwei price comes to.
GasOf(r) ==
    IF r.gas # Unpriced THEN r.gas
    ELSE IF r.gwei # Unpriced /\ r.native # Unpriced THEN r.gwei * GasUnits * r.native
    ELSE Unpriced

\* validate_dataset: one row without a gas cost refuses them all.
Validate ==
    /\ progress = "new"
    /\ \E n \in 0 .. MaxRecords : history' \in [1 .. n -> Records]
    /\ progress' = IF \E i \in DOMAIN history' : GasOf(history'[i]) = Unpriced
                   THEN "rejected" ELSE "running"
    /\ UNCHANGED <<sim, budget, pending>>

\* A row with an empty price raises in the detector, which makes nothing of it.
Readable(r) == r.ask # Unpriced

\* The recorded price, unmodified, whatever the size and the side.
PoolValue(r, size) == size * r.price

\* The two directions over a book of one level per side.
RowTrades(r) ==
    LET sold == Notional \div r.ask
        bought == Notional \div r.price
    IN  {t \in {[dir |-> "CEX_to_DEX", size |-> sold, cex |-> Notional, dex |-> PoolValue(r, sold)],
                [dir |-> "DEX_to_CEX", size |-> bought, cex |-> bought * r.bid, dex |-> Notional]} :
            t.size <= LevelDepth}

RowOffers(r) ==
    LET trades == IF Readable(r) THEN RowTrades(r) ELSE {}
        valued == {[dir |-> t.dir, econ |-> EconomicsWith(GasOf(r), t.dir, t.size, t.cex, t.dex, 1)] :
                      t \in trades}
        viable == {v \in valued : Plausible(v.econ) /\ Clears(v.econ)}
    IN  {v \in viable : \A w \in viable :
            w.econ.net < v.econ.net \/ (w.econ.net = v.econ.net /\ v.dir = "CEX_to_DEX") \/ w = v}

Evaluate ==
    /\ progress = "running" /\ pending = Unpriced /\ sim.rows < Len(history)
    /\ LET offers == RowOffers(history[sim.rows + 1]) IN
          /\ sim' = [sim EXCEPT !.rows = @ + 1, !.found = @ + Cardinality(offers)]
          /\ pending' = IF offers = {} THEN Unpriced ELSE CHOOSE v \in offers : TRUE
    /\ UNCHANGED <<history, budget, progress>>

\* The capital committed is what the leg that buys costs, whichever venue it is on.
BuyLeg(v) == IF v.dir = "DEX_to_CEX" THEN v.econ.dex ELSE v.econ.cex

OverBudget(p) == p <= - (Per * LossLimit)

Permitted == ~budget.halted /\ BuyLeg(pending) <= budget.cap /\ ~OverBudget(budget.pnl)

\* is_trade_allowed says no; a limit that is reached halts.
NotPermitted ==
    /\ pending # Unpriced /\ ~Permitted
    /\ sim' = [sim EXCEPT !.refused = @ + 1]
    /\ budget' = [budget EXCEPT !.halted = @ \/ (BuyLeg(pending) <= budget.cap /\ OverBudget(budget.pnl))]
    /\ pending' = Unpriced
    /\ UNCHANGED <<history, progress>>

\* The executor's gate: insane, or the deadline passed on the way.
GateRefuses ==
    /\ pending # Unpriced /\ Permitted
    /\ sim' = [sim EXCEPT !.refused = @ + 1]
    /\ pending' = Unpriced
    /\ UNCHANGED <<history, budget, progress>>

\* A result, and update_state.
Trade ==
    /\ pending # Unpriced /\ Permitted /\ Sane(pending.econ)
    /\ sim' = [sim EXCEPT !.results = Append(@, [row |-> sim.rows, dir |-> pending.dir,
                                                 pnl |-> pending.econ.net])]
    /\ LET total == budget.pnl + pending.econ.net IN
          budget' = [budget EXCEPT !.pnl = total, !.halted = @ \/ OverBudget(total)]
    /\ pending' = Unpriced
    /\ UNCHANGED <<history, progress>>

Finish ==
    /\ progress = "running" /\ pending = Unpriced /\ sim.rows = Len(history)
    /\ progress' = "over"
    /\ UNCHANGED <<history, sim, budget, pending>>

BacktestNext == Validate \/ Evaluate \/ NotPermitted \/ GateRefuses \/ Trade \/ Finish

BacktestSpec == BacktestInit /\ [][BacktestNext]_backtestVars

\* The values the state can have.
BacktestTypeOK ==
    /\ Len(history) <= MaxRecords /\ \A i \in DOMAIN history : history[i] \in Records
    /\ sim.rows \in 0 .. Len(history) /\ sim.found \in Nat /\ sim.refused \in Nat
    /\ \A i \in DOMAIN sim.results : sim.results[i].dir \in Ways
    /\ budget \in [pnl : Int, halted : BOOLEAN, cap : NotionalCaps]
    /\ progress \in {"new", "running", "rejected", "over"}

-----------------------------------------------------------------------------

\* What a trade of the notional brings at the prices of its row.
RowBrings(r, d) ==
    LET buy == IF d = "CEX_to_DEX" THEN r.ask ELSE r.price
        sell == IF d = "CEX_to_DEX" THEN r.price ELSE r.bid
        size == Notional \div buy
        gas == IF r.gas # Unpriced THEN r.gas ELSE r.gwei * r.native * GasUnits
    IN  Per * (size * sell - Notional - gas - RotationCost)
        - TakerFee * (IF d = "CEX_to_DEX" THEN Notional ELSE size * sell)

\* A report accounts for every opportunity and its result for every trade: at most one
\* per row, worth what the prices of that row alone bring, its gas among them, and of
\* no more than the depth that was assumed.  A dataset with a row that has no gas cost
\* is refused before any of it is evaluated.  The trades being claims that cleared the
\* floor, none loses and the loss limit is never reached.
BacktestHonest ==
    /\ sim.found = sim.refused + Len(sim.results) + (IF pending = Unpriced THEN 0 ELSE 1)
    /\ sim.found <= sim.rows
    /\ \A i, j \in DOMAIN sim.results : i < j => sim.results[i].row < sim.results[j].row
    /\ \A i \in DOMAIN sim.results :
          LET t == sim.results[i]  r == history[t.row] IN
          /\ t.pnl = RowBrings(r, t.dir)
          /\ t.pnl >= NetFloor * Notional
          /\ Notional <= LevelDepth * (IF t.dir = "CEX_to_DEX" THEN r.ask ELSE r.price)
    /\ budget.pnl = Total([i \in DOMAIN sim.results |-> sim.results[i].pnl], Len(sim.results))
    /\ ~budget.halted
    /\ (\E i \in DOMAIN history :
           history[i].gas = Unpriced /\ Unpriced \in {history[i].gwei, history[i].native})
          => sim.rows = 0

=============================================================================
