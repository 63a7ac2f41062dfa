------------------------------ MODULE Research ------------------------------
(***************************************************************************)
(* What the recorded observations of one market are used for:              *)
(*   - the study of src/research: every observation priced over a grid of  *)
(*     sizes (optimiser.py), the decision it supports and what that is     *)
(*     worth later (evaluate.py), the counts of a market report and the    *)
(*     scrambled control (report.py);                                      *)
(*   - the replay of backtest/observation_replay.py: the same observations *)
(*     through the detector of module Valuation.                           *)
(*                                                                         *)
(* Time is counted in halves of a second.  A pool has one price up to the  *)
(* amount its recorded ticks reach.                                        *)
(***************************************************************************)
EXTENDS Valuation

CONSTANTS
    Sightings,   \* what one observation can hold: asks, bids, price, room, gas, base0
    Gaps,        \* the times between observations
    Grid,        \* notionals
    StudyFloor,  \* floor_bps of the CostModel
    Latencies,   \* delays the latency study is made for
    Offsets,     \* offset_seconds of the scrambled control
    Lively,      \* bound: observations before the market stands still
    TapeLength   \* bound: observations recorded

\* Which side of the pool the base is on, as _base_is_token0 reads it off the
\* prices: the order in which they are nearer to each other.  Twice the middle of
\* the book is used, and both distances are multiplied out.
Twice(s) == s.bids[1].price + s.asks[1].price
Distance(x) == IF x < 0 THEN -x ELSE x
BaseIsToken0(s) ==
    LET near == Distance(2 * s.price - Twice(s)) * s.price  \* the pool quotes the base
        far == Distance(2 - s.price * Twice(s))             \* it quotes the quote asset
    IN  IF s.base0 THEN near <= far ELSE far <= near

\* Sizes come out whole, of a trade priced again as well.  The prices are away from
\* one, where the order of the tokens cannot be read off them.
ASSUME ResearchAssumption ==
    /\ Gaps \subseteq Nat \ {0} /\ \A g \in Gaps : g % 2 = 0
    /\ Latencies \subseteq Nat /\ Offsets \subseteq Nat
    /\ Lively \in Nat \ {0} /\ TapeLength \in Nat \ {0} /\ StudyFloor \in Nat
    /\ Unpriced \notin Nat \cup [dir : Ways, net : Int, notional : Nat]
    /\ Grid \in Seq(Nat \ {0}) /\ Notional \in {Grid[i] : i \in DOMAIN Grid}
    /\ \A s \in Sightings :
          /\ s.price \in Nat \ {0} /\ s.room \in Nat /\ s.gas \in BOOLEAN
          /\ \A l \in {s.asks, s.bids} : l = <<>> \/ IsLadder(l)
    /\ \A s \in Sightings, n \in {Grid[i] : i \in DOMAIN Grid} :
          /\ n % s.price = 0
          /\ s.asks # <<>> => n % s.asks[1].price = 0
          /\ s.asks # <<>> /\ s.bids # <<>> => BaseIsToken0(s) = s.base0

VARIABLES
    tape,    \* the observations of the market, in the order of their times
    study,   \* the report, or Unpriced
    control, \* the scrambled control, or Unpriced
    replay   \* what replay_store has counted, and the row it is at

researchVars == <<tape, study, control, replay>>

NoReplay ==
    [at |-> 0, evaluated |-> 0, uncostable |-> 0, opportunities |-> 0,
     clears |-> FALSE, found |-> [i \in {} |-> Unpriced]]

ResearchInit ==
    /\ tape = <<>>
    /\ study = Unpriced
    /\ control = Unpriced
    /\ replay = NoReplay

Unstudied == study = Unpriced /\ control = Unpriced /\ replay = NoReplay

\* Another observation of the market is stored.
Observe ==
    /\ Unstudied /\ Len(tape) < TapeLength
    /\ \E s \in (IF Len(tape) < Lively THEN Sightings ELSE {Last(tape).seen}), g \in Gaps :
          tape' = Append(tape, [at |-> IF tape = <<>> THEN 0 ELSE Last(tape).at + g, seen |-> s])
    /\ UNCHANGED <<study, control, replay>>

-----------------------------------------------------------------------------
(* optimiser.py: one size, one direction *)

\* Buys on the exchange what the notional is worth at the touch, sells it to the pool.
SizedSell(s, n) ==
    LET size == n \div s.asks[1].price
        fill == WalkBook(s.asks, size)
    IN  IF Complete(fill, size) /\ fill.filled <= s.room
        THEN Economics("CEX_to_DEX", fill.filled, fill.value, fill.filled * s.price, 1)
        ELSE Unpriced

\* Spends the notional in the pool and sells the base it brings.
SizedBuy(s, n) ==
    LET size == n \div s.price
        fill == WalkBook(s.bids, size)
    IN  IF size <= s.room /\ Complete(fill, size)
        THEN Economics("DEX_to_CEX", size, fill.value, n, 1)
        ELSE Unpriced

\* A size that has no price keeps its place in the curve.
SizePoint(s, d, n) ==
    IF d = "CEX_to_DEX"
    THEN IF s.asks = <<>> THEN Unpriced ELSE SizedSell(s, n)
    ELSE IF s.bids = <<>> THEN Unpriced ELSE SizedBuy(s, n)

\* A trade priced again later comes out whole too.
ASSUME RepricingAssumption ==
    \A s, t \in Sightings, i \in DOMAIN Grid :
        LET e == SizePoint(s, "CEX_to_DEX", Grid[i])
        IN  e # Unpriced /\ t.asks # <<>> => e.notional % t.asks[1].price = 0

Curve(s, d) == [i \in DOMAIN Grid |-> SizePoint(s, d, Grid[i])]

Priced(points) == {i \in DOMAIN points : points[i] # Unpriced}

\* The first of the points at fit that none of them surpasses by Above(_, _).
FirstBest(points, fit, Above(_, _)) ==
    IF fit = {} THEN Unpriced
    ELSE points[Min({i \in fit : \A j \in fit : ~Above(points[j], points[i])})]

ByValue(e, f) == e.net > f.net
ByRate(e, f) == e.net * f.notional > f.net * e.notional

\* optimise_size: the most valuable of the points above the floor, if there is one.
OptimiseSize(s, d) ==
    LET c == Curve(s, d)
    IN  FirstBest(c, {i \in Priced(c) : c[i].net > StudyFloor * c[i].notional}, ByValue)

-----------------------------------------------------------------------------
(* evaluate.py: one observation *)

\* A missing gas price is not a price of zero.
Costable(s) == s.gas /\ s.asks # <<>> /\ s.bids # <<>>

Sided(e, d) == IF e = Unpriced THEN Unpriced ELSE [dir |-> d, net |-> e.net, notional |-> e.notional]

\* _best_decision: of the two directions the one with the better rate.
BestDecision(s) ==
    LET two == <<Sided(OptimiseSize(s, "CEX_to_DEX"), "CEX_to_DEX"),
                 Sided(OptimiseSize(s, "DEX_to_CEX"), "DEX_to_CEX")>>
    IN  FirstBest(two, Priced(two), ByRate)

\* best_priceable_decision, and _best_net_any_size: whatever the floor.
BestPriceable(s) ==
    LET of(d) == [i \in DOMAIN Grid |-> Sided(SizePoint(s, d, Grid[i]), d)]
        all == of("CEX_to_DEX") \o of("DEX_to_CEX")
    IN  FirstBest(all, Priced(all), ByRate)

-----------------------------------------------------------------------------
(* evaluate.py and report.py: what a decision is worth later *)

\* The k-th of the positive gaps, the shortest first.
Ranked(rows, k) ==
    LET steps == {i \in 1 .. Len(rows) - 1 : rows[i + 1].at > rows[i].at}
        gap(i) == rows[i + 1].at - rows[i].at
    IN  Min({g \in {gap(i) : i \in steps} : Cardinality({i \in steps : gap(i) <= g}) >= k})

\* In the middle of the positive gaps; two of them have the middle between them.
MedianCadence(rows) ==
    LET n == Cardinality({i \in 1 .. Len(rows) - 1 : rows[i + 1].at > rows[i].at})
        half == (n + 1) \div 2
    IN  IF n = 0 THEN Unpriced
        ELSE IF n % 2 = 1 THEN Ranked(rows, half)
        ELSE (Ranked(rows, half) + Ranked(rows, half + 1)) \div 2

\* Half a second at least, a second when there is no cadence.
Tolerance(rows) ==
    LET c == MedianCadence(rows) IN IF c = Unpriced THEN 2 ELSE Max({1, c})

\* Slip: the first row past the target settles a decision.
FirstPast(rows, among, target) ==
    LET past == {i \in among : rows[i].at >= target}
    IN  Min(IF past = {} THEN among ELSE past)

Nearest(rows, among, target) ==
    Min({i \in among : \A j \in among :
            Distance(rows[i].at - target) <= Distance(rows[j].at - target)})

Candidates(rows, at, target, tolerance) ==
    {i \in DOMAIN rows : Distance(rows[i].at - target) <= tolerance /\ rows[i].at >= at}

\* resolve_with_latency: the direction and the money spent stay, the prices advance,
\* and the floor no longer matters.
Resolve(rows, row, decision, delay) ==
    LET near == Candidates(rows, row.at, row.at + delay, Tolerance(rows))
        i == Nearest(rows, near, row.at + delay)
        later == rows[i].seen
    IN  [decision |-> decision,
         by |-> IF near = {} THEN 0 ELSE i,
         worth |-> IF near = {} \/ ~later.gas THEN Unpriced
                   ELSE SizePoint(later, decision.dir, decision.notional)]

\* An episode ends where a row is not tradeable.
Ended(e) ==
    IF e.current > 0 THEN [runs |-> Append(e.runs, e.current), current |-> 0] ELSE e

\* A row without a flag is none of the series; one that is tradeable goes on with it.
Onward(e, flags, i) ==
    IF i \notin DOMAIN flags THEN e
    ELSE IF flags[i] THEN [e EXCEPT !.current = @ + 1] ELSE Ended(e)

\* persistence_runs over the rows with a flag: an episode still open at the end counts.
PersistenceRuns(flags, n) ==
    LET after[i \in 0 .. n] ==
            IF i = 0 THEN [runs |-> <<>>, current |-> 0] ELSE Onward(after[i - 1], flags, i)
    IN  Ended(after[n]).runs

\* _latency_study: without a single decision, the best sizes that had a price.
DecidedRows(rows, among) ==
    LET own == {i \in among : BestDecision(rows[i].seen) # Unpriced}
        any == {i \in among : BestPriceable(rows[i].seen) # Unpriced}
    IN  IF own # {} THEN [i \in own |-> BestDecision(rows[i].seen)]
        ELSE [i \in any |-> BestPriceable(rows[i].seen)]

\* _analyse_market: only rows that can be costed are evaluated, and all of them
\* enter the distribution of net values, the losing ones too.
Analyse ==
    /\ Unstudied /\ tape # <<>>
    /\ \E delay \in Latencies :
          LET costed == {i \in DOMAIN tape : Costable(tape[i].seen)}
              priced == {i \in costed : BestPriceable(tape[i].seen) # Unpriced}
              flags == [i \in costed |-> BestDecision(tape[i].seen) # Unpriced]
              decided == DecidedRows(tape, costed)
          IN  study' =
                [delay |-> delay,
                 uncostable |-> Cardinality(DOMAIN tape \ costed),
                 nets |-> [i \in priced |-> BestPriceable(tape[i].seen)],
                 unpriceable |-> Cardinality(costed \ priced),
                 flags |-> flags,
                 episodes |-> PersistenceRuns(flags, Len(tape)),
                 trades |-> [i \in DOMAIN decided |-> Resolve(tape, tape[i], decided[i], delay)]]
    /\ UNCHANGED <<tape, control, replay>>

-----------------------------------------------------------------------------
(* report.py: the scrambled control *)

Span == Last(tape).at - tape[1].at

\* Past the end the pairing goes on from the start.
WrappedAround(target) ==
    IF Span > 0 /\ target > Last(tape).at
    THEN tape[1].at + ((target - tape[1].at) % Span) ELSE target

\* Each book with the pool, and the gas price, of another time.  An offset below two
\* cadences is refused.
Scramble ==
    /\ Unstudied /\ tape # <<>>
    /\ \E offset \in Offsets :
          /\ LET c == MedianCadence(tape) IN c # Unpriced => offset >= 2 * c
          /\ LET partner == [i \in DOMAIN tape |->
                                Nearest(tape, DOMAIN tape, WrappedAround(tape[i].at + offset))]
                 merged == [i \in DOMAIN tape |->
                               LET p == tape[partner[i]].seen
                               IN  [tape[i].seen EXCEPT !.price = p.price, !.room = p.room,
                                                        !.gas = p.gas]]
                 series(rows) == Cardinality({i \in DOMAIN rows : Costable(rows[i])
                                                               /\ BestPriceable(rows[i]) # Unpriced})
             IN  control' =
                    [offset |-> offset, partner |-> partner,
                     identical |-> Cardinality({i \in DOMAIN tape : tape[partner[i]].at = tape[i].at}),
                     true |-> series([i \in DOMAIN tape |-> tape[i].seen]),
                     scrambled |-> IF Len(tape) < 3 THEN 0 ELSE series(merged)]
    /\ UNCHANGED <<tape, study, replay>>

-----------------------------------------------------------------------------
(* backtest/observation_replay.py *)

\* The default policy of the detector may not clear the market's tokens.
ReplayBegins ==
    /\ Unstudied /\ tape # <<>>
    /\ \E c \in BOOLEAN : replay' = [NoReplay EXCEPT !.at = 1, !.clears = c]
    /\ UNCHANGED <<tape, study, control>>

\* Slip: the quote amount is taken for an amount of base and converted again.
QuoteConverted(s, size, action) ==
    IF action = "sell" THEN IF size <= s.room THEN size * s.price ELSE Unpriced
    ELSE IF size <= s.room THEN size \div s.price ELSE Unpriced

\* get_quote: an amount of base to sell, an amount of quote to spend; what comes out.
ReplayQuote(s, size, action) ==
    IF action = "sell" THEN IF size <= s.room THEN size * s.price ELSE Unpriced
    ELSE IF size <= s.room * s.price THEN size \div s.price ELSE Unpriced

\* What the detector makes of the two directions at its one notional.
Detected(s, d) ==
    IF d = "CEX_to_DEX"
    THEN LET size == Notional \div s.asks[1].price
             fill == WalkBook(s.asks, size)
             out == ReplayQuote(s, fill.filled, "sell")
         IN  IF Complete(fill, size) /\ out # Unpriced
             THEN Economics(d, fill.filled, fill.value, out, 1) ELSE Unpriced
    ELSE LET out == ReplayQuote(s, Notional, "buy")
             fill == WalkBook(s.bids, out)
         IN  IF out # Unpriced /\ Complete(fill, out)
             THEN Economics(d, out, fill.value, Notional, 1) ELSE Unpriced

\* get_book has no book when one side is missing; the rest is the detector's _decide.
Opportunities(s, clears) ==
    LET two == <<Detected(s, "CEX_to_DEX"), Detected(s, "DEX_to_CEX")>>
    IN  IF ~clears \/ s.asks = <<>> \/ s.bids = <<>> THEN Unpriced
        ELSE FirstBest(two, {i \in Priced(two) : Plausible(two[i]) /\ Clears(two[i])}, ByValue)

\* The opportunities found, with one of another row.
With(found, row, e) == [i \in DOMAIN found \cup {row} |-> IF i = row THEN e ELSE found[i]]

ReplayRow ==
    /\ 0 < replay.at /\ replay.at <= Len(tape)
    /\ LET s == tape[replay.at].seen
           e == Opportunities(s, replay.clears)
       IN  IF ~s.gas
           THEN replay' = [replay EXCEPT !.at = @ + 1, !.uncostable = @ + 1]
           ELSE replay' = [replay EXCEPT
                              !.at = @ + 1, !.evaluated = @ + 1,
                              !.opportunities = @ + (IF e = Unpriced THEN 0 ELSE 1),
                              !.found = IF e = Unpriced THEN @ ELSE With(@, replay.at, e)]
    /\ UNCHANGED <<tape, study, control>>

ResearchNext == Observe \/ Analyse \/ Scramble \/ ReplayBegins \/ ReplayRow

ResearchSpec == ResearchInit /\ [][ResearchNext]_researchVars

\* The shapes of the tape and of what is computed from it.
ResearchTypeOK ==
    /\ \A i \in DOMAIN tape : tape[i].seen \in Sightings /\ tape[i].at \in Nat
    /\ study # Unpriced => DOMAIN study.trades \subseteq DOMAIN tape
    /\ control # Unpriced => control.partner \in [DOMAIN tape -> DOMAIN tape]
    /\ replay.at \in 0 .. Len(tape) + 1 /\ DOMAIN replay.found \subseteq DOMAIN tape

-----------------------------------------------------------------------------
(* Properties *)

\* No study looks back for its result or hides a loss.  A decision is made from its own
\* row, settled by one that is not before it and nearer to the delay than any other, and
\* left unsettled only if no row is; for its own money; and not where gas had no price.
\* Every row is uncostable, without a price, or in the distribution, and every episode
\* begins where the row before was not tradeable and none is left out.
SettledHonestly ==
    study # Unpriced =>
        LET flagged == {i \in DOMAIN study.flags : study.flags[i]}
            before(i) == {j \in DOMAIN study.flags : j < i}
        IN
        /\ Len(tape) = study.uncostable + study.unpriceable + Cardinality(DOMAIN study.nets)
        /\ Len(study.episodes) =
              Cardinality({i \in flagged : before(i) = {} \/ Max(before(i)) \notin flagged})
        /\ Total(study.episodes, Len(study.episodes)) = Cardinality(flagged)
        /\ \A k \in DOMAIN study.trades :
              LET t == study.trades[k]
                  off(i) == Distance(tape[i].at - (tape[k].at + study.delay))
              IN  /\ Costable(tape[k].seen)
                  /\ \E j \in DOMAIN Grid :
                        LET e == SizePoint(tape[k].seen, t.decision.dir, Grid[j])
                        IN  e # Unpriced /\ e.net = t.decision.net /\ e.notional = t.decision.notional
                  /\ t.by # 0 => /\ tape[t.by].at >= tape[k].at
                                 /\ \A i \in DOMAIN tape : tape[i].at >= tape[k].at => off(t.by) <= off(i)
                  /\ t.by = 0 => \A i \in DOMAIN tape : tape[i].at >= tape[k].at => off(i) > 1
                  /\ t.worth # Unpriced =>
                        /\ t.decision.dir = "DEX_to_CEX" => t.worth.notional = t.decision.notional
                        /\ tape[t.by].seen.gas

\* The control pairs no book with its own pool where it can help it: if no gap is
\* longer than the offset and the recording twice as long, every pool is from half
\* an offset away at least, before or after.
ControlMixes ==
    (/\ control # Unpriced /\ Len(tape) > 1
     /\ 2 * control.offset <= Span
     /\ \A i \in 1 .. Len(tape) - 1 : tape[i + 1].at - tape[i].at <= control.offset)
    => /\ control.identical = 0
       /\ \A i \in DOMAIN tape :
             2 * Distance(tape[control.partner[i]].at - tape[i].at) >= control.offset

\* What the report says of a market was computed honestly: its trades are settled as
\* SettledHonestly says and its negative control is one, see ControlMixes.
StudyHonest == SettledHonestly /\ ControlMixes

\* The shipped detector and the market model agree: at every row replayed it finds
\* what the optimiser finds at the same notional, up to their different floors and the
\* detector's sanity limit, and only if its policy clears the tokens.  What is above
\* both floors the study decides for too, at some size of no lesser value.
ReplayAgrees ==
    /\ replay.at > 0 => replay.evaluated + replay.uncostable = replay.at - 1
    /\ replay.opportunities = Cardinality(DOMAIN replay.found)
    /\ \A i \in 1 .. replay.at - 1 :
          LET s == tape[i].seen
              viable == {e \in {SizePoint(s, d, Notional) : d \in Ways} :
                            e # Unpriced /\ Plausible(e) /\ Clears(e)}
          IN  IF i \notin DOMAIN replay.found
              THEN ~Costable(s) \/ ~replay.clears \/ viable = {}
              ELSE LET e == replay.found[i] IN
                   /\ Costable(s) /\ e \in viable /\ \A f \in viable : f.net <= e.net
                   /\ e.net > StudyFloor * e.notional =>
                         /\ BestDecision(s) # Unpriced
                         /\ \E d \in Ways : LET f == OptimiseSize(s, d)
                                            IN  f # Unpriced /\ f.net >= e.net

=============================================================================
