----------------------------- MODULE MCTrading -----------------------------
(* Small instances of what stands between the exchanges and a trade.  The     *)
(* parts share no state, so each behaviour is one of one part, chosen in the  *)
(* initial state; the others keep their initial values.                       *)
EXTENDS FedDetector, Placebo, Orders, DexSwap, Replays, Admission

CONSTANTS s1, s2, p1, p2, p3, o1, e1, e2, Alt, Usd, Eth

VARIABLE part

MCSymbols == {s1, s2}
MCPairs == {p1, p2, p3}
MCSynthetic == {p2}
MCDenied == {p3}
MCBookAge == MaxAged
MCSymbolOf == [p \in MCPairs |-> s1]

\* Below the floor, within the limits twice with edge and value in opposite orders,
\* above the ceiling.
MCQuotes ==
    {[bps |-> 0, net |-> 1, tier |-> 500], [bps |-> 1, net |-> 2, tier |-> 500],
     [bps |-> 2, net |-> 1, tier |-> 100], [bps |-> 3, net |-> 3, tier |-> 100]}

Lone == [bps |-> 1, net |-> 2, tier |-> 500]

\* Detections on books of any age up to the silence allowed to the feed.
Vouching == INSTANCE Detector WITH BookAge <- MaxBookAge

\* Detections on the books of the feed, of one pair, a synthetic one.
Fed == INSTANCE FedDetector WITH Denied <- Denied \cup {p1}

MCTickets == {o1}
MCCalls == {e1, e2}
MCAmountIn == [e \in MCCalls |-> IF e = e1 THEN 1 ELSE 2]
MCLeastOut == [e \in MCCalls |-> IF e = e1 THEN 3 ELSE 5]
MCYields == 0 .. 3

\* Enough at one price, in two steps, and not enough.
MCAsks ==
    {<<[price |-> 2, size |-> 4], [price |-> 3, size |-> 9]>>, <<[price |-> 3, size |-> 8]>>,
     <<[price |-> 4, size |-> 2], [price |-> 6, size |-> 3]>>}
MCBids ==
    {<<[price |-> 3, size |-> 6], [price |-> 2, size |-> 9]>>, <<[price |-> 1, size |-> 30]>>,
     <<[price |-> 6, size |-> 4], [price |-> 4, size |-> 20]>>}
MCMids == {[bid |-> 1, ask |-> 2], [bid |-> 2, ask |-> 2]}
MCPrices == 1 .. 4

\* What an observation can hold: a book in two steps and even ones, a bid too small,
\* no asks; pools on either side of the price, some of little room; no gas price.
Deep(p) == <<[price |-> p, size |-> 60]>>
Stepped == <<[price |-> 2, size |-> 6], [price |-> 3, size |-> 30]>>
Sight(asks, bids, price, room, gas, base0) ==
    [asks |-> asks, bids |-> bids, price |-> price, room |-> room, gas |-> gas, base0 |-> base0]
MCSightings ==
    {Sight(Stepped, Deep(2), 3, 30, TRUE, TRUE), Sight(Stepped, Deep(2), 3, 12, TRUE, FALSE),
     Sight(Deep(3), Deep(3), 2, 12, TRUE, FALSE), Sight(Deep(3), Deep(2), 3, 60, TRUE, TRUE),
     Sight(Deep(3), <<[price |-> 3, size |-> 8]>>, 2, 60, FALSE, TRUE),
     Sight(<<>>, Deep(2), 3, 60, TRUE, TRUE)}
\* Rows that gain either way, lose, cannot be read, and have their gas in either form
\* or not at all.
PriceRow(ask, bid, price, gas, gwei) ==
    [ask |-> ask, bid |-> bid, price |-> price, gas |-> gas, gwei |-> gwei, native |-> 1]
MCRecords ==
    {PriceRow(2, 2, 3, 2, Unpriced), PriceRow(3, 3, 2, Unpriced, 3), PriceRow(3, 3, 2, 11, 1), PriceRow(2, 1, 2, 0, 0),
     PriceRow(Unpriced, 1, 2, 1, Unpriced), PriceRow(2, 2, 3, Unpriced, Unpriced),
     [PriceRow(2, 2, 3, Unpriced, 2) EXCEPT !.native = Unpriced], PriceRow(1, 1, 4, 1, 1)}
MCGrid == <<24, 48>>

\* An alt with its official contracts, one that calls itself the same, the quote
\* currency and the wrapped asset, of which only the first chain's are registered.
Token(id, chain, symbol, decimals) ==
    [id |-> id, chain |-> chain, symbol |-> symbol, decimals |-> decimals]
alt == Token(1, "main", Alt, 18)
impostor == Token(2, "main", Alt, 6)
usd == Token(3, "main", Usd, 6)
eth == Token(4, "main", Eth, 18)
altAside == Token(5, "side", Alt, 8)
ethAside == Token(6, "side", Eth, 18)
MCCoins ==
    {[symbol |-> Alt, at |-> {alt, altAside}], [symbol |-> Alt, at |-> {impostor}],
     [symbol |-> Usd, at |-> {usd}], [symbol |-> Eth, at |-> {eth, ethAside}]}
Pool(id, a, b) == [id |-> id, chain |-> a.chain, t0 |-> a, t1 |-> b]
MCPools == {Pool(1, alt, usd), Pool(2, usd, impostor), Pool(3, alt, eth), Pool(4, altAside, ethAside)}
MCRegistry ==
    {[symbol |-> Alt, token |-> alt], [symbol |-> Usd, token |-> usd], [symbol |-> Eth, token |-> eth]}
MCMarkets == {[base |-> Alt, quote |-> Usd], [base |-> Eth, quote |-> Usd]}
MCStatic == {[market |-> [base |-> Eth, quote |-> Usd], chain |-> "main"]}
MCPolicies ==
    {[strict |-> TRUE, allowed |-> {Alt, Usd, Eth}, denied |-> {}],
     [strict |-> FALSE, allowed |-> {Alt, Eth}, denied |-> {Alt}]}
MCSpellings == [s \in {Alt, Usd, Eth} |-> <<s>>]

universeVars == <<discoveryVars, admissionVars>>

Init ==
    /\ part \in {"feed", "detector", "fed", "placebo", "orders", "swap", "valuation", "research", "backtest", "universe"}
    /\ FedInit /\ PlaceboInit /\ SwapInit /\ ValuationInit
    /\ ResearchInit /\ DiscoveryInit
    /\ IF part = "backtest" THEN BacktestInit ELSE BacktestInit /\ budget.cap = Max(NotionalCaps)
    /\ IF part = "universe" THEN AdmissionInit
       ELSE AdmissionInit /\ policy = CHOOSE p \in Policies : TRUE
    /\ IF part = "orders" THEN OrdersInit
       ELSE OrdersInit /\ \A o \in Tickets : venue[o] = NoRecord

Feed ==
    /\ part = "feed" /\ FeedNext
    /\ UNCHANGED <<part, detectorVars, revived, rateRevived, placeboVars, orderVars, swapVars, valuationVars, researchVars, backtestVars, universeVars>>
Detecting ==
    /\ part = "detector" /\ Vouching!DetectorNext /\ dnow' < LastLook - 1
    /\ UNCHANGED <<part, feedVars, revived, rateRevived, placeboVars, orderVars, swapVars, valuationVars, researchVars, backtestVars, universeVars>>
\* No frame is dropped and sleeps are short; the first direction answers first and
\* with one quote, the second fails.  Frames come and connections change between
\* detections, while there is time to trade on what is seen of it; a book changes over
\* a live connection, and the connection early and before the first trade.
Feeding ==
    /\ part = "fed" /\ Fed!FedNext
    /\ wait' <= FirstBackoff /\ \A i \in DOMAIN wire' : wire'[i].kind = "book"
    /\ \A p \in Pairs : leg'[p] = Unasked
          \/ leg'[p] \in {<<Pending, Pending>>, <<Lone, Pending>>, <<Lone, Failed>>}
    /\ (conn' = conn /\ Len(wire') <= Len(wire)) \/ (over /\ offered = <<>> /\ dnow < LastLook - 1)
    /\ conn' = conn \/ (trade = Nothing /\ dnow < IntermediateFor)
    /\ \A s \in Symbols : book'[s].lag = 0 => book[s].lag = 0 \/ conn = "live"
    /\ UNCHANGED <<part, placeboVars, orderVars, swapVars, valuationVars, researchVars, backtestVars, universeVars>>
Control ==
    /\ part = "placebo" /\ PlaceboNext
    /\ UNCHANGED <<part, fedVars, orderVars, swapVars, valuationVars, researchVars, backtestVars, universeVars>>
Ordering ==
    /\ part = "orders" /\ OrdersNext
    /\ UNCHANGED <<part, fedVars, placeboVars, swapVars, valuationVars, researchVars, backtestVars, universeVars>>
Swapping ==
    /\ part = "swap" /\ SwapNext
    /\ UNCHANGED <<part, fedVars, placeboVars, orderVars, valuationVars, researchVars, backtestVars, universeVars>>

Valuing ==
    /\ part = "valuation" /\ ValuationNext
    /\ UNCHANGED <<part, fedVars, placeboVars, orderVars, swapVars, researchVars, backtestVars, universeVars>>
Studying ==
    /\ part = "research" /\ ResearchNext
    /\ UNCHANGED <<part, fedVars, placeboVars, orderVars, swapVars, valuationVars, backtestVars, universeVars>>
Backtesting ==
    /\ part = "backtest" /\ BacktestNext
    /\ UNCHANGED <<part, fedVars, placeboVars, orderVars, swapVars, valuationVars, researchVars, universeVars>>
Admitting ==
    /\ part = "universe" /\ AdmissionNext
    /\ UNCHANGED <<part, fedVars, placeboVars, orderVars, swapVars, valuationVars, researchVars, backtestVars>>

Next == Feed \/ Detecting \/ Feeding \/ Control \/ Ordering \/ Swapping \/ Valuing \/ Studying \/ Backtesting \/ Admitting

Spec ==
    /\ Init
    /\ [][Next]_<<part, fedVars, placeboVars, orderVars, swapVars, valuationVars, researchVars,
                backtestVars, universeVars>>
    /\ part = "feed" => FeedFairness

\* The feed comes back, see FeedComesBack.
FeedReturns == part = "feed" => FeedComesBack

\* Every part's state has the values its code can give it.
TypeOK ==
    /\ FeedTypeOK /\ DetectorTypeOK /\ PlaceboTypeOK
    /\ OrdersTypeOK /\ SwapTypeOK /\ ValuationTypeOK
    /\ ResearchTypeOK /\ BacktestTypeOK /\ AdmissionTypeOK

=============================================================================
