----------------------------- MODULE FedDetector -----------------------------
(***************************************************************************)
(* The detector on the books of the market feed: OpportunityDetector       *)
(* (src/strategy/detector.py) reads what the listener task of              *)
(* BinanceCexClient (src/exchange/binance.py) holds at the instant detect()*)
(* begins; meanwhile the listener goes on, loses its connection and comes  *)
(* back.  Detector leaves the ages of the books open; here they are those  *)
(* of MarketFeed, and both run on one clock.                               *)
(***************************************************************************)
EXTENDS MarketFeed, Detector

CONSTANTS
    SymbolOf,      \* the book of each pair
    MiddleSymbol   \* the book that prices the intermediate asset

ASSUME FedAssumption ==
    /\ SymbolOf \in [Pairs -> Symbols] /\ MiddleSymbol \in Symbols
    /\ BookAge = MaxAged   \* the detector takes books of any age the feed counts

VARIABLES
    revived,      \* history: the pairs under evaluation with an exchange price that was
                  \* read from a book that did not come over the connection it was
                  \* read on, or had missed a frame of it
    rateRevived   \* history: the cached price of the intermediate asset is such a price

fedVars == <<feedVars, detectorVars, revived, rateRevived>>

FedInit == FeedInit /\ DetectorInit /\ revived = {} /\ rateRevived = FALSE

-----------------------------------------------------------------------------

\* get_book and _usable_book: for how long the book of s has not been the exchange's
\* own, -1 if it is not to be used.
AgeOf(s) == IF ~Usable(s) THEN -1 ELSE IF book[s].lag = -1 THEN 0 ELSE book[s].lag

Vouched(s) == book[s].here /\ ~book[s].skipped

\* detect() captures all its books at the instant it begins.
Look ==
    /\ DetectWith([p \in Pairs \ Denied |-> AgeOf(SymbolOf[p])], AgeOf(MiddleSymbol))
    /\ rateRevived' = IF rate' = rate THEN rateRevived ELSE ~Vouched(MiddleSymbol)
    /\ revived' = {p \in looking' : ~Vouched(SymbolOf[p]) \/ (p \in Synthetic /\ rateRevived')}
    /\ UNCHANGED feedVars

\* The listener and the exchange, while no time passes.
Listen ==
    /\ \/ \E s \in Symbols : BookChanges(s)
       \/ Stall \/ Drop \/ ConnectFails \/ Reconnect \/ Deliver
    /\ UNCHANGED <<detectorVars, revived, rateRevived>>

\* The rest of detect(), and the executors.
Conclude ==
    /\ (\E p \in Pairs, d \in DOMAIN Directions : LegReturns(p, d)) \/ DetectReturns \/ Handle
    /\ UNCHANGED <<feedVars, revived, rateRevived>>

\* Of the instants before the first price is kept none is counted.
Untimed == over /\ rate = Nothing /\ offered = <<>> /\ trade = Nothing

\* A second passes for both.
Clock ==
    /\ Second
    /\ DetectorTick \/ (Untimed /\ UNCHANGED detectorVars)
    /\ UNCHANGED <<revived, rateRevived>>

FedNext == Look \/ Listen \/ Conclude \/ Clock

FedSpec == FedInit /\ [][FedNext]_fedVars

-----------------------------------------------------------------------------
(* Properties *)

\* Through the reconnects, dead connections and suppressed frames of the feed, and
\* whatever order the directions and pairs answer in: an opportunity is traded on an
\* exchange price no older than the silence allowed to the feed, the network's delay,
\* the wait for every answer and the opportunity's lifetime, a synthetic pair's also
\* the time its conversion may be cached - unless a book of an earlier connection was
\* taken for one of this (OutageInvalidatesBooks).
TradeOnCurrentBooks ==
    trade # Nothing /\ trade.pair \notin revived =>
        trade.age <=
            MaxBookAge + NetDelay + LegBy + Lifetime - 1
              + (IF trade.pair \in Synthetic THEN IntermediateFor - 1 ELSE 0)

=============================================================================
