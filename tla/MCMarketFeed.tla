---------------------------- MODULE MCMarketFeed ----------------------------
(* Two books over a feed that goes down and comes back *)
EXTENDS MarketFeed

CONSTANTS s1, s2

MCSymbols == {s1, s2}

=============================================================================
