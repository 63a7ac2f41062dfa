----------------------------- MODULE MCArbiBot -----------------------------
(* A small instance of ArbiBot: a loss that reaches the limit at once, a   *)
(* loss that needs a second one, and a gain.                                *)
EXTENDS ArbiBot

MCResults == {-2, -1, 1}

=============================================================================
