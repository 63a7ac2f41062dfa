---------------------------- MODULE MCRpcLimiter ----------------------------
(* A small instance of RpcLimiter: four calls and two slots, a burst of two   *)
(* tokens at the full rate and one token in two instants at the floor.        *)
EXTENDS RpcLimiter

CONSTANTS c1, c2, c3, c4

MCCalls == {c1, c2, c3, c4}

=============================================================================
