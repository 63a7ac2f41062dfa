-------------------------- MODULE MCWeightGovernor --------------------------
(* Small instance of WeightGovernor: three requests of weights 1, 2 and 2.  *)
EXTENDS WeightGovernor

CONSTANTS r1, r2, r3

MCRequests == {r1, r2, r3}
MCWeight == r1 :> 1 @@ r2 :> 2 @@ r3 :> 2
=============================================================================
