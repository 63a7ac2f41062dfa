---------------------------- MODULE MCRecording ----------------------------
(* Small instances of what a recording run is made of.  The parts share no    *)
(* state, so each behaviour is one of one part, chosen in the initial state;  *)
(* the others keep their initial values.                                      *)
EXTENDS PoolStateCache, GasPricing, PoolSelector, Recorder, AuditTrail, MCQuoting

CONSTANTS c1, c2, t1, t2, q1, q2

VARIABLE part

MCCallers == {c1, c2}
MCTargets == {t1, t2}
MCTicks == 0 .. 1
MCTiers == <<100, 500>>
MCRanks == 0 .. 2
MCAudited == {q1, q2}
MCListings == {{q1}, {q1, q2}}
MCVerdict == [p \in MCAudited |-> IF p = q1 THEN "allowed" ELSE "not_allowlisted"]
MCNetsOf == [p \in MCAudited |-> IF p = q1 THEN {<<2, 2>>, <<2, 1>>, <<3, NoNet>>} ELSE {<<2, 1>>}]

Init ==
    /\ part \in {"pool", "gas", "tier", "recorder", "audit", "quote"}
    /\ IF part = "pool" THEN PoolInit ELSE PoolInit /\ tickAt = <<CHOOSE t \in Ticks : TRUE>>
    /\ GasInit
    /\ SelectorInit
    /\ RecorderInit
    /\ IF part = "audit" THEN AuditInit ELSE AuditInit /\ past = <<>>
    /\ IF part = "quote" THEN QuotingInit
       ELSE /\ pool = [positions |-> {}, sqrt |-> 0, tick |-> MinTick]
            /\ query = [amount |-> 0, down |-> TRUE]
            /\ snap = NoSnapshot
            /\ swap = NoSwap
            /\ price = NoPrice
            /\ stage = "new"

Pool ==
    /\ part = "pool" /\ PoolNext
    /\ UNCHANGED <<part, gasVars, pickVars, recorderVars, auditVars, quoteVars>>
Gas ==
    /\ part = "gas" /\ GasNext
    /\ UNCHANGED <<part, now, poolVars, pickVars, recorderVars, auditVars, quoteVars>>
Tier ==
    /\ part = "tier" /\ SelectorNext
    /\ UNCHANGED <<part, now, poolVars, gasVars, recorderVars, auditVars, quoteVars>>
Recording ==
    /\ part = "recorder" /\ RecorderNext
    /\ UNCHANGED <<part, now, poolVars, gasVars, pickVars, auditVars, quoteVars>>
Audit ==
    /\ part = "audit" /\ AuditNext
    /\ UNCHANGED <<part, now, poolVars, gasVars, pickVars, recorderVars, quoteVars>>
Quote ==
    /\ part = "quote" /\ QuotingNext
    /\ UNCHANGED <<part, now, poolVars, gasVars, pickVars, recorderVars, auditVars>>

Next == Pool \/ Gas \/ Tier \/ Recording \/ Audit \/ Quote

Spec ==
    /\ Init
    /\ [][Next]_<<part, now, poolVars, gasVars, pickVars, recorderVars, auditVars, quoteVars>>
    /\ part = "recorder" => RecorderFairness

\* A recorder with a limit ends, see RecorderEnds.
RecordingEnds == part = "recorder" => RecorderEnds

\* Every part's state has the values its code can give it.
TypeOK ==
    /\ PoolTypeOK /\ GasTypeOK /\ SelectorTypeOK /\ RecorderTypeOK /\ AuditTypeOK
    /\ part = "quote" => QuotingTypeOK

=============================================================================
