----------------------------- MODULE RiskManager -----------------------------
(***************************************************************************)
(* The risk state of src/risk/limits.py: daily PnL and halt flag, kept in  *)
(* memory and persisted to a file that outlives the process.  Money is an  *)
(* integer number of some smallest unit.  The operators below are the      *)
(* steps of the component; ArbiBot composes them with the trading loop.    *)
(***************************************************************************)
EXTENDS Integers

CONSTANTS
    Limit,     \* max_daily_loss_quote
    MaxUnsaved \* bound: how many saves may fail between two starts

ASSUME LimitAssumption == Limit \in Nat \ {0} /\ MaxUnsaved \in Nat

VARIABLES
    day,       \* the UTC date
    file,      \* the state file
    pnl,       \* daily_pnl
    halted,    \* halted
    unsaved,   \* saves that failed since the process started
    stale      \* history: the last save failed, the file lags behind memory

risk == <<file, pnl, halted, unsaved, stale>>

NoFile == [kind |-> "absent"]
DamagedFile == [kind |-> "corrupt"]
States == [kind : {"state"}, date : Nat, pnl : Int, halted : BOOLEAN]

RiskTypeOK ==
    /\ day \in Nat
    /\ file \in {NoFile, DamagedFile} \cup States
    /\ pnl \in Int
    /\ halted \in BOOLEAN
    /\ unsaved \in Nat
    /\ stale \in BOOLEAN

RiskInit ==
    /\ day = 0
    /\ file = NoFile
    /\ pnl = 0
    /\ halted = FALSE
    /\ unsaved = 0
    /\ stale = FALSE

-----------------------------------------------------------------------------

StateOfToday == file.kind = "state" /\ file.date = day

\* Slip: only the loss is restored, not the halt that it caused.
LoadWithoutHalt ==
    /\ file # DamagedFile
    /\ pnl' = IF StateOfToday THEN file.pnl ELSE 0
    /\ halted' = FALSE
    /\ unsaved' = 0
    /\ stale' = FALSE
    /\ UNCHANGED file

\* Slip: the PnL of an earlier day is taken over.
LoadAnyDay ==
    /\ file # DamagedFile
    /\ pnl' = IF file.kind = "state" THEN file.pnl ELSE 0
    /\ halted' = (StateOfToday /\ file.halted)
    /\ unsaved' = 0
    /\ stale' = FALSE
    /\ UNCHANGED file

\* _load_state: a state saved today is restored, any other state is dropped,
\* halt included.  A damaged file is an error: the process does not start.
Load ==
    /\ file # DamagedFile
    /\ pnl' = IF StateOfToday THEN file.pnl ELSE 0
    /\ halted' = (StateOfToday /\ file.halted)
    /\ unsaved' = 0
    /\ stale' = FALSE
    /\ UNCHANGED file

\* Slip: the halt is not among the fields written.
SaveWithoutHalt(p, h) ==
    /\ file' = [kind |-> "state", date |-> day, pnl |-> p]
    /\ stale' = FALSE
    /\ UNCHANGED unsaved

\* _save_state: replaced as a whole or, when writing fails, left as it was; the
\* error is logged and nothing else.
Save(p, h) ==
    \/ /\ file' = [kind |-> "state", date |-> day, pnl |-> p, halted |-> h]
       /\ stale' = FALSE
       /\ UNCHANGED unsaved
    \/ /\ unsaved < MaxUnsaved
       /\ unsaved' = unsaved + 1
       /\ stale' = TRUE
       /\ UNCHANGED file

\* Slip: reaching the limit exactly is not enough.
LossLimitPassed(p) == p < - Limit

LossLimitReached(p) == p <= - Limit

Halt(p) ==
    /\ halted' = TRUE
    /\ pnl' = p
    /\ Save(p, TRUE)

\* is_trade_allowed, in its order: a halted manager refuses, an opportunity over
\* the notional cap is refused, a reached limit halts.
Refuse(overCap) ==
    IF ~halted /\ ~overCap
    THEN LossLimitReached(pnl) /\ Halt(pnl)
    ELSE UNCHANGED risk

Allowed(overCap) == ~halted /\ ~overCap /\ ~LossLimitReached(pnl)

\* update_state for a summary with legs.
UpdateState(result) ==
    IF LossLimitReached(pnl + result)
    THEN Halt(pnl + result)
    ELSE /\ pnl' = pnl + result
         /\ UNCHANGED halted
         /\ Save(pnl + result, halted)

=============================================================================
