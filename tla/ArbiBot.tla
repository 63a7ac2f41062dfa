------------------------------ MODULE ArbiBot ------------------------------
(***************************************************************************)
(* The life of the trading process: ArbiBot of src/app.py with the         *)
(* shutdown latch of src/infra/lifecycle.py, the executor of               *)
(* src/strategy/executor.py and the risk manager, over crashes, restarts   *)
(* and midnights.                                                          *)
(*                                                                         *)
(* The loop suspends only where it waits for the network or sleeps; a      *)
(* signal handler runs there and nowhere else, a crash strikes anywhere.   *)
(***************************************************************************)
EXTENDS RiskManager

CONSTANTS
    Results,    \* the PnL a trade can have
    MaxErrors,  \* max_consecutive_errors
    MaxOpps,    \* bound: opportunities one call of detect returns
    MaxDay,     \* bound: the last day
    MaxPnl      \* bound: no trade starts beyond this gain or loss

ASSUME BotAssumption ==
    /\ Results \subseteq Int
    /\ MaxErrors \in Nat \ {0}
    /\ MaxOpps \in Nat
    /\ MaxDay \in Nat
    /\ MaxPnl \in Nat

VARIABLES
    pc,        \* where the process is
    todo,      \* opportunities of this cycle not looked at yet
    pending,   \* the result of the trade just executed
    errors,    \* _consecutive_errors
    requested, \* shutdown_signal.requested
    broken,    \* from now on detect() always raises
    earned,    \* history: PnL of all trades executed today
    haltDay,   \* history: the day a halt was saved, -1 if none or cleared since
    intact,    \* history: no result of today was lost and no file was removed
    crossed    \* history: a process that ran at midnight wrote to today's record

history == <<earned, haltDay, intact, crossed>>
vars == <<day, risk, pc, todo, pending, errors, requested, broken, history>>

Suspended == {"connecting", "detecting", "idle", "backoff"}
Up == Suspended \cup {"top", "trading", "executing", "stopping"}

TypeOK ==
    /\ RiskTypeOK
    /\ pc \in Up \cup {"down"}
    /\ todo \in Nat
    /\ pending \in Int
    /\ errors \in Nat
    /\ requested \in BOOLEAN
    /\ broken \in BOOLEAN
    /\ earned \in Int
    /\ haltDay \in Nat \cup {-1}
    /\ intact \in BOOLEAN
    /\ crossed \in BOOLEAN

Init ==
    /\ RiskInit
    /\ pc = "down"
    /\ todo = 0
    /\ pending = 0
    /\ errors = 0
    /\ requested = FALSE
    /\ broken = FALSE
    /\ earned = 0
    /\ haltDay = -1
    /\ intact = TRUE
    /\ crossed = FALSE

-----------------------------------------------------------------------------
(* start *)

\* The process is gone, and with it everything it kept in memory.
Gone ==
    /\ pc' = "down"
    /\ pnl' = 0
    /\ halted' = FALSE
    /\ unsaved' = 0
    /\ stale' = FALSE
    /\ todo' = 0
    /\ pending' = 0
    /\ errors' = 0
    /\ requested' = FALSE

\* A new process: the risk manager loads its state, everything else is new.
Start ==
    /\ pc = "down"
    /\ Load
    /\ pc' = "connecting"
    /\ UNCHANGED <<day, todo, pending, errors, requested, broken, history>>

Connect ==
    /\ pc = "connecting"
    /\ pc' = "top"
    /\ UNCHANGED <<day, risk, todo, pending, errors, requested, broken, history>>

\* connect() or cancel_all_orders() raises before the try: shutdown() is skipped.
ConnectFails ==
    /\ pc = "connecting"
    /\ Gone
    /\ UNCHANGED <<day, file, broken, history>>

-----------------------------------------------------------------------------
(* main_loop *)

\* Slip: the loop runs on without looking at the latch.
LoopTopUnchecked ==
    /\ pc = "top"
    /\ pc' = "detecting"
    /\ UNCHANGED <<day, risk, todo, pending, errors, requested, broken, history>>

LoopTop ==
    /\ pc = "top"
    /\ pc' = IF requested THEN "stopping" ELSE "detecting"
    /\ UNCHANGED <<day, risk, todo, pending, errors, requested, broken, history>>

\* An empty cycle sleeps and continues: the else that resets errors is skipped.
DetectReturns(n) ==
    /\ pc = "detecting" /\ ~broken
    /\ todo' = n
    /\ pc' = IF n = 0 THEN "idle" ELSE "trading"
    /\ UNCHANGED <<day, risk, pending, errors, requested, broken,
                   earned, haltDay, intact, crossed>>

\* detect() is under way, or an opportunity whose result is not known yet.
HandlingMayRaise ==
    \/ pc = "detecting"
    \/ pc = "trading" /\ todo > 0 /\ ~requested

\* Slip: the counter is not kept from one failure to the next.
CycleRaisesUncounted ==
    /\ HandlingMayRaise
    /\ errors' = 1
    /\ IF errors' >= MaxErrors
       THEN requested' = TRUE /\ pc' = "stopping"
       ELSE pc' = "backoff" /\ UNCHANGED requested
    /\ todo' = 0
    /\ UNCHANGED <<day, risk, pending, broken, earned, haltDay, intact, crossed>>

\* The failure is counted; the process sleeps and goes on, or gives up.
CycleRaises ==
    /\ HandlingMayRaise
    /\ errors' = errors + 1
    /\ IF errors' >= MaxErrors
       THEN requested' = TRUE /\ pc' = "stopping"
       ELSE pc' = "backoff" /\ UNCHANGED requested
    /\ todo' = 0
    /\ UNCHANGED <<day, risk, pending, broken, earned, haltDay, intact, crossed>>

SleepEnds ==
    /\ pc \in {"idle", "backoff"}
    /\ pc' = "top"
    /\ UNCHANGED <<day, risk, todo, pending, errors, requested, broken, history>>

HaltSaved ==
    IF file' = [kind |-> "state", date |-> day, pnl |-> pnl', halted |-> TRUE]
    THEN day
    ELSE haltDay

\* is_trade_allowed refuses the next opportunity.
Blocked ==
    /\ pc = "trading" /\ todo > 0 /\ ~requested
    /\ \E overCap \in BOOLEAN : Refuse(overCap)
    /\ todo' = todo - 1
    /\ haltDay' = IF halted' # halted THEN HaltSaved ELSE haltDay
    /\ UNCHANGED <<day, pc, pending, errors, requested, broken,
                   earned, intact, crossed>>

\* The executor's own gate refuses it: no legs, update_state returns at once.
Gated ==
    /\ pc = "trading" /\ todo > 0 /\ ~requested
    /\ Allowed(FALSE)
    /\ todo' = todo - 1
    /\ UNCHANGED <<day, risk, pc, pending, errors, requested, broken, history>>

Execute(result) ==
    /\ pc = "trading" /\ todo > 0 /\ ~requested
    /\ Allowed(FALSE)
    /\ {earned, pnl} \subseteq - MaxPnl .. MaxPnl
    /\ pc' = "executing"
    /\ todo' = todo - 1
    /\ pending' = result
    /\ earned' = earned + result
    /\ UNCHANGED <<day, risk, errors, requested, broken, haltDay, intact, crossed>>

RecordResult ==
    /\ pc = "executing"
    /\ UpdateState(pending)
    /\ pc' = "trading"
    /\ pending' = 0
    /\ haltDay' = IF halted' # halted THEN HaltSaved ELSE haltDay
    /\ UNCHANGED <<day, todo, errors, requested, broken, earned, intact, crossed>>

\* All opportunities handled, or the rest dropped because of a request.
CycleDone ==
    /\ pc = "trading"
    /\ todo = 0 \/ requested
    /\ pc' = "top"
    /\ todo' = 0
    /\ errors' = 0
    /\ UNCHANGED <<day, risk, pending, requested, broken, earned, haltDay, intact, crossed>>

\* shutdown() closes the clients; it saves nothing.
Stop ==
    /\ pc = "stopping"
    /\ Gone
    /\ intact' = (intact /\ ~stale)
    /\ UNCHANGED <<day, file, broken, earned, haltDay, crossed>>

-----------------------------------------------------------------------------
(* What happens to the process *)

\* A signal, delivered at an await.
RequestShutdown ==
    /\ pc \in Suspended
    /\ requested' = TRUE
    /\ UNCHANGED <<day, risk, pc, todo, pending, errors, broken, history>>

\* Memory is lost; a result not yet in the file is lost with it.
Crash ==
    /\ pc \in Up
    /\ Gone
    /\ intact' = (intact /\ pc # "executing" /\ ~stale)
    /\ UNCHANGED <<day, file, broken, earned, haltDay, crossed>>

Break ==
    /\ ~broken
    /\ broken' = TRUE
    /\ UNCHANGED <<day, risk, pc, todo, pending, errors, requested, history>>

NewDay ==
    /\ day < MaxDay
    /\ day' = day + 1
    /\ earned' = 0
    /\ intact' = TRUE
    /\ crossed' = (pc # "down")
    /\ UNCHANGED <<risk, pc, todo, pending, errors, requested, broken, haltDay>>

\* The operator re-arms by editing the halt out of the file, ...
Rearm ==
    /\ pc = "down"
    /\ file.kind = "state" /\ file.halted
    /\ file' = [file EXCEPT !.halted = FALSE]
    /\ haltDay' = -1
    /\ UNCHANGED <<day, pnl, halted, unsaved, stale, pc, todo, pending, errors,
                   requested, broken, earned, intact, crossed>>

\* ... or by deleting the file; or an accident damages it.
LoseFile ==
    /\ pc = "down"
    /\ file' \in {NoFile, DamagedFile}
    /\ intact' = FALSE
    /\ haltDay' = -1
    /\ UNCHANGED <<day, pnl, halted, unsaved, stale, pc, todo, pending, errors,
                   requested, broken, earned, crossed>>

Loop ==
    \/ LoopTop
    \/ \E n \in 0 .. MaxOpps : DetectReturns(n)
    \/ CycleRaises
    \/ SleepEnds
    \/ Blocked
    \/ Gated
    \/ \E result \in Results : Execute(result)
    \/ RecordResult
    \/ CycleDone
    \/ Stop

Next ==
    \/ Start \/ Connect \/ ConnectFails
    \/ Loop
    \/ RequestShutdown \/ Crash \/ Break \/ NewDay \/ Rearm \/ LoseFile

Spec == Init /\ [][Next]_vars

\* Every wait of a running process ends: the calls of the clients have timeouts.
LiveSpec == Spec /\ WF_vars(Connect) /\ WF_vars(Loop)

-----------------------------------------------------------------------------
(* Properties *)

Settled == pc \in Up \ {"executing"}

\* A process that has not run across midnight accounts for exactly what was
\* earned today, however often it was restarted, crashed or failed to save,
\* as long as no result was lost before it reached the file.
PnlExact == Settled /\ intact /\ ~crossed => pnl = earned

\* No trade starts once the day's result has reached the loss limit, not even
\* after a restart or after an operator has edited the halt out of the file.
NoTradePastLimit ==
    [][pc' = "executing" /\ pc # "executing" /\ intact /\ ~crossed
        => earned > - Limit]_vars

\* Nothing but the operator or a new day ends a halt that reached the file.
HaltSurvivesRestart == pc \in Up /\ haltDay = day => halted

\* "A restart cannot clear it": nothing but the operator ends such a halt.
OnlyOperatorClearsHalt == pc \in Up /\ haltDay # -1 => halted

\* "Loss per UTC day": trading halts only for what was lost today.
HaltIsForToday ==
    [][pc = "executing" /\ halted' /\ intact => earned <= - Limit]_vars

\* "Consecutive loop failures": after a cycle that did not fail, none is counted.
FailuresAreConsecutive == pc = "idle" => errors = 0

\* A process asked to stop stops, whatever it was doing: it is not kept up by
\* further opportunities, by errors or by sleeps.
StopsWhenAsked == requested ~> pc = "down"

\* A fault that never goes away ends the process instead of looping silently.
FaultEscalates == broken ~> pc = "down"

=============================================================================
