--------------------------- MODULE ArbiBotProofs ---------------------------
(***************************************************************************)
(* Proofs about ArbiBot, for every limit, every set of results and any     *)
(* number of days, crashes and restarts.                                   *)
(***************************************************************************)
EXTENDS ArbiBot, TLAPS

\* What a process started now would restore as the PnL of today.
SavedPnl == IF StateOfToday THEN file.pnl ELSE 0

\* No state is dated in the future, so a new day finds none of its own.
FileIsPast == file.kind = "state" => file.date <= day

\* Memory, file and the result not yet recorded add up to what was earned.
Accounts ==
    intact /\ ~crossed =>
        /\ Settled => pnl = earned
        /\ pc = "executing" => pnl + pending = earned
        /\ pc \in Up /\ ~stale => SavedPnl = pnl
        /\ pc = "down" => SavedPnl = earned

\* A halt saved today is in the file, and in memory while the process runs.
HaltKept ==
    /\ haltDay <= day
    /\ haltDay = day =>
          /\ StateOfToday /\ file.halted
          /\ pc \in Up => halted

\* A process that is still starting has saved nothing.
FreshStart == pc = "connecting" => ~stale

IInv == TypeOK /\ FileIsPast /\ Accounts /\ HaltKept /\ FreshStart

-----------------------------------------------------------------------------
(* The risk manager's steps *)

\* A save, whether it succeeds or fails, leaves a file that is well-formed, not
\* dated in the future, and up to date unless it is marked as lagging behind.
LEMMA SaveStep ==
    ASSUME RiskTypeOK, FileIsPast, day' = day, NEW p \in Int, NEW h \in BOOLEAN, Save(p, h)
    PROVE  /\ file' \in {NoFile, DamagedFile} \cup States
           /\ unsaved' \in Nat /\ stale' \in BOOLEAN
           /\ FileIsPast'
           /\ ~stale' => SavedPnl' = p
           /\ StateOfToday /\ file.halted /\ h => StateOfToday' /\ file'.halted
<1>1. CASE /\ file' = [kind |-> "state", date |-> day, pnl |-> p, halted |-> h]
           /\ stale' = FALSE /\ unsaved' = unsaved
  <2> DEFINE f == [kind |-> "state", date |-> day, pnl |-> p, halted |-> h]
  <2>1. day \in Nat
    BY DEF RiskTypeOK
  <2>2. f \in States
    BY <2>1 DEF States
  <2>3. f.kind = "state" /\ f.date = day /\ f.pnl = p /\ f.halted = h
    OBVIOUS
  <2>4. file' = f
    BY <1>1
  <2> HIDE DEF f
  <2>5. FileIsPast' /\ StateOfToday' /\ SavedPnl' = p
    BY <2>1, <2>3, <2>4 DEF FileIsPast, SavedPnl, StateOfToday
  <2>6. unsaved' \in Nat /\ stale' \in BOOLEAN
    BY <1>1 DEF RiskTypeOK
  <2> QED
    BY <2>2, <2>3, <2>4, <2>5, <2>6
<1>2. CASE unsaved' = unsaved + 1 /\ stale' = TRUE /\ file' = file
  BY <1>2 DEF RiskTypeOK, FileIsPast, StateOfToday
<1> QED
  BY <1>1, <1>2 DEF Save

\* What update_state does to memory.
LEMMA UpdateStep ==
    ASSUME RiskTypeOK, NEW result \in Int, UpdateState(result)
    PROVE  /\ pnl' = pnl + result /\ pnl' \in Int
           /\ halted' \in BOOLEAN /\ (halted => halted')
           /\ Save(pnl', halted')
<1>1. CASE LossLimitReached(pnl + result)
  <2>1. pnl' = pnl + result /\ halted' = TRUE /\ Save(pnl + result, TRUE)
    BY <1>1 DEF UpdateState, Halt
  <2>2. Save(pnl', halted')
    BY <2>1
  <2>3. halted' \in BOOLEAN /\ (halted => halted')
    BY <2>1
  <2>4. pnl' \in Int
    BY <2>1 DEF RiskTypeOK
  <2> QED
    BY <2>1, <2>2, <2>3, <2>4
<1>2. CASE ~LossLimitReached(pnl + result)
  BY <1>2 DEF UpdateState, RiskTypeOK
<1> QED
  BY <1>1, <1>2

\* What is_trade_allowed does when it refuses.
LEMMA RefuseStep ==
    ASSUME RiskTypeOK, NEW overCap \in BOOLEAN, Refuse(overCap)
    PROVE  /\ pnl' = pnl
           /\ halted' \in BOOLEAN /\ (halted => halted')
           /\ Save(pnl', halted') \/ UNCHANGED risk
BY DEF Refuse, Halt, RiskTypeOK, risk

-----------------------------------------------------------------------------
(* The inductive invariant *)

\* It holds of a machine on which the program has never run.
LEMMA InitStep == Init => IInv
<1> SUFFICES ASSUME Init PROVE IInv
  OBVIOUS
<1>1. TypeOK
  <2>1. RiskTypeOK
    <3>1. halted \in BOOLEAN /\ stale \in BOOLEAN
      BY DEF Init, RiskInit
    <3> QED
      BY <3>1 DEF Init, RiskInit, RiskTypeOK
  <2>2. requested \in BOOLEAN /\ broken \in BOOLEAN /\ intact \in BOOLEAN /\ crossed \in BOOLEAN
    BY DEF Init
  <2> QED
    BY <2>1, <2>2 DEF Init, TypeOK
<1>2. ~StateOfToday /\ FileIsPast
  BY DEF Init, RiskInit, FileIsPast, StateOfToday, NoFile
<1>3. Accounts
  BY <1>2 DEF Init, RiskInit, Accounts, Settled, Up, Suspended, SavedPnl
<1>4. HaltKept /\ FreshStart
  BY DEF Init, RiskInit, HaltKept, FreshStart
<1> QED
  BY <1>1, <1>2, <1>3, <1>4 DEF IInv

\* A result that is recorded moves from pending into pnl and, if the save
\* succeeds, into the file.
LEMMA RecordStep == IInv /\ RecordResult => IInv'
<1> SUFFICES ASSUME IInv, RecordResult PROVE IInv'
  OBVIOUS
<1>1. RiskTypeOK /\ FileIsPast /\ day' = day /\ pending \in Int /\ UpdateState(pending)
  BY DEF IInv, TypeOK, RecordResult
<1>2. /\ pnl' = pnl + pending /\ pnl' \in Int
      /\ halted' \in BOOLEAN /\ (halted => halted')
      /\ Save(pnl', halted')
  BY <1>1, UpdateStep
<1>3. /\ file' \in {NoFile, DamagedFile} \cup States
      /\ unsaved' \in Nat /\ stale' \in BOOLEAN
      /\ FileIsPast'
      /\ ~stale' => SavedPnl' = pnl'
      /\ StateOfToday /\ file.halted /\ halted' => StateOfToday' /\ file'.halted
  BY <1>1, <1>2, SaveStep
<1>4. haltDay' = haltDay \/ (haltDay' = day /\ StateOfToday' /\ file'.halted /\ halted')
  BY <1>1, <1>2 DEF RecordResult, HaltSaved, StateOfToday, IInv, TypeOK, RiskTypeOK
<1>5. TypeOK'
  BY <1>1, <1>2, <1>3, <1>4
  DEF RecordResult, IInv, TypeOK, RiskTypeOK, Up, Suspended
<1>6. Accounts'
  BY <1>1, <1>2, <1>3 DEF RecordResult, IInv, Accounts, Settled, Up, Suspended
<1>7. HaltKept'
  BY <1>1, <1>2, <1>3, <1>4
  DEF RecordResult, IInv, HaltKept, TypeOK, RiskTypeOK, Up, Suspended
<1>8. FreshStart'
  BY DEF RecordResult, FreshStart
<1> QED
  BY <1>3, <1>5, <1>6, <1>7, <1>8 DEF IInv

\* A refusal leaves the accounts alone; the halt it may cause is saved.
LEMMA BlockedStep == IInv /\ Blocked => IInv'
<1> SUFFICES ASSUME IInv, NEW overCap \in BOOLEAN, Refuse(overCap), Blocked PROVE IInv'
  BY DEF Blocked
<1>1. RiskTypeOK /\ FileIsPast /\ day' = day /\ pc = "trading" /\ pc' = pc
  BY DEF IInv, TypeOK, Blocked
<1>2. /\ pnl' = pnl /\ pnl' \in Int
      /\ halted' \in BOOLEAN /\ (halted => halted')
      /\ Save(pnl', halted') \/ UNCHANGED risk
  BY <1>1, RefuseStep DEF RiskTypeOK
<1>3. /\ file' \in {NoFile, DamagedFile} \cup States
      /\ unsaved' \in Nat /\ stale' \in BOOLEAN
      /\ FileIsPast'
      /\ ~stale' => SavedPnl' = pnl' \/ (~stale /\ SavedPnl' = SavedPnl)
      /\ StateOfToday /\ file.halted /\ halted' => StateOfToday' /\ file'.halted
  <2>1. CASE Save(pnl', halted')
    BY <1>1, <1>2, <2>1, SaveStep
  <2>2. CASE UNCHANGED risk
    BY <1>1, <2>2 DEF risk, RiskTypeOK, FileIsPast, SavedPnl, StateOfToday
  <2> QED
    BY <1>2, <2>1, <2>2
<1>4. haltDay' = haltDay \/ (haltDay' = day /\ StateOfToday' /\ file'.halted /\ halted')
  BY <1>1, <1>2 DEF Blocked, HaltSaved, StateOfToday, IInv, TypeOK, RiskTypeOK
<1>5. TypeOK'
  BY <1>1, <1>2, <1>3, <1>4 DEF Blocked, IInv, TypeOK, RiskTypeOK
<1>6. Accounts'
  BY <1>1, <1>2, <1>3 DEF Blocked, IInv, Accounts, Settled, Up, Suspended
<1>7. HaltKept'
  BY <1>1, <1>2, <1>3, <1>4
  DEF Blocked, IInv, HaltKept, TypeOK, RiskTypeOK, Up, Suspended
<1>8. FreshStart'
  BY <1>1 DEF FreshStart
<1> QED
  BY <1>3, <1>5, <1>6, <1>7, <1>8 DEF IInv

\* A process that starts restores what the file says of today.
LEMMA StartStep == IInv /\ Start => IInv'
<1> SUFFICES ASSUME IInv, Start PROVE IInv'
  OBVIOUS
<1>1. /\ file' = file /\ day' = day /\ pc' = "connecting" /\ pc = "down"
      /\ pnl' = SavedPnl /\ halted' = (StateOfToday /\ file.halted)
      /\ unsaved' = 0 /\ stale' = FALSE
  BY DEF Start, Load, SavedPnl
<1>2. SavedPnl' = SavedPnl /\ StateOfToday' = StateOfToday
  BY <1>1 DEF SavedPnl, StateOfToday
<1>3. SavedPnl \in Int /\ halted' \in BOOLEAN
  BY <1>1 DEF SavedPnl, StateOfToday, IInv, TypeOK, RiskTypeOK, States, NoFile, DamagedFile
<1>4. TypeOK'
  BY <1>1, <1>3 DEF Start, history, IInv, TypeOK, RiskTypeOK, Up, Suspended
<1>5. FileIsPast' /\ Accounts' /\ HaltKept'
  BY <1>1, <1>2 DEF Start, history, IInv, FileIsPast, Accounts, HaltKept, Settled
<1>6. FreshStart'
  BY <1>1 DEF FreshStart
<1> QED
  BY <1>4, <1>5, <1>6 DEF IInv

\* A process that ends without a result on its way leaves the accounts in the
\* file, unless the last save failed.
LEMMA EndStep == IInv /\ (ConnectFails \/ Stop \/ Crash) => IInv'
<1> SUFFICES ASSUME IInv, ConnectFails \/ Stop \/ Crash PROVE IInv'
  OBVIOUS
<1>1. /\ Gone /\ UNCHANGED <<day, file, broken, earned, haltDay, crossed>>
      /\ pc \in Up
  BY DEF ConnectFails, Stop, Crash, history, Up, Suspended
<1>2. intact' \in BOOLEAN
  <2>1. CASE ConnectFails
    BY <2>1 DEF ConnectFails, history, IInv, TypeOK
  <2>2. CASE Stop \/ Crash
    <3>1. intact' = (intact /\ ~stale) \/ intact' = (intact /\ pc # "executing" /\ ~stale)
      BY <2>2 DEF Stop, Crash
    <3> QED
      BY <3>1
  <2> QED
    BY <2>1, <2>2
<1>3. TypeOK'
  <2>1. /\ day' = day /\ file' = file /\ broken' = broken /\ earned' = earned
        /\ haltDay' = haltDay /\ crossed' = crossed
        /\ pc' = "down" /\ pnl' = 0 /\ halted' = FALSE /\ unsaved' = 0 /\ stale' = FALSE
        /\ todo' = 0 /\ pending' = 0 /\ errors' = 0 /\ requested' = FALSE
    BY <1>1 DEF Gone
  <2>2. RiskTypeOK'
    <3>1. halted' \in BOOLEAN /\ stale' \in BOOLEAN
      BY <2>1
    <3> QED
      BY <2>1, <3>1 DEF IInv, TypeOK, RiskTypeOK
  <2>3. requested' \in BOOLEAN
    BY <2>1
  <2> QED
    BY <1>2, <2>1, <2>2, <2>3 DEF IInv, TypeOK
<1>4. FileIsPast' /\ HaltKept'
  BY <1>1 DEF Gone, IInv, FileIsPast, HaltKept, StateOfToday, Up, Suspended
<1>5. Accounts'
  <2>1. intact' => intact /\ pc # "executing" /\ ~stale
    BY DEF ConnectFails, Stop, Crash, history, IInv, FreshStart
  <2> QED
    BY <1>1, <2>1 DEF Gone, IInv, Accounts, SavedPnl, StateOfToday, Settled, Up, Suspended
<1>6. FreshStart'
  BY <1>1 DEF Gone, FreshStart
<1> QED
  BY <1>3, <1>4, <1>5, <1>6 DEF IInv

\* The steps of the loop that touch neither money nor the file.
LEMMA QuietStep ==
    ASSUME IInv,
           \/ Connect \/ LoopTop \/ (\E n \in 0 .. MaxOpps : DetectReturns(n))
           \/ CycleRaises \/ SleepEnds \/ Gated \/ CycleDone \/ RequestShutdown
    PROVE  IInv'
<1>1. UNCHANGED <<day, risk, pending, broken, history>>
  BY DEF Connect, LoopTop, DetectReturns, CycleRaises, HandlingMayRaise, SleepEnds, Gated, CycleDone,
         RequestShutdown, history
<1>2. /\ {pc, pc'} \subseteq Up \ {"executing"}
      /\ pc' = "connecting" => pc = "connecting"
  BY DEF Connect, LoopTop, DetectReturns, CycleRaises, HandlingMayRaise, SleepEnds, Gated, CycleDone,
         RequestShutdown, Up, Suspended
<1>3. todo' \in Nat /\ errors' \in Nat /\ requested' \in BOOLEAN
  <2>1. todo \in Nat /\ errors \in Nat /\ requested \in BOOLEAN
    BY DEF IInv, TypeOK
  <2>2. todo' \in Nat
    <3>1. \/ todo' = todo \/ todo' = 0 \/ (todo > 0 /\ todo' = todo - 1)
          \/ todo' \in 0 .. MaxOpps
      BY DEF Connect, LoopTop, DetectReturns, CycleRaises, HandlingMayRaise, SleepEnds, Gated, CycleDone,
             RequestShutdown
    <3> QED
      BY <2>1, <3>1, BotAssumption
  <2>3. errors' \in Nat
    <3>1. errors' = errors \/ errors' = 0 \/ errors' = errors + 1
      BY DEF Connect, LoopTop, DetectReturns, CycleRaises, HandlingMayRaise, SleepEnds, Gated, CycleDone,
             RequestShutdown
    <3> QED
      BY <2>1, <3>1
  <2>4. requested' \in BOOLEAN
    <3>1. requested' = requested \/ requested' = TRUE
      BY DEF Connect, LoopTop, DetectReturns, CycleRaises, HandlingMayRaise, SleepEnds, Gated, CycleDone,
             RequestShutdown
    <3> QED
      BY <2>1, <3>1
  <2> QED
    BY <2>2, <2>3, <2>4
<1>4. TypeOK'
  BY <1>1, <1>2, <1>3 DEF IInv, TypeOK, RiskTypeOK, risk, history
<1>5. FileIsPast' /\ HaltKept' /\ FreshStart'
  BY <1>1, <1>2
  DEF IInv, FileIsPast, HaltKept, FreshStart, StateOfToday, risk, history
<1>6. Accounts'
  BY <1>1, <1>2
  DEF IInv, Accounts, Settled, SavedPnl, StateOfToday, risk, history, Up, Suspended
<1> QED
  BY <1>4, <1>5, <1>6 DEF IInv

\* A trade adds its result to what was earned and keeps it pending.
LEMMA ExecuteStep == ASSUME IInv, NEW result \in Results, Execute(result) PROVE IInv'
<1>1. /\ UNCHANGED <<day, risk, errors, requested, broken, haltDay, intact, crossed>>
      /\ pc = "trading" /\ pc' = "executing" /\ todo' = todo - 1 /\ todo > 0
      /\ pending' = result /\ earned' = earned + result
  BY DEF Execute
<1>2. result \in Int
  BY BotAssumption
<1>3. TypeOK'
  BY <1>1, <1>2 DEF IInv, TypeOK, RiskTypeOK, risk, Up, Suspended
<1>4. FileIsPast' /\ HaltKept' /\ FreshStart'
  BY <1>1 DEF IInv, FileIsPast, HaltKept, FreshStart, StateOfToday, risk, Up, Suspended
<1>5. Accounts'
  BY <1>1, <1>2
  DEF IInv, TypeOK, RiskTypeOK, Accounts, Settled, SavedPnl, StateOfToday, risk, Up, Suspended
<1> QED
  BY <1>3, <1>4, <1>5 DEF IInv

\* A new day, a fault and the operator's changes of the file.
LEMMA OutsideStep == ASSUME IInv, Break \/ NewDay \/ Rearm \/ LoseFile PROVE IInv'
<1>1. CASE Break
  <2>1. TypeOK'
    BY <1>1 DEF Break, IInv, TypeOK, RiskTypeOK, risk, history
  <2>2. FileIsPast' /\ HaltKept' /\ FreshStart' /\ Accounts'
    BY <1>1 DEF Break, IInv, FileIsPast, HaltKept, FreshStart, StateOfToday, Accounts,
                Settled, SavedPnl, risk, history
  <2> QED
    BY <2>1, <2>2 DEF IInv
<1>2. CASE NewDay
  <2>1. /\ day \in Nat /\ day' = day + 1 /\ UNCHANGED <<risk, pc, haltDay>>
        /\ earned' = 0 /\ crossed' = (pc # "down")
    BY <1>2 DEF NewDay, IInv, TypeOK, RiskTypeOK
  <2>2. TypeOK'
    BY <1>2, <2>1 DEF NewDay, IInv, TypeOK, RiskTypeOK, risk
  <2>3. ~StateOfToday'
    BY <2>1 DEF IInv, TypeOK, RiskTypeOK, States, FileIsPast, StateOfToday, risk,
                NoFile, DamagedFile
  <2>4. FileIsPast' /\ FreshStart'
    BY <2>1 DEF IInv, TypeOK, RiskTypeOK, States, FileIsPast, FreshStart, risk,
                NoFile, DamagedFile
  <2>5. HaltKept'
    BY <2>1 DEF IInv, TypeOK, HaltKept
  <2>6. Accounts'
    BY <2>1, <2>3 DEF Accounts, Settled, SavedPnl, Up, Suspended
  <2> QED
    BY <2>2, <2>4, <2>5, <2>6 DEF IInv
<1>3. CASE Rearm
  <2>1. file \in States /\ file' = [file EXCEPT !.halted = FALSE]
    BY <1>3 DEF Rearm, IInv, TypeOK, RiskTypeOK, NoFile, DamagedFile
  <2>2. /\ file' \in States /\ file'.kind = file.kind
        /\ file'.date = file.date /\ file'.pnl = file.pnl
    BY <2>1 DEF States
  <2>3. TypeOK'
    BY <1>3, <2>2 DEF Rearm, IInv, TypeOK, RiskTypeOK
  <2>4. FileIsPast' /\ FreshStart' /\ Accounts'
    BY <1>3, <2>2 DEF Rearm, IInv, FileIsPast, FreshStart, Accounts, Settled, SavedPnl,
                      StateOfToday
  <2>5. HaltKept'
    BY <1>3 DEF Rearm, IInv, TypeOK, RiskTypeOK, HaltKept
  <2> QED
    BY <2>3, <2>4, <2>5 DEF IInv
<1>4. CASE LoseFile
  <2>1. TypeOK'
    BY <1>4 DEF LoseFile, IInv, TypeOK, RiskTypeOK
  <2>2. FileIsPast' /\ FreshStart' /\ Accounts'
    BY <1>4 DEF LoseFile, IInv, FileIsPast, FreshStart, Accounts, NoFile, DamagedFile
  <2>3. HaltKept'
    BY <1>4 DEF LoseFile, IInv, TypeOK, RiskTypeOK, HaltKept
  <2> QED
    BY <2>1, <2>2, <2>3 DEF IInv
<1> QED
  BY <1>1, <1>2, <1>3, <1>4

\* The inductive invariant holds in every reachable state.
LEMMA Invariance == Spec => []IInv
<1>1. IInv /\ [Next]_vars => IInv'
  <2> SUFFICES ASSUME IInv, [Next]_vars PROVE IInv'
    OBVIOUS
  <2>1. CASE UNCHANGED vars
    <3>1. TypeOK'
      BY <2>1 DEF vars, IInv, TypeOK, RiskTypeOK, risk, history
    <3>2. FileIsPast' /\ HaltKept' /\ FreshStart' /\ Accounts'
      BY <2>1 DEF vars, IInv, FileIsPast, HaltKept, FreshStart, StateOfToday, Accounts,
                  Settled, SavedPnl, risk, history
    <3> QED
      BY <3>1, <3>2 DEF IInv
  <2> QED
    BY <2>1, StartStep, EndStep, RecordStep, BlockedStep, QuietStep, ExecuteStep, OutsideStep
    DEF Next, Loop
<1> QED
  BY <1>1, InitStep, PTL DEF Spec

-----------------------------------------------------------------------------
(* Theorems *)

\* Type correctness.
THEOREM TypeCorrect == Spec => []TypeOK
<1>1. IInv => TypeOK
  BY DEF IInv
<1> QED
  BY <1>1, Invariance, PTL

\* The PnL in memory is what was earned today, over any number of restarts,
\* crashes between trades and failed saves that a later save makes good.
THEOREM PnlIsExact == Spec => []PnlExact
<1>1. IInv => PnlExact
  BY DEF IInv, Accounts, PnlExact
<1> QED
  BY <1>1, Invariance, PTL

\* A halt that reached the file survives every restart of the same day.
THEOREM HaltIsKept == Spec => []HaltSurvivesRestart
<1>1. IInv => HaltSurvivesRestart
  BY DEF IInv, HaltKept, HaltSurvivesRestart
<1> QED
  BY <1>1, Invariance, PTL

\* No trade starts once the loss of the day has reached the limit.
THEOREM LossIsLimited == Spec => NoTradePastLimit
<1> DEFINE A == pc' = "executing" /\ pc # "executing" /\ intact /\ ~crossed
                  => earned > - Limit
<1>1. IInv /\ [Next]_vars => [A]_vars
  <2> SUFFICES ASSUME IInv, [Next]_vars, pc' = "executing", pc # "executing",
                      intact, ~crossed
               PROVE  earned > - Limit
    OBVIOUS
  <2>1. pc = "trading" /\ ~LossLimitReached(pnl)
    BY DEF Next, Loop, Start, Connect, ConnectFails, LoopTop, DetectReturns, CycleRaises,
           SleepEnds, Blocked, Gated, Execute, RecordResult, CycleDone, Stop,
           RequestShutdown, Crash, Break, NewDay, Rearm, LoseFile, Gone, Allowed, vars
  <2>2. pnl = earned /\ pnl \in Int
    BY <2>1 DEF IInv, TypeOK, RiskTypeOK, Accounts, Settled, Up, Suspended
  <2> QED
    BY <2>1, <2>2, LimitAssumption DEF LossLimitReached
<1> QED
  BY <1>1, Invariance, PTL DEF Spec, NoTradePastLimit

=============================================================================
