------------------------------ MODULE Replays -------------------------------
(***************************************************************************)
(* The two ways history is replayed: recorded observations through the     *)
(* detector (observation_replay.py, in Research) and a dataset of prices   *)
(* through the simulator (simulator.py, in Backtest).  They share no state.*)
(***************************************************************************)
EXTENDS Research, Backtest

ReplaysSpec == ResearchSpec /\ BacktestSpec

\* Neither replay of history departs from what it replays, see ReplayAgrees of Research
\* and BacktestHonest of Backtest.
ReplaysFaithful == ReplayAgrees /\ BacktestHonest

=============================================================================
