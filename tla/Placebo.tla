------------------------------- MODULE Placebo -------------------------------
(***************************************************************************)
(* DelayedQuoteBuffer (src/strategy/placebo.py), one series of it, as the  *)
(* detector uses it in _placebo_net_bps: every live quote that is priced   *)
(* is pushed, and the quote to compare with is read back in the same step. *)
(***************************************************************************)
EXTENDS Integers, Sequences, SequencesExt

CONSTANTS
    Delay,        \* delay_seconds
    LastSample,   \* bound: the clock
    MaxPushes     \* bound: quotes in a run

ASSUME PlaceboAssumption == Delay \in Nat \ {0} /\ LastSample \in Nat /\ MaxPushes \in Nat

VARIABLES
    sampled,  \* the clock
    series,   \* the quotes kept: when, and which
    pushed,   \* how many quotes there have been, and when
    stale     \* what the last delayed() returned; 0 for None

placeboVars == <<sampled, series, pushed, stale>>

PlaceboInit == sampled = 0 /\ series = <<>> /\ pushed = <<>> /\ stale = 0

PlaceboTypeOK ==
    /\ sampled \in 0 .. LastSample
    /\ series \in Seq([at : 0 .. LastSample, quote : 1 .. MaxPushes])
    /\ pushed \in Seq(0 .. LastSample) /\ Len(pushed) <= MaxPushes
    /\ stale \in 0 .. MaxPushes

\* The entry before the first, from the given one on, that is younger than the delay.
Served(s, from) ==
    LET young == SelectInSubSeq(s, from, Len(s), LAMBDA e : e.at > sampled - Delay)
    IN  IF young = 0 THEN Len(s) ELSE young - 1

\* Slip: the entry being served is dropped with those before it.
TrimmedHard(s) == SubSeq(s, Served(s, 2) + 1, Len(s))

\* Entries are dropped from the front while the one after them is old enough.
Trimmed(s) == SubSeq(s, Served(s, 2), Len(s))

Delayed(s) == IF Served(s, 1) = 0 THEN 0 ELSE s[Served(s, 1)].quote

Sample ==
    /\ Len(pushed) < MaxPushes
    /\ pushed' = Append(pushed, sampled)
    /\ series' = Trimmed(Append(series, [at |-> sampled, quote |-> Len(pushed) + 1]))
    /\ stale' = Delayed(series')
    /\ UNCHANGED sampled

PlaceboTick ==
    /\ sampled < LastSample
    /\ sampled' = sampled + 1
    /\ UNCHANGED <<series, pushed, stale>>

PlaceboNext == Sample \/ PlaceboTick

PlaceboSpec == PlaceboInit /\ [][PlaceboNext]_placeboVars

-----------------------------------------------------------------------------
(* Properties *)

\* Dropping history as it goes, the buffer still answers from all of it: the newest
\* quote at least Delay old, and none while there is no such quote.
PlaceboFromHistory ==
    pushed # <<>> =>
        LET then == Last(pushed)
            old == {i \in DOMAIN pushed : pushed[i] <= then - Delay}
        IN  IF old = {} THEN stale = 0
            ELSE stale \in old /\ \A i \in old : i <= stale
=============================================================================
