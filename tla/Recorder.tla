------------------------------ MODULE Recorder ------------------------------
(***************************************************************************)
(* Recorder of src/research/recorder.py with ObservationStore.record of    *)
(* src/research/observations.py: every cycle observes all targets          *)
(* concurrently and writes each observation as it completes.  A write that *)
(* raises ends the cycle, not the observations still under way: these run  *)
(* on, unwatched, beside those of the next cycle.                          *)
(***************************************************************************)
EXTENDS Integers, Sequences, FiniteSets

CONSTANTS
    Targets,       \* what is recorded
    MaxCycles,     \* max_cycles
    StoreFaults    \* bound: how many writes fail

ASSUME RecorderAssumption ==
    /\ IsFiniteSet(Targets) /\ Targets # {}
    /\ MaxCycles \in Nat \ {0}
    /\ StoreFaults \in Nat

VARIABLES
    loop,       \* where run is
    observing,  \* the targets of this cycle still being observed
    ready,      \* completed and not looked at: the outcomes, in order of completion
    strays,     \* observations under way that no cycle waits for
    stop,       \* _stop
    asked,      \* history: stop was called while run was running
    tally,      \* _cycles, _recorded, _failed; rows in the store
    lost,       \* history: observations made and neither stored nor counted
    faults,     \* writes that failed so far
    begun       \* history: observations begun

recorderVars == <<loop, observing, ready, strays, stop, asked, tally, lost, faults, begun>>

RecorderTypeOK ==
    /\ loop \in {"new", "top", "cycle", "after", "sleep", "ended"}
    /\ observing \subseteq Targets
    /\ ready \in Seq({"row", "none"})
    /\ strays \in Nat
    /\ stop \in BOOLEAN /\ asked \in BOOLEAN
    /\ tally \in [cycles : Nat, recorded : Nat, failed : Nat, rows : Nat]
    /\ lost \in Nat /\ faults \in 0 .. StoreFaults /\ begun \in Nat

RecorderInit ==
    /\ loop = "new"
    /\ observing = {}
    /\ ready = <<>>
    /\ strays = 0
    /\ stop = FALSE
    /\ asked = FALSE
    /\ tally = [cycles |-> 0, recorded |-> 0, failed |-> 0, rows |-> 0]
    /\ lost = 0
    /\ faults = 0
    /\ begun = 0

-----------------------------------------------------------------------------
(* run *)

Run ==
    /\ loop = "new"
    /\ stop' = FALSE
    /\ loop' = "top"
    /\ UNCHANGED <<observing, ready, strays, asked, tally, lost, faults, begun>>

\* A signal handler calls stop; one that comes before run is forgotten by run.
Stop ==
    /\ loop # "ended"
    /\ stop' = TRUE
    /\ asked' = (asked \/ loop # "new")
    /\ UNCHANGED <<loop, observing, ready, strays, tally, lost, faults, begun>>

CycleBegins ==
    /\ loop = "top"
    /\ IF stop
       THEN loop' = "ended" /\ UNCHANGED <<observing, begun>>
       ELSE /\ loop' = "cycle"
            /\ observing' = Targets
            /\ begun' = begun + Cardinality(Targets)
    /\ UNCHANGED <<ready, strays, stop, asked, tally, lost, faults>>

AfterCycle ==
    /\ loop = "after"
    /\ loop' = IF tally.cycles >= MaxCycles \/ stop THEN "ended" ELSE "sleep"
    /\ UNCHANGED <<observing, ready, strays, stop, asked, tally, lost, faults, begun>>

Wakes ==
    /\ loop = "sleep"
    /\ loop' = "top"
    /\ UNCHANGED <<observing, ready, strays, stop, asked, tally, lost, faults, begun>>

-----------------------------------------------------------------------------
(* cycle and the observations it starts *)

\* _observe: book and pool are read together; a gas price may be missing.
Outcome ==
    [book : {"two_sided", "one_sided", "raises"}, pool : {"snapshot", "none", "raises"}]

Observed(o) == o.book = "two_sided" /\ o.pool = "snapshot"

\* Slip: an observation that raises goes uncounted.
FailureOf(o) == IF o.book = "raises" \/ o.pool = "raises" THEN 0 ELSE 1

\* _observe_isolated counts an exception, _observe the rest.
Failure(o) == IF Observed(o) THEN 0 ELSE 1

Completes(t) ==
    /\ t \in observing /\ loop = "cycle"
    /\ observing' = observing \ {t}
    /\ \E o \in Outcome :
          /\ ready' = Append(ready, IF Observed(o) THEN "row" ELSE "none")
          /\ tally' = [tally EXCEPT !.failed = @ + Failure(o)]
    /\ UNCHANGED <<loop, strays, stop, asked, lost, faults, begun>>

StrayCompletes ==
    /\ strays > 0
    /\ strays' = strays - 1
    /\ \E o \in Outcome :
          /\ tally' = [tally EXCEPT !.failed = @ + Failure(o)]
          /\ lost' = lost + (IF Observed(o) THEN 1 ELSE 0)
    /\ UNCHANGED <<loop, observing, ready, stop, asked, faults, begun>>

Skip ==
    /\ loop = "cycle" /\ ready # <<>> /\ Head(ready) = "none"
    /\ ready' = Tail(ready)
    /\ UNCHANGED <<loop, observing, strays, stop, asked, tally, lost, faults, begun>>

\* ObservationStore.record commits the row, then the recorder counts it.
Write ==
    /\ loop = "cycle" /\ ready # <<>> /\ Head(ready) = "row"
    /\ ready' = Tail(ready)
    /\ tally' = [tally EXCEPT !.rows = @ + 1, !.recorded = @ + 1]
    /\ UNCHANGED <<loop, observing, strays, stop, asked, lost, faults, begun>>

\* The write raises: run logs it and goes on without counting the cycle.
WriteRaises ==
    /\ loop = "cycle" /\ ready # <<>> /\ Head(ready) = "row"
    /\ faults < StoreFaults
    /\ faults' = faults + 1
    /\ lost' = lost + Cardinality({i \in 1 .. Len(ready) : ready[i] = "row"})
    /\ ready' = <<>>
    /\ strays' = strays + Cardinality(observing)
    /\ observing' = {}
    /\ loop' = "after"
    /\ UNCHANGED <<stop, asked, tally, begun>>

\* Slip: the cycle waits for a row of every target.
CycleEndsWhenWritten ==
    /\ loop = "cycle" /\ observing = {} /\ ready = <<>>
    /\ tally.recorded >= (tally.cycles + 1) * Cardinality(Targets)
    /\ tally' = [tally EXCEPT !.cycles = @ + 1]
    /\ loop' = "after"
    /\ UNCHANGED <<observing, ready, strays, stop, asked, lost, faults, begun>>

CycleEnds ==
    /\ loop = "cycle" /\ observing = {} /\ ready = <<>>
    /\ tally' = [tally EXCEPT !.cycles = @ + 1]
    /\ loop' = "after"
    /\ UNCHANGED <<observing, ready, strays, stop, asked, lost, faults, begun>>

RunSteps ==
    \/ Run \/ CycleBegins \/ AfterCycle \/ Wakes
    \/ Skip \/ Write \/ WriteRaises \/ CycleEnds

RecorderNext ==
    \/ RunSteps
    \/ Stop
    \/ StrayCompletes
    \/ \E t \in Targets : Completes(t)

\* Every read returns or raises in the end, and run goes on when it can.
RecorderFairness ==
    /\ WF_recorderVars(RunSteps)
    /\ \A t \in Targets : WF_recorderVars(Completes(t))

RecorderSpec == RecorderInit /\ [][RecorderNext]_recorderVars /\ RecorderFairness

-----------------------------------------------------------------------------
(* Properties *)

\* The failure rate stats() reports leaves out only observations dropped because
\* a write raised: every observation begun is stored once, counted as failed,
\* still under way or waiting, or one of the lost, and stored means counted.
EveryObservationAccounted ==
    /\ tally.recorded = tally.rows
    /\ begun = tally.recorded + tally.failed + lost + strays + Cardinality(observing)
               + Cardinality({i \in 1 .. Len(ready) : ready[i] = "row"})
    /\ (lost > 0 \/ strays > 0) => faults > 0

\* A recorder with a limit ends although writes fail now and then: only a cycle
\* whose writes all succeed counts, so this needs the faults to be finitely many.
RecorderEnds == <>(loop = "ended")

=============================================================================
