----------------------------- MODULE AuditTrail -----------------------------
(***************************************************************************)
(* EvaluationStore of src/infra/evaluation_store.py, filled by the         *)
(* detector's _emit over several runs of the process, and what is read     *)
(* from it: markout, and direction_balance of src/infra/analysis.py as the *)
(* command `analyse` calls it.                                             *)
(*                                                                         *)
(* A row is committed and synced before record returns, so a crash at any  *)
(* point loses nothing: Dies leaves the file alone.  Times are instants of *)
(* the system clock, which can be set back.                                *)
(***************************************************************************)
EXTENDS Integers, Sequences, FiniteSets, SequencesExt

CONSTANTS
    Audited,      \* pairs, by their CEX symbol
    Listings,     \* the lists of pairs a process can be started with
    Verdict,      \* policy_verdict of every pair
    NetsOf,       \* what a decision can show of each: net_bps of the two directions
    NoNet,        \* NULL
    AuditFloor,   \* the detector's floor
    Offset,       \* of a markout
    Within,       \* and its tolerance
    SameCycle,    \* tolerance_seconds of direction_balance
    CycleGaps,    \* instants between two cycles
    LastInstant, MaxDecisions, MaxSlips  \* bounds; the last of writes that fail and clock corrections

ASSUME AuditAssumption ==
    /\ IsFiniteSet(Audited) /\ Listings \subseteq (SUBSET Audited) \ {{}}
    /\ DOMAIN Verdict = Audited /\ DOMAIN NetsOf = Audited
    /\ \A p \in Audited : NetsOf[p] \subseteq ((Int \cup {NoNet}) \X (Int \cup {NoNet}))
    /\ NoNet \notin Int /\ NoNet \notin {"CEX_to_DEX", "DEX_to_CEX"}
    /\ AuditFloor \in Int
    /\ {Offset, Within, SameCycle, LastInstant, MaxDecisions, MaxSlips} \subseteq Nat
    /\ CycleGaps \subseteq Nat

VARIABLES
    trail,    \* the file: has its table the present columns, and its rows
    process,  \* run_id and pairs of the process that runs, or Ended
    wallClock, \* clock.now()
    due,      \* pairs the present cycle has not decided yet
    past,     \* history: the decisions of all runs, and which of their rows were kept
    slips     \* history: failed writes, clock corrections

auditVars == <<trail, process, wallClock, due, past, slips>>

Ended == [run |-> 0, pairs |-> {}]

Directions2 == <<"CEX_to_DEX", "DEX_to_CEX">>

\* A decision without a direction writes one row, the others one for each direction.
RowsOf(d) ==
    LET row(dir, out, net) ==
            [run |-> d.run, at |-> d.at, pair |-> d.pair, dir |-> dir, out |-> out, net |-> net,
             verdict |-> d.verdict]
        above(i) == d.nets[i] # NoNet /\ d.nets[i] >= AuditFloor
        best == IF d.nets = <<>> THEN 0
                ELSE IF above(1) /\ (above(2) => d.nets[1] >= d.nets[2]) THEN 1
                ELSE IF above(2) THEN 2 ELSE 0
    IN  IF d.nets = <<>> THEN <<row(NoNet, "rejected", NoNet)>>
        ELSE [i \in 1 .. 2 |->
                 row(Directions2[i], IF i = best THEN "taken" ELSE "rejected", d.nets[i])]

\* The unique index takes no two NULL directions for equal.
Refuses(rows, r) ==
    /\ r.dir # NoNet
    /\ \E i \in DOMAIN rows :
          /\ rows[i].run = r.run /\ rows[i].at = r.at /\ rows[i].pair = r.pair
          /\ rows[i].dir = r.dir /\ rows[i].out = r.out

\* Each row of a decision is inserted on its own, in their order.
Those(new, inserted) ==
    LET one(i) == IF i \in DOMAIN new /\ new[i] \in inserted THEN <<new[i]>> ELSE <<>>
    IN  one(1) \o one(2)

Insert(rows, new, failing) == Those(new, {r \in Range(new) \ failing : ~Refuses(rows, r)})

\* No file yet, or one of run 0 from before there was a policy_verdict.
AuditInit ==
    /\ \E p \in Audited :
          LET d == [run |-> 0, at |-> 0, pair |-> p, nets |-> <<1, NoNet>>, verdict |-> NoNet,
                    kept |-> {"CEX_to_DEX", "DEX_to_CEX"}]
          IN  \/ trail = [current |-> FALSE, rows |-> <<>>] /\ past = <<>>
              \/ trail = [current |-> FALSE, rows |-> RowsOf(d)] /\ past = <<d>>
    /\ process = Ended
    /\ wallClock = 0
    /\ due = {}
    /\ slips = [writes |-> 0, clock |-> 0]

\* The table is created or gets its new columns; its rows stay as they are.  A run
\* that decided nothing left no trace of its run_id.
OpenTrail ==
    /\ process = Ended /\ Len(past) < MaxDecisions
    /\ \E pairs \in Listings :
          process' = [run |-> 1 + Max({0} \cup {past[i].run : i \in DOMAIN past}), pairs |-> pairs]
    /\ trail' = [trail EXCEPT !.current = TRUE]
    /\ UNCHANGED <<wallClock, due, past, slips>>

\* A cycle of the main loop asks for every pair of the process.
CycleStarts ==
    /\ process # Ended /\ due = {} /\ Len(past) < MaxDecisions
    /\ due' = process.pairs
    /\ \E g \in CycleGaps : wallClock' = wallClock + g
    /\ wallClock' <= LastInstant
    /\ UNCHANGED <<trail, process, past, slips>>

\* _decide records both directions in one go; a row that cannot be written is logged
\* and forgotten.
Emit(p) ==
    /\ p \in due
    /\ due' = due \ {p}
    /\ \E nets \in NetsOf[p] \cup {<<>>} :
          LET d == [run |-> process.run, at |-> wallClock, pair |-> p, nets |-> nets,
                    verdict |-> Verdict[p], kept |-> {}]
              new == RowsOf(d)
          IN  \E failing \in SUBSET Range(new) :
                 LET kept == Insert(trail.rows, new, failing) IN
                 /\ slips.writes + slips.clock + Cardinality(failing) <= MaxSlips
                 /\ slips' = [slips EXCEPT !.writes = @ + Cardinality(failing)]
                 /\ trail' = [trail EXCEPT !.rows = @ \o kept]
                 /\ past' = Append(past, [d EXCEPT !.kept = {r.dir : r \in Range(kept)}])
    /\ UNCHANGED <<process, wallClock>>

\* Shutdown closes the file, and a crash leaves it as it is.
Dies ==
    /\ process # Ended
    /\ process' = Ended
    /\ due' = {}
    /\ UNCHANGED <<trail, wallClock, past, slips>>

ClockSetBack ==
    /\ slips.writes + slips.clock < MaxSlips /\ wallClock > 0 /\ process # Ended
    /\ wallClock' = wallClock - 1
    /\ slips' = [slips EXCEPT !.clock = @ + 1]
    /\ UNCHANGED <<trail, process, due, past>>

AuditNext ==
    OpenTrail \/ CycleStarts \/ (\E p \in Audited : Emit(p)) \/ Dies \/ ClockSetBack

AuditSpec == AuditInit /\ [][AuditNext]_auditVars

AuditTypeOK ==
    /\ trail.current \in BOOLEAN /\ process.run \in Nat /\ wallClock \in 0 .. LastInstant
    /\ due \subseteq process.pairs /\ process.pairs \subseteq Audited
    /\ \A i \in DOMAIN trail.rows :
          LET r == trail.rows[i]
          IN  /\ r.pair \in Audited /\ r.dir \in Range(Directions2) \cup {NoNet}
              /\ r.net \in Int \cup {NoNet} /\ r.out \in {"taken", "rejected"}

-----------------------------------------------------------------------------
(* What is read from the file *)

Apart(a, b) == IF a < b THEN b - a ELSE a - b

\* Slip: the two directions of a pair are taken for one series.
MarkoutRowsOfPair(rows, i) ==
    {j \in DOMAIN rows \ {i} :
        /\ rows[j].pair = rows[i].pair
        /\ rows[j].run = rows[i].run
        /\ rows[j].net # NoNet
        /\ Apart(rows[j].at, rows[i].at + Offset) <= Within}

MarkoutRows(rows, i) ==
    {j \in DOMAIN rows \ {i} :
        /\ rows[j].pair = rows[i].pair /\ rows[j].dir = rows[i].dir
        /\ rows[j].run = rows[i].run
        /\ rows[j].net # NoNet
        /\ Apart(rows[j].at, rows[i].at + Offset) <= Within}

\* The nearest to the offset, the first of several as near, or nothing.
Markout(rows, i) ==
    LET among == MarkoutRows(rows, i)
        off(j) == Apart(rows[j].at, rows[i].at + Offset)
        best == {j \in among : \A k \in among : off(j) < off(k) \/ (off(j) = off(k) /\ j <= k)}
    IN  IF among = {} THEN NoNet ELSE rows[Max(best)].net

\* The run analysed by default: the one with the latest row.
ChosenRun(rows) ==
    LET latest == Max({rows[i].at : i \in DOMAIN rows})
    IN  Max({rows[i].run : i \in {j \in DOMAIN rows : rows[j].at = latest}})

\* _rows: a row from before there was a verdict is kept.
Tradeable(rows, run, p) ==
    {i \in DOMAIN rows :
        /\ rows[i].run = run /\ rows[i].pair = p
        /\ rows[i].verdict \in {NoNet, "allowed"} /\ rows[i].net # NoNet}

\* Rows of different directions within the tolerance are taken for one cycle, and a
\* row for one cycle only.
Compare(acc, r) ==
    IF acc.first # <<>> /\ Apart(acc.first[1].at, r.at) <= SameCycle /\ acc.first[1].dir # r.dir
    THEN LET better == IF acc.first[1].net > r.net THEN acc.first[1].dir ELSE r.dir
         IN  [first |-> <<>>, won |-> [acc.won EXCEPT ![better] = @ + 1]]
    ELSE [acc EXCEPT !.first = <<r>>]

\* The rows of one instant, in the order in which they were written.
Visit(acc, rows, i, t, S) ==
    IF i \in S /\ rows[i].at = t THEN Compare(acc, rows[i]) ELSE acc

AtInstant(rows, t, acc, S) ==
    LET seen[i \in 0 .. Len(rows)] == IF i = 0 THEN acc ELSE Visit(seen[i - 1], rows, i, t, S)
    IN  seen[Len(rows)]

\* The rows are compared in the order of their times.
Balance(rows, run, p) ==
    LET before[t \in 0 .. LastInstant + 1] ==
            IF t = 0 THEN [first |-> <<>>, won |-> [d \in Range(Directions2) |-> 0]]
            ELSE AtInstant(rows, t - 1, before[t - 1], Tradeable(rows, run, p))
    IN  before[LastInstant + 1].won

-----------------------------------------------------------------------------
(* Properties *)

\* The rows that decisions have put on file.
RowsKept(d) == Those(RowsOf(d), {r \in Range(RowsOf(d)) : r.dir \in d.kept})

Filed(rows, d) == rows \o RowsKept(d)

Written(decisions) ==
    LET file[k \in 0 .. Len(decisions)] == IF k = 0 THEN <<>> ELSE Filed(file[k - 1], decisions[k])
    IN  file[Len(decisions)]

\* What the file says of a decision is what was decided: through new runs, new
\* columns, crashes and refused or failed writes the rows are those that were kept, in
\* order and unaltered; and one is missing only if its write failed or the same pair
\* had that outcome for that direction at that very instant.
TrailFaithful ==
    /\ \A k \in DOMAIN past : \A r \in Range(RowsOf(past[k])) :
          \/ r.dir \in past[k].kept \/ slips.writes > 0
          \/ \E m \in 1 .. k - 1 : r \in {[q EXCEPT !.net = r.net] : q \in Range(RowsOf(past[m]))}
    /\ trail.rows = Written(past)

\* A markout is a net of the same pair, direction and run, decided at the offset
\* within the tolerance and no farther from it than any other; it is missing only if
\* there is none.
MarkoutTrue ==
    \A i \in DOMAIN trail.rows :
        LET r == trail.rows[i]
            n(d) == CHOOSE k \in 1 .. 2 : Directions2[k] = r.dir
            series == {k \in DOMAIN past :
                          LET d == past[k] IN
                          /\ d.run = r.run /\ d.pair = r.pair
                          /\ d.nets # <<>> /\ r.dir \in d.kept /\ d.nets[n(d)] # NoNet
                          /\ Apart(d.at, r.at + Offset) <= Within}
            a == Markout(trail.rows, i)
        IN  IF a # NoNet
            THEN \E k \in series :
                    /\ past[k].nets[n(past[k])] = a
                    /\ \A m \in series :
                          \/ Apart(past[k].at, r.at + Offset) <= Apart(past[m].at, r.at + Offset)
                          \/ past[m].at = r.at
            ELSE r.dir = NoNet \/ \A k \in series : past[k].at = r.at

\* As long as the decisions of a pair are farther apart than the tolerance, every one
\* with two prices on file is counted as one cycle, for the direction that was the
\* better, and no other is; and only pairs the policy allowed are in the figures.
BalanceTrue ==
    trail.rows # <<>> =>
        LET run == ChosenRun(trail.rows)
        IN  \A p \in Audited :
               LET own == {k \in DOMAIN past : past[k].run = run /\ past[k].pair = p}
                   both == {k \in own :
                               /\ past[k].nets # <<>> /\ Range(Directions2) \subseteq past[k].kept
                               /\ past[k].nets[1] # NoNet /\ past[k].nets[2] # NoNet
                               /\ past[k].verdict \in {NoNet, "allowed"}}
               IN  (\A k, m \in own : k # m => Apart(past[k].at, past[m].at) > SameCycle)
                   => /\ Balance(trail.rows, run, p)["CEX_to_DEX"] =
                            Cardinality({k \in both : past[k].nets[1] > past[k].nets[2]})
                      /\ Balance(trail.rows, run, p)["DEX_to_CEX"] =
                            Cardinality({k \in both : past[k].nets[1] <= past[k].nets[2]})

\* While the clock is never set back, the run analysed by default is the last with rows.
LatestChosen ==
    (trail.rows # <<>> /\ slips.clock = 0) => ChosenRun(trail.rows) = Last(trail.rows).run

\* The audit trail and what is read from it agree with what was decided.
AuditFaithful == TrailFaithful /\ MarkoutTrue /\ BalanceTrue /\ LatestChosen

=============================================================================
