---------------------------- MODULE PoolSelector ----------------------------
(***************************************************************************)
(* The fee tier one pair and side is quoted on (src/exchange/              *)
(* pool_selector.py): measured by quoting the candidate tiers one after    *)
(* the other, kept for refresh_seconds, and the configured tier whenever   *)
(* that fails.  A price is the instant it was quoted at and its rank among *)
(* the prices there can be; the best rank wins and the first of equals.    *)
(***************************************************************************)
EXTENDS Integers, Sequences

CONSTANTS
    Pickers,     \* concurrent calls of best_fee
    Tiers,       \* candidate_fee_tiers, in order
    Ranks,       \* how good a quoted price can be, 0 for no usable quote
    RefreshEvery, \* refresh_seconds
    QuoteBy,     \* bound: the quote of one tier takes at most this long
    LastPick     \* bound: the last instant

ASSUME SelectorAssumption ==
    /\ Tiers \in Seq(Nat \ {0}) /\ Len(Tiers) > 0
    /\ Ranks \subseteq Nat
    /\ RefreshEvery \in Nat \ {0}
    /\ QuoteBy \in Nat
    /\ LastPick \in Nat

VARIABLES
    instant,     \* the present
    chosen,      \* _chosen[key]: the tier, the instant its measurement began, the stamp
    pick,        \* per call: how many tiers are quoted, since when, the best so far
    fee          \* per call: the tier returned and the instant its measurement began

pickVars == <<instant, chosen, pick, fee>>

Unchosen == [tier |-> 0, of |-> -1, at |-> -1]
NotPicking == [quoted |-> -1, since |-> 0, step |-> 0, rank |-> 0, tier |-> 0]

SelectorInit ==
    /\ instant = 0
    /\ chosen = Unchosen
    /\ pick = [p \in Pickers |-> NotPicking]
    /\ fee = [p \in Pickers |-> Unchosen]

\* A choice is of a tier that was measured.
TierChoices == {Unchosen} \cup [tier : {Tiers[i] : i \in DOMAIN Tiers}, of : Nat, at : Nat]

SelectorTypeOK ==
    /\ instant \in Nat
    /\ chosen \in TierChoices
    /\ pick \in [Pickers -> [quoted : -1 .. Len(Tiers), since : Nat, step : Nat,
                             rank : Nat, tier : {0} \cup {Tiers[i] : i \in DOMAIN Tiers}]]
    /\ fee \in [Pickers -> TierChoices]

Picking(p) == pick[p].quoted >= 0

Done(p, c) ==
    /\ fee' = [fee EXCEPT ![p] = c]
    /\ pick' = [pick EXCEPT ![p] = NotPicking]

\* A young choice is served, a single tier needs no measurement.
BestFee(p) ==
    /\ ~Picking(p)
    /\ IF chosen # Unchosen /\ instant - chosen.at < RefreshEvery
       THEN Done(p, chosen) /\ UNCHANGED chosen
       ELSE IF Len(Tiers) = 1
       THEN /\ chosen' = [tier |-> Tiers[1], of |-> instant, at |-> instant]
            /\ Done(p, chosen')
       ELSE /\ pick' = [pick EXCEPT ![p] = [NotPicking EXCEPT !.quoted = 0,
                                                !.since = instant, !.step = instant]]
            /\ UNCHANGED <<chosen, fee>>
    /\ UNCHANGED instant

BetterThan(p, rank) == rank > pick[p].rank

\* No pool, no quote and a price of zero leave the best as it is.
Quoted(p, rank) ==
    [pick[p] EXCEPT !.quoted = @ + 1, !.step = instant,
                    !.rank = IF BetterThan(p, rank) THEN rank ELSE @,
                    !.tier = IF BetterThan(p, rank) THEN Tiers[pick[p].quoted + 1] ELSE @]

\* _measure: the next tier has answered.
QuoteTier(p) ==
    /\ Picking(p) /\ pick[p].quoted < Len(Tiers)
    /\ \E rank \in Ranks : pick' = [pick EXCEPT ![p] = Quoted(p, rank)]
    /\ UNCHANGED <<instant, chosen, fee>>

\* Slip: that no tier could be quoted is not looked at.
ChooseUnmeasured(p) ==
    /\ pick[p].quoted = Len(Tiers)
    /\ chosen' = [tier |-> pick[p].tier, of |-> pick[p].since, at |-> instant]
    /\ Done(p, chosen')
    /\ UNCHANGED instant

\* The choice is stamped when the measurement ends, and none is kept without one.
Choose(p) ==
    /\ pick[p].quoted = Len(Tiers)
    /\ IF pick[p].tier = 0
       THEN Done(p, Unchosen) /\ UNCHANGED chosen
       ELSE /\ chosen' = [tier |-> pick[p].tier, of |-> pick[p].since, at |-> instant]
            /\ Done(p, chosen')
    /\ UNCHANGED instant

\* Slip: the last choice is used for as long as no better one can be measured.
MeasureRaisesKeeping(p) ==
    /\ Picking(p) /\ pick[p].quoted < Len(Tiers)
    /\ Done(p, chosen)
    /\ UNCHANGED <<instant, chosen>>

\* Any exception: the configured tier is used this time.
MeasureRaises(p) ==
    /\ Picking(p) /\ pick[p].quoted < Len(Tiers)
    /\ Done(p, Unchosen)
    /\ UNCHANGED <<instant, chosen>>

PickClock ==
    /\ instant < LastPick
    /\ \A p \in Pickers : Picking(p) =>
          pick[p].quoted < Len(Tiers) /\ instant - pick[p].step < QuoteBy
    /\ instant' = instant + 1
    /\ UNCHANGED <<chosen, pick, fee>>

SelectorNext ==
    \/ PickClock
    \/ \E p \in Pickers : BestFee(p) \/ QuoteTier(p) \/ Choose(p) \/ MeasureRaises(p)

SelectorSpec == SelectorInit /\ [][SelectorNext]_pickVars

-----------------------------------------------------------------------------
(* Properties *)

SelectedTier == INSTANCE BoundedStaleness WITH
    Callers <- Pickers, MaxAge <- RefreshEvery - 1 + Len(Tiers) * QuoteBy,
    clock <- instant, answer <- [p \in Pickers |-> fee[p].of]

\* A tier is chosen from quotes no older than one refresh and one measurement,
\* although the choice is stamped after it and a measurement begun earlier may
\* replace one that ended first; a failed one falls back and is not kept.
TierFresh == SelectedTier!Spec

=============================================================================
