------------------------------ MODULE Detector ------------------------------
(***************************************************************************)
(* OpportunityDetector (src/strategy/detector.py) and the gate of the      *)
(* executors (src/strategy/executor.py).  detect() captures the book of    *)
(* every pair before it first waits, evaluates both directions of every    *)
(* pair concurrently, decides each pair when its directions have answered  *)
(* and hands over what it found when all pairs are done.                   *)
(*                                                                         *)
(* What evaluate_trade makes of a quote is one of a set of quotes; a book  *)
(* is the time at which it was last known to be the exchange's own.        *)
(***************************************************************************)
EXTENDS Integers, Sequences, SequencesExt

CONSTANTS
    Pairs,            \* the pairs configured
    Synthetic,        \* those whose pool trades against an intermediate asset
    Denied,           \* those the token policy does not clear
    Floor,            \* the edge required, rotation risk included
    Ceiling,          \* max_net_bps_sanity
    Quotes,           \* what a direction can be worth: its net edge, its net value
                      \* and the fee tier quoted
    BookAge,          \* the greatest age of a book that _usable_book lets through
    LegBy,            \* bound: time a direction takes to answer
    IntermediateFor,  \* intermediate_price_cache_seconds
    Lifetime,         \* opportunity_ttl_seconds
    LastLook,         \* bound: the clock
    Nothing,          \* None
    Failed,           \* an evaluation with a reason instead of economics, or raised
    Pending           \* an evaluation that has not answered

Directions == <<"CEX_to_DEX", "DEX_to_CEX">>

Opportunity == [pair : Pairs, dir : DOMAIN Directions, quote : Quotes, since : Int, until : Nat]

ASSUME DetectorAssumption ==
    /\ IsFiniteSet(Pairs) /\ Synthetic \subseteq Pairs /\ Denied \subseteq Pairs
    /\ Floor \in Nat /\ Ceiling \in Nat
    /\ Quotes \subseteq [bps : Int, net : Int, tier : Nat]
    /\ BookAge \in Nat /\ LegBy \in Nat /\ LastLook \in Nat
    /\ IntermediateFor \in Nat \ {0} /\ Lifetime \in Nat \ {0}
    /\ Failed # Pending /\ {Failed, Pending} \cap Quotes = {} /\ Nothing \notin Opportunity

VARIABLES
    dnow,      \* the clock
    begun,     \* when the current detect() began
    over,      \* it has returned
    looking,   \* the pairs whose evaluation is not over
    since,     \* per pair, the time of the oldest exchange price it is evaluated with
    leg,       \* per pair and direction, the evaluation
    rows,      \* per pair, the rows recorded in this detect()
    found,     \* per pair, what _evaluate_pair returned
    rate,      \* _intermediate_price_cache
    offered,   \* opportunities returned and not yet handled
    trade      \* the last opportunity accepted of a detect(): its pair, and how old the
               \* oldest exchange price behind it was then

detectorVars == <<dnow, begun, over, looking, since, leg, rows, found, rate, offered, trade>>

DetectorTypeOK ==
    /\ dnow \in 0 .. LastLook /\ begun \in 0 .. LastLook /\ over \in BOOLEAN
    /\ looking \subseteq Pairs
    /\ since \in [Pairs -> -BookAge .. LastLook]
    /\ leg \in [Pairs -> [DOMAIN Directions -> Quotes \cup {Failed, Pending}]]
    /\ rows \in [Pairs -> Seq([dir : 0 .. 2, taken : BOOLEAN])]
    /\ found \in [Pairs -> Opportunity \cup {Nothing}]
    /\ rate \in [at : 0 .. LastLook, since : -BookAge .. LastLook] \cup {Nothing}
    /\ offered \in Seq(Opportunity)
    /\ trade \in [pair : Pairs, age : 0 .. LastLook + BookAge] \cup {Nothing}

Unasked == [d \in DOMAIN Directions |-> Failed]

DetectorInit ==
    /\ dnow = 0 /\ begun = 0 /\ over = TRUE
    /\ looking = {}
    /\ since = [p \in Pairs |-> 0]
    /\ leg = [p \in Pairs |-> Unasked]
    /\ rows = [p \in Pairs |-> <<>>]
    /\ found = [p \in Pairs |-> Nothing]
    /\ rate = Nothing
    /\ offered = <<>>
    /\ trade = Nothing

-----------------------------------------------------------------------------
(* detect() up to the first wait *)

\* Slip: a cached rate used is a rate read now.
RateRenewed(age) ==
    IF rate # Nothing /\ dnow - rate.at < IntermediateFor THEN [rate EXCEPT !.at = dnow]
    ELSE IF age >= 0 THEN [at |-> dnow, since |-> dnow - age] ELSE rate

\* The cached price of the intermediate asset while it is young enough, else one
\* from its book, when that is usable (age -1: it is not).
Rate(age) ==
    IF rate # Nothing /\ dnow - rate.at < IntermediateFor THEN rate
    ELSE IF age >= 0 THEN [at |-> dnow, since |-> dnow - age] ELSE rate

RateUsable(r) == r # Nothing /\ dnow - r.at < IntermediateFor

\* One row without a direction says that a pair was denied, had no usable book, no
\* intermediate price, or raised.  Every other pair has two directions under way.
\* age and inter are the ages of the books of the pairs and of the intermediate asset.
DetectWith(age, inter) ==
    /\ over /\ offered = <<>>
    /\ over' = FALSE /\ begun' = dnow
    /\ LET r == IF \E p \in Synthetic \ Denied : age[p] >= 0 THEN Rate(inter) ELSE rate
           asked == {p \in Pairs \ Denied :
                       age[p] >= 0 /\ (p \in Synthetic => RateUsable(r))}
       IN  /\ rate' = r
           /\ looking' = asked
           /\ since' = [p \in Pairs |->
                 IF p \notin asked THEN 0
                 ELSE IF p \in Synthetic /\ r.since < dnow - age[p] THEN r.since
                 ELSE dnow - age[p]]
           /\ leg' = [p \in Pairs |->
                 IF p \in asked THEN [d \in DOMAIN Directions |-> Pending] ELSE Unasked]
           /\ rows' = [p \in Pairs |->
                 IF p \in asked THEN <<>> ELSE <<[dir |-> 0, taken |-> FALSE]>>]
    /\ trade' = Nothing
    /\ UNCHANGED <<dnow, found, offered>>

Detect ==
    \E age \in [Pairs \ Denied -> -1 .. BookAge], inter \in -1 .. BookAge : DetectWith(age, inter)

-----------------------------------------------------------------------------
(* _decide *)

\* Slip: the sanity ceiling is not applied.
WithinFloorOnly(q) == q \notin {Failed, Pending} /\ q.bps >= Floor

Viable(q) == q \notin {Failed, Pending} /\ q.bps <= Ceiling /\ q.bps >= Floor

\* The direction worth most in the quote currency; the first of equals; 0 if none.
Best(legs) ==
    LET viable == {d \in DOMAIN Directions : Viable(legs[d])}
    IN  IF viable = {} THEN 0
        ELSE CHOOSE d \in viable : \A e \in viable :
                legs[d].net > legs[e].net \/ (legs[d].net = legs[e].net /\ d <= e)

\* A direction answers, with economics or with the reason there are none.  When the
\* other has answered too the pair is decided and both are recorded.
LegReturns(p, d) ==
    /\ p \in looking /\ leg[p][d] = Pending
    /\ \E q \in Quotes \cup {Failed} :
          LET legs == [leg[p] EXCEPT ![d] = q]
              best == Best(legs)
          IN  /\ leg' = [leg EXCEPT ![p] = legs]
              /\ IF \E e \in DOMAIN Directions : legs[e] = Pending
                 THEN UNCHANGED <<looking, rows, found>>
                 ELSE /\ looking' = looking \ {p}
                      /\ rows' = [rows EXCEPT ![p] =
                            [e \in DOMAIN Directions |-> [dir |-> e, taken |-> e = best]]]
                      /\ found' = [found EXCEPT ![p] =
                            IF best = 0 THEN Nothing
                            ELSE [pair |-> p, dir |-> best, quote |-> legs[best],
                                  since |-> since[p], until |-> dnow + Lifetime]]
    /\ UNCHANGED <<dnow, begun, over, since, rate, offered, trade>>

\* detect() returns once every pair is through, in the order of the pairs (here any).
DetectReturns ==
    /\ looking = {} /\ ~over
    /\ over' = TRUE
    /\ since' = [p \in Pairs |-> 0] /\ leg' = [p \in Pairs |-> Unasked]
    /\ rows' = [p \in Pairs |-> <<>>] /\ found' = [p \in Pairs |-> Nothing]
    /\ \E o \in SetToSeqs({found[p] : p \in Pairs} \ {Nothing}) : offered' = o
    /\ begun' = 0
    /\ UNCHANGED <<dnow, looking, rate, trade>>

-----------------------------------------------------------------------------
(* evaluate_opportunity *)

Alive(o) == dnow < o.until

\* Past its deadline, or implausible, it is refused; otherwise it becomes a trade.
Handle ==
    /\ offered # <<>>
    /\ offered' = Tail(offered)
    /\ \/ /\ Alive(Head(offered))
          /\ trade' = [pair |-> Head(offered).pair, age |-> dnow - Head(offered).since]
       \/ UNCHANGED trade
    /\ UNCHANGED <<dnow, begun, over, looking, since, leg, rows, found, rate>>

DetectorTick ==
    /\ dnow < LastLook
    /\ looking # {} => dnow < begun + LegBy
    /\ dnow' = dnow + 1
    /\ UNCHANGED <<begun, over, looking, since, leg, rows, found, rate, offered, trade>>

DetectorNext ==
    \/ Detect
    \/ \E p \in Pairs, d \in DOMAIN Directions : LegReturns(p, d)
    \/ DetectReturns \/ Handle \/ DetectorTick

DetectorSpec == DetectorInit /\ [][DetectorNext]_detectorVars
-----------------------------------------------------------------------------
(* Properties *)

Decided == {p \in Pairs : ~over /\ p \notin looking}

\* Whatever order the directions and the pairs answer in, and whichever fail: every
\* evaluation leaves one row; at most one is marked taken, exactly when the pair
\* yields an opportunity; that one is the direction quoted, with its fee tier, within
\* the floor and the ceiling, and no other direction within them is worth more.
DecisionSound ==
    \A p \in Decided :
        LET taken == {i \in DOMAIN rows[p] : rows[p][i].taken}
            good == {d \in DOMAIN Directions : leg[p][d] # Failed
                        /\ leg[p][d].bps \in Floor .. Ceiling}
        IN  /\ \A d \in DOMAIN Directions : leg[p] # Unasked =>
                  \E i \in DOMAIN rows[p] : rows[p][i].dir = d
            /\ rows[p] # <<>>
            /\ good = {} <=> found[p] = Nothing
            /\ good # {} =>
                  /\ found[p].dir \in good /\ found[p].quote = leg[p][found[p].dir]
                  /\ \A d \in good : leg[p][d].net <= found[p].quote.net
                  /\ {rows[p][i].dir : i \in taken} = {found[p].dir}
            /\ good = {} => taken = {}

\* An opportunity waits for its other direction, for every other pair, for the
\* opportunities before it; when it is traded, no exchange price behind it is older
\* than the ages its checks allow, one after the other, and a synthetic pair's
\* conversion only by the time it may be cached on top.
BasisBounded ==
    trade # Nothing =>
        trade.age <=
            BookAge + LegBy + Lifetime - 1
              + (IF trade.pair \in Synthetic THEN IntermediateFor - 1 ELSE 0)

=============================================================================
