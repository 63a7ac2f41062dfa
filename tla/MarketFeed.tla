----------------------------- MODULE MarketFeed -----------------------------
(***************************************************************************)
(* The market-data side of BinanceCexClient (src/exchange/binance.py): the *)
(* listener task with its reconnects, the books it keeps, and the test the *)
(* detector makes before it uses one.                                      *)
(*                                                                         *)
(* Time appears only as ages, none counted beyond MaxAged.  The exchange   *)
(* sends a frame for a book when that book changes; one connection         *)
(* delivers its frames in order.                                           *)
(***************************************************************************)
EXTENDS Integers, Sequences

CONSTANTS
    Symbols,        \* the books subscribed to
    MaxBookAge,     \* max_book_age_seconds
    FirstBackoff,   \* _reconnect_backoff_initial
    MaxBackoff,     \* _reconnect_backoff_max
    NetDelay,       \* bound: how long a frame of a live connection is under way
    MaxWire,        \* bound: frames under way at once
    MaxAged         \* bound: ages are counted up to this

ASSUME FeedAssumption ==
    /\ MaxBookAge \in Nat
    /\ FirstBackoff \in Nat \ {0}
    /\ MaxBackoff \in Nat /\ MaxBackoff >= FirstBackoff
    /\ NetDelay \in Nat
    /\ MaxWire \in Nat
    /\ MaxAged \in Nat /\ MaxAged > MaxBookAge + NetDelay

VARIABLES
    conn,      \* the listener's connection
    wait,      \* what is left of the sleep before the next attempt
    backoff,   \* the next sleep
    wire,      \* frames sent and not delivered: the symbol, what it is, its age
    quiet,     \* the age of _last_frame_at
    book       \* per symbol: whether levels are held, whether they came over this
               \* connection, whether a frame of it was unusable since, and for how
               \* long the exchange's own book has been another one (-1: it is not)

feedVars == <<conn, wait, backoff, wire, quiet, book>>

Older(age) == IF age < MaxAged THEN age + 1 ELSE MaxAged

NoBook == [held |-> FALSE, here |-> FALSE, skipped |-> FALSE, lag |-> -1]

FeedTypeOK ==
    /\ conn \in {"down", "live", "stalled"}
    /\ wait \in 0 .. MaxBackoff /\ backoff \in FirstBackoff .. MaxBackoff
    /\ wire \in Seq([sym : Symbols, kind : {"book", "junk"}, age : 0 .. MaxAged])
    /\ quiet \in 0 .. MaxAged
    /\ book \in [Symbols -> [held : BOOLEAN, here : BOOLEAN, skipped : BOOLEAN,
                             lag : -1 .. MaxAged]]

FeedInit ==
    /\ conn = "down"
    /\ wait = 0
    /\ backoff = FirstBackoff
    /\ wire = <<>>
    /\ quiet = MaxAged
    /\ book = [s \in Symbols |-> NoBook]

-----------------------------------------------------------------------------
(* The exchange and the network *)

\* The exchange's book of s changes; over a live connection it says so, in a frame
\* that can be malformed or show an empty side.
BookChanges(s) ==
    /\ book' = [book EXCEPT ![s].lag = IF book[s].held /\ @ = -1 THEN 0 ELSE @]
    /\ IF conn = "live"
       THEN /\ Len(wire) < MaxWire
            /\ \E k \in {"book", "junk"} :
                  wire' = Append(wire, [sym |-> s, kind |-> k, age |-> 0])
       ELSE UNCHANGED wire
    /\ UNCHANGED <<conn, wait, backoff, quiet>>

\* The connection goes dead without closing: nothing arrives any more.
Stall ==
    /\ conn = "live"
    /\ conn' = "stalled" /\ wire' = <<>>
    /\ UNCHANGED <<wait, backoff, quiet, book>>

\* Frames of a live connection arrive within NetDelay.
Second ==
    /\ conn = "live" /\ wire # <<>> => Head(wire).age < NetDelay
    /\ wire' = [i \in DOMAIN wire |-> [wire[i] EXCEPT !.age = Older(@)]]
    /\ quiet' = Older(quiet)
    /\ wait' = IF wait = 0 THEN 0 ELSE wait - 1
    /\ book' = [s \in Symbols |->
                  [book[s] EXCEPT !.lag = IF @ = -1 THEN -1 ELSE Older(@)]]
    /\ UNCHANGED <<conn, backoff>>

-----------------------------------------------------------------------------
(* _ws_listener *)

\* Slip: the sleeps double for ever.
BackOffUncapped == wait' = backoff /\ backoff' = 2 * backoff

\* The listener sleeps before it tries again, each time twice as long.
BackOff ==
    /\ wait' = backoff
    /\ backoff' = IF 2 * backoff < MaxBackoff THEN 2 * backoff ELSE MaxBackoff

\* The exchange closes, the ping goes unanswered, or a frame is not even JSON.
Drop ==
    /\ conn # "down"
    /\ conn' = "down" /\ wire' = <<>>
    /\ BackOff
    /\ book' = [s \in Symbols |-> [book[s] EXCEPT !.here = FALSE]]
    /\ UNCHANGED quiet

ConnectFails ==
    /\ conn = "down" /\ wait = 0
    /\ BackOff
    /\ UNCHANGED <<conn, wire, quiet, book>>

\* Slip: an attempt is made only after the shortest sleep.
ReconnectEarly ==
    /\ conn = "down" /\ wait = 0 /\ backoff = FirstBackoff
    /\ conn' = "live" /\ wire' = <<>>
    /\ UNCHANGED <<wait, backoff, quiet, book>>

Reconnect ==
    /\ conn = "down" /\ wait = 0
    /\ conn' = "live" /\ wire' = <<>>
    /\ backoff' = FirstBackoff
    /\ UNCHANGED <<wait, quiet, book>>

-----------------------------------------------------------------------------
(* _handle_ws_message *)

\* For how long the book of s will have been another one than the frame at hand
\* shows: since the next of its frames was sent.
LagBehind(s) ==
    LET later == {i \in 2 .. Len(wire) : wire[i].sym = s}
    IN  IF later = {} THEN -1
        ELSE wire[CHOOSE i \in later : \A j \in later : i <= j].age

\* A frame without two sides is ignored and proves nothing; any other replaces the
\* whole book and shows the feed to be alive.
Deliver ==
    /\ conn = "live" /\ wire # <<>>
    /\ LET f == Head(wire) IN
          IF f.kind = "junk"
          THEN book' = [book EXCEPT ![f.sym].skipped = TRUE] /\ UNCHANGED quiet
          ELSE /\ book' = [book EXCEPT ![f.sym] =
                     [held |-> TRUE, here |-> TRUE, skipped |-> FALSE,
                      lag |-> LagBehind(f.sym)]]
               /\ quiet' = 0
    /\ wire' = Tail(wire)
    /\ UNCHANGED <<conn, wait, backoff>>

\* Slip: a book is as good as any while it has two sides.
Held(s) == book[s].held

\* get_book and _usable_book: levels on both sides, and a feed that is young enough.
Usable(s) == book[s].held /\ quiet <= MaxBookAge

FeedNext ==
    \/ \E s \in Symbols : BookChanges(s)
    \/ Stall \/ Second \/ Drop \/ ConnectFails \/ Reconnect \/ Deliver

\* Time passes, and of the attempts to connect not all fail.
FeedFairness ==
    /\ WF_feedVars(Second)
    /\ WF_feedVars(Deliver)
    /\ SF_feedVars(Reconnect)
    /\ WF_feedVars(conn = "stalled" /\ Drop)

FeedSpec == FeedInit /\ [][FeedNext]_feedVars /\ FeedFairness

-----------------------------------------------------------------------------
(* Properties *)

\* One frame vouches for all books: whatever symbol it was for, a book received
\* over this connection is used only if it was the exchange's own within the
\* age allowed and the delay of the network, even when its own last frame is
\* much older.  A frame dropped as unusable breaks the chain for its symbol.
FeedCurrent ==
    \A s \in Symbols :
        Usable(s) /\ book[s].here /\ ~book[s].skipped => book[s].lag <= MaxBookAge + NetDelay

\* A dead connection, by contrast, invalidates every book at once
\* (src/strategy/detector.py): no book of an earlier connection is used.
OutageInvalidatesBooks ==
    conn = "live" => \A s \in Symbols : Usable(s) => book[s].here

\* Whatever the outage, backoff and closing of the connection, the listener is
\* connected again and again.
FeedComesBack == []<>(conn = "live")

=============================================================================
