------------------------------- MODULE Orders -------------------------------
(***************************************************************************)
(* The order side of BinanceCexClient (src/exchange/binance.py): placing   *)
(* and cancelling over REST, execution reports over the user stream, and   *)
(* the exchange, which answers both while it goes on matching.             *)
(***************************************************************************)
EXTENDS Integers, Sequences

CONSTANTS
    Tickets,     \* the orders
    Size,        \* what each of them asks for
    MaxReports   \* bound: reports under way

ASSUME OrdersAssumption == Size \in Nat \ {0} /\ MaxReports \in Nat

VARIABLES
    venue,     \* the exchange's record of each order: its state, what it filled
    placing,   \* create_order: where it is, and the record its answer carries
    dropping,  \* cancel_order: where it is
    unwound,   \* the orders the caller was told are cancelled
    stream,    \* the user data stream
    key,       \* the exchange still honours the listenKey
    reports,   \* execution reports under way
    pairOf,    \* the orders in _order_pair_cache
    update     \* per order, the last OrderUpdate made of it by a report

orderVars ==
    <<venue, placing, dropping, unwound, stream, key, reports, pairOf, update>>

Over == {"filled", "canceled", "rejected"}
Record == [state : {"none", "new"} \cup Over, filled : 0 .. Size]
Report == [order : Tickets, state : {"new", "unknown"} \cup Over,
           last : 0 .. Size, filled : 0 .. Size]

NoRecord == [state |-> "none", filled |-> 0]

OrdersTypeOK ==
    /\ venue \in [Tickets -> Record]
    /\ placing \in [Tickets -> [at : {"idle", "posted", "answered", "returned", "raised"},
                                told : Record]]
    /\ dropping \in [Tickets -> {"no", "sent", "done", "refused"}]
    /\ unwound \subseteq Tickets
    /\ stream \in {"off", "live", "down"} /\ key \in BOOLEAN
    /\ reports \in Seq(Report)
    /\ pairOf \subseteq Tickets
    /\ update \in [Tickets -> [state : {"none", "new", "unknown"} \cup Over,
                               filled : 0 .. Size]]

\* Orders of an earlier run may be resting.
OrdersInit ==
    /\ \E earlier \in SUBSET Tickets :
          /\ venue = [o \in Tickets |->
                IF o \in earlier THEN [NoRecord EXCEPT !.state = "new"] ELSE NoRecord]
          /\ placing = [o \in Tickets |->
                [at |-> IF o \in earlier THEN "raised" ELSE "idle", told |-> NoRecord]]
    /\ dropping = [o \in Tickets |-> "no"]
    /\ unwound = {}
    /\ stream = "off" /\ key = FALSE
    /\ reports = <<>>
    /\ pairOf = {}
    /\ update = [o \in Tickets |-> NoRecord]

-----------------------------------------------------------------------------
(* The user data stream *)

\* connect(): a session, then a listenKey if the exchange gives one; without it there
\* is no stream at all.
StartStream ==
    /\ stream = "off" /\ stream' = "live" /\ key' = TRUE
    /\ UNCHANGED <<venue, placing, dropping, unwound, reports, pairOf, update>>

\* What is under way is lost with the connection; the listener tries again after a
\* pause, with the key it has.
StreamDrops ==
    /\ stream = "live" /\ stream' = "down" /\ reports' = <<>>
    /\ UNCHANGED <<venue, placing, dropping, unwound, key, pairOf, update>>

StreamReturns ==
    /\ stream = "down" /\ stream' = "live"
    /\ UNCHANGED <<venue, placing, dropping, unwound, key, reports, pairOf, update>>

\* close() asks for the key to be deleted and stops listening.
CloseClient ==
    /\ stream # "off" /\ stream' = "off" /\ key' = FALSE /\ reports' = <<>>
    /\ UNCHANGED <<venue, placing, dropping, unwound, pairOf, update>>

\* Keepalives that fail are only logged: the key runs out, nothing asks for another,
\* and the stream stays silent.
KeyRunsOut ==
    /\ key /\ key' = FALSE
    /\ UNCHANGED <<venue, placing, dropping, unwound, stream, reports, pairOf, update>>

\* A record changes, and over a stream that works a report says so.  A status the
\* client does not know can stand in the report.
Becomes(o, record) ==
    /\ venue' = [venue EXCEPT ![o] = record]
    /\ IF stream = "live" /\ key
       THEN /\ Len(reports) < MaxReports
            /\ \E s \in {record.state} \cup (IF record.state = "new" THEN {"unknown"} ELSE {}) :
                  reports' = Append(reports, [order |-> o, state |-> s, filled |-> record.filled,
                                              last |-> record.filled - venue[o].filled])
       ELSE UNCHANGED reports

-----------------------------------------------------------------------------
(* create_order *)

CreateOrder(o) ==
    /\ placing[o].at = "idle"
    /\ placing' = [placing EXCEPT ![o].at = "posted"]
    /\ UNCHANGED <<venue, dropping, unwound, stream, key, reports, pairOf, update>>

\* The exchange takes the order, fills what it can, and answers with the result.
OrderTaken(o) ==
    /\ placing[o].at = "posted"
    /\ \E f \in 0 .. Size, s \in {"new", "canceled", "rejected", "filled"} :
          /\ (s = "filled") <=> (f = Size)
          /\ s = "rejected" => f = 0
          /\ Becomes(o, [state |-> s, filled |-> f])
          /\ placing' = [placing EXCEPT ![o] =
                            [at |-> "answered", told |-> [state |-> s, filled |-> f]]]
    /\ UNCHANGED <<dropping, unwound, stream, key, pairOf, update>>

\* The answer becomes an OrderUpdate; the pair is remembered for the reports, those
\* that came before the answer included.
OrderReturns(o) ==
    /\ placing[o].at = "answered"
    /\ placing' = [placing EXCEPT ![o].at = "returned"]
    /\ pairOf' = pairOf \cup {o}
    /\ UNCHANGED <<venue, dropping, unwound, stream, key, reports, update>>

\* The exchange refuses, or no answer arrives although the order may have been taken.
OrderRaises(o) ==
    /\ placing[o].at \in {"posted", "answered"}
    /\ placing' = [placing EXCEPT ![o] = [at |-> "raised", told |-> NoRecord]]
    /\ UNCHANGED <<venue, dropping, unwound, stream, key, reports, pairOf, update>>

-----------------------------------------------------------------------------
(* The exchange goes on; _process_execution_report *)

Matched(o) ==
    /\ venue[o].state = "new"
    /\ \E f \in venue[o].filled + 1 .. Size :
          Becomes(o, [state |-> IF f = Size THEN "filled" ELSE "new", filled |-> f])
    /\ UNCHANGED <<placing, dropping, unwound, stream, key, pairOf, update>>

Expires(o) ==
    /\ venue[o].state = "new"
    /\ Becomes(o, [venue[o] EXCEPT !.state = "canceled"])
    /\ UNCHANGED <<placing, dropping, unwound, stream, key, pairOf, update>>

\* The size of an update is all the order has filled so far.
UpdateOf(r) == [state |-> r.state, filled |-> r.filled]

ReportArrives ==
    /\ stream = "live" /\ reports # <<>>
    /\ LET r == Head(reports) IN
          /\ update' = [update EXCEPT ![r.order] = UpdateOf(r)]
          /\ pairOf' = IF r.state \in Over THEN pairOf \ {r.order} ELSE pairOf
    /\ reports' = Tail(reports)
    /\ UNCHANGED <<venue, placing, dropping, unwound, stream, key>>

-----------------------------------------------------------------------------
(* cancel_order *)

Known(o) == placing[o].at = "returned" \/ update[o] # NoRecord

CancelOrder(o) ==
    /\ Known(o) /\ dropping[o] = "no"
    /\ dropping' = [dropping EXCEPT ![o] = "sent"]
    /\ UNCHANGED <<venue, placing, unwound, stream, key, reports, pairOf, update>>

\* cancel_all_orders asks for every symbol in turn, whatever came of the one before;
\* what is asked for one after the other is asked for together here.
CancelAllOrders ==
    /\ stream # "off"
    /\ dropping' = [o \in Tickets |->
          IF dropping[o] = "no" /\ venue[o].state # "none" THEN "sent" ELSE dropping[o]]
    /\ UNCHANGED <<venue, placing, unwound, stream, key, reports, pairOf, update>>

\* The exchange cancels an order it holds.
Cancelled(o) ==
    /\ dropping[o] = "sent" /\ venue[o].state = "new"
    /\ Becomes(o, [venue[o] EXCEPT !.state = "canceled"])
    /\ dropping' = [dropping EXCEPT ![o] = "done"]
    /\ UNCHANGED <<placing, unwound, stream, key, pairOf, update>>

\* Or refuses: the order is over already, the clock is off, the weight is used up.
NotCancelled(o) ==
    /\ dropping[o] = "sent"
    /\ dropping' = [dropping EXCEPT ![o] = "refused"]
    /\ UNCHANGED <<venue, placing, unwound, stream, key, reports, pairOf, update>>

\* Slip: the answer is not read.
CancelReturnsTrue(o) ==
    /\ dropping[o] # "no"
    /\ dropping' = [dropping EXCEPT ![o] = "no"]
    /\ unwound' = unwound \cup {o}
    /\ UNCHANGED <<venue, placing, stream, key, reports, pairOf, update>>

\* True if the exchange says so; False if it refuses or nothing is heard of it, even
\* when the order was cancelled.
CancelReturns(o) ==
    /\ dropping[o] # "no"
    /\ dropping' = [dropping EXCEPT ![o] = "no"]
    /\ unwound' \in {unwound} \cup (IF dropping[o] = "done" THEN {unwound \cup {o}} ELSE {})
    /\ UNCHANGED <<venue, placing, stream, key, reports, pairOf, update>>

OrdersNext ==
    \/ StartStream \/ StreamDrops \/ StreamReturns \/ KeyRunsOut \/ ReportArrives
    \/ CloseClient \/ CancelAllOrders
    \/ \E o \in Tickets :
          \/ CreateOrder(o) \/ OrderTaken(o) \/ OrderReturns(o) \/ OrderRaises(o)
          \/ Matched(o) \/ Expires(o)
          \/ CancelOrder(o) \/ Cancelled(o) \/ NotCancelled(o) \/ CancelReturns(o)

OrdersSpec == OrdersInit /\ [][OrdersNext]_orderVars

-----------------------------------------------------------------------------
(* Properties *)

\* What the client says of an order, from the answer or from a report, in whatever
\* order the two arrive and however many reports were lost in between, is never more
\* than the order has filled; and when it says the order is over, that is all it will
\* ever fill.
UpdatesTrue ==
    \A o \in Tickets : \A told \in {update[o], placing[o].told} :
        /\ told.filled <= venue[o].filled
        /\ told.state \in Over => told = venue[o]

\* Neither cancel_order nor cancel_all_orders reports an order cancelled that can
\* still fill.
CancelTruthful == \A o \in unwound : venue[o].state \in Over

\* Whatever the bot is told of its orders is so: updates and cancellations, see above.
OrderReportsTrue == UpdatesTrue /\ CancelTruthful

=============================================================================
