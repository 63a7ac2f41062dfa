-------------------------- MODULE BoundedStaleness --------------------------
(***************************************************************************)
(* What a cache in this code promises: whoever asks is told what was true  *)
(* at some instant not later than now and not longer ago than MaxAge, or   *)
(* is refused.  Which instants are fetched, kept, overwritten or thrown    *)
(* away is no part of the promise.  PoolStateCache, GasReader and          *)
(* PoolSelector implement it, each with an age of its own.                 *)
(***************************************************************************)
EXTENDS Integers

CONSTANTS
    Callers,  \* who asks
    MaxAge    \* how old an answer may be when it is given

VARIABLES
    clock,    \* the present instant
    answer    \* the instant each caller's last answer was true at; -1: refused

Init ==
    /\ clock = 0
    /\ answer = [c \in Callers |-> -1]

Advance ==
    /\ clock' = clock + 1
    /\ UNCHANGED answer

\* The instants an answer given now may be of.
Recent == {t \in 0 .. clock : clock - t <= MaxAge}

Answer(c) ==
    /\ \E t \in Recent \cup {-1} : answer' = [answer EXCEPT ![c] = t]
    /\ UNCHANGED clock

Next == Advance \/ \E c \in Callers : Answer(c)

Spec == Init /\ [][Next]_<<clock, answer>>

=============================================================================
