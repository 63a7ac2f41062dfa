------------------------------- MODULE DexSwap -------------------------------
(***************************************************************************)
(* The trading side of UniV3DexClient (src/exchange/univ3.py): execute_swap *)
(* with the approval it makes first, called concurrently for one wallet,   *)
(* and the chain: a transaction pool that keeps one transaction per nonce, *)
(* blocks, the allowance of the router and the prices the swaps meet.      *)
(*                                                                         *)
(* Amounts out come in raw units of the token; a floor is asked for in     *)
(* fractions of one, Fraction to the unit.                                 *)
(***************************************************************************)
EXTENDS Integers

CONSTANTS
    Calls,      \* calls of execute_swap
    AmountIn,   \* per call, what it spends
    LeastOut,   \* per call, params.min_amount_out, in fractions of a unit
    Fraction,   \* fractions in a unit
    Unlimited,  \* more than any call spends: 2**256 - 1
    Yields      \* what a swap can yield, in units

ASSUME DexSwapAssumption ==
    /\ Calls # {}
    /\ AmountIn \in [Calls -> Nat \ {0}] /\ LeastOut \in [Calls -> Nat \ {0}]
    /\ Fraction \in Nat \ {0} /\ Unlimited \in Nat /\ Yields \subseteq Nat
    /\ \A c \in Calls : AmountIn[c] < Unlimited

VARIABLES
    mined,      \* transactions of the wallet mined: get_transaction_count
    allowance,  \* what the router may take
    pool,       \* transactions sent and not mined
    got,        \* per call, what its swap has yielded on the chain; -1: no swap mined
    swap        \* per call, where it is, the nonce it has read, the receipt it awaits

swapVars == <<mined, allowance, pool, got, swap>>

Steps == {"idle", "allowance", "approve nonce", "approve", "approving", "nonce",
          "estimate", "send", "sent", "success", "raised"}
Tx == [call : Calls, kind : {"approve", "swap"}, nonce : Nat]

SwapTypeOK ==
    /\ mined \in Nat
    /\ allowance \in 0 .. Unlimited
    /\ pool \subseteq Tx
    /\ got \in [Calls -> {-1} \cup Yields]
    /\ swap \in [Calls -> [at : Steps, nonce : Nat,
                           receipt : {"none", "done", "reverted"}]]

SwapInit ==
    /\ mined = 0 /\ allowance = 0
    /\ pool = {}
    /\ got = [c \in Calls |-> -1]
    /\ swap = [c \in Calls |-> [at |-> "idle", nonce |-> 0, receipt |-> "none"]]

-----------------------------------------------------------------------------
(* execute_swap, each remote call a step *)

Goes(c, from, to) == swap[c].at = from /\ swap' = [swap EXCEPT ![c].at = to]

\* Slip: the router may take any amount from now on.
UnlimitedApproval(c) == Unlimited

\* Exactly what this swap spends.
Approval(c) == AmountIn[c]

\* min_amount_out_wei rounds down.
MinOut(c) == LeastOut[c] \div Fraction

StartSwap(c) ==
    /\ Goes(c, "idle", "allowance")
    /\ UNCHANGED <<mined, allowance, pool, got>>

\* An allowance that is sufficient already, be it left over from a swap that failed or
\* made for one that is under way, is not renewed.
ReadAllowance(c) ==
    /\ Goes(c, "allowance", IF allowance >= AmountIn[c] THEN "nonce" ELSE "approve nonce")
    /\ UNCHANGED <<mined, allowance, pool, got>>

\* The count of transactions mined; those in the pool are not in it.
ReadNonce(c) ==
    /\ swap[c].at \in {"approve nonce", "nonce"}
    /\ swap' = [swap EXCEPT ![c].nonce = mined,
                            ![c].at = IF @ = "nonce" THEN "estimate" ELSE "approve"]
    /\ UNCHANGED <<mined, allowance, pool, got>>

\* Simulated on the state of the chain: a swap that cannot be paid for raises, and
\* one whose floor rounds to zero is refused before.
Estimate(c) ==
    /\ allowance >= AmountIn[c] /\ MinOut(c) > 0
    /\ Goes(c, "estimate", "send")
    /\ UNCHANGED <<mined, allowance, pool, got>>

\* The node takes a transaction whose nonce is neither used nor in the pool: at equal
\* fees it replaces none.
Send(c) ==
    /\ swap[c].at \in {"approve", "send"}
    /\ swap[c].nonce >= mined
    /\ \A t \in pool : t.nonce # swap[c].nonce
    /\ pool' = pool \cup {[call |-> c, nonce |-> swap[c].nonce,
                           kind |-> IF swap[c].at = "send" THEN "swap" ELSE "approve"]}
    /\ swap' = [swap EXCEPT ![c].at = IF @ = "send" THEN "sent" ELSE "approving",
                            ![c].receipt = "none"]
    /\ UNCHANGED <<mined, allowance, got>>

\* Whether the approval succeeded is returned, and not looked at.
ApprovalReceipt(c) ==
    /\ swap[c].receipt # "none"
    /\ Goes(c, "approving", "nonce")
    /\ UNCHANGED <<mined, allowance, pool, got>>

\* Slip: any receipt will do.
AnyReceipt(c) ==
    /\ swap[c].receipt # "none"
    /\ Goes(c, "sent", "success")
    /\ UNCHANGED <<mined, allowance, pool, got>>

SwapReceipt(c) ==
    /\ swap[c].receipt = "done"
    /\ Goes(c, "sent", "success")
    /\ UNCHANGED <<mined, allowance, pool, got>>

\* Any step can raise: the node fails or refuses, the estimate reverts, the swap was
\* reverted, or no receipt comes within max_pending_seconds -- while the transaction
\* may still be mined.
SwapRaises(c) ==
    /\ swap[c].at \notin {"idle", "success", "raised"}
    /\ swap' = [swap EXCEPT ![c].at = "raised"]
    /\ UNCHANGED <<mined, allowance, pool, got>>

-----------------------------------------------------------------------------
(* The chain *)

\* The next transaction of the wallet is mined.  A swap is carried out if the router
\* may take what it spends and it yields what it asks for, and reverted otherwise; an
\* approval can run out of gas.
Mine ==
    /\ \E t \in pool :
          /\ t.nonce = mined
          /\ pool' = pool \ {t}
          /\ \/ /\ t.kind = "approve"
                /\ allowance' = Approval(t.call)
                /\ swap' = [swap EXCEPT ![t.call].receipt = "done"]
                /\ UNCHANGED got
             \/ /\ t.kind = "swap" /\ allowance >= AmountIn[t.call]
                /\ allowance' = allowance - AmountIn[t.call]
                /\ \E y \in Yields :
                      y >= MinOut(t.call) /\ got' = [got EXCEPT ![t.call] = y]
                /\ swap' = [swap EXCEPT ![t.call].receipt = "done"]
             \/ /\ swap' = [swap EXCEPT ![t.call].receipt = "reverted"]
                /\ UNCHANGED <<allowance, got>>
    /\ mined' = mined + 1

\* A transaction can be forgotten by the pool.
Forgotten ==
    /\ \E t \in pool : pool' = pool \ {t}
    /\ UNCHANGED <<mined, allowance, got, swap>>

SwapNext ==
    \/ Mine \/ Forgotten
    \/ \E c \in Calls :
          \/ StartSwap(c) \/ ReadAllowance(c) \/ ReadNonce(c) \/ Estimate(c) \/ Send(c)
          \/ ApprovalReceipt(c) \/ SwapReceipt(c) \/ SwapRaises(c)

SwapSpec == SwapInit /\ [][SwapNext]_swapVars

-----------------------------------------------------------------------------
(* Properties *)

\* However calls overlap on one nonce and one allowance, fail half-way, or give up on
\* a transaction that is mined later, the router can never take more than one of them
\* spends.
ExposureIsOneTrade == \E c \in Calls : allowance <= AmountIn[c]

\* A receipt returned means that this call's swap was mined, and no swap is mined
\* below its floor, short by less than one unit of what was asked for.
SwapsAsPromised ==
    \A c \in Calls :
        /\ swap[c].at = "success" => got[c] >= 0
        /\ got[c] >= 0 => got[c] > 0 /\ (got[c] + 1) * Fraction > LeastOut[c]
=============================================================================
