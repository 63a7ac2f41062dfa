----------------------------- MODULE GasPricing -----------------------------
(***************************************************************************)
(* What gas costs on one chain: NativePriceOracle                          *)
(* (src/exchange/price_oracle.py), the price of the native token kept for  *)
(* a time and for a grace period beyond it, and GasReader                  *)
(* (src/research/recorder.py), which keeps what the oracle answered once   *)
(* more.  Callers fetch concurrently, each stamping what it brings with    *)
(* the instant it began.                                                   *)
(***************************************************************************)
EXTENDS Integers

CONSTANTS
    Askers,    \* concurrent calls of GasReader.read
    Ttl,       \* ttl_seconds of the oracle
    Grace,     \* stale_grace_seconds
    GasTtl,    \* ttl_seconds of GasReader
    FetchBy,   \* bound: a fetch ends within this time
    LastGas    \* bound: the last instant

ASSUME GasAssumption ==
    /\ Ttl \in Nat
    /\ Grace \in Nat
    /\ GasTtl \in Nat
    /\ FetchBy \in Nat
    /\ LastGas \in Nat

VARIABLES
    time,      \* the present instant
    native,    \* the oracle's entry: the instant its price was true, its stamp
    gas,       \* GasReader's entry: the same, the native price in it
    ask,       \* where each call is, when its fetch began, the entry it captured
    quoted     \* the instant the last native price given was true; -1: none

gasVars == <<time, native, gas, ask, quoted>>

Unpriced == [of |-> -1, at |-> -1]
AtRest == [step |-> "rest", began |-> 0, since |-> 0, held |-> Unpriced]

Kept == [of : Int, at : Int]

GasTypeOK ==
    /\ time \in Nat
    /\ native \in Kept /\ gas \in Kept
    /\ ask \in [Askers -> [step : {"rest", "gas", "fetch"}, began : Nat,
                           since : Nat, held : Kept]]
    /\ quoted \in [Askers -> Int]

GasInit ==
    /\ time = 0
    /\ native = Unpriced
    /\ gas = Unpriced
    /\ ask = [a \in Askers |-> AtRest]
    /\ quoted = [a \in Askers |-> -1]

\* An entry was found and is younger than limit at t.
Younger(kept, t, limit) == kept # Unpriced /\ t - kept.at < limit

\* read returns; what it read is kept, under the instant it began, if it read anything.
Give(a, of) ==
    /\ quoted' = [quoted EXCEPT ![a] = of]
    /\ ask' = [ask EXCEPT ![a] = AtRest]

GiveRead(a, of) ==
    /\ gas' = [of |-> of, at |-> ask[a].began]
    /\ Give(a, of)

-----------------------------------------------------------------------------
(* GasReader.read *)

ReadGas(a) ==
    /\ ask[a].step = "rest"
    /\ IF Younger(gas, time, GasTtl)
       THEN Give(a, gas.of)
       ELSE /\ ask' = [ask EXCEPT ![a] = [AtRest EXCEPT !.step = "gas", !.began = time]]
            /\ UNCHANGED quoted
    /\ UNCHANGED <<time, native, gas>>

GasCallRaises(a) ==
    /\ ask[a].step = "gas"
    /\ Give(a, -1)
    /\ UNCHANGED <<time, native, gas>>

-----------------------------------------------------------------------------
(* NativePriceOracle.get_usd_price, called when the gas price is known *)

GetUsdPrice(a) ==
    /\ ask[a].step = "gas"
    /\ IF Younger(native, time, Ttl)
       THEN GiveRead(a, native.of)
       ELSE /\ ask' = [ask EXCEPT ![a] = [@ EXCEPT !.step = "fetch", !.since = time,
                                                   !.held = native]]
            /\ UNCHANGED <<gas, quoted>>
    /\ UNCHANGED <<time, native>>

\* A positive price arrives: it was true at some instant since the request.
Fetched(a) ==
    /\ ask[a].step = "fetch"
    /\ \E t \in ask[a].since .. time :
          /\ native' = [of |-> t, at |-> ask[a].since]
          /\ GiveRead(a, t)
    /\ UNCHANGED time

\* Slip: the price kept is served for as long as nothing better is fetched.
ServedInstead(a) ==
    IF ask[a].held # Unpriced THEN ask[a].held.of ELSE -1

\* No price, or none above zero: the entry captured before serves within the grace.
ServedInGrace(a) ==
    IF Younger(ask[a].held, ask[a].since, Grace) THEN ask[a].held.of ELSE -1

FetchFails(a) ==
    /\ ask[a].step = "fetch"
    /\ GiveRead(a, ServedInGrace(a))
    /\ UNCHANGED <<time, native>>

GasClock ==
    /\ time < LastGas
    /\ \A a \in Askers :
          /\ ask[a].step = "gas" => time - ask[a].began < FetchBy
          /\ ask[a].step = "fetch" => time - ask[a].since < FetchBy
    /\ time' = time + 1
    /\ UNCHANGED <<native, gas, ask, quoted>>

GasNext ==
    \/ GasClock
    \/ \E a \in Askers :
          \/ ReadGas(a) \/ GasCallRaises(a)
          \/ GetUsdPrice(a) \/ Fetched(a) \/ FetchFails(a)

GasSpec == GasInit /\ [][GasNext]_gasVars

-----------------------------------------------------------------------------
(* Properties *)

\* The age an answer of the oracle can have, and what GasReader adds to it.
OracleAge ==
    LET failing == FetchBy + (IF Grace = 0 THEN 0 ELSE Grace - 1)
    IN  IF failing >= Ttl THEN failing ELSE Ttl - 1

NativeAge == OracleAge + (IF GasTtl = 0 THEN 0 ELSE GasTtl - 1)

NativePrice == INSTANCE BoundedStaleness WITH
    Callers <- Askers, MaxAge <- NativeAge, clock <- time, answer <- quoted

\* However fetches overlap, fail or overtake one another, gas is never priced
\* with a native price older than the two caches and one fetch account for,
\* and is refused rather than priced beyond that.
NativePriceFresh == NativePrice!Spec

=============================================================================
