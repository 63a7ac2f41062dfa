------------------------------ MODULE Discovery ------------------------------
(***************************************************************************)
(* The scanners that propose pairs (src/scanner/) and the files they leave *)
(* for the bot: the pool dataset, the list of official tokens, the pairs   *)
(* found by volume and the opportunities of the auto-discovery.  Each is a *)
(* process of its own and opens its file for writing in place, so a reader *)
(* can find a file half written, and a crash leaves it so.  (For the first *)
(* two that is only one more way in which the auto-discovery does not run.)*)
(***************************************************************************)
EXTENDS Integers, Sequences, FiniteSets, SequencesExt

CONSTANTS
    Markets,        \* [base, quote]: what the exchange trades
    Stables,        \* TARGET_QUOTE_CURRENCIES
    Wrapped,        \* the asset a synthetic pair goes through
    Coins,          \* [symbol, at]: who is listed under a symbol, and its contracts, each
                    \* [id, chain, symbol, decimals] with the symbol it calls itself
    LiquidPools,    \* [id, chain, t0, t1]: what a subgraph can return
    Registry,       \* tokens.yaml: [symbol, token]
    ScanChains,     \* preferred_chains
    MaxCandidates, Cooldown, LastHour, MaxStarted

\* A registry has one token per symbol and chain.
ASSUME DiscoveryAssumption ==
    /\ \A a, b \in Registry :
          a.symbol = b.symbol /\ a.token.chain = b.token.chain => a = b
    /\ {MaxCandidates, Cooldown, LastHour, MaxStarted} \subseteq Nat

VARIABLES
    dataset,     \* target_pools_Dex.json: [pool, decimals: are they given]
    officials,   \* master_token_list.json: [symbol, token]
    pairFile,    \* discovered_pairs.yaml: [whole, entries]
    oppFile,     \* auto_discovery.json: [whole, entries]
    scan,        \* VolumeScannerService.run
    hunt,        \* AutoDiscoveryEngine.run
    hour,
    started      \* how many programs have been started, up to MaxStarted

discoveryVars == <<dataset, officials, pairFile, oppFile, scan, hunt, hour, started>>

Resting == [at |-> "idle", left |-> <<>>, found |-> <<>>, map |-> {}]

Registered(symbol, chain) == {r \in Registry : r.symbol = symbol /\ r.token.chain = chain}

\* The snapshot that ships has no decimals.
DiscoveryInit ==
    /\ dataset = {[pool |-> p, decimals |-> FALSE] : p \in LiquidPools}
    /\ officials = {}
    /\ pairFile = [whole |-> TRUE, entries |-> <<>>]
    /\ oppFile = [whole |-> TRUE, entries |-> <<>>]
    /\ scan = Resting /\ hunt = Resting
    /\ hour = 0 /\ started = 0

-----------------------------------------------------------------------------
(* dex_pool_scanner.py, token_address_builder.py *)

\* The chains whose subgraph answered replace the whole file, unless none did.
RebuildPools ==
    \E C \in SUBSET {p.chain : p \in LiquidPools} :
        /\ C # {} /\ started < MaxStarted /\ started' = started + 1
        /\ dataset' = {[pool |-> p, decimals |-> TRUE] : p \in {q \in LiquidPools : q.chain \in C}}
        /\ UNCHANGED <<officials, pairFile, oppFile, scan, hunt, hour>>

\* Of several coins under a symbol the last one stays; a failed request leaves none.
RebuildOfficials ==
    /\ started < MaxStarted /\ started' = started + 1
    /\ \/ officials' = {}
       \/ \E pick \in {S \in SUBSET Coins :
                         \A c \in Coins : Cardinality({d \in S : d.symbol = c.symbol}) = 1} :
             officials' = UNION {{[symbol |-> c.symbol, token |-> t] : t \in c.at} : c \in pick}
    /\ UNCHANGED <<dataset, pairFile, oppFile, scan, hunt, hour>>

-----------------------------------------------------------------------------
(* volume.py *)

\* The symbols whose last hour stands out, best first.  A symbol that could not be
\* read, under a ban all of them, is left out.
ScanVolume ==
    /\ scan.at = "idle" /\ started < MaxStarted /\ started' = started + 1
    /\ \E found \in UNION {[1 .. n -> Markets] : n \in 1 .. MaxCandidates} :
          /\ IsInjective(found)
          /\ scan' = [Resting EXCEPT !.at = "probing", !.left = found]
    /\ UNCHANGED <<dataset, officials, pairFile, oppFile, hunt, hour>>

\* _find_matching_pool: a chain both sides are registered on, and a pool there, if any.
Probe ==
    /\ scan.at = "probing" /\ scan.left # <<>>
    /\ LET m == Head(scan.left) IN
       \/ scan' = [scan EXCEPT !.left = Tail(@)]
       \/ \E c \in ScanChains :
             /\ Registered(m.base, c) # {} /\ Registered(m.quote, c) # {}
             /\ scan' = [scan EXCEPT !.left = Tail(@),
                             !.found = Append(@, [market |-> m, chain |-> c, since |-> hour])]
    /\ UNCHANGED <<dataset, officials, pairFile, oppFile, hunt, hour, started>>

\* Replaces what has cooled down, appends what is new.
Merge(kept, e) ==
    LET same == SelectInSeq(kept, LAMBDA k : k.market = e.market)
    IN  IF same = 0 THEN Append(kept, e)
        ELSE IF hour - kept[same].since < Cooldown THEN kept
        ELSE ReplaceAt(kept, same, e)

Merged(entries, found) ==
    LET kept[i \in 0 .. Len(found)] ==
            IF i = 0 THEN entries ELSE Merge(kept[i - 1], found[i])
    IN  kept[Len(found)]

\* _persist_results up to the open for writing; a file cut short reads as its first
\* entries or not at all.
Persist ==
    /\ scan.at = "probing" /\ scan.left = <<>>
    /\ \E n \in (IF pairFile.whole THEN {Len(pairFile.entries)} ELSE 0 .. Len(pairFile.entries)) :
          LET old == SubSeq(pairFile.entries, 1, n)
              new == Merged(old, scan.found)
          IN  IF new = old
              THEN scan' = Resting /\ UNCHANGED pairFile
              ELSE /\ scan' = [scan EXCEPT !.at = "writing"]
                   /\ pairFile' = [whole |-> FALSE, entries |-> new]
    /\ UNCHANGED <<dataset, officials, oppFile, hunt, hour, started>>

PersistRaises ==
    /\ scan.at = "probing" /\ scan.left = <<>> /\ ~pairFile.whole
    /\ scan' = Resting
    /\ UNCHANGED <<dataset, officials, pairFile, oppFile, hunt, hour, started>>

Persisted ==
    /\ scan.at = "writing"
    /\ scan' = Resting
    /\ pairFile' = [pairFile EXCEPT !.whole = TRUE]
    /\ UNCHANGED <<dataset, officials, oppFile, hunt, hour, started>>

\* The process dies; a file being written stays as far as it got.
ScanDies ==
    /\ scan.at # "idle"
    /\ scan' = Resting
    /\ UNCHANGED <<dataset, officials, pairFile, oppFile, hunt, hour, started>>

-----------------------------------------------------------------------------
(* autodiscovery.py *)

Kind(symbol) ==
    IF symbol \in Stables THEN "stable" ELSE IF symbol = Wrapped THEN "wrapped" ELSE "alt"

\* build_cex_to_dex_map: a pool of two official tokens, just one of them an alt, serves
\* the markets of the alt; through the wrapped asset as a synthetic pair.
Mapped ==
    UNION {{[base |-> o[1].symbol, pool |-> e.pool, decimals |-> e.decimals,
             synthetic |-> Kind(o[2].symbol) = "wrapped"] :
                o \in {o \in officials \X officials :
                          /\ {o[1].token, o[2].token} = {e.pool.t0, e.pool.t1}
                          /\ Kind(o[1].symbol) = "alt" /\ Kind(o[2].symbol) # "alt"}} :
           e \in dataset}

\* Spiking markets in a stable, most of all first, and the map of this moment.
StartHunt ==
    /\ hunt.at = "idle" /\ dataset # {} /\ officials # {} /\ started < MaxStarted
    /\ \E found \in UNION {[1 .. n -> {m \in Markets : m.quote \in Stables}] :
                              n \in 0 .. MaxCandidates} :
          /\ IsInjective(found)
          /\ hunt' = [at |-> "judging", left |-> found, found |-> <<>>, map |-> Mapped]
    /\ started' = started + 1
    /\ UNCHANGED <<dataset, officials, pairFile, oppFile, scan, hour>>

\* A candidate is priced with the decimals of the pool; without them it raises, and
\* the next one is tried.
Priceable(c) == c.decimals

\* The first candidate that quotes, the direct ones before the synthetic; none when
\* nothing quotes or the exchange gives no price.
Judge ==
    /\ hunt.at = "judging" /\ hunt.left # <<>>
    /\ LET m == Head(hunt.left)
           able == {c \in hunt.map : c.base = m.base /\ Priceable(c)}
       IN  \/ hunt' = [hunt EXCEPT !.left = Tail(@)]
           \/ \E c \in able :
                 hunt' = [hunt EXCEPT !.left = Tail(@),
                          !.found = Append(@, [market |-> m, pool |-> c.pool,
                                               decimals |-> c.decimals, synthetic |-> c.synthetic])]
    /\ UNCHANGED <<dataset, officials, pairFile, oppFile, scan, hour, started>>

\* _save_opportunities: whatever was there before is gone.
Save ==
    /\ hunt.at = "judging" /\ hunt.left = <<>>
    /\ hunt' = [hunt EXCEPT !.at = "writing", !.map = {}]
    /\ oppFile' = [whole |-> FALSE, entries |-> hunt.found]
    /\ UNCHANGED <<dataset, officials, pairFile, scan, hour, started>>

Saved ==
    /\ hunt.at = "writing"
    /\ hunt' = Resting
    /\ oppFile' = [oppFile EXCEPT !.whole = TRUE]
    /\ UNCHANGED <<dataset, officials, pairFile, scan, hour, started>>

HuntDies ==
    /\ hunt.at # "idle"
    /\ hunt' = Resting
    /\ UNCHANGED <<dataset, officials, pairFile, oppFile, scan, hour, started>>

Hour ==
    /\ hour < LastHour
    /\ hour' = hour + 1
    /\ UNCHANGED <<dataset, officials, pairFile, oppFile, scan, hunt, started>>

DiscoveryNext ==
    \/ RebuildPools \/ RebuildOfficials
    \/ ScanVolume \/ Probe \/ Persist \/ PersistRaises \/ Persisted \/ ScanDies
    \/ StartHunt \/ Judge \/ Save \/ Saved \/ HuntDies
    \/ Hour

=============================================================================
