------------------------------ MODULE Admission ------------------------------
(***************************************************************************)
(* Which pairs a starting bot monitors: the pairs of config/pairs.yaml,    *)
(* those load_config (src/core/config.py) takes from the volume scanner's  *)
(* file and those ArbiBotApp (src/app.py) takes from the auto-discovery's, *)
(* each against the token policy (src/strategy/token_policy.py), the       *)
(* registry and the known chains of that moment.                           *)
(***************************************************************************)
EXTENDS Discovery

CONSTANTS
    StaticPairs,    \* pairs.yaml, the last entry of each market: [market, chain]
    KnownChains,    \* dex.uniswap_v3
    Policies,       \* what the operator may set: [strict, allowed, denied]
    Spellings,      \* _SYMBOL_ALIASES, for every symbol
    NoToken

\* A symbol is looked up under its own name first; the tokens of a pool are contracts
\* of its chain.
ASSUME AdmissionAssumption ==
    /\ \A s, t \in StaticPairs : s.market \in Markets /\ (s.market = t.market => s = t)
    /\ \A m \in Markets : \A symbol \in {m.base, m.quote} :
          Len(Spellings[symbol]) \in Nat \ {0} /\ Spellings[symbol][1] = symbol
    /\ \A p \in LiquidPools : p.t0.chain = p.chain /\ p.t1.chain = p.chain
    /\ NoToken \notin {r.token : r \in Registry} \cup UNION {{p.t0, p.t1} : p \in LiquidPools}

VARIABLES
    policy,    \* token_policy of default.yaml
    bot        \* [on, policy, pairs]

admissionVars == <<policy, bot>>

Off == [on |-> FALSE, policy |-> CHOOSE p \in Policies : TRUE, pairs |-> {}]

AdmissionInit == policy \in Policies /\ bot = Off

-----------------------------------------------------------------------------
(* token_policy.py *)

\* A denial outweighs a clearance.
Refused(p, symbols) ==
    \/ symbols \cap p.denied # {}
    \/ p.strict /\ ~(symbols \subseteq p.allowed)

-----------------------------------------------------------------------------
(* config.py: validate_coherence, load_config *)

\* One hand-written pair that cannot be traded stops the process.
Coherent ==
    \A s \in StaticPairs :
        /\ ~Refused(policy, {s.market.base, s.market.quote})
        /\ s.chain \in KnownChains

\* Entries of the volume scanner's file are dropped one by one; of those of a market
\* that pass, the first is taken.
FromPairFile(entries) ==
    LET passing == {i \in DOMAIN entries :
                       /\ \A s \in StaticPairs : s.market # entries[i].market
                       /\ ~Refused(policy, {entries[i].market.base, entries[i].market.quote})
                       /\ entries[i].chain \in KnownChains}
    IN  {[market |-> entries[i].market, chain |-> entries[i].chain] :
            i \in {i \in passing :
                     \A j \in passing : entries[j].market = entries[i].market => i <= j}}

\* The token of tokens.yaml, if it has one.
Details(symbol, chain) ==
    IF Registered(symbol, chain) = {} THEN NoToken
    ELSE (CHOOSE r \in Registered(symbol, chain) : TRUE).token

DecimalsOf(token) == IF token = NoToken THEN NoToken ELSE token.decimals

\* ArbiBotApp.__init__ looks up the tokens of configured pairs by name.
Configured(s) ==
    LET base == Details(s.market.base, s.chain)
        quote == Details(s.market.quote, s.chain)
    IN  [key |-> <<"slashed", s.market>>, market |-> s.market, quoteDex |-> s.market.quote,
         chain |-> s.chain, base |-> base, quote |-> quote,
         baseDecimals |-> DecimalsOf(base), quoteDecimals |-> DecimalsOf(quote)]

-----------------------------------------------------------------------------
(* app.py: _load_discovered_pairs *)

\* The side named as the base, if only one is.
BaseSides(pool, symbol) ==
    {t \in {<<pool.t0, pool.t1>>, <<pool.t1, pool.t0>>} :
        t[1].symbol = symbol /\ t[2].symbol # symbol}

\* _registry_address: the first spelling that is registered.
RegistryToken(symbol, chain) ==
    LET known == SelectInSeq(Spellings[symbol], LAMBDA s : Registered(s, chain) # {})
    IN  IF known = 0 THEN NoToken ELSE Details(Spellings[symbol][known], chain)

\* Slip: a token is what it calls itself.
NeverMismatch(symbol, token) == FALSE

Mismatch(symbol, token) ==
    RegistryToken(symbol, token.chain) \notin {NoToken, token}

\* Direct pairs take their decimals from tokens.yaml first, synthetic ones from the pool.
Decimals(e, symbol, token) ==
    IF ~e.synthetic /\ Details(symbol, token.chain) # NoToken
    THEN Details(symbol, token.chain).decimals
    ELSE IF e.decimals THEN token.decimals ELSE NoToken

FromOpportunity(e) ==
    {[key |-> <<"joined", e.market>>, market |-> e.market,
      quoteDex |-> IF e.synthetic THEN Wrapped ELSE e.market.quote,
      chain |-> e.pool.chain, base |-> t[1], quote |-> t[2],
      baseDecimals |-> Decimals(e, e.market.base, t[1]),
      quoteDecimals |-> Decimals(e, e.market.quote, t[2])] :
        t \in {t \in BaseSides(e.pool, e.market.base) :
                  ~Mismatch(e.market.base, t[1]) /\ ~Mismatch(e.market.quote, t[2])}}

Admitted(p) ==
    /\ NoToken \notin {p.baseDecimals, p.quoteDecimals}
    /\ ~Refused(policy, {p.market.base, p.market.quote, p.quoteDex})
    /\ p.chain \in KnownChains

FromOppFile(entries) ==
    {p \in UNION {FromOpportunity(e) : e \in Range(entries)} : Admitted(p)}

-----------------------------------------------------------------------------
(* Actions *)

\* A configured pair comes before a discovered one of the same key.  A file half
\* written reads as its first entries if it is YAML, and as nothing if it is JSON.
\* (The YAML entry it is cut off in may come through without its own limits.)
Start ==
    /\ ~bot.on /\ Coherent /\ started < MaxStarted /\ started' = started + 1
    /\ \E n \in (IF pairFile.whole THEN {Len(pairFile.entries)} ELSE 0 .. Len(pairFile.entries)) :
          LET known == {Configured(s) : s \in StaticPairs
                                                \cup FromPairFile(SubSeq(pairFile.entries, 1, n))}
              more == IF oppFile.whole THEN FromOppFile(oppFile.entries) ELSE {}
          IN  bot' = [on |-> TRUE, policy |-> policy,
                      pairs |-> known \cup {p \in more : \A k \in known : k.key # p.key}]
    /\ UNCHANGED <<dataset, officials, pairFile, oppFile, scan, hunt, hour, policy>>

Exit ==
    /\ bot.on
    /\ bot' = Off
    /\ UNCHANGED <<discoveryVars, policy>>

\* The operator edits the policy; a running bot keeps the one it read.
Edit ==
    /\ policy' \in Policies \ {policy}
    /\ UNCHANGED <<discoveryVars, bot>>

AdmissionNext ==
    \/ DiscoveryNext /\ UNCHANGED admissionVars
    \/ Start \/ Exit \/ Edit

AdmissionSpec ==
    DiscoveryInit /\ AdmissionInit /\ [][AdmissionNext]_<<discoveryVars, admissionVars>>

-----------------------------------------------------------------------------
(* Properties *)

AdmissionTypeOK ==
    /\ \A e \in dataset : e.pool \in LiquidPools /\ e.decimals \in BOOLEAN
    /\ scan.at \in {"idle", "probing", "writing"} /\ hunt.at \in {"idle", "judging", "writing"}
    /\ hunt.at = "writing" => ~oppFile.whole
    /\ scan.at = "writing" => ~pairFile.whole
    /\ policy \in Policies /\ bot.policy \in Policies
    /\ \A p \in bot.pairs : p.market \in Markets

\* Whatever the scanners proposed, found half written or left behind in a crash, and
\* whatever was edited since they did, a running bot monitors only pairs whose every
\* symbol, that of the asset between two exchanges included, the policy it runs under
\* clears, on chains it can quote.  A token it prices with is counted in its own
\* decimals, and where the registry has a token for the symbol of a discovered pair
\* it is that one.  No key is there twice.
UniverseSound ==
    /\ \A p \in bot.pairs :
          /\ ~Refused(bot.policy, {p.market.base, p.market.quote, p.quoteDex})
          /\ p.chain \in KnownChains
          /\ p.baseDecimals = DecimalsOf(p.base) /\ p.quoteDecimals = DecimalsOf(p.quote)
          /\ p.base # NoToken /\ Registered(p.market.base, p.chain) # {} =>
                p.base = Details(p.market.base, p.chain)
    /\ \A p, q \in bot.pairs : p.key = q.key => p = q

=============================================================================
