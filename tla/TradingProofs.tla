--------------------------- MODULE TradingProofs ---------------------------
(***************************************************************************)
(* Proofs about what is traded: Admission with the scanners it reads from, *)
(* for any markets, pools, registry and policies; Valuation, for any books *)
(* and quotes that come out whole; Backtest, for any dataset and any cap;  *)
(* DexSwap, for any number of overlapping swaps of any amounts; and        *)
(* Orders, for any number of orders and reports.                           *)
(***************************************************************************)
EXTENDS Admission, Backtest, DexSwap, Orders, DataLemmas, FiniteSetTheorems, TLAPS

-----------------------------------------------------------------------------
(* Discovery *)

Proposal == [market : Markets, chain : ScanChains, since : Nat]
Probed == [market : Markets, pool : LiquidPools, decimals : BOOLEAN, synthetic : BOOLEAN]

\* No two opportunities of a list are in one market.
OncePerMarket(entries) ==
    \A i, j \in 1 .. Len(entries) : entries[i].market = entries[j].market => i = j

ScanOK ==
    /\ scan \in [at : {"idle", "probing", "writing"}, left : Seq(Markets),
                 found : Seq(Proposal), map : {{}}]
    /\ pairFile \in [whole : BOOLEAN, entries : Seq(Proposal)]
    /\ scan.at = "writing" => ~pairFile.whole

HuntShape ==
    /\ hunt = [at |-> hunt.at, left |-> hunt.left, found |-> hunt.found, map |-> hunt.map]
    /\ hunt.at \in {"idle", "judging", "writing"}
    /\ hunt.left \in Seq(Markets) /\ hunt.found \in Seq(Probed)
    /\ \A c \in hunt.map : c.pool \in LiquidPools /\ c.decimals \in BOOLEAN /\ c.synthetic \in BOOLEAN

\* What is still to be judged has not been found yet.
HuntOnce ==
    /\ \A i, j \in 1 .. Len(hunt.left) : hunt.left[i] = hunt.left[j] => i = j
    /\ \A i \in 1 .. Len(hunt.left), j \in 1 .. Len(hunt.found) :
          hunt.left[i] # hunt.found[j].market
    /\ OncePerMarket(hunt.found)

OppFileOK ==
    /\ oppFile \in [whole : BOOLEAN, entries : Seq(Probed)]
    /\ OncePerMarket(oppFile.entries)
    /\ hunt.at = "writing" => ~oppFile.whole

DiscoveryInv ==
    /\ dataset \subseteq [pool : LiquidPools, decimals : BOOLEAN]
    /\ hour \in Nat
    /\ ScanOK /\ HuntShape /\ HuntOnce /\ OppFileOK

\* A list of what the exchange trades.
LEMMA ListOfMarkets ==
    ASSUME NEW M \in SUBSET Markets, NEW found \in UNION {[1 .. n -> M] : n \in 0 .. MaxCandidates},
           IsInjective(found)
    PROVE  /\ found \in Seq(Markets)
           /\ \A i, j \in 1 .. Len(found) : found[i] = found[j] => i = j
<1>1. PICK n \in 0 .. MaxCandidates : found \in [1 .. n -> M]
  OBVIOUS
<1>2. n \in Nat
  BY DiscoveryAssumption
<1>3. found \in Seq(Markets) /\ Len(found) = n /\ DOMAIN found = 1 .. n
  BY <1>1, <1>2
<1> QED
  BY <1>1, <1>3 DEF IsInjective

\* Merging keeps a list of proposals.
LEMMA MergeTyped ==
    ASSUME NEW kept \in Seq(Proposal), NEW e \in Proposal
    PROVE  Merge(kept, e) \in Seq(Proposal)
<1> DEFINE I == {i \in 1 .. Len(kept) : kept[i].market = e.market}
           same == SelectInSeq(kept, LAMBDA k : k.market = e.market)
<1>1. same = IF I # {} THEN Min(I) ELSE 0
  BY DEF SelectInSeq
<1>2. I \subseteq 1 .. Len(kept) /\ I \subseteq Nat
  OBVIOUS
<1> HIDE DEF I
<1>3. same = 0 \/ same \in 1 .. Len(kept)
  BY <1>1, <1>2, MinOf
<1>4. Append(kept, e) \in Seq(Proposal)
  BY AppendProperties
<1>5. same \in 1 .. Len(kept) => ReplaceAt(kept, same, e) \in Seq(Proposal)
  <2> HIDE DEF same
  <2> QED
    BY ExceptSeq DEF ReplaceAt
<1>6. Merge(kept, e) = IF same = 0 THEN Append(kept, e)
                       ELSE IF hour - kept[same].since < Cooldown THEN kept
                       ELSE ReplaceAt(kept, same, e)
  BY DEF Merge
<1> HIDE DEF same
<1> QED
  BY <1>3, <1>4, <1>5, <1>6

\* And so does merging one proposal after the other.
LEMMA MergedTyped ==
    ASSUME NEW entries \in Seq(Proposal), NEW found \in Seq(Proposal)
    PROVE  Merged(entries, found) \in Seq(Proposal)
<1> DEFINE N == Len(found)
           V == Seq(Proposal)
           kept[i \in 0 .. N] == IF i = 0 THEN entries ELSE Merge(kept[i - 1], found[i])
           step == [x \in (1 .. N) \X V |-> Merge(x[2], found[x[1]])]
<1>1. N \in Nat
  BY LenProperties
<1>2. step \in [(1 .. N) \X V -> V]
  <2>1. \A x \in (1 .. N) \X V : Merge(x[2], found[x[1]]) \in V
    <3> TAKE x \in (1 .. N) \X V
    <3>1. x[2] \in Seq(Proposal) /\ x[1] \in 1 .. Len(found)
      OBVIOUS
    <3>2. found[x[1]] \in Proposal
      BY <3>1, ElementOfSeq
    <3> QED
      BY <3>1, <3>2, MergeTyped
  <2> QED
    BY <2>1
<1>3. \A i \in 1 .. N, v \in V : step[<<i, v>>] = Merge(v, found[i])
  OBVIOUS
<1> HIDE DEF step, N, V
<1>4. entries \in V
  BY DEF V
<1>5. PICK f : Iterates(f, N, V, entries, step)
  BY <1>1, <1>2, <1>4, RecursionExists, Zenon
<1>6. /\ f \in [0 .. N -> V] /\ f[0] = entries
      /\ \A n \in 1 .. N : f[n] = step[<<n, f[n - 1]>>]
  BY <1>5 DEF Iterates
<1>7. ASSUME NEW i \in 0 .. N PROVE f[i] = IF i = 0 THEN entries ELSE Merge(f[i - 1], found[i])
  <2>1. CASE i = 0
    BY <1>6, <2>1
  <2>2. CASE i # 0
    <3>1. i \in 1 .. N /\ i - 1 \in 0 .. N
      BY <1>1, <2>2
    <3>2. f[i - 1] \in V
      BY <1>6, <3>1
    <3> QED
      BY <1>3, <1>6, <2>2, <3>1, <3>2
  <2> QED
    BY <2>1, <2>2
<1>8. f = [i \in 0 .. N |-> IF i = 0 THEN entries ELSE Merge(f[i - 1], found[i])]
  BY <1>6, <1>7
<1>9. kept = CHOOSE g : g = [i \in 0 .. N |-> IF i = 0 THEN entries ELSE Merge(g[i - 1], found[i])]
  BY DEF kept
<1>10. kept = [i \in 0 .. N |-> IF i = 0 THEN entries ELSE Merge(kept[i - 1], found[i])]
  BY <1>8, <1>9
<1> HIDE DEF kept
<1> DEFINE T == {n \in Nat : n <= N => kept[n] \in V}
<1>11. 0 \in T
  BY <1>1, <1>4, <1>10
<1>12. ASSUME NEW n \in T PROVE n + 1 \in T
  <2> SUFFICES ASSUME n + 1 <= N PROVE kept[n + 1] \in V
    OBVIOUS
  <2>1. n \in Nat /\ n + 1 \in 0 .. N /\ n + 1 # 0 /\ n + 1 - 1 = n /\ n <= N /\ n + 1 \in 1 .. N
    BY <1>1
  <2>2. kept[n + 1] = Merge(kept[n], found[n + 1]) /\ kept[n] \in V
    BY <1>10, <2>1
  <2>3. found[n + 1] \in Proposal
    BY <2>1, ElementOfSeq DEF N
  <2> QED
    BY <2>2, <2>3, MergeTyped DEF V
<1>13. T = Nat
  <2>1. T \in SUBSET Nat
    OBVIOUS
  <2> HIDE DEF T
  <2> QED
    BY <1>11, <1>12, <2>1, InductionOn
<1>14. kept[N] \in V
  BY <1>1, <1>13
<1>15. Merged(entries, found) = kept[N]
  BY DEF Merged, kept, N
<1> QED
  BY <1>14, <1>15 DEF V

\* What can be read of a file of proposals is proposals.
LEMMA PrefixTyped ==
    ASSUME NEW entries \in Seq(Proposal), NEW whole,
           NEW n \in (IF whole THEN {Len(entries)} ELSE 0 .. Len(entries))
    PROVE  SubSeq(entries, 1, n) \in Seq(Proposal)
<1>1. n \in 0 .. Len(entries) /\ Len(entries) \in Nat
  BY LenProperties
<1>2. \A i \in 1 .. n : i \in 1 .. Len(entries)
  BY <1>1
<1>3. \A i \in 1 .. n : entries[i] \in Proposal
  BY <1>2, ElementOfSeq
<1> QED
  BY <1>1, <1>3, SubSeqProperties

\* The volume scanner writes lists of proposals only.
LEMMA ScanKeeps ==
    ASSUME ScanOK, hour \in Nat,
           ScanVolume \/ Probe \/ Persist \/ PersistRaises \/ Persisted \/ ScanDies
    PROVE  ScanOK' /\ UNCHANGED <<dataset, hour, hunt, oppFile>>
<1>1. /\ scan \in [at : {"idle", "probing", "writing"}, left : Seq(Markets),
                   found : Seq(Proposal), map : {{}}]
      /\ pairFile \in [whole : BOOLEAN, entries : Seq(Proposal)]
      /\ scan.at = "writing" => ~pairFile.whole
  BY DEF ScanOK
<1>2. /\ Resting \in [at : {"idle", "probing", "writing"}, left : Seq(Markets),
                      found : Seq(Proposal), map : {{}}]
      /\ Resting.at = "idle"
  BY EmptySeq DEF Resting
<1>3. ASSUME scan' = Resting, UNCHANGED pairFile PROVE ScanOK'
  BY <1>1, <1>2, <1>3 DEF ScanOK
<1>4. ASSUME NEW new \in Seq(Proposal), scan' = [scan EXCEPT !.at = "writing"],
             pairFile' = [whole |-> FALSE, entries |-> new]
      PROVE  ScanOK'
  <2>1. scan' = [at |-> "writing", left |-> scan.left, found |-> scan.found, map |-> scan.map]
    BY <1>1, <1>4
  <2> QED
    BY <1>1, <1>4, <2>1 DEF ScanOK
<1>5. CASE ScanVolume
  <2>1. PICK found \in UNION {[1 .. n -> Markets] : n \in 1 .. MaxCandidates} :
            IsInjective(found) /\ scan' = [Resting EXCEPT !.at = "probing", !.left = found]
    BY <1>5 DEF ScanVolume
  <2>2. found \in Seq(Markets)
    <3>1. PICK n \in 1 .. MaxCandidates : found \in [1 .. n -> Markets]
      BY <2>1
    <3>2. n \in Nat
      BY DiscoveryAssumption
    <3> QED
      BY <3>1, <3>2
  <2>3. scan' = [at |-> "probing", left |-> found, found |-> <<>>, map |-> {}]
    BY <2>1 DEF Resting
  <2> QED
    BY <1>1, <1>5, <2>2, <2>3, EmptySeq DEF ScanOK, ScanVolume
<1>6. CASE Probe
  <2>1. Head(scan.left) \in Markets /\ Tail(scan.left) \in Seq(Markets)
    BY <1>1, <1>6, HeadTailProperties DEF Probe
  <2>2. CASE scan' = [scan EXCEPT !.left = Tail(@)]
    BY <1>1, <1>6, <2>1, <2>2 DEF ScanOK, Probe
  <2>3. ASSUME NEW c \in ScanChains,
               scan' = [scan EXCEPT !.left = Tail(@),
                           !.found = Append(@, [market |-> Head(scan.left), chain |-> c, since |-> hour])]
        PROVE  ScanOK'
    <3> DEFINE e == [market |-> Head(scan.left), chain |-> c, since |-> hour]
    <3>1. e \in Proposal
      BY <2>1 DEF Proposal
    <3> HIDE DEF e
    <3>2. Append(scan.found, e) \in Seq(Proposal)
      BY <1>1, <3>1, AppendProperties
    <3>3. scan' = [scan EXCEPT !.left = Tail(scan.left), !.found = Append(scan.found, e)]
      BY <2>3 DEF e
    <3> QED
      BY <1>1, <1>6, <2>1, <3>2, <3>3 DEF ScanOK, Probe
  <2>4. UNCHANGED <<dataset, hour, hunt, oppFile>>
    BY <1>6 DEF Probe
  <2> QED
    BY <1>6, <2>2, <2>3, <2>4 DEF Probe
<1>7. CASE Persist
  <2>1. PICK n \in (IF pairFile.whole THEN {Len(pairFile.entries)} ELSE 0 .. Len(pairFile.entries)) :
            LET old == SubSeq(pairFile.entries, 1, n)
                new == Merged(old, scan.found)
            IN  IF new = old
                THEN scan' = Resting /\ UNCHANGED pairFile
                ELSE /\ scan' = [scan EXCEPT !.at = "writing"]
                     /\ pairFile' = [whole |-> FALSE, entries |-> new]
    BY <1>7 DEF Persist
  <2> DEFINE old == SubSeq(pairFile.entries, 1, n)
             new == Merged(old, scan.found)
  <2>2. old \in Seq(Proposal)
    BY <1>1, PrefixTyped
  <2>3. new \in Seq(Proposal)
    BY <1>1, <2>2, MergedTyped
  <2>4. \/ scan' = Resting /\ UNCHANGED pairFile
        \/ scan' = [scan EXCEPT !.at = "writing"] /\ pairFile' = [whole |-> FALSE, entries |-> new]
    BY <2>1
  <2> HIDE DEF old, new
  <2>5. ScanOK'
    BY <1>3, <1>4, <2>3, <2>4
  <2> QED
    BY <1>7, <2>5 DEF Persist
<1>8. CASE PersistRaises \/ ScanDies
  BY <1>1, <1>2, <1>8 DEF ScanOK, PersistRaises, ScanDies
<1>9. CASE Persisted
  BY <1>1, <1>2, <1>9 DEF ScanOK, Persisted
<1> QED
  BY <1>5, <1>6, <1>7, <1>8, <1>9

\* The map of a hunt is made of pools of the dataset.
LEMMA MappedTyped ==
    ASSUME dataset \subseteq [pool : LiquidPools, decimals : BOOLEAN]
    PROVE  \A c \in Mapped : /\ c.pool \in LiquidPools
                             /\ c.decimals \in BOOLEAN /\ c.synthetic \in BOOLEAN
<1> SUFFICES ASSUME NEW c \in Mapped
             PROVE  c.pool \in LiquidPools /\ c.decimals \in BOOLEAN /\ c.synthetic \in BOOLEAN
  OBVIOUS
<1>1. PICK e \in dataset, o \in officials \X officials :
          c = [base |-> o[1].symbol, pool |-> e.pool, decimals |-> e.decimals,
               synthetic |-> Kind(o[2].symbol) = "wrapped"]
  BY DEF Mapped
<1>2. e.pool \in LiquidPools /\ e.decimals \in BOOLEAN
  OBVIOUS
<1> QED
  BY <1>1, <1>2

\* A candidate that was judged leaves the list of what is to be judged.
LEMMA JudgeKeeps ==
    ASSUME HuntShape, HuntOnce, Judge
    PROVE  HuntShape' /\ HuntOnce' /\ hunt'.at = "judging"
<1> DEFINE m == Head(hunt.left)
           left == Tail(hunt.left)
<1>1. /\ hunt = [at |-> hunt.at, left |-> hunt.left, found |-> hunt.found, map |-> hunt.map]
      /\ hunt.left \in Seq(Markets) /\ hunt.found \in Seq(Probed) /\ hunt.at = "judging"
      /\ \A c \in hunt.map : c.pool \in LiquidPools /\ c.decimals \in BOOLEAN /\ c.synthetic \in BOOLEAN
      /\ hunt.left # <<>>
  BY DEF HuntShape, Judge
<1>2. /\ m \in Markets /\ m = hunt.left[1] /\ left \in Seq(Markets) /\ Len(left) = Len(hunt.left) - 1
      /\ \A i \in 1 .. Len(left) : left[i] = hunt.left[i + 1]
      /\ Len(left) \in Nat /\ Len(hunt.left) \in Nat /\ Len(hunt.found) \in Nat
  BY <1>1, HeadTailProperties, LenProperties
<1>3. /\ \A i, j \in 1 .. Len(hunt.left) : hunt.left[i] = hunt.left[j] => i = j
      /\ \A i \in 1 .. Len(hunt.left), j \in 1 .. Len(hunt.found) :
            hunt.left[i] # hunt.found[j].market
      /\ \A i, j \in 1 .. Len(hunt.found) : hunt.found[i].market = hunt.found[j].market => i = j
  BY DEF HuntOnce, OncePerMarket
<1>4. \/ hunt' = [hunt EXCEPT !.left = Tail(@)]
      \/ \E c \in hunt.map :
            hunt' = [hunt EXCEPT !.left = Tail(@),
                     !.found = Append(@, [market |-> m, pool |-> c.pool,
                                          decimals |-> c.decimals, synthetic |-> c.synthetic])]
  BY DEF Judge
<1> HIDE DEF m, left
<1>5. ASSUME NEW i \in 1 .. Len(left)
      PROVE  /\ i + 1 \in 1 .. Len(hunt.left) /\ 1 \in 1 .. Len(hunt.left) /\ i + 1 # 1
             /\ left[i] = hunt.left[i + 1] /\ left[i] # m
             /\ \A j \in 1 .. Len(left) : left[i] = left[j] => i = j
             /\ \A j \in 1 .. Len(hunt.found) : left[i] # hunt.found[j].market
  <2>1. /\ i + 1 \in 1 .. Len(hunt.left) /\ 1 \in 1 .. Len(hunt.left) /\ i + 1 # 1
        /\ left[i] = hunt.left[i + 1]
    BY <1>2
  <2>2. left[i] # m
    BY <1>2, <1>3, <2>1
  <2>3. \A j \in 1 .. Len(hunt.found) : left[i] # hunt.found[j].market
    BY <1>3, <2>1
  <2>4. ASSUME NEW j \in 1 .. Len(left), left[i] = left[j] PROVE i = j
    <3>1. j + 1 \in 1 .. Len(hunt.left) /\ left[j] = hunt.left[j + 1]
      BY <1>2
    <3>2. i + 1 = j + 1
      BY <1>3, <2>1, <2>4, <3>1
    <3> QED
      BY <1>2, <3>2
  <2> QED
    BY <2>1, <2>2, <2>3, <2>4
<1>6. \A j \in 1 .. Len(hunt.found) : hunt.found[j].market # m
  <2>1. 1 \in 1 .. Len(hunt.left)
    BY <1>2
  <2> QED
    BY <1>2, <1>3, <2>1
<1>7. CASE hunt' = [hunt EXCEPT !.left = Tail(@)]
  <2>1. hunt' = [at |-> "judging", left |-> left, found |-> hunt.found, map |-> hunt.map]
    BY <1>1, <1>7 DEF left
  <2>2. HuntShape'
    BY <1>1, <1>2, <2>1 DEF HuntShape
  <2>3. HuntOnce'
    BY <1>3, <1>5, <2>1 DEF HuntOnce, OncePerMarket
  <2> QED
    BY <2>1, <2>2, <2>3
<1>8. ASSUME NEW c \in hunt.map,
             hunt' = [hunt EXCEPT !.left = Tail(@),
                      !.found = Append(@, [market |-> m, pool |-> c.pool,
                                           decimals |-> c.decimals, synthetic |-> c.synthetic])]
      PROVE  HuntShape' /\ HuntOnce' /\ hunt'.at = "judging"
  <2> DEFINE e == [market |-> m, pool |-> c.pool, decimals |-> c.decimals, synthetic |-> c.synthetic]
             found == Append(hunt.found, e)
             n == Len(hunt.found)
  <2>1. hunt' = [at |-> "judging", left |-> left, found |-> found, map |-> hunt.map]
    BY <1>1, <1>8 DEF left
  <2>2. e \in Probed /\ e.market = m
    BY <1>1, <1>2 DEF Probed
  <2> HIDE DEF e
  <2>3. /\ found \in Seq(Probed) /\ Len(found) = n + 1 /\ found[n + 1] = e
        /\ \A j \in 1 .. n : found[j] = hunt.found[j]
    BY <1>1, <2>2, AppendProperties
  <2> HIDE DEF found
  <2>4. \A j \in 1 .. n + 1 : j \in 1 .. n \/ j = n + 1
    BY <1>2
  <2>5. ASSUME NEW i \in 1 .. n + 1, NEW j \in 1 .. n + 1, found[i].market = found[j].market
        PROVE  i = j
    BY <1>3, <1>6, <2>2, <2>3, <2>4, <2>5
  <2>6. ASSUME NEW i \in 1 .. Len(left), NEW j \in 1 .. n + 1 PROVE left[i] # found[j].market
    <3>1. CASE j \in 1 .. n
      BY <1>5, <2>3, <3>1
    <3>2. CASE j = n + 1
      BY <1>5, <2>2, <2>3, <3>2
    <3> QED
      BY <2>4, <3>1, <3>2
  <2>7. HuntShape'
    BY <1>1, <1>2, <2>1, <2>3 DEF HuntShape
  <2>8. HuntOnce'
    BY <1>5, <2>1, <2>3, <2>5, <2>6 DEF HuntOnce, OncePerMarket
  <2> QED
    BY <2>1, <2>7, <2>8
<1> QED
  BY <1>4, <1>7, <1>8

\* The auto-discovery writes opportunities of its pools, one a market.
LEMMA HuntKeeps ==
    ASSUME DiscoveryInv, StartHunt \/ Judge \/ Save \/ Saved \/ HuntDies
    PROVE  (HuntShape /\ HuntOnce /\ OppFileOK)' /\ UNCHANGED <<dataset, hour, scan, pairFile>>
<1>1. HuntShape /\ HuntOnce /\ OppFileOK
  BY DEF DiscoveryInv
<1>2. ASSUME hunt' = Resting PROVE HuntShape' /\ HuntOnce' /\ hunt'.at = "idle"
  <2>1. hunt' = [at |-> "idle", left |-> <<>>, found |-> <<>>, map |-> {}]
    BY <1>2 DEF Resting
  <2>2. <<>> \in Seq(Markets) /\ <<>> \in Seq(Probed) /\ Len(<<>>) = 0
    BY EmptySeq
  <2> QED
    BY <2>1, <2>2 DEF HuntShape, HuntOnce, OncePerMarket
<1>3. CASE StartHunt
  <2> DEFINE M == {m \in Markets : m.quote \in Stables}
  <2>1. PICK found \in UNION {[1 .. n -> M] : n \in 0 .. MaxCandidates} :
            /\ IsInjective(found)
            /\ hunt' = [at |-> "judging", left |-> found, found |-> <<>>, map |-> Mapped]
    BY <1>3 DEF StartHunt
  <2>2. M \in SUBSET Markets
    OBVIOUS
  <2> HIDE DEF M
  <2>3. found \in Seq(Markets) /\ \A i, j \in 1 .. Len(found) : found[i] = found[j] => i = j
    BY <2>1, <2>2, ListOfMarkets
  <2>4. \A c \in Mapped : c.pool \in LiquidPools /\ c.decimals \in BOOLEAN /\ c.synthetic \in BOOLEAN
    BY MappedTyped DEF DiscoveryInv
  <2>5. <<>> \in Seq(Probed) /\ Len(<<>>) = 0
    BY EmptySeq
  <2>6. HuntShape'
    BY <2>1, <2>3, <2>4, <2>5 DEF HuntShape
  <2>7. HuntOnce'
    BY <2>1, <2>3, <2>5 DEF HuntOnce, OncePerMarket
  <2>8. OppFileOK'
    BY <1>1, <1>3, <2>1 DEF OppFileOK, StartHunt
  <2> QED
    BY <1>3, <2>6, <2>7, <2>8 DEF StartHunt
<1>4. CASE Judge
  <2>1. HuntShape' /\ HuntOnce' /\ hunt'.at = "judging"
    BY <1>1, <1>4, JudgeKeeps
  <2>2. UNCHANGED <<dataset, hour, scan, pairFile, oppFile>>
    BY <1>4 DEF Judge
  <2>3. OppFileOK'
    BY <1>1, <2>1, <2>2 DEF OppFileOK
  <2> QED
    BY <2>1, <2>2, <2>3
<1>5. CASE Save
  <2>1. /\ hunt' = [at |-> "writing", left |-> hunt.left, found |-> hunt.found, map |-> {}]
        /\ oppFile' = [whole |-> FALSE, entries |-> hunt.found]
    BY <1>1, <1>5 DEF HuntShape, Save
  <2>2. HuntShape'
    BY <1>1, <2>1 DEF HuntShape
  <2>3. HuntOnce'
    BY <1>1, <2>1 DEF HuntOnce, OncePerMarket
  <2>4. OppFileOK'
    BY <1>1, <2>1 DEF HuntShape, HuntOnce, OncePerMarket, OppFileOK
  <2> QED
    BY <1>5, <2>2, <2>3, <2>4 DEF Save
<1>6. CASE Saved
  <2>1. HuntShape' /\ HuntOnce' /\ hunt'.at = "idle"
    BY <1>2, <1>6 DEF Saved
  <2>2. oppFile' = [whole |-> TRUE, entries |-> oppFile.entries]
    BY <1>1, <1>6 DEF OppFileOK, Saved
  <2> QED
    BY <1>1, <1>6, <2>1, <2>2 DEF OppFileOK, Saved
<1>7. CASE HuntDies
  <2>1. HuntShape' /\ HuntOnce' /\ hunt'.at = "idle" /\ oppFile' = oppFile
    BY <1>2, <1>7 DEF HuntDies
  <2> QED
    BY <1>1, <1>7, <2>1 DEF OppFileOK, HuntDies
<1> QED
  BY <1>3, <1>4, <1>5, <1>6, <1>7

\* Scanners, rebuilders and the clock keep what the files can hold.
LEMMA DiscoveryStep ==
    ASSUME DiscoveryInv, DiscoveryNext
    PROVE  DiscoveryInv'
<1>1. /\ dataset \subseteq [pool : LiquidPools, decimals : BOOLEAN]
      /\ hour \in Nat /\ ScanOK /\ HuntShape /\ HuntOnce /\ OppFileOK
  BY DEF DiscoveryInv
<1>2. ASSUME UNCHANGED <<scan, pairFile, hunt, oppFile>>
      PROVE  (ScanOK /\ HuntShape /\ HuntOnce /\ OppFileOK)'
  BY <1>1, <1>2 DEF ScanOK, HuntShape, HuntOnce, OncePerMarket, OppFileOK
<1>3. CASE RebuildPools
  <2>1. UNCHANGED <<scan, pairFile, hunt, oppFile, hour>>
    BY <1>3 DEF RebuildPools
  <2>2. PICK C : dataset' = {[pool |-> p, decimals |-> TRUE] : p \in {q \in LiquidPools : q.chain \in C}}
    BY <1>3 DEF RebuildPools
  <2>3. dataset' \subseteq [pool : LiquidPools, decimals : BOOLEAN]
    <3> SUFFICES ASSUME NEW e \in dataset' PROVE e \in [pool : LiquidPools, decimals : BOOLEAN]
      OBVIOUS
    <3>1. PICK p \in LiquidPools : e = [pool |-> p, decimals |-> TRUE]
      BY <2>2
    <3> QED
      BY <3>1
  <2> QED
    BY <1>1, <1>2, <2>1, <2>3 DEF DiscoveryInv
<1>4. CASE RebuildOfficials
  <2>1. UNCHANGED <<dataset, scan, pairFile, hunt, oppFile, hour>>
    BY <1>4 DEF RebuildOfficials
  <2> QED
    BY <1>1, <1>2, <2>1 DEF DiscoveryInv
<1>5. CASE Hour
  <2>1. UNCHANGED <<dataset, scan, pairFile, hunt, oppFile>> /\ hour' \in Nat
    BY <1>1, <1>5 DEF Hour
  <2> QED
    BY <1>1, <1>2, <2>1 DEF DiscoveryInv
<1>6. CASE ScanVolume \/ Probe \/ Persist \/ PersistRaises \/ Persisted \/ ScanDies
  <2>1. ScanOK' /\ UNCHANGED <<dataset, hour, hunt, oppFile>>
    BY <1>1, <1>6, ScanKeeps
  <2>2. (HuntShape /\ HuntOnce /\ OppFileOK)'
    BY <1>1, <2>1 DEF HuntShape, HuntOnce, OncePerMarket, OppFileOK
  <2> QED
    BY <1>1, <2>1, <2>2 DEF DiscoveryInv
<1>7. CASE StartHunt \/ Judge \/ Save \/ Saved \/ HuntDies
  <2>1. (HuntShape /\ HuntOnce /\ OppFileOK)' /\ UNCHANGED <<dataset, hour, scan, pairFile>>
    BY <1>7, HuntKeeps
  <2>2. ScanOK'
    BY <1>1, <2>1 DEF ScanOK
  <2> QED
    BY <1>1, <2>1, <2>2 DEF DiscoveryInv
<1> QED
  BY <1>3, <1>4, <1>5, <1>6, <1>7 DEF DiscoveryNext

-----------------------------------------------------------------------------
(* Admission *)

\* A registered symbol is its own first spelling.
LEMMA RegistryFirst ==
    ASSUME NEW m \in Markets, NEW symbol \in {m.base, m.quote}, NEW chain,
           Registered(symbol, chain) # {}
    PROVE  RegistryToken(symbol, chain) = Details(symbol, chain) /\ Details(symbol, chain) # NoToken
<1> DEFINE spelt == Spellings[symbol]
           I == {i \in 1 .. Len(spelt) : Registered(spelt[i], chain) # {}}
           known == SelectInSeq(spelt, LAMBDA s : Registered(s, chain) # {})
<1>1. Len(spelt) \in Nat \ {0} /\ spelt[1] = symbol
  BY AdmissionAssumption
<1>2. known = IF I # {} THEN Min(I) ELSE 0
  BY DEF SelectInSeq
<1>3. RegistryToken(symbol, chain) = IF known = 0 THEN NoToken ELSE Details(spelt[known], chain)
  BY DEF RegistryToken
<1>4. 1 \in I /\ I \subseteq Nat /\ \A i \in I : 1 <= i
  BY <1>1
<1> HIDE DEF I, known
<1>5. Min(I) \in I /\ Min(I) <= 1
  BY <1>4, MinOf
<1>6. Min(I) = 1
  <2>1. Min(I) \in Nat /\ 1 <= Min(I)
    BY <1>4, <1>5
  <2> QED
    BY <1>5, <2>1
<1>7. known = 1
  BY <1>2, <1>4, <1>6
<1>8. Details(symbol, chain) \in {r.token : r \in Registry}
  BY DEF Details, Registered
<1> QED
  BY <1>1, <1>3, <1>7, <1>8, AdmissionAssumption

\* What configured pairs are made of: one a market, cleared, on a chain that is known.
Clean(S) ==
    /\ \A s \in S : /\ s.market \in Markets /\ s.chain \in KnownChains
                    /\ ~Refused(policy, {s.market.base, s.market.quote})
    /\ \A s, t \in S : s.market = t.market => s = t

\* The pairs of pairs.yaml and those load_config takes from the scanner's file.
LEMMA ConfiguredClean ==
    ASSUME Coherent, NEW entries \in Seq(Proposal)
    PROVE  Clean(StaticPairs \cup FromPairFile(entries))
<1> DEFINE F == FromPairFile(entries)
           passing == {i \in DOMAIN entries :
                       /\ \A s \in StaticPairs : s.market # entries[i].market
                       /\ ~Refused(policy, {entries[i].market.base, entries[i].market.quote})
                       /\ entries[i].chain \in KnownChains}
           first == {i \in passing :
                     \A j \in passing : entries[j].market = entries[i].market => i <= j}
<1>1. \A s \in StaticPairs : /\ s.market \in Markets /\ s.chain \in KnownChains
                             /\ ~Refused(policy, {s.market.base, s.market.quote})
  BY AdmissionAssumption DEF Coherent
<1>2. \A s, t \in StaticPairs : s.market = t.market => s = t
  BY AdmissionAssumption
<1>3. F = {[market |-> entries[i].market, chain |-> entries[i].chain] : i \in first}
  BY DEF FromPairFile
<1>4. \A i \in passing : /\ i \in Nat
                         /\ entries[i] \in Proposal
                         /\ \A s \in StaticPairs : s.market # entries[i].market
                         /\ ~Refused(policy, {entries[i].market.base, entries[i].market.quote})
                         /\ entries[i].chain \in KnownChains
  BY ElementOfSeq
<1>5. \A i, j \in first : entries[i].market = entries[j].market => i = j
  <2> SUFFICES ASSUME NEW i \in first, NEW j \in first, entries[i].market = entries[j].market
               PROVE  i = j
    OBVIOUS
  <2>1. i \in Nat /\ j \in Nat
    BY <1>4
  <2>2. i <= j /\ j <= i
    OBVIOUS
  <2> QED
    BY <2>1, <2>2
<1>6. \A i \in first : i \in passing
  OBVIOUS
<1> HIDE DEF F, passing, first
<1>7. ASSUME NEW s \in F
      PROVE  /\ s.market \in Markets /\ s.chain \in KnownChains
             /\ ~Refused(policy, {s.market.base, s.market.quote})
             /\ \A t \in StaticPairs : t.market # s.market
             /\ \A t \in F : s.market = t.market => s = t
  <2>1. PICK i \in first : s = [market |-> entries[i].market, chain |-> entries[i].chain]
    BY <1>3
  <2>2. s.market = entries[i].market /\ s.chain = entries[i].chain
    BY <2>1
  <2>3. entries[i].market \in Markets
    BY <1>4, <1>6 DEF Proposal
  <2>4. ASSUME NEW t \in F, s.market = t.market PROVE s = t
    <3>1. PICK j \in first : t = [market |-> entries[j].market, chain |-> entries[j].chain]
      BY <1>3
    <3>2. entries[j].market = entries[i].market
      BY <2>2, <2>4, <3>1
    <3> QED
      BY <1>5, <2>1, <3>1, <3>2
  <2> QED
    BY <1>4, <1>6, <2>2, <2>3, <2>4
<1> QED
  BY <1>1, <1>2, <1>7 DEF Clean, F

\* What a pair a bot monitors is like.
PairSound(p, under) ==
    /\ p.market \in Markets
    /\ ~Refused(under, {p.market.base, p.market.quote, p.quoteDex})
    /\ p.chain \in KnownChains
    /\ p.baseDecimals = DecimalsOf(p.base) /\ p.quoteDecimals = DecimalsOf(p.quote)
    /\ p.base # NoToken /\ Registered(p.market.base, p.chain) # {} =>
          p.base = Details(p.market.base, p.chain)

KeysDiffer(P) == \A p, q \in P : p.key = q.key => p = q

\* They are sound pairs with keys of their own.
LEMMA KnownSound ==
    ASSUME NEW S, Clean(S)
    PROVE  LET known == {Configured(s) : s \in S}
           IN  (\A p \in known : PairSound(p, policy)) /\ KeysDiffer(known)
<1> DEFINE known == {Configured(s) : s \in S}
<1>1. \A s \in S : /\ s.market \in Markets /\ s.chain \in KnownChains
                   /\ ~Refused(policy, {s.market.base, s.market.quote})
  BY DEF Clean
<1>2. \A s, t \in S : s.market = t.market => s = t
  BY DEF Clean
<1>3. ASSUME NEW s \in S PROVE PairSound(Configured(s), policy) /\ Configured(s).key = <<"slashed", s.market>>
  <2> DEFINE p == Configured(s)
  <2>1. /\ p.key = <<"slashed", s.market>> /\ p.market = s.market /\ p.quoteDex = s.market.quote
        /\ p.chain = s.chain
        /\ p.base = Details(s.market.base, s.chain) /\ p.quote = Details(s.market.quote, s.chain)
        /\ p.baseDecimals = DecimalsOf(Details(s.market.base, s.chain))
        /\ p.quoteDecimals = DecimalsOf(Details(s.market.quote, s.chain))
    BY DEF Configured
  <2> HIDE DEF p
  <2>2. {p.market.base, p.market.quote, p.quoteDex} = {s.market.base, s.market.quote}
    BY <2>1
  <2>3. PairSound(p, policy)
    BY <1>1, <2>1, <2>2 DEF PairSound
  <2> QED
    BY <2>1, <2>3 DEF p
<1>4. \A p \in known : PairSound(p, policy)
  BY <1>3
<1>5. KeysDiffer(known)
  <2> SUFFICES ASSUME NEW s \in S, NEW t \in S, Configured(s).key = Configured(t).key
               PROVE  s = t
    BY DEF KeysDiffer
  <2>1. <<"slashed", s.market>> = <<"slashed", t.market>>
    BY <1>3
  <2>2. s.market = t.market
    BY <2>1
  <2> QED
    BY <1>2, <2>2
<1> QED
  BY <1>4, <1>5

\* The decimals of a token that is not another than the registry's are its own.
LEMMA DecimalsTrue ==
    ASSUME NEW e \in Probed, NEW symbol \in {e.market.base, e.market.quote},
           NEW token, token # NoToken, ~Mismatch(symbol, token),
           Decimals(e, symbol, token) # NoToken
    PROVE  /\ Decimals(e, symbol, token) = DecimalsOf(token)
           /\ Registered(symbol, token.chain) # {} => token = Details(symbol, token.chain)
<1>1. e.market \in Markets
  BY DEF Probed
<1>2. Registered(symbol, token.chain) # {} => token = Details(symbol, token.chain)
  <2> SUFFICES ASSUME Registered(symbol, token.chain) # {} PROVE token = Details(symbol, token.chain)
    OBVIOUS
  <2>1. RegistryToken(symbol, token.chain) = Details(symbol, token.chain)
        /\ Details(symbol, token.chain) # NoToken
    BY <1>1, RegistryFirst
  <2> QED
    BY <2>1 DEF Mismatch
<1>3. CASE ~e.synthetic /\ Details(symbol, token.chain) # NoToken
  <2>1. Registered(symbol, token.chain) # {}
    BY <1>3 DEF Details
  <2> QED
    BY <1>2, <1>3, <2>1 DEF Decimals, DecimalsOf
<1>4. CASE ~(~e.synthetic /\ Details(symbol, token.chain) # NoToken)
  BY <1>2, <1>4 DEF Decimals, DecimalsOf
<1> QED
  BY <1>3, <1>4

\* An opportunity yields one sound pair at most.
LEMMA OpportunitySound ==
    ASSUME NEW e \in Probed, NEW p \in FromOpportunity(e), Admitted(p)
    PROVE  /\ PairSound(p, policy) /\ p.key = <<"joined", e.market>>
           /\ \A q \in FromOpportunity(e) : q = p
<1> DEFINE P(t) == [key |-> <<"joined", e.market>>, market |-> e.market,
                    quoteDex |-> IF e.synthetic THEN Wrapped ELSE e.market.quote,
                    chain |-> e.pool.chain, base |-> t[1], quote |-> t[2],
                    baseDecimals |-> Decimals(e, e.market.base, t[1]),
                    quoteDecimals |-> Decimals(e, e.market.quote, t[2])]
           T == {t \in BaseSides(e.pool, e.market.base) :
                  ~Mismatch(e.market.base, t[1]) /\ ~Mismatch(e.market.quote, t[2])}
<1>1. FromOpportunity(e) = {P(t) : t \in T}
  BY DEF FromOpportunity
<1>2. PICK t \in T : p = P(t)
  BY <1>1
<1>3. /\ t \in {<<e.pool.t0, e.pool.t1>>, <<e.pool.t1, e.pool.t0>>}
      /\ t[1].symbol = e.market.base /\ t[2].symbol # e.market.base
      /\ ~Mismatch(e.market.base, t[1]) /\ ~Mismatch(e.market.quote, t[2])
  BY DEF BaseSides
<1>4. ASSUME NEW u \in T PROVE u = t
  <2>1. /\ u \in {<<e.pool.t0, e.pool.t1>>, <<e.pool.t1, e.pool.t0>>}
        /\ u[1].symbol = e.market.base /\ u[2].symbol # e.market.base
    BY DEF BaseSides
  <2> HIDE DEF T
  <2> QED
    BY <1>3, <2>1
<1>5. \A q \in FromOpportunity(e) : q = p
  BY <1>1, <1>2, <1>4
<1>6. /\ p.key = <<"joined", e.market>> /\ p.market = e.market /\ p.chain = e.pool.chain
      /\ p.base = t[1] /\ p.quote = t[2]
      /\ p.baseDecimals = Decimals(e, e.market.base, t[1])
      /\ p.quoteDecimals = Decimals(e, e.market.quote, t[2])
  BY <1>2
<1> HIDE DEF T, P
<1>7. e.market \in Markets /\ e.pool \in LiquidPools
  BY DEF Probed
<1>8. t[1].chain = e.pool.chain /\ t[1] # NoToken /\ t[2] # NoToken
  <2>1. e.pool.t0.chain = e.pool.chain /\ e.pool.t1.chain = e.pool.chain
    BY <1>7, AdmissionAssumption
  <2>2. e.pool.t0 # NoToken /\ e.pool.t1 # NoToken
    BY <1>7, AdmissionAssumption
  <2> QED
    BY <1>3, <2>1, <2>2
<1>9. /\ Decimals(e, e.market.base, t[1]) # NoToken /\ Decimals(e, e.market.quote, t[2]) # NoToken
      /\ ~Refused(policy, {p.market.base, p.market.quote, p.quoteDex}) /\ p.chain \in KnownChains
  BY <1>6 DEF Admitted
<1>10. /\ Decimals(e, e.market.base, t[1]) = DecimalsOf(t[1])
       /\ Registered(e.market.base, t[1].chain) # {} => t[1] = Details(e.market.base, t[1].chain)
  BY <1>3, <1>8, <1>9, DecimalsTrue
<1>11. Decimals(e, e.market.quote, t[2]) = DecimalsOf(t[2])
  BY <1>3, <1>8, <1>9, DecimalsTrue
<1>12. PairSound(p, policy)
  BY <1>6, <1>7, <1>8, <1>9, <1>10, <1>11 DEF PairSound
<1> QED
  BY <1>5, <1>6, <1>12

\* The opportunities of a file yield sound pairs with keys of their own.
LEMMA MoreSound ==
    ASSUME NEW entries \in Seq(Probed), OncePerMarket(entries)
    PROVE  (\A p \in FromOppFile(entries) : PairSound(p, policy)) /\ KeysDiffer(FromOppFile(entries))
<1>1. ASSUME NEW p \in FromOppFile(entries)
      PROVE  \E i \in 1 .. Len(entries) :
                entries[i] \in Probed /\ p \in FromOpportunity(entries[i]) /\ Admitted(p)
  <2>1. PICK e \in Range(entries) : p \in FromOpportunity(e) /\ Admitted(p)
    BY DEF FromOppFile
  <2>2. PICK i \in DOMAIN entries : e = entries[i]
    BY DEF Range
  <2>3. i \in 1 .. Len(entries)
    BY LenProperties
  <2> QED
    BY <2>1, <2>2, <2>3, ElementOfSeq
<1>2. \A p \in FromOppFile(entries) : PairSound(p, policy)
  BY <1>1, OpportunitySound
<1>3. ASSUME NEW p \in FromOppFile(entries), NEW q \in FromOppFile(entries), p.key = q.key
      PROVE  p = q
  <2>1. PICK i \in 1 .. Len(entries) :
           entries[i] \in Probed /\ p \in FromOpportunity(entries[i]) /\ Admitted(p)
    BY <1>1
  <2>2. PICK j \in 1 .. Len(entries) :
           entries[j] \in Probed /\ q \in FromOpportunity(entries[j]) /\ Admitted(q)
    BY <1>1
  <2>3. p.key = <<"joined", entries[i].market>> /\ q.key = <<"joined", entries[j].market>>
    BY <2>1, <2>2, OpportunitySound
  <2>4. entries[i].market = entries[j].market
    <3>1. <<"joined", entries[i].market>> = <<"joined", entries[j].market>>
      BY <1>3, <2>3
    <3> QED
      BY <3>1
  <2>5. i = j
    BY <2>4 DEF OncePerMarket
  <2> QED
    BY <2>1, <2>2, <2>5, OpportunitySound
<1> QED
  BY <1>2, <1>3 DEF KeysDiffer

\* What the bot monitors was sound when it was read, and does not change while it runs.
BotOK ==
    /\ policy \in Policies
    /\ bot.policy \in Policies
    /\ \A p \in bot.pairs : PairSound(p, bot.policy)
    /\ KeysDiffer(bot.pairs)

UniverseInv == DiscoveryInv /\ BotOK

\* A starting bot reads what is sound under the policy of that moment.
LEMMA StartKeeps ==
    ASSUME UniverseInv, Start
    PROVE  BotOK' /\ UNCHANGED <<dataset, pairFile, oppFile, scan, hunt, hour>>
<1>1. ScanOK /\ OppFileOK /\ policy \in Policies
  BY DEF UniverseInv, DiscoveryInv, BotOK
<1>2. PICK n \in (IF pairFile.whole THEN {Len(pairFile.entries)} ELSE 0 .. Len(pairFile.entries)) :
          LET known == {Configured(s) : s \in StaticPairs
                                                \cup FromPairFile(SubSeq(pairFile.entries, 1, n))}
              more == IF oppFile.whole THEN FromOppFile(oppFile.entries) ELSE {}
          IN  bot' = [on |-> TRUE, policy |-> policy,
                      pairs |-> known \cup {p \in more : \A k \in known : k.key # p.key}]
  BY DEF Start
<1>3. Coherent /\ UNCHANGED <<dataset, pairFile, oppFile, scan, hunt, hour, policy>>
  BY DEF Start
<1> DEFINE read == SubSeq(pairFile.entries, 1, n)
           S == StaticPairs \cup FromPairFile(read)
           known == {Configured(s) : s \in S}
           more == IF oppFile.whole THEN FromOppFile(oppFile.entries) ELSE {}
           pairs == known \cup {p \in more : \A k \in known : k.key # p.key}
<1>4. bot' = [on |-> TRUE, policy |-> policy, pairs |-> pairs]
  BY <1>2
<1>5. read \in Seq(Proposal)
  <2>1. pairFile.entries \in Seq(Proposal)
    BY <1>1 DEF ScanOK
  <2> QED
    BY <2>1, PrefixTyped
<1> HIDE DEF read
<1>6. Clean(S)
  BY <1>3, <1>5, ConfiguredClean
<1> HIDE DEF S
<1>7. (\A p \in known : PairSound(p, policy)) /\ KeysDiffer(known)
  BY <1>6, KnownSound
<1>8. (\A p \in more : PairSound(p, policy)) /\ KeysDiffer(more)
  <2>1. CASE oppFile.whole
    <3>1. oppFile.entries \in Seq(Probed) /\ OncePerMarket(oppFile.entries)
      BY <1>1 DEF OppFileOK
    <3> QED
      BY <2>1, <3>1, MoreSound
  <2>2. CASE ~oppFile.whole
    BY <2>2 DEF KeysDiffer
  <2> QED
    BY <2>1, <2>2
<1> HIDE DEF known, more
<1>9. (\A p \in pairs : PairSound(p, policy)) /\ KeysDiffer(pairs)
  BY <1>7, <1>8 DEF KeysDiffer
<1> HIDE DEF pairs
<1>10. /\ policy' = policy /\ bot'.policy = policy /\ bot'.pairs = pairs
  BY <1>3, <1>4
<1>11. BotOK'
  BY <1>1, <1>9, <1>10 DEF BotOK, KeysDiffer, PairSound, Refused, DecimalsOf, Details, Registered
<1> QED
  BY <1>3, <1>11

\* The files stay lists of proposals, and the bot sound.
LEMMA UniverseInvariance ==
    AdmissionSpec => []UniverseInv
<1>1. DiscoveryInit /\ AdmissionInit => UniverseInv
  <2> SUFFICES ASSUME DiscoveryInit, AdmissionInit PROVE UniverseInv
    OBVIOUS
  <2>1. /\ dataset = {[pool |-> p, decimals |-> FALSE] : p \in LiquidPools}
        /\ pairFile = [whole |-> TRUE, entries |-> <<>>]
        /\ oppFile = [whole |-> TRUE, entries |-> <<>>]
        /\ scan = [at |-> "idle", left |-> <<>>, found |-> <<>>, map |-> {}]
        /\ hunt = [at |-> "idle", left |-> <<>>, found |-> <<>>, map |-> {}]
        /\ hour = 0
    BY DEF DiscoveryInit, Resting
  <2>2. <<>> \in Seq(Markets) /\ <<>> \in Seq(Proposal) /\ <<>> \in Seq(Probed) /\ Len(<<>>) = 0
    BY EmptySeq
  <2>3. dataset \subseteq [pool : LiquidPools, decimals : BOOLEAN]
    <3>1. \A p \in LiquidPools : [pool |-> p, decimals |-> FALSE] \in [pool : LiquidPools, decimals : BOOLEAN]
      OBVIOUS
    <3> QED
      BY <2>1, <3>1
  <2>4. ScanOK
    BY <2>1, <2>2 DEF ScanOK
  <2>5. HuntShape
    BY <2>1, <2>2 DEF HuntShape
  <2>6. HuntOnce /\ OppFileOK
    BY <2>1, <2>2 DEF HuntOnce, OncePerMarket, OppFileOK
  <2>7. policy \in Policies /\ bot = [on |-> FALSE, policy |-> CHOOSE p \in Policies : TRUE, pairs |-> {}]
    BY DEF AdmissionInit, Off
  <2>8. BotOK
    BY <2>7 DEF BotOK, KeysDiffer
  <2> QED
    BY <2>1, <2>3, <2>4, <2>5, <2>6, <2>8 DEF UniverseInv, DiscoveryInv
<1>2. UniverseInv /\ [AdmissionNext]_<<discoveryVars, admissionVars>> => UniverseInv'
  <2> SUFFICES ASSUME UniverseInv, [AdmissionNext]_<<discoveryVars, admissionVars>>
               PROVE  UniverseInv'
    OBVIOUS
  <2>1. DiscoveryInv /\ BotOK
    BY DEF UniverseInv
  <2>2. ASSUME UNCHANGED <<policy, bot>> PROVE BotOK'
    BY <2>1, <2>2 DEF BotOK, KeysDiffer, PairSound, Refused, DecimalsOf, Details, Registered
  <2>3. ASSUME UNCHANGED <<dataset, pairFile, oppFile, scan, hunt, hour>> PROVE DiscoveryInv'
    BY <2>1, <2>3 DEF DiscoveryInv, ScanOK, HuntShape, HuntOnce, OncePerMarket, OppFileOK
  <2>4. CASE DiscoveryNext /\ UNCHANGED admissionVars
    <3>1. DiscoveryInv'
      BY <2>1, <2>4, DiscoveryStep
    <3>2. UNCHANGED <<policy, bot>>
      BY <2>4 DEF admissionVars
    <3> QED
      BY <2>2, <3>1, <3>2 DEF UniverseInv
  <2>5. CASE Start
    <3>1. BotOK' /\ UNCHANGED <<dataset, pairFile, oppFile, scan, hunt, hour>>
      BY <2>5, StartKeeps
    <3> QED
      BY <2>3, <3>1 DEF UniverseInv
  <2>6. CASE Exit
    <3>1. UNCHANGED <<dataset, pairFile, oppFile, scan, hunt, hour>>
      BY <2>6 DEF Exit, discoveryVars
    <3>2. /\ policy' = policy
          /\ bot' = [on |-> FALSE, policy |-> CHOOSE p \in Policies : TRUE, pairs |-> {}]
      BY <2>6 DEF Exit, Off
    <3>3. BotOK'
      BY <2>1, <3>2 DEF BotOK, KeysDiffer
    <3> QED
      BY <2>3, <3>1, <3>3 DEF UniverseInv
  <2>7. CASE Edit
    <3>1. UNCHANGED <<dataset, pairFile, oppFile, scan, hunt, hour, bot>> /\ policy' \in Policies
      BY <2>7 DEF Edit, discoveryVars
    <3>2. BotOK'
      BY <2>1, <3>1 DEF BotOK, KeysDiffer, PairSound, Refused, DecimalsOf, Details, Registered
    <3> QED
      BY <2>3, <3>1, <3>2 DEF UniverseInv
  <2>8. CASE UNCHANGED <<discoveryVars, admissionVars>>
    <3>1. UNCHANGED <<dataset, pairFile, oppFile, scan, hunt, hour, policy, bot>>
      BY <2>8 DEF discoveryVars, admissionVars
    <3> QED
      BY <2>2, <2>3, <3>1 DEF UniverseInv
  <2> QED
    BY <2>4, <2>5, <2>6, <2>7, <2>8 DEF AdmissionNext
<1> QED
  BY <1>1, <1>2, PTL DEF AdmissionSpec

\* UniverseSound: whatever the scanners and the files they left proposed, a running bot
\* monitors only pairs that load_config and _load_discovered_pairs were right to admit.
THEOREM UniverseStaysSound == AdmissionSpec => []UniverseSound
<1>1. UniverseInv => UniverseSound
  BY DEF UniverseInv, BotOK, PairSound, KeysDiffer, UniverseSound
<1> QED
  BY <1>1, UniverseInvariance, PTL

\* AdmissionTypeOK: the scanners, their files and the bot keep their types, and who
\* writes a file has it open.
THEOREM AdmissionTypeCorrect == AdmissionSpec => []AdmissionTypeOK
<1>1. UniverseInv => AdmissionTypeOK
  <2> SUFFICES ASSUME UniverseInv PROVE AdmissionTypeOK
    OBVIOUS
  <2>1. \A e \in dataset : e.pool \in LiquidPools /\ e.decimals \in BOOLEAN
    BY DEF UniverseInv, DiscoveryInv
  <2>2. scan.at \in {"idle", "probing", "writing"} /\ (scan.at = "writing" => ~pairFile.whole)
    BY DEF UniverseInv, DiscoveryInv, ScanOK
  <2>3. hunt.at \in {"idle", "judging", "writing"} /\ (hunt.at = "writing" => ~oppFile.whole)
    BY DEF UniverseInv, DiscoveryInv, HuntShape, OppFileOK
  <2>4. policy \in Policies /\ bot.policy \in Policies /\ \A p \in bot.pairs : p.market \in Markets
    BY DEF UniverseInv, BotOK, PairSound
  <2> QED
    BY <2>1, <2>2, <2>3, <2>4 DEF AdmissionTypeOK
<1> QED
  BY <1>1, UniverseInvariance, PTL

-----------------------------------------------------------------------------
(* Valuation *)

IsTotal(t, a, n) ==
    /\ t \in [0 .. n -> Nat] /\ t[0] = 0
    /\ \A i \in 1 .. n : t[i] = t[i - 1] + a[i]
    /\ Total(a, n) = t[n]

\* A sum is made one number after the other.
LEMMA TotalUnfolds ==
    ASSUME NEW n \in Nat, NEW a, \A i \in 1 .. n : a[i] \in Nat
    PROVE  \E t : IsTotal(t, a, n)
<1> DEFINE upto[i \in 0 .. n] == IF i = 0 THEN 0 ELSE upto[i - 1] + a[i]
           step == [x \in (1 .. n) \X Nat |-> x[2] + a[x[1]]]
<1>1. step \in [(1 .. n) \X Nat -> Nat]
  <2>1. \A x \in (1 .. n) \X Nat : x[2] + a[x[1]] \in Nat
    OBVIOUS
  <2> QED
    BY <2>1
<1>2. \A k \in 1 .. n, v \in Nat : step[<<k, v>>] = v + a[k]
  OBVIOUS
<1>3. Total(a, n) = upto[n]
  BY DEF Total, upto
<1>4. upto = CHOOSE g : g = [i \in 0 .. n |-> IF i = 0 THEN 0 ELSE g[i - 1] + a[i]]
  BY DEF upto
<1> HIDE DEF step, upto
<1>5. 0 \in Nat
  OBVIOUS
<1>6. PICK f : Iterates(f, n, Nat, 0, step)
  BY <1>1, <1>5, RecursionExists, Zenon
<1>7. /\ f \in [0 .. n -> Nat] /\ f[0] = 0
      /\ \A k \in 1 .. n : f[k] = step[<<k, f[k - 1]>>]
  BY <1>6 DEF Iterates
<1>8. ASSUME NEW k \in 1 .. n PROVE f[k] = f[k - 1] + a[k]
  <2>1. k - 1 \in 0 .. n
    OBVIOUS
  <2>2. f[k - 1] \in Nat
    BY <1>7, <2>1
  <2> QED
    BY <1>2, <1>7, <2>2
<1>9. \A i \in 0 .. n : f[i] = IF i = 0 THEN 0 ELSE f[i - 1] + a[i]
  <2>1. \A i \in 0 .. n : i = 0 \/ (i \in 1 .. n /\ i # 0)
    OBVIOUS
  <2> QED
    BY <1>7, <1>8, <2>1
<1>10. f = [i \in 0 .. n |-> IF i = 0 THEN 0 ELSE f[i - 1] + a[i]]
  BY <1>7, <1>9
<1>11. upto = [i \in 0 .. n |-> IF i = 0 THEN 0 ELSE upto[i - 1] + a[i]]
  BY <1>4, <1>10
<1> DEFINE T == {i \in Nat : i <= n => upto[i] = f[i]}
<1>12. 0 \in T
  BY <1>7, <1>11
<1>13. ASSUME NEW i \in T PROVE i + 1 \in T
  <2> SUFFICES ASSUME i + 1 <= n PROVE upto[i + 1] = f[i + 1]
    OBVIOUS
  <2>1. i \in Nat /\ i + 1 \in 0 .. n /\ i + 1 # 0 /\ i + 1 - 1 = i /\ i <= n /\ i + 1 \in 1 .. n
    OBVIOUS
  <2>2. upto[i] = f[i]
    BY <2>1
  <2>3. upto[i + 1] = upto[i + 1 - 1] + a[i + 1]
    BY <1>11, <2>1
  <2>4. f[i + 1] = f[i + 1 - 1] + a[i + 1]
    BY <1>8, <2>1
  <2> QED
    BY <2>1, <2>2, <2>3, <2>4
<1>14. T = Nat
  <2>1. T \in SUBSET Nat
    OBVIOUS
  <2> HIDE DEF T
  <2> QED
    BY <1>12, <1>13, <2>1, InductionOn
<1>15. Total(a, n) = f[n]
  BY <1>3, <1>14
<1> QED
  BY <1>7, <1>8, <1>15 DEF IsTotal

\* No part of a sum of amounts is more than the whole.
LEMMA PartOfTotal ==
    ASSUME NEW n \in Nat, NEW a, \A i \in 1 .. n : a[i] \in Nat, NEW t, IsTotal(t, a, n),
           NEW k \in 0 .. n
    PROVE  t[k] \in Nat /\ t[k] <= t[n]
<1> DEFINE T == {j \in Nat : j <= n => t[n - j] <= t[n]}
<1>1. t \in [0 .. n -> Nat] /\ \A i \in 1 .. n : t[i] = t[i - 1] + a[i]
  BY DEF IsTotal
<1>2. \A i \in 0 .. n : t[i] \in Nat
  BY <1>1
<1>3. 0 \in T
  BY <1>2
<1>4. ASSUME NEW j \in T PROVE j + 1 \in T
  <2> SUFFICES ASSUME j + 1 <= n PROVE t[n - (j + 1)] <= t[n]
    OBVIOUS
  <2> DEFINE i == n - j
  <2>1. j \in Nat /\ i \in 1 .. n /\ n - (j + 1) = i - 1 /\ i - 1 \in 0 .. n /\ i \in 0 .. n /\ j <= n
    OBVIOUS
  <2>2. t[i] <= t[n]
    BY <2>1
  <2>3. t[i] = t[i - 1] + a[i]
    BY <1>1, <2>1
  <2>4. t[i - 1] \in Nat /\ a[i] \in Nat /\ t[i] \in Nat /\ t[n] \in Nat
    BY <1>2, <2>1
  <2> HIDE DEF i
  <2>5. t[i - 1] <= t[n]
    BY <2>2, <2>3, <2>4
  <2> QED
    BY <2>1, <2>5
<1>5. T = Nat
  <2>1. T \in SUBSET Nat
    OBVIOUS
  <2> HIDE DEF T
  <2> QED
    BY <1>3, <1>4, <2>1, InductionOn
<1>6. n - k \in Nat /\ n - k <= n /\ n - (n - k) = k
  OBVIOUS
<1>7. t[n - (n - k)] <= t[n]
  BY <1>5, <1>6
<1> QED
  BY <1>2, <1>6, <1>7

Filling(size) == [filled : 0 .. size, value : Nat]

\* A level gives what it has or what is still wanted.
LEMMA FillTyped ==
    ASSUME NEW size \in Nat, NEW f \in Filling(size), NEW l, l.price \in Nat, l.size \in Nat
    PROVE  /\ Fill(f, l, size) \in Filling(size)
           /\ Fill(f, l, size).filled - f.filled \in 0 .. size
           /\ Fill(f, l, size).filled - f.filled <= l.size
           /\ Fill(f, l, size).value = f.value + (Fill(f, l, size).filled - f.filled) * l.price
           /\ Fill(f, l, size).filled = size \/ Fill(f, l, size).filled = f.filled + l.size
<1> DEFINE taken == IF l.size < size - f.filled THEN l.size ELSE size - f.filled
<1>1. Fill(f, l, size) = [filled |-> f.filled + taken, value |-> f.value + taken * l.price]
  BY DEF Fill
<1>2. /\ f.filled \in Nat /\ f.filled <= size /\ f.value \in Nat
  BY DEF Filling
<1>3. taken \in Nat /\ taken <= l.size /\ f.filled + taken <= size
      /\ (f.filled + taken = size \/ taken = l.size)
  BY <1>2
<1> HIDE DEF taken
<1>4. taken * l.price \in Nat
  BY <1>3
<1> DEFINE u == taken * l.price
<1>5. u \in Nat /\ taken * l.price = u
  BY <1>4
<1> HIDE DEF u
<1>6. Fill(f, l, size).filled = f.filled + taken /\ Fill(f, l, size).value = f.value + u
  BY <1>1, <1>5
<1>7. Fill(f, l, size).filled - f.filled = taken
  BY <1>2, <1>3, <1>6
<1>8. Fill(f, l, size) \in Filling(size)
  BY <1>1, <1>2, <1>3, <1>5 DEF Filling
<1> QED
  BY <1>2, <1>3, <1>5, <1>6, <1>7, <1>8

IsWalk(f, levels, size) ==
    /\ f \in [0 .. Len(levels) -> Filling(size)] /\ f[0] = [filled |-> 0, value |-> 0]
    /\ \A i \in 1 .. Len(levels) : f[i] = Fill(f[i - 1], levels[i], size)
    /\ WalkBook(levels, size) = f[Len(levels)]

\* The walk goes through the levels one after the other.
LEMMA WalkUnfolds ==
    ASSUME NEW levels, IsLadder(levels), NEW size \in Nat
    PROVE  \E f : IsWalk(f, levels, size)
<1> DEFINE n == Len(levels)
           V == Filling(size)
           nothing == [filled |-> 0, value |-> 0]
           after[i \in 0 .. n] == IF i = 0 THEN nothing ELSE Fill(after[i - 1], levels[i], size)
           step == [x \in (1 .. n) \X V |-> Fill(x[2], levels[x[1]], size)]
<1>1. n \in Nat /\ \A i \in 1 .. n : levels[i].price \in Nat /\ levels[i].size \in Nat
  BY DEF IsLadder
<1>2. step \in [(1 .. n) \X V -> V]
  <2>1. \A x \in (1 .. n) \X V : Fill(x[2], levels[x[1]], size) \in V
    <3> TAKE x \in (1 .. n) \X V
    <3>1. x[2] \in V /\ x[1] \in 1 .. n
      OBVIOUS
    <3> QED
      BY <1>1, <3>1, FillTyped
  <2> QED
    BY <2>1
<1>3. \A k \in 1 .. n, v \in V : step[<<k, v>>] = Fill(v, levels[k], size)
  OBVIOUS
<1>4. nothing \in V
  BY DEF Filling
<1>5. WalkBook(levels, size) = after[n]
  BY DEF WalkBook, after, n, nothing
<1>6. after = CHOOSE g : g = [i \in 0 .. n |-> IF i = 0 THEN nothing ELSE Fill(g[i - 1], levels[i], size)]
  BY DEF after
<1> HIDE DEF step, after, V, nothing, n
<1>7. PICK f : Iterates(f, n, V, nothing, step)
  BY <1>1, <1>2, <1>4, RecursionExists, Zenon
<1>8. /\ f \in [0 .. n -> V] /\ f[0] = nothing
      /\ \A k \in 1 .. n : f[k] = step[<<k, f[k - 1]>>]
  BY <1>7 DEF Iterates
<1>9. ASSUME NEW k \in 1 .. n PROVE f[k] = Fill(f[k - 1], levels[k], size)
  <2>1. k - 1 \in 0 .. n
    BY <1>1
  <2>2. f[k - 1] \in V
    BY <1>8, <2>1
  <2> QED
    BY <1>3, <1>8, <2>2
<1>10. \A i \in 0 .. n : f[i] = IF i = 0 THEN nothing ELSE Fill(f[i - 1], levels[i], size)
  <2>1. \A i \in 0 .. n : i = 0 \/ (i \in 1 .. n /\ i # 0)
    BY <1>1
  <2> QED
    BY <1>8, <1>9, <2>1
<1>11. f = [i \in 0 .. n |-> IF i = 0 THEN nothing ELSE Fill(f[i - 1], levels[i], size)]
  BY <1>8, <1>10
<1>12. after = [i \in 0 .. n |-> IF i = 0 THEN nothing ELSE Fill(after[i - 1], levels[i], size)]
  BY <1>6, <1>11
<1> DEFINE T == {i \in Nat : i <= n => after[i] = f[i]}
<1>13. 0 \in T
  BY <1>1, <1>8, <1>12
<1>14. ASSUME NEW i \in T PROVE i + 1 \in T
  <2> SUFFICES ASSUME i + 1 <= n PROVE after[i + 1] = f[i + 1]
    OBVIOUS
  <2>1. i \in Nat /\ i + 1 \in 0 .. n /\ i + 1 # 0 /\ i + 1 - 1 = i /\ i <= n /\ i + 1 \in 1 .. n
    BY <1>1
  <2>2. after[i] = f[i]
    BY <2>1
  <2>3. after[i + 1] = Fill(after[i + 1 - 1], levels[i + 1], size)
    BY <1>12, <2>1
  <2>4. f[i + 1] = Fill(f[i + 1 - 1], levels[i + 1], size)
    BY <1>9, <2>1
  <2> QED
    BY <2>1, <2>2, <2>3, <2>4
<1>15. T = Nat
  <2>1. T \in SUBSET Nat
    OBVIOUS
  <2> HIDE DEF T
  <2> QED
    BY <1>13, <1>14, <2>1, InductionOn
<1>16. WalkBook(levels, size) = f[n]
  BY <1>1, <1>5, <1>15
<1> QED
  BY <1>8, <1>9, <1>16 DEF IsWalk, V, n, nothing

\* Amounts and prices: what a dearer price does.
LEMMA DearerCostsMore ==
    ASSUME NEW p \in Nat, NEW q \in Nat, p <= q, NEW x \in Nat
    PROVE  p * x \in Nat /\ q * x \in Nat /\ p * x <= q * x
<1> DEFINE d == q - p
<1>1. d \in Nat /\ q = p + d
  OBVIOUS
<1> HIDE DEF d
<1>2. (p + d) * x = p * x + d * x
  BY <1>1
<1>3. p * x \in Nat /\ d * x \in Nat
  BY <1>1
<1> QED
  BY <1>1, <1>2, <1>3

\* Products of sums.
LEMMA Splits ==
    ASSUME NEW p \in Nat, NEW x \in Nat, NEW y \in Nat
    PROVE  p * (x + y) = p * x + p * y /\ p * x \in Nat /\ p * y \in Nat /\ x * p = p * x
OBVIOUS

\* Portions of a size, and how far each gets.
LEMMA PortionsGrow ==
    ASSUME NEW levels, IsLadder(levels), NEW size \in Nat, NEW a \in Portions(levels, size)
    PROVE  \E s, v :
              /\ IsTotal(s, a, Len(levels)) /\ s[Len(levels)] = size
              /\ v \in [0 .. Len(levels) -> Nat] /\ v[0] = 0
              /\ \A i \in 1 .. Len(levels) : v[i] = v[i - 1] + levels[i].price * a[i]
              /\ Value(levels, a) = v[Len(levels)]
<1> DEFINE n == Len(levels)
           c == [i \in 1 .. n |-> a[i] * levels[i].price]
<1>1. n \in Nat /\ \A i \in 1 .. n : levels[i].price \in Nat /\ levels[i].size \in Nat
  BY DEF IsLadder
<1>2. a \in [1 .. n -> 0 .. size] /\ Total(a, n) = size
  BY DEF Portions
<1>3. \A i \in 1 .. n : a[i] \in Nat
  BY <1>2
<1>4. \A i \in 1 .. n : c[i] \in Nat /\ c[i] = levels[i].price * a[i]
  BY <1>1, <1>3
<1>5. Value(levels, a) = Total(c, n)
  BY DEF Value
<1> HIDE DEF n, c
<1>6. PICK s : IsTotal(s, a, n)
  BY <1>1, <1>3, TotalUnfolds
<1>7. PICK v : IsTotal(v, c, n)
  BY <1>1, <1>4, TotalUnfolds
<1>8. s[n] = size
  BY <1>2, <1>6 DEF IsTotal
<1>9. /\ v \in [0 .. n -> Nat] /\ v[0] = 0 /\ Total(c, n) = v[n]
      /\ \A i \in 1 .. n : v[i] = v[i - 1] + c[i]
  BY <1>7 DEF IsTotal
<1>10. \A i \in 1 .. n : v[i] = v[i - 1] + levels[i].price * a[i]
  BY <1>4, <1>9
<1> QED
  BY <1>5, <1>6, <1>8, <1>9, <1>10 DEF n

\* The walk itself makes portions of the size, if there is enough, and of their value.
LEMMA WalkIsPortions ==
    ASSUME NEW levels, IsLadder(levels), NEW size \in Nat, Complete(WalkBook(levels, size), size)
    PROVE  /\ WalkBook(levels, size).filled = size /\ WalkBook(levels, size).value \in Nat
           /\ \E a \in Portions(levels, size) : Value(levels, a) = WalkBook(levels, size).value
<1> DEFINE n == Len(levels)
           w == WalkBook(levels, size)
<1>1. n \in Nat /\ \A i \in 1 .. n : levels[i].price \in Nat /\ levels[i].size \in Nat
  BY DEF IsLadder
<1>2. PICK f : IsWalk(f, levels, size)
  BY WalkUnfolds
<1> HIDE DEF n, w
<1>3. /\ f \in [0 .. n -> Filling(size)] /\ f[0] = [filled |-> 0, value |-> 0]
      /\ \A i \in 1 .. n : f[i] = Fill(f[i - 1], levels[i], size)
      /\ w = f[n]
  BY <1>2 DEF IsWalk, n, w
<1>4. w \in Filling(size) /\ w.filled >= size
  BY <1>1, <1>3 DEF Complete, w
<1>5. w.filled = size /\ w.value \in Nat
  BY <1>4 DEF Filling
<1> DEFINE a == [i \in 1 .. n |-> f[i].filled - f[i - 1].filled]
           c == [i \in 1 .. n |-> a[i] * levels[i].price]
<1>6. ASSUME NEW i \in 1 .. n
      PROVE  /\ f[i] \in Filling(size) /\ f[i - 1] \in Filling(size)
             /\ a[i] \in 0 .. size /\ a[i] <= levels[i].size
             /\ f[i].filled = f[i - 1].filled + a[i]
             /\ f[i].value = f[i - 1].value + c[i] /\ c[i] \in Nat
  <2>1. i \in 0 .. n /\ i - 1 \in 0 .. n
    BY <1>1
  <2>2. f[i] \in Filling(size) /\ f[i - 1] \in Filling(size) /\ f[i] = Fill(f[i - 1], levels[i], size)
    BY <1>3, <2>1
  <2>3. levels[i].price \in Nat /\ levels[i].size \in Nat
    BY <1>1
  <2>4. a[i] = f[i].filled - f[i - 1].filled /\ c[i] = a[i] * levels[i].price
    OBVIOUS
  <2> HIDE DEF a, c
  <2>5. /\ a[i] \in 0 .. size /\ a[i] <= levels[i].size
        /\ f[i].value = f[i - 1].value + a[i] * levels[i].price
    BY <2>2, <2>3, <2>4, FillTyped
  <2>6. f[i].filled \in Nat /\ f[i - 1].filled \in Nat
    BY <2>2 DEF Filling
  <2>7. a[i] \in Nat /\ c[i] \in Nat
    BY <2>3, <2>4, <2>5
  <2> QED
    BY <2>2, <2>4, <2>5, <2>6, <2>7
<1>7. \A i \in 1 .. n : a[i] \in Nat /\ c[i] \in Nat
  BY <1>6
<1>8. a \in [1 .. n -> 0 .. size]
  BY <1>6
<1>9. Value(levels, a) = Total(c, n)
  BY DEF Value, n
<1> HIDE DEF a, c
<1>10. PICK s : IsTotal(s, a, n)
  BY <1>1, <1>7, TotalUnfolds
<1>11. PICK v : IsTotal(v, c, n)
  BY <1>1, <1>7, TotalUnfolds
<1>12. /\ s[0] = 0 /\ Total(a, n) = s[n] /\ \A i \in 1 .. n : s[i] = s[i - 1] + a[i]
       /\ v[0] = 0 /\ Total(c, n) = v[n] /\ \A i \in 1 .. n : v[i] = v[i - 1] + c[i]
  BY <1>10, <1>11 DEF IsTotal
<1> DEFINE T == {i \in Nat : i <= n => s[i] = f[i].filled /\ v[i] = f[i].value}
<1>13. 0 \in T
  BY <1>1, <1>3, <1>12
<1>14. ASSUME NEW i \in T PROVE i + 1 \in T
  <2> SUFFICES ASSUME i + 1 <= n PROVE s[i + 1] = f[i + 1].filled /\ v[i + 1] = f[i + 1].value
    OBVIOUS
  <2> DEFINE k == i + 1
  <2>1. i \in Nat /\ k \in 1 .. n /\ k - 1 = i /\ i <= n
    BY <1>1
  <2>2. s[i] = f[i].filled /\ v[i] = f[i].value
    BY <2>1
  <2> HIDE DEF k
  <2>3. s[k] = f[k].filled /\ v[k] = f[k].value
    BY <1>6, <1>12, <2>1, <2>2
  <2> QED
    BY <2>3 DEF k
<1>15. T = Nat
  <2>1. T \in SUBSET Nat
    OBVIOUS
  <2> HIDE DEF T
  <2> QED
    BY <1>13, <1>14, <2>1, InductionOn
<1>16. Total(a, n) = size /\ Total(c, n) = w.value
  BY <1>1, <1>3, <1>5, <1>12, <1>15
<1>17. a \in Portions(levels, size)
  BY <1>6, <1>8, <1>16 DEF Portions, n
<1> QED
  BY <1>5, <1>9, <1>16, <1>17 DEF w

\* However far portions have got, the walk is ahead of them.
LEMMA WalkIsAhead ==
    ASSUME NEW levels, IsLadder(levels), NEW size \in Nat, NEW f, IsWalk(f, levels, size),
           NEW a \in Portions(levels, size), NEW s, IsTotal(s, a, Len(levels)), s[Len(levels)] = size,
           NEW i \in 0 .. Len(levels)
    PROVE  f[i].filled \in Nat /\ s[i] \in Nat /\ s[i] <= f[i].filled
<1> DEFINE n == Len(levels)
           T == {k \in Nat : k <= n => s[k] <= f[k].filled}
<1>1. n \in Nat /\ \A k \in 1 .. n : levels[k].price \in Nat /\ levels[k].size \in Nat
  BY DEF IsLadder
<1>2. \A k \in 1 .. n : a[k] \in Nat /\ a[k] <= levels[k].size
  BY DEF Portions
<1>3. /\ f \in [0 .. n -> Filling(size)] /\ f[0] = [filled |-> 0, value |-> 0]
      /\ \A k \in 1 .. n : f[k] = Fill(f[k - 1], levels[k], size)
  BY DEF IsWalk
<1>4. \A k \in 0 .. n : f[k] \in Filling(size) /\ f[k].filled \in Nat
  BY <1>3 DEF Filling
<1>5. s[0] = 0 /\ \A k \in 1 .. n : s[k] = s[k - 1] + a[k]
  BY DEF IsTotal
<1>6. \A k \in 0 .. n : s[k] \in Nat /\ s[k] <= size
  BY <1>1, <1>2, PartOfTotal
<1> HIDE DEF n
<1>7. 0 \in T
  BY <1>1, <1>4, <1>5
<1>8. ASSUME NEW k \in T PROVE k + 1 \in T
  <2> SUFFICES ASSUME k + 1 <= n PROVE s[k + 1] <= f[k + 1].filled
    OBVIOUS
  <2> DEFINE m == k + 1
  <2>1. k \in Nat /\ m \in 1 .. n /\ m - 1 = k /\ k \in 0 .. n /\ m \in 0 .. n
    BY <1>1
  <2>2. s[k] <= f[k].filled
    BY <2>1
  <2> HIDE DEF m
  <2>3. f[m] = Fill(f[k], levels[m], size)
    BY <1>3, <2>1
  <2>4. f[m].filled = size \/ f[m].filled = f[k].filled + levels[m].size
    <3>1. f[k] \in Filling(size) /\ levels[m].price \in Nat /\ levels[m].size \in Nat
      BY <1>1, <1>4, <2>1
    <3>2. \/ Fill(f[k], levels[m], size).filled = size
          \/ Fill(f[k], levels[m], size).filled = f[k].filled + levels[m].size
      BY <3>1, FillTyped
    <3> QED
      BY <2>3, <3>2
  <2>5. s[m] = s[k] + a[m] /\ s[m] <= size
    BY <1>5, <1>6, <2>1
  <2>6. s[m] <= f[m].filled
    <3>1. /\ s[m] \in Nat /\ s[k] \in Nat /\ a[m] \in Nat /\ a[m] <= levels[m].size /\ levels[m].size \in Nat
          /\ f[k].filled \in Nat /\ f[m].filled \in Nat
      BY <1>1, <1>2, <1>4, <1>6, <2>1
    <3> QED
      BY <2>2, <2>4, <2>5, <3>1
  <2> QED
    BY <2>6 DEF m
<1>9. T = Nat
  <2>1. T \in SUBSET Nat
    OBVIOUS
  <2> HIDE DEF T
  <2> QED
    BY <1>7, <1>8, <2>1, InductionOn
<1>10. i \in 0 .. n
  BY DEF n
<1>11. i \in Nat /\ i <= n
  BY <1>1, <1>10
<1> QED
  BY <1>4, <1>6, <1>9, <1>10, <1>11

\* One more level: what portions still lack can only be had at this price or a worse.
LEMMA OneLevelOn ==
    ASSUME NEW p \in Nat, NEW q \in Nat,              \* the price of this level and of the next
           NEW lag \in Nat, NEW v \in Nat, NEW w \in Nat,
           NEW g \in Nat, NEW b \in Nat, NEW more \in Nat, more + b = lag + g
    PROVE  /\ p <= q /\ w <= v + p * lag => w + q * g <= (v + q * b) + q * more
           /\ p >= q /\ w >= v + p * lag => w + q * g >= (v + q * b) + q * more
<1>1. q * (more + b) = q * more + q * b /\ q * (lag + g) = q * lag + q * g
  BY Splits
<1>2. q * more \in Nat /\ q * b \in Nat /\ q * lag \in Nat /\ q * g \in Nat /\ p * lag \in Nat
  BY Splits
<1>3. q * more + q * b = q * lag + q * g
  BY <1>1
<1>4. p <= q => p * lag <= q * lag
  BY DearerCostsMore
<1>5. p >= q => q * lag <= p * lag
  BY DearerCostsMore
<1> QED
  BY <1>2, <1>3, <1>4, <1>5

\* The walk costs the least of all portions if the prices rise, and brings the most if
\* they fall.
LEMMA WalkIsBest ==
    ASSUME NEW levels, IsLadder(levels), NEW size \in Nat, Complete(WalkBook(levels, size), size),
           NEW a \in Portions(levels, size)
    PROVE  /\ Value(levels, a) \in Nat
           /\ (\A i \in 2 .. Len(levels) : levels[i - 1].price <= levels[i].price)
              => WalkBook(levels, size).value <= Value(levels, a)
           /\ (\A i \in 2 .. Len(levels) : levels[i - 1].price >= levels[i].price)
              => WalkBook(levels, size).value >= Value(levels, a)
<1> DEFINE n == Len(levels)
           Rising == \A i \in 2 .. n : levels[i - 1].price <= levels[i].price
           Falling == \A i \in 2 .. n : levels[i - 1].price >= levels[i].price
<1>1. n \in Nat \ {0} /\ \A i \in 1 .. n : levels[i].price \in Nat /\ levels[i].size \in Nat
  BY DEF IsLadder
<1>2. PICK f : IsWalk(f, levels, size)
  BY WalkUnfolds
<1>3. PICK s, v :
         /\ IsTotal(s, a, n) /\ s[n] = size
         /\ v \in [0 .. n -> Nat] /\ v[0] = 0
         /\ \A i \in 1 .. n : v[i] = v[i - 1] + levels[i].price * a[i]
         /\ Value(levels, a) = v[n]
  BY PortionsGrow
<1>4. /\ f \in [0 .. n -> Filling(size)] /\ f[0] = [filled |-> 0, value |-> 0]
      /\ \A k \in 1 .. n : f[k] = Fill(f[k - 1], levels[k], size)
      /\ WalkBook(levels, size) = f[n]
  BY <1>2 DEF IsWalk
<1>5. \A i \in 0 .. n : f[i].filled \in Nat /\ s[i] \in Nat /\ s[i] <= f[i].filled
  BY <1>2, <1>3, WalkIsAhead
<1>6. \A i \in 0 .. n : f[i] \in Filling(size) /\ f[i].value \in Nat /\ v[i] \in Nat
  BY <1>3, <1>4 DEF Filling
<1>7. \A k \in 1 .. n : s[k] = s[k - 1] + a[k] /\ a[k] \in Nat
  <2>1. IsTotal(s, a, n)
    BY <1>3
  <2>2. \A k \in 1 .. n : s[k] = s[k - 1] + a[k]
    BY <2>1 DEF IsTotal
  <2>3. a \in [1 .. n -> 0 .. size]
    BY DEF Portions
  <2>4. \A k \in 1 .. n : a[k] \in Nat
    BY <2>3
  <2> QED
    BY <2>2, <2>4
<1>8. s[0] = 0 /\ f[0].filled = 0 /\ f[0].value = 0
  BY <1>3, <1>4 DEF IsTotal
<1>9. f[n].filled = size
  <2>1. f[n].filled >= size /\ f[n] \in Filling(size)
    BY <1>1, <1>4, <1>6 DEF Complete
  <2> QED
    BY <2>1 DEF Filling
<1> DEFINE g(k) == f[k].filled - f[k - 1].filled
           lag(k) == f[k].filled - s[k]
<1>10. \A k \in 0 .. n : lag(k) \in Nat
  BY <1>5
<1>11. ASSUME NEW k \in 1 .. n
       PROVE  /\ g(k) \in Nat /\ f[k].value = f[k - 1].value + levels[k].price * g(k)
              /\ lag(k) + a[k] = lag(k - 1) + g(k)
              /\ k \in 0 .. n /\ k - 1 \in 0 .. n
  <2>1. k \in 0 .. n /\ k - 1 \in 0 .. n /\ k \in 1 .. n
    BY <1>1
  <2>2. f[k] = Fill(f[k - 1], levels[k], size) /\ f[k - 1] \in Filling(size)
    BY <1>4, <1>6, <2>1
  <2>3. g(k) \in Nat /\ f[k].value = f[k - 1].value + g(k) * levels[k].price
    BY <1>1, <2>2, FillTyped
  <2>4. g(k) * levels[k].price = levels[k].price * g(k)
    BY <1>1, <2>3, Splits
  <2>5. lag(k) + a[k] = lag(k - 1) + g(k)
    <3>1. s[k] = s[k - 1] + a[k] /\ a[k] \in Nat
      BY <1>7
    <3>2. s[k] \in Nat /\ s[k - 1] \in Nat /\ f[k].filled \in Nat /\ f[k - 1].filled \in Nat
      BY <1>5, <2>1
    <3> DEFINE had == s[k - 1]
               has == s[k]
               was == f[k - 1].filled
               is == f[k].filled
    <3>3. has = had + a[k] /\ has \in Nat /\ had \in Nat /\ was \in Nat /\ is \in Nat /\ a[k] \in Nat
      BY <3>1, <3>2
    <3> HIDE DEF had, has, was, is
    <3>4. (is - has) + a[k] = (was - had) + (is - was)
      BY <3>3
    <3> QED
      BY <3>4 DEF had, has, was, is
  <2> QED
    BY <2>1, <2>3, <2>4, <2>5
<1> HIDE DEF g, lag
<1> DEFINE Ahead(k) == f[k].value <= v[k] + levels[k].price * lag(k)
           Behind(k) == f[k].value >= v[k] + levels[k].price * lag(k)
<1>12. Ahead(1) /\ Behind(1)
  <2>1. 1 \in 1 .. n /\ 1 - 1 = 0
    BY <1>1
  <2>2. /\ g(1) \in Nat /\ f[1].value = f[0].value + levels[1].price * g(1)
        /\ lag(1) + a[1] = lag(0) + g(1) /\ 1 \in 0 .. n /\ 0 \in 0 .. n
    BY <1>11, <2>1
  <2>3. v[1] = v[0] + levels[1].price * a[1]
    BY <1>3, <2>1
  <2>4. lag(0) = 0
    BY <1>8 DEF lag
  <2>5. lag(1) \in Nat /\ a[1] \in Nat /\ levels[1].price \in Nat
    BY <1>1, <1>7, <1>10, <2>1, <2>2
  <2>6. levels[1].price * (lag(1) + a[1]) = levels[1].price * lag(1) + levels[1].price * a[1]
        /\ levels[1].price * lag(1) \in Nat /\ levels[1].price * a[1] \in Nat
    BY <2>5, Splits
  <2>7. levels[1].price * g(1) = levels[1].price * lag(1) + levels[1].price * a[1]
    BY <2>2, <2>4, <2>6
  <2>8. v[0] = 0 /\ f[0].value = 0
    BY <1>3, <1>8
  <2> QED
    BY <2>2, <2>3, <2>6, <2>7, <2>8
<1>13. ASSUME NEW k \in 1 .. n, k + 1 <= n
       PROVE  (Rising /\ Ahead(k) => Ahead(k + 1)) /\ (Falling /\ Behind(k) => Behind(k + 1))
  <2> DEFINE m == k + 1
             p == levels[k].price
             q == levels[m].price
  <2>1. m \in 2 .. n /\ m \in 1 .. n /\ m - 1 = k /\ k \in 0 .. n /\ m \in 0 .. n
    BY <1>1, <1>13
  <2> HIDE DEF m
  <2>2. (Rising => p <= q) /\ (Falling => p >= q)
    BY <2>1
  <2>3. /\ g(m) \in Nat /\ f[m].value = f[k].value + q * g(m) /\ lag(m) + a[m] = lag(k) + g(m)
    BY <1>11, <2>1
  <2>4. v[m] = v[k] + q * a[m]
    BY <1>3, <2>1
  <2>5. /\ p \in Nat /\ q \in Nat /\ lag(k) \in Nat /\ lag(m) \in Nat /\ a[m] \in Nat
        /\ v[k] \in Nat /\ f[k].value \in Nat
    BY <1>1, <1>6, <1>7, <1>10, <2>1
  <2> HIDE DEF p, q
  <2>6. /\ p <= q /\ f[k].value <= v[k] + p * lag(k)
             => f[k].value + q * g(m) <= (v[k] + q * a[m]) + q * lag(m)
        /\ p >= q /\ f[k].value >= v[k] + p * lag(k)
             => f[k].value + q * g(m) >= (v[k] + q * a[m]) + q * lag(m)
    BY <2>3, <2>5, OneLevelOn
  <2>7. (Rising /\ Ahead(k) => Ahead(m)) /\ (Falling /\ Behind(k) => Behind(m))
    BY <2>2, <2>3, <2>4, <2>6 DEF p, q
  <2> QED
    BY <2>7 DEF m
<1> DEFINE T == {j \in Nat : j + 1 <= n => (Rising => Ahead(j + 1)) /\ (Falling => Behind(j + 1))}
<1> HIDE DEF Rising, Falling, Ahead, Behind, n
<1>14. 0 \in T
  BY <1>12
<1>15. ASSUME NEW j \in T PROVE j + 1 \in T
  <2> SUFFICES ASSUME j + 1 + 1 <= n
               PROVE  (Rising => Ahead(j + 1 + 1)) /\ (Falling => Behind(j + 1 + 1))
    OBVIOUS
  <2> DEFINE k == j + 1
  <2>1. j \in Nat /\ k \in 1 .. n /\ k + 1 <= n /\ j + 1 <= n
    BY <1>1
  <2>2. (Rising => Ahead(k)) /\ (Falling => Behind(k))
    BY <2>1
  <2> HIDE DEF k
  <2>3. (Rising => Ahead(k + 1)) /\ (Falling => Behind(k + 1))
    BY <1>13, <2>1, <2>2
  <2> QED
    BY <2>3 DEF k
<1>16. T = Nat
  <2>1. T \in SUBSET Nat
    OBVIOUS
  <2> HIDE DEF T
  <2> QED
    BY <1>14, <1>15, <2>1, InductionOn
<1>17. (Rising => Ahead(n)) /\ (Falling => Behind(n))
  <2>1. n - 1 \in Nat /\ n - 1 + 1 = n /\ n <= n
    BY <1>1
  <2>2. n - 1 \in T
    BY <1>16, <2>1
  <2>3. (Rising => Ahead(n - 1 + 1)) /\ (Falling => Behind(n - 1 + 1))
    BY <2>1, <2>2
  <2> QED
    BY <2>1, <2>3
<1>18. lag(n) = 0 /\ levels[n].price * lag(n) = 0 /\ n \in 0 .. n
  <2>1. lag(n) = 0
    BY <1>3, <1>9 DEF lag
  <2>2. levels[n].price \in Nat /\ n \in 0 .. n
    BY <1>1
  <2> QED
    BY <2>1, <2>2
<1>19. f[n].value \in Nat /\ v[n] \in Nat
  BY <1>6, <1>18
<1>20. (Rising => f[n].value <= v[n]) /\ (Falling => f[n].value >= v[n])
  BY <1>17, <1>18, <1>19 DEF Ahead, Behind
<1> QED
  BY <1>3, <1>4, <1>19, <1>20 DEF Rising, Falling, n

Directs == [asks : AskLadders, bids : BidLadders, mid : {[bid |-> 1, ask |-> 1]}, legs : {1}]
Synthetics == [asks : AskLadders, bids : BidLadders, mid : Intermediates, legs : {2}]

EconShape == [size : Nat, cex : Nat, dex : Nat, notional : Nat, fee : Nat, net : Int]

\* What an evaluation has found follows from what was captured and the pool's quote.
SellPriced(q, s) ==
    LET size == Notional \div q.asks[1].price
        fill == WalkBook(q.asks, size)
    IN  /\ Complete(fill, size)
        /\ s.econ = Economics("CEX_to_DEX", fill.filled, fill.value,
                              fill.filled * s.price * q.mid.bid, q.legs)

BuyPriced(q, s) ==
    LET size == Notional \div (s.price * q.mid.ask)
        fill == WalkBook(q.bids, size)
    IN  /\ Complete(fill, size)
        /\ s.econ = Economics("DEX_to_CEX", size, fill.value, Notional, q.legs)

SideSound(q, d, s) ==
    s.econ # Unpriced =>
        /\ s.price \in PoolPrices
        /\ d = "CEX_to_DEX" => SellPriced(q, s)
        /\ d = "DEX_to_CEX" => BuyPriced(q, s)

\* What was decided is the best of what was found, and what is done is what was decided.
ClaimSound ==
    /\ \E d \in Ways : claim = [dir |-> d, tier |-> side[d].tier, econ |-> side[d].econ]
    /\ side[claim.dir].econ # Unpriced
    /\ rowsOf = {Row(d, claim.dir) : d \in Ways}
    /\ \A d \in Ways : side[d].econ # Unpriced /\ Plausible(side[d].econ) /\ Clears(side[d].econ)
                       => side[d].econ.net <= claim.econ.net
    /\ phase \in {"decided", "over"}

Sides == [at : {"tier", "quote", "done"}, tier : FeeTiers \cup {OwnTier}, price : PoolPrices \cup {0},
          econ : {Unpriced} \cup EconShape]

ValuationInv ==
    /\ phase \in {"idle", "pricing", "decided", "over"}
    /\ phase # "idle" => quotes \in Directs \cup Synthetics
    /\ phase = "idle" =>
          /\ quotes = [asks |-> <<>>, bids |-> <<>>, mid |-> [bid |-> 1, ask |-> 1], legs |-> 1]
          /\ \A d \in Ways : side[d].econ = Unpriced
    /\ side \in [Ways -> Sides]
    /\ \A d \in Ways : SideSound(quotes, d, side[d])
    /\ (phase \in {"decided", "over"}) = (rowsOf # {})
    /\ claim # Unpriced => ClaimSound
    /\ plan # Unpriced /\ plan.legs # <<>> =>
          claim # Unpriced /\ plan = [legs |-> BuildLegs, pnl |-> claim.econ.net]

\* What can have been captured.
LEMMA Captured ==
    ASSUME NEW q \in Directs \cup Synthetics
    PROVE  /\ IsLadder(q.asks) /\ IsLadder(q.bids)
           /\ \A i \in 2 .. Len(q.asks) : q.asks[i - 1].price <= q.asks[i].price
           /\ \A i \in 2 .. Len(q.bids) : q.bids[i - 1].price >= q.bids[i].price
           /\ q.mid.bid \in Nat \ {0} /\ q.mid.ask \in Nat \ {0}
           /\ q.mid.ask \in {1} \cup {i.ask : i \in Intermediates}
           /\ q.legs \in {1, 2}
           /\ q.asks[1].price \in Nat \ {0} /\ Notional % q.asks[1].price = 0
           /\ q.asks \in AskLadders /\ q.bids \in BidLadders
<1>1. q.asks \in AskLadders /\ q.bids \in BidLadders /\ q.legs \in {1, 2}
  BY DEF Directs, Synthetics
<1>2. q.mid = [bid |-> 1, ask |-> 1] \/ q.mid \in Intermediates
  BY DEF Directs, Synthetics
<1>3. IsLadder(q.asks) /\ IsLadder(q.bids)
  BY <1>1, ValuationAssumption
<1>4. 1 \in 1 .. Len(q.asks)
  BY <1>3 DEF IsLadder
<1>5. q.asks[1].price \in Nat \ {0}
  BY <1>3, <1>4 DEF IsLadder
<1>6. /\ \A i \in 2 .. Len(q.asks) : q.asks[i - 1].price <= q.asks[i].price
      /\ \A i \in 2 .. Len(q.bids) : q.bids[i - 1].price >= q.bids[i].price
      /\ Notional % q.asks[1].price = 0
  BY <1>1, ValuationAssumption
<1>7. q.mid.bid \in Nat \ {0} /\ q.mid.ask \in Nat \ {0} /\ q.mid.ask \in {1} \cup {i.ask : i \in Intermediates}
  <2>1. CASE q.mid = [bid |-> 1, ask |-> 1]
    BY <2>1
  <2>2. CASE q.mid \in Intermediates
    <3>1. q.mid \in [bid : Nat \ {0}, ask : Nat \ {0}]
      BY <2>2, ValuationAssumption
    <3> QED
      BY <2>2, <3>1
  <2> QED
    BY <1>2, <2>1, <2>2
<1> QED
  BY <1>1, <1>3, <1>5, <1>6, <1>7

\* What is left out of account can be divided, and what a division makes is whole.
LEMMA Whole ==
    ASSUME NEW n \in Nat, NEW d \in Nat \ {0}
    PROVE  /\ n \div d \in Nat
           /\ n % d = 0 => (n \div d) * d = n
<1>1. n \div d \in Nat
  OBVIOUS
<1>2. ASSUME n % d = 0 PROVE n = d * (n \div d)
  BY <1>2
<1> DEFINE k == n \div d
<1>3. k \in Nat
  BY <1>1
<1> HIDE DEF k
<1>4. k * d = d * k
  BY <1>3
<1> QED
  BY <1>1, <1>2, <1>4 DEF k

\* A quote priced is a record of amounts.
LEMMA EconomicsTyped ==
    ASSUME NEW d, NEW size \in Nat, NEW cex \in Nat, NEW dex \in Nat, NEW legs \in {1, 2}
    PROVE  /\ Economics(d, size, cex, dex, legs) \in EconShape
           /\ Economics(d, size, cex, dex, legs) =
                 [size |-> size, cex |-> cex, dex |-> dex,
                  notional |-> IF d = "CEX_to_DEX" THEN cex ELSE dex,
                  fee |-> cex * TakerFee * legs,
                  net |-> Per * (IF d = "CEX_to_DEX" THEN dex - cex ELSE cex - dex)
                          - cex * TakerFee * legs - Per * Gas - Per * RotationCost]
           /\ RotationCost \in Nat
<1>1. /\ Per \in Nat /\ TakerFee \in Nat /\ Gas \in Nat /\ FloatQuote \in Nat \ {0}
      /\ WithdrawalFee \in Nat /\ BridgeGas \in Nat /\ Notional \in Nat
  BY ValuationAssumption
<1>2. RotationCost \in Nat
  <2>1. (WithdrawalFee + BridgeGas) * Notional \in Nat
    BY <1>1
  <2> QED
    BY <1>1, <2>1, Whole DEF RotationCost
<1>3. Economics(d, size, cex, dex, legs) =
         [size |-> size, cex |-> cex, dex |-> dex,
          notional |-> IF d = "CEX_to_DEX" THEN cex ELSE dex,
          fee |-> cex * TakerFee * legs,
          net |-> Per * (IF d = "CEX_to_DEX" THEN dex - cex ELSE cex - dex)
                  - cex * TakerFee * legs - Per * Gas - Per * RotationCost]
  BY DEF Economics, EconomicsWith, CexFee
<1>4. /\ cex * TakerFee * legs \in Nat /\ Per * Gas \in Nat /\ Per * RotationCost \in Nat
  <2>1. cex * TakerFee \in Nat /\ legs \in Nat
    BY <1>1
  <2>2. cex * TakerFee * legs \in Nat
    BY <2>1
  <2> QED
    BY <1>1, <1>2, <2>2
<1>5. Per * (IF d = "CEX_to_DEX" THEN dex - cex ELSE cex - dex) \in Int
  <2>1. Per * (dex - cex) \in Int /\ Per * (cex - dex) \in Int
    BY <1>1
  <2> QED
    BY <2>1
<1>6. Per * (IF d = "CEX_to_DEX" THEN dex - cex ELSE cex - dex)
      - cex * TakerFee * legs - Per * Gas - Per * RotationCost \in Int
  BY <1>4, <1>5
<1> QED
  BY <1>2, <1>3, <1>4, <1>6 DEF EconShape

\* An evaluation gets new fields, the others as they were.
Quoted(f, d, a, p, e) ==
    [f EXCEPT ![d].at = a, ![d].price = p, ![d].econ = e]
        = [f EXCEPT ![d] = [at |-> a, tier |-> f[d].tier, price |-> p, econ |-> e]]

Routed(f, d, a, t) ==
    [f EXCEPT ![d].at = a, ![d].tier = t]
        = [f EXCEPT ![d] = [at |-> a, tier |-> t, price |-> f[d].price, econ |-> f[d].econ]]

\* Fields written one by one make the record a whole.
LEMMA FieldsReplaced ==
    ASSUME NEW f \in [Ways -> Sides], NEW d \in Ways, NEW a, NEW t, NEW p, NEW e
    PROVE  Quoted(f, d, a, p, e) /\ Routed(f, d, a, t)
<1> DEFINE r == f[d]
           R == [at |-> a, tier |-> r.tier, price |-> r.price, econ |-> r.econ]
           S == [at |-> a, tier |-> r.tier, price |-> p, econ |-> r.econ]
           A == {"tier", "quote", "done"}
           T == FeeTiers \cup {OwnTier}
           P == PoolPrices \cup {0}
           E == {Unpriced} \cup EconShape
<1>1. r \in [at : A, tier : T, price : P, econ : E]
  BY DEF Sides
<1> HIDE DEF r, A, T, P, E
<1>2. [r EXCEPT !.at = a] = R
  BY <1>1
<1>3. /\ R \in [at : {a}, tier : T, price : P, econ : E] /\ R.tier = r.tier /\ R.econ = r.econ
      /\ R.at = a /\ R.price = r.price
  BY <1>1
<1> HIDE DEF R
<1>4. [R EXCEPT !.price = p] = [at |-> R.at, tier |-> R.tier, price |-> p, econ |-> R.econ]
  BY <1>3
<1>5. [R EXCEPT !.price = p] = S
  BY <1>3, <1>4
<1>6. [R EXCEPT !.tier = t] = [at |-> R.at, tier |-> t, price |-> R.price, econ |-> R.econ]
  BY <1>3
<1>7. /\ S \in [at : {a}, tier : T, price : {p}, econ : E] /\ S.at = a /\ S.tier = r.tier /\ S.price = p
  BY <1>1
<1> HIDE DEF S
<1>8. [S EXCEPT !.econ = e] = [at |-> S.at, tier |-> S.tier, price |-> S.price, econ |-> e]
  BY <1>7
<1>9. [f[d] EXCEPT !.at = a, !.price = p, !.econ = e] = [at |-> a, tier |-> f[d].tier, price |-> p, econ |-> e]
  <2>1. [r EXCEPT !.at = a, !.price = p, !.econ = e] = [[[r EXCEPT !.at = a] EXCEPT !.price = p] EXCEPT !.econ = e]
    OBVIOUS
  <2>2. [r EXCEPT !.at = a, !.price = p, !.econ = e] = [at |-> a, tier |-> r.tier, price |-> p, econ |-> e]
    BY <1>2, <1>5, <1>7, <1>8, <2>1
  <2> QED
    BY <2>2 DEF r
<1>10. [f[d] EXCEPT !.at = a, !.tier = t] = [at |-> a, tier |-> t, price |-> f[d].price, econ |-> f[d].econ]
  <2>1. [r EXCEPT !.at = a, !.tier = t] = [[r EXCEPT !.at = a] EXCEPT !.tier = t]
    OBVIOUS
  <2>2. [r EXCEPT !.at = a, !.tier = t] = [at |-> a, tier |-> t, price |-> r.price, econ |-> r.econ]
    BY <1>2, <1>3, <1>6, <2>1
  <2> QED
    BY <2>2 DEF r
<1>11. [f EXCEPT ![d].at = a, ![d].price = p, ![d].econ = e]
                 = [f EXCEPT ![d] = [at |-> a, tier |-> f[d].tier, price |-> p, econ |-> e]]
  BY <1>9
<1>12. [f EXCEPT ![d].at = a, ![d].tier = t]
                 = [f EXCEPT ![d] = [at |-> a, tier |-> t, price |-> f[d].price, econ |-> f[d].econ]]
  BY <1>10
<1> QED
  BY <1>11, <1>12 DEF Quoted, Routed

\* An evaluation ends with a price that follows from the quotes, or without one.
LEMMA SideReplaced ==
    ASSUME ValuationInv, phase = "pricing", NEW d \in Ways, NEW s \in Sides, SideSound(quotes, d, s),
           side' = [side EXCEPT ![d] = s], UNCHANGED <<quotes, rowsOf, claim, plan, phase>>
    PROVE  ValuationInv'
<1>1. claim = Unpriced
  BY DEF ValuationInv, ClaimSound
<1>2. side \in [Ways -> Sides] /\ \A e \in Ways : SideSound(quotes, e, side[e])
  BY DEF ValuationInv
<1>3. side' \in [Ways -> Sides]
  BY <1>2
<1>4. \A e \in Ways : SideSound(quotes, e, side'[e])
  BY <1>2
<1>5. ~(plan # Unpriced /\ plan.legs # <<>>)
  BY <1>1 DEF ValuationInv
<1>6. quotes' = quotes /\ claim' = claim /\ plan' = plan /\ phase' = phase /\ rowsOf' = rowsOf
  OBVIOUS
<1>7. \A e \in Ways : SideSound(quotes', e, side'[e])
  BY <1>4, <1>6
<1> QED
  BY <1>1, <1>3, <1>5, <1>6, <1>7 DEF ValuationInv

\* The sale's evaluation.
LEMMA SellKeeps ==
    ASSUME ValuationInv, SellQuoted
    PROVE  ValuationInv'
<1> DEFINE d == "CEX_to_DEX"
           size == Notional \div quotes.asks[1].price
           fill == WalkBook(quotes.asks, size)
<1>1. /\ phase = "pricing" /\ side[d].at = "quote" /\ Complete(fill, size)
      /\ UNCHANGED <<quotes, rowsOf, claim, plan, phase>>
  BY DEF SellQuoted
<1>2. PICK p \in PoolPrices :
         side' = [side EXCEPT ![d].at = "done", ![d].price = p,
                              ![d].econ = Economics(d, fill.filled, fill.value,
                                                    fill.filled * p * quotes.mid.bid, quotes.legs)]
  BY DEF SellQuoted, Found
<1> DEFINE e == Economics(d, fill.filled, fill.value, fill.filled * p * quotes.mid.bid, quotes.legs)
           s == [at |-> "done", tier |-> side[d].tier, price |-> p, econ |-> e]
<1>3. side \in [Ways -> Sides] /\ d \in Ways /\ quotes \in Directs \cup Synthetics
  BY <1>1 DEF ValuationInv, Ways
<1>4. /\ IsLadder(quotes.asks) /\ quotes.mid.bid \in Nat /\ quotes.legs \in {1, 2} /\ size \in Nat
      /\ p \in Nat
  <2>1. quotes.asks[1].price \in Nat \ {0} /\ Notional \in Nat /\ PoolPrices \subseteq Nat
    BY <1>3, Captured, ValuationAssumption
  <2>2. size \in Nat
    BY <2>1, Whole
  <2> QED
    BY <1>3, <2>1, <2>2, Captured
<1>5. fill.filled = size /\ fill.value \in Nat
  BY <1>1, <1>4, WalkIsPortions
<1> HIDE DEF size, fill
<1>6. fill.filled * p * quotes.mid.bid \in Nat
  <2>1. fill.filled * p \in Nat
    BY <1>4, <1>5
  <2> QED
    BY <1>4, <2>1
<1>7. e \in EconShape
  BY <1>4, <1>5, <1>6, EconomicsTyped
<1> HIDE DEF e
<1>8. s \in Sides
  BY <1>3, <1>7 DEF Sides
<1>9. side' = [side EXCEPT ![d] = s]
  <2>1. Quoted(side, d, "done", p, e)
    BY <1>3, FieldsReplaced
  <2> QED
    BY <1>2, <2>1 DEF Quoted, e
<1>10. SideSound(quotes, d, s)
  <2>1. SellPriced(quotes, s)
    BY <1>1 DEF SellPriced, e, fill, size
  <2> QED
    BY <2>1 DEF SideSound
<1> HIDE DEF s
<1> QED
  BY <1>1, <1>3, <1>8, <1>9, <1>10, SideReplaced

\* The purchase's, which may find too little depth.
LEMMA BuyKeeps ==
    ASSUME ValuationInv, BuyQuoted
    PROVE  ValuationInv'
<1> DEFINE d == "DEX_to_CEX"
           size(p) == Notional \div (p * quotes.mid.ask)
           fill(p) == WalkBook(quotes.bids, size(p))
           e(p) == Economics(d, size(p), fill(p).value, Notional, quotes.legs)
<1>1. /\ phase = "pricing" /\ side[d].at = "quote"
      /\ UNCHANGED <<quotes, rowsOf, claim, plan, phase>>
  BY DEF BuyQuoted
<1>2. PICK p \in PoolPrices :
         side' = [side EXCEPT ![d].at = "done", ![d].price = p,
                              ![d].econ = IF Complete(fill(p), size(p)) THEN e(p) ELSE Unpriced]
  BY DEF BuyQuoted, Found
<1> DEFINE found == IF Complete(fill(p), size(p)) THEN e(p) ELSE Unpriced
           s == [at |-> "done", tier |-> side[d].tier, price |-> p, econ |-> found]
<1>3. side \in [Ways -> Sides] /\ d \in Ways /\ quotes \in Directs \cup Synthetics
  BY <1>1 DEF ValuationInv, Ways
<1>4. /\ IsLadder(quotes.bids) /\ quotes.legs \in {1, 2} /\ size(p) \in Nat /\ Notional \in Nat
  <2>1. quotes.mid.ask \in Nat \ {0} /\ Notional \in Nat /\ p \in Nat \ {0}
    BY <1>3, Captured, ValuationAssumption
  <2>2. p * quotes.mid.ask \in Nat \ {0}
    BY <2>1
  <2>3. size(p) \in Nat
    BY <2>1, <2>2, Whole
  <2> QED
    BY <1>3, <2>1, <2>3, Captured
<1>5. Complete(fill(p), size(p)) => fill(p).filled = size(p) /\ fill(p).value \in Nat
  BY <1>4, WalkIsPortions
<1> HIDE DEF size, fill
<1>6. Complete(fill(p), size(p)) => e(p) \in EconShape
  BY <1>4, <1>5, EconomicsTyped
<1> HIDE DEF e
<1>7. found \in {Unpriced} \cup EconShape
  BY <1>6
<1> HIDE DEF found
<1>8. s \in Sides
  BY <1>3, <1>7 DEF Sides
<1>9. side' = [side EXCEPT ![d] = s]
  <2>1. Quoted(side, d, "done", p, found)
    BY <1>3, FieldsReplaced
  <2> QED
    BY <1>2, <2>1 DEF Quoted, found
<1>10. SideSound(quotes, d, s)
  <2>1. s.econ # Unpriced => BuyPriced(quotes, s)
    BY DEF BuyPriced, e, fill, size, found
  <2> QED
    BY <2>1 DEF SideSound
<1> HIDE DEF s
<1> QED
  BY <1>1, <1>3, <1>8, <1>9, <1>10, SideReplaced

\* Routing, and a direction that finds nothing.
LEMMA RestKeeps ==
    ASSUME ValuationInv, NEW d \in Ways, Route(d) \/ Unanswered(d)
    PROVE  ValuationInv'
<1>1. side \in [Ways -> Sides] /\ side[d] \in Sides /\ SideSound(quotes, d, side[d])
  BY DEF ValuationInv
<1>2. CASE Unanswered(d)
  <2> DEFINE s == [at |-> "done", tier |-> side[d].tier, price |-> 0, econ |-> Unpriced]
  <2>1. s \in Sides
    BY <1>1 DEF Sides
  <2>2. side' = [side EXCEPT ![d] = s]
    <3>1. Quoted(side, d, "done", 0, Unpriced)
      BY <1>1, FieldsReplaced
    <3> QED
      BY <1>2, <3>1 DEF Quoted, Unanswered, Found
  <2>3. SideSound(quotes, d, s)
    BY DEF SideSound
  <2> HIDE DEF s
  <2> QED
    BY <1>2, <2>1, <2>2, <2>3, SideReplaced DEF Unanswered
<1>3. CASE Route(d)
  <2>1. PICK t \in FeeTiers \cup {OwnTier} : side' = [side EXCEPT ![d].at = "quote", ![d].tier = t]
    BY <1>3 DEF Route
  <2> DEFINE s == [at |-> "quote", tier |-> t, price |-> side[d].price, econ |-> side[d].econ]
  <2>2. s \in Sides
    BY <1>1 DEF Sides
  <2>3. side' = [side EXCEPT ![d] = s]
    <3>1. Routed(side, d, "quote", t)
      BY <1>1, FieldsReplaced
    <3> QED
      BY <2>1, <3>1 DEF Routed
  <2>4. SideSound(quotes, d, s)
    BY <1>1 DEF SideSound, SellPriced, BuyPriced
  <2> HIDE DEF s
  <2> QED
    BY <1>3, <2>2, <2>3, <2>4, SideReplaced DEF Route
<1> QED
  BY <1>2, <1>3

\* What was decided stays decided.
LEMMA ClaimStays ==
    ASSUME ClaimSound, UNCHANGED <<side, rowsOf, claim>>, phase' \in {"decided", "over"}
    PROVE  ClaimSound'
<1>1. side' = side /\ rowsOf' = rowsOf /\ claim' = claim
  OBVIOUS
<1>2. \A d \in Ways : Row(d, claim.dir)' = Row(d, claim.dir)
  BY <1>1 DEF Row
<1>3. rowsOf' = {Row(d, claim.dir)' : d \in Ways}
  BY <1>1, <1>2 DEF ClaimSound
<1> QED
  BY <1>1, <1>3 DEF ClaimSound, Plausible, Clears

\* The decision takes the best of what clears the floor.
LEMMA DecideKeeps ==
    ASSUME ValuationInv, Decide
    PROVE  ValuationInv'
<1> DEFINE viable == {d \in Ways : side[d].econ # Unpriced
                                   /\ Plausible(side[d].econ) /\ Clears(side[d].econ)}
           top == {d \in viable : \A e \in viable : side[e].econ.net <= side[d].econ.net}
           best == IF top = {} THEN "none"
                   ELSE IF "CEX_to_DEX" \in top THEN "CEX_to_DEX" ELSE "DEX_to_CEX"
<1>1. /\ phase = "pricing" /\ phase' = "decided" /\ quotes' = quotes /\ side' = side /\ plan' = plan
      /\ rowsOf' = {Row(d, best) : d \in Ways}
      /\ claim' = IF best = "none" THEN Unpriced
                  ELSE [dir |-> best, tier |-> side[best].tier, econ |-> side[best].econ]
  BY DEF Decide
<1>2. claim = Unpriced
  BY <1>1 DEF ValuationInv, ClaimSound
<1>3. ~(plan # Unpriced /\ plan.legs # <<>>)
  BY <1>2 DEF ValuationInv
<1>4. top \subseteq Ways /\ (best # "none" => best \in top)
  BY DEF Ways
<1>5. \A d \in top : d \in viable /\ \A e \in viable : side[e].econ.net <= side[d].econ.net
  OBVIOUS
<1>6. \A d \in Ways : side[d].econ # Unpriced /\ Plausible(side[d].econ) /\ Clears(side[d].econ)
                      => d \in viable
  OBVIOUS
<1>7. \A d \in viable : side[d].econ # Unpriced
  OBVIOUS
<1> HIDE DEF viable, top, best
<1>8. rowsOf' # {}
  BY <1>1 DEF Ways
<1>9. ASSUME claim' # Unpriced PROVE ClaimSound'
  <2>1. best # "none"
    BY <1>1, <1>9
  <2>2. best \in Ways /\ best \in top
    BY <1>4, <2>1
  <2>3. /\ claim' = [dir |-> best, tier |-> side'[best].tier, econ |-> side'[best].econ]
        /\ claim'.dir = best /\ claim'.econ = side[best].econ
    BY <1>1, <2>1
  <2>4. side'[claim'.dir].econ # Unpriced
    BY <1>1, <1>5, <1>7, <2>2, <2>3
  <2>5. rowsOf' = {Row(d, claim.dir)' : d \in Ways}
    <3>1. \A d \in Ways : Row(d, best) = Row(d, claim.dir)'
      BY <1>1, <2>3 DEF Row
    <3> QED
      BY <1>1, <3>1
  <2>6. \A d \in Ways : side'[d].econ # Unpriced /\ Plausible(side'[d].econ) /\ Clears(side'[d].econ)
                        => side'[d].econ.net <= claim'.econ.net
    BY <1>1, <1>5, <1>6, <2>2, <2>3
  <2>7. ClaimSound' = ( /\ \E d \in Ways : claim' = [dir |-> d, tier |-> side'[d].tier, econ |-> side'[d].econ]
                        /\ side'[claim'.dir].econ # Unpriced
                        /\ rowsOf' = {Row(d, claim.dir)' : d \in Ways}
                        /\ \A d \in Ways : side'[d].econ # Unpriced /\ Plausible(side'[d].econ) /\ Clears(side'[d].econ)
                                           => side'[d].econ.net <= claim'.econ.net
                        /\ phase' \in {"decided", "over"})
    BY DEF ClaimSound, Plausible, Clears, NetFloor
  <2> QED
    BY <1>1, <2>2, <2>3, <2>4, <2>5, <2>6, <2>7
<1>10. /\ quotes \in Directs \cup Synthetics /\ side \in [Ways -> Sides]
       /\ \A d \in Ways : SideSound(quotes, d, side[d])
  BY <1>1 DEF ValuationInv
<1> QED
  BY <1>1, <1>3, <1>8, <1>9, <1>10 DEF ValuationInv

\* A captured book is one of those that can be.
LEMMA CaptureKeeps ==
    ASSUME ValuationInv, Capture
    PROVE  ValuationInv'
<1>1. /\ phase = "idle" /\ phase' = "pricing" /\ side' = side /\ rowsOf' = rowsOf
      /\ claim' = claim /\ plan' = plan
  BY DEF Capture
<1>2. quotes' \in Directs \cup Synthetics
  <2>1. PICK a \in AskLadders, b \in BidLadders :
           \/ quotes' = [asks |-> a, bids |-> b, mid |-> [bid |-> 1, ask |-> 1], legs |-> 1]
           \/ \E i \in Intermediates :
                 quotes' = [asks |-> a, bids |-> b, mid |-> i, legs |-> 2]
    BY DEF Capture
  <2> QED
    BY <2>1 DEF Directs, Synthetics
<1>3. claim = Unpriced
  BY <1>1 DEF ValuationInv, ClaimSound
<1>4. side \in [Ways -> Sides] /\ \A d \in Ways : side[d].econ = Unpriced
  BY <1>1 DEF ValuationInv
<1>5. \A d \in Ways : SideSound(quotes', d, side'[d])
  BY <1>1, <1>4 DEF SideSound
<1>6. rowsOf = {} /\ ~(plan # Unpriced /\ plan.legs # <<>>)
  BY <1>1, <1>3 DEF ValuationInv
<1> QED
  BY <1>1, <1>2, <1>3, <1>4, <1>5, <1>6 DEF ValuationInv

\* Carried out or refused, the rows and the claim stay what they were.
LEMMA OverKeeps ==
    ASSUME ValuationInv, Execute \/ Refuse
    PROVE  ValuationInv'
<1>1. /\ phase = "decided" /\ phase' = "over" /\ claim # Unpriced
      /\ quotes' = quotes /\ side' = side /\ rowsOf' = rowsOf /\ claim' = claim
  BY DEF Execute, Refuse
<1>2. ClaimSound'
  BY <1>1, ClaimStays DEF ValuationInv
<1>3. plan' # Unpriced /\ plan'.legs # <<>> => plan' = [legs |-> BuildLegs, pnl |-> claim.econ.net]
  BY DEF Execute, Refuse
<1>4. BuildLegs' = BuildLegs
  BY <1>1 DEF BuildLegs, Leg
<1> QED
  BY <1>1, <1>2, <1>3, <1>4 DEF ValuationInv

\* Every step of an evaluation keeps its invariant.
LEMMA ValuationInvariant == ValuationSpec => []ValuationInv
<1>1. ASSUME ValuationInit PROVE ValuationInv
  <2>1. /\ side = [d \in Ways |-> NotYet] /\ rowsOf = {} /\ claim = Unpriced /\ plan = Unpriced
        /\ phase = "idle"
        /\ quotes = [asks |-> <<>>, bids |-> <<>>, mid |-> [bid |-> 1, ask |-> 1], legs |-> 1]
    BY <1>1 DEF ValuationInit
  <2>2. NotYet \in Sides /\ NotYet.econ = Unpriced
    BY DEF NotYet, Sides
  <2>3. side \in [Ways -> Sides] /\ \A d \in Ways : side[d].econ = Unpriced
    BY <2>1, <2>2
  <2>4. \A d \in Ways : SideSound(quotes, d, side[d])
    BY <2>3 DEF SideSound
  <2> QED
    BY <2>1, <2>3, <2>4 DEF ValuationInv
<1>2. ASSUME ValuationInv, [ValuationNext]_valuationVars PROVE ValuationInv'
  <2>1. CASE UNCHANGED valuationVars
    <3>1. quotes' = quotes /\ side' = side /\ rowsOf' = rowsOf /\ claim' = claim /\ plan' = plan /\ phase' = phase
      BY <2>1 DEF valuationVars
    <3>2. claim' # Unpriced => ClaimSound'
      <4>1. claim # Unpriced => ClaimSound /\ phase \in {"decided", "over"}
        BY <1>2 DEF ValuationInv, ClaimSound
      <4> QED
        BY <3>1, <4>1, ClaimStays
    <3>3. BuildLegs' = BuildLegs
      BY <3>1 DEF BuildLegs, Leg
    <3> QED
      BY <1>2, <3>1, <3>2, <3>3 DEF ValuationInv
  <2>2. CASE Capture
    BY <1>2, <2>2, CaptureKeeps
  <2>3. CASE SellQuoted
    BY <1>2, <2>3, SellKeeps
  <2>4. CASE BuyQuoted
    BY <1>2, <2>4, BuyKeeps
  <2>5. CASE Decide
    BY <1>2, <2>5, DecideKeeps
  <2>6. CASE Execute \/ Refuse
    BY <1>2, <2>6, OverKeeps
  <2>7. CASE \E d \in Ways : Route(d) \/ Unanswered(d)
    BY <1>2, <2>7, RestKeeps
  <2> QED
    BY <1>2, <2>1, <2>2, <2>3, <2>4, <2>5, <2>6, <2>7 DEF ValuationNext
<1> QED
  BY <1>1, <1>2, PTL DEF ValuationSpec

\* Everything an evaluation keeps has its type: the quotes of detector.py, what either
\* direction found, the rows and the claim.
THEOREM ValuationTypeCorrect == ValuationSpec => []ValuationTypeOK
<1>1. ASSUME ValuationInv PROVE ValuationTypeOK
  <2>1. quotes.legs \in {1, 2} /\ quotes.mid \in [bid : Nat, ask : Nat \ {0}]
    <3>1. CASE phase = "idle"
      BY <1>1, <3>1 DEF ValuationInv
    <3>2. CASE phase # "idle"
      <4>1. quotes \in Directs \cup Synthetics
        BY <1>1, <3>2 DEF ValuationInv
      <4>2. quotes.legs \in {1, 2} /\ (quotes.mid = [bid |-> 1, ask |-> 1] \/ quotes.mid \in Intermediates)
        BY <4>1 DEF Directs, Synthetics
      <4>3. Intermediates \subseteq [bid : Nat \ {0}, ask : Nat \ {0}]
        BY ValuationAssumption
      <4> QED
        BY <4>2, <4>3
    <3> QED
      BY <3>1, <3>2
  <2>2. \A d \in Ways : side[d] \in Sides
    BY <1>1 DEF ValuationInv
  <2>3. claim # Unpriced => claim.dir \in Ways
    BY <1>1 DEF ValuationInv, ClaimSound
  <2>4. /\ phase \in {"idle", "pricing", "decided", "over"}
        /\ (phase \in {"decided", "over"}) = (rowsOf # {})
    BY <1>1 DEF ValuationInv
  <2>5. ASSUME NEW d \in Ways
        PROVE  /\ side[d].at \in {"tier", "quote", "done"}
               /\ side[d].tier \in FeeTiers \cup {OwnTier}
               /\ side[d].price \in PoolPrices \cup {0}
               /\ side[d].econ # Unpriced =>
                     side[d].econ \in [size : Nat, cex : Nat, dex : Nat, notional : Nat,
                                       fee : Nat, net : Int]
    BY <2>2 DEF Sides, EconShape
  <2> QED
    BY <2>1, <2>3, <2>4, <2>5 DEF ValuationTypeOK
<1> QED
  BY <1>1, ValuationInvariant, PTL

\* A size in whole units of a price: the price cancels.
LEMMA Cancels ==
    ASSUME NEW x \in Nat, NEW y \in Nat, NEW d \in Nat \ {0}, x * d = y * d
    PROVE  x = y
<1>1. ASSUME NEW u \in Nat, NEW v \in Nat, u < v, u * d = v * d PROVE FALSE
  <2> DEFINE w == v - u
  <2>1. w \in Nat \ {0} /\ v = u + w
    BY <1>1
  <2> HIDE DEF w
  <2>2. d * (u + w) = d * u + d * w /\ d * u \in Nat /\ d * w \in Nat
    BY <2>1, Splits
  <2>3. u * d = d * u /\ v * d = d * v
    BY <1>1, Splits
  <2>4. d * w = 0
    BY <1>1, <2>1, <2>2, <2>3
  <2> QED
    BY <2>1, <2>4
<1>2. x < y \/ y < x \/ x = y
  OBVIOUS
<1> QED
  BY <1>1, <1>2

\* Twice the fee of one order, and a fee of each of the two.
LEMMA FeesDiffer ==
    ASSUME NEW t \in Nat, NEW a \in Nat, NEW b \in Nat
    PROVE  /\ t * (a + b) - a * t * 2 = t * (b - a)
           /\ t * (a + b) - b * t * 2 = -(t * (b - a))
           /\ t * a - a * t * 1 = 0
           /\ t * (a + b) \in Nat /\ t * a \in Nat /\ t * (b - a) \in Int
<1>1. t * (a + b) = t * a + t * b /\ t * a \in Nat /\ t * b \in Nat /\ a * t = t * a /\ b * t = t * b
  BY Splits
<1>2. t * (b - a) = t * b - t * a
  <2>1. CASE a <= b
    <3> DEFINE w == b - a
    <3>1. w \in Nat /\ b = a + w
      BY <2>1
    <3> HIDE DEF w
    <3>2. t * (a + w) = t * a + t * w /\ t * w \in Nat
      BY <3>1, Splits
    <3>3. b - a = w
      BY <3>1
    <3>4. t * (b - a) = t * w
      BY <3>3
    <3> QED
      BY <1>1, <3>1, <3>2, <3>4
  <2>2. CASE b < a
    <3> DEFINE w == a - b
    <3>1. w \in Nat /\ a = b + w
      BY <2>2
    <3> HIDE DEF w
    <3>2. t * (b + w) = t * b + t * w /\ t * w \in Nat
      BY <3>1, Splits
    <3>3. b - a = -w
      BY <3>1
    <3>4. t * (b - a) = t * (-w) /\ t * (-w) = -(t * w)
      BY <3>1, <3>3
    <3> QED
      BY <1>1, <3>1, <3>2, <3>4
  <2> QED
    BY <2>1, <2>2
<1> DEFINE u == t * a
           v == t * b
<1>3. u \in Nat /\ v \in Nat /\ a * t = u /\ b * t = v /\ t * (a + b) = u + v /\ t * (b - a) = v - u /\ t * a = u
  BY <1>1, <1>2
<1> HIDE DEF u, v
<1> QED
  BY <1>3

\* The dearest way to sell is the walk, and the cheapest to buy.
LEMMA WalkIsOptimum ==
    ASSUME NEW levels, IsLadder(levels), NEW size \in Nat, Complete(WalkBook(levels, size), size)
    PROVE  LET worth == {Value(levels, a) : a \in Portions(levels, size)} IN
           /\ (\A i \in 2 .. Len(levels) : levels[i - 1].price <= levels[i].price)
              => Min(worth) = WalkBook(levels, size).value
           /\ (\A i \in 2 .. Len(levels) : levels[i - 1].price >= levels[i].price)
              => Max(worth) = WalkBook(levels, size).value
<1> DEFINE worth == {Value(levels, a) : a \in Portions(levels, size)}
           w == WalkBook(levels, size).value
           Rising == \A i \in 2 .. Len(levels) : levels[i - 1].price <= levels[i].price
           Falling == \A i \in 2 .. Len(levels) : levels[i - 1].price >= levels[i].price
<1>1. w \in Nat /\ w \in worth
  <2>1. \E a \in Portions(levels, size) : Value(levels, a) = w
    BY WalkIsPortions
  <2> QED
    BY <2>1, WalkIsPortions
<1>2. ASSUME NEW x \in worth
      PROVE  x \in Nat /\ (Rising => w <= x) /\ (Falling => x <= w)
  <2>1. PICK a \in Portions(levels, size) : x = Value(levels, a)
    OBVIOUS
  <2>2. /\ Value(levels, a) \in Nat /\ (Rising => w <= Value(levels, a))
        /\ (Falling => w >= Value(levels, a))
    BY WalkIsBest
  <2> QED
    BY <1>1, <2>1, <2>2
<1> HIDE DEF worth, w, Rising, Falling
<1>3. ASSUME Rising PROVE Min(worth) = w
  <2>1. worth \in SUBSET Nat /\ worth # {}
    BY <1>1, <1>2
  <2>2. Min(worth) \in worth /\ \A k \in worth : Min(worth) <= k
    BY <2>1, MinOf
  <2>3. Min(worth) <= w /\ w <= Min(worth) /\ Min(worth) \in Nat
    BY <1>1, <1>2, <1>3, <2>2
  <2> QED
    BY <1>1, <2>3
<1>4. ASSUME Falling PROVE Max(worth) = w
  <2>1. worth \in SUBSET (0 .. w) /\ worth # {}
    BY <1>1, <1>2, <1>4
  <2>2. Max(worth) \in worth /\ \A k \in worth : k <= Max(worth)
    BY <1>1, <2>1, MaxOf
  <2>3. Max(worth) <= w /\ w <= Max(worth) /\ Max(worth) \in Nat
    BY <1>1, <1>2, <1>4, <2>2
  <2> QED
    BY <1>1, <2>3
<1> QED
  BY <1>3, <1>4 DEF worth, w, Rising, Falling

\* What either direction claims, and what its orders move.
LEMMA SaleMoves ==
    ASSUME ValuationInv, claim # Unpriced, claim.dir = "CEX_to_DEX"
    PROVE  LET e == claim.econ
               q == quotes
           IN  /\ e = Economics("CEX_to_DEX", e.size, e.cex, e.dex, q.legs)
               /\ e.size \in Nat /\ e.cex \in Nat /\ e.dex \in Nat
               /\ Traded = <<e.cex, e.dex>>
<1> DEFINE s == side["CEX_to_DEX"]
           size == Notional \div quotes.asks[1].price
           fill == WalkBook(quotes.asks, size)
           dex == fill.filled * s.price * quotes.mid.bid
<1>1. /\ ClaimSound /\ phase # "idle" /\ quotes \in Directs \cup Synthetics
      /\ \A d \in Ways : SideSound(quotes, d, side[d])
  BY DEF ValuationInv, ClaimSound
<1>2. claim.econ = s.econ /\ s.econ # Unpriced
  BY <1>1 DEF ClaimSound
<1>3. SellPriced(quotes, s) /\ s.price \in PoolPrices
  BY <1>1, <1>2 DEF SideSound, Ways
<1>4. Complete(fill, size) /\ claim.econ = Economics("CEX_to_DEX", fill.filled, fill.value, dex, quotes.legs)
  BY <1>2, <1>3 DEF SellPriced
<1>5. /\ IsLadder(quotes.asks) /\ size \in Nat /\ quotes.legs \in {1, 2}
      /\ \A i \in 2 .. Len(quotes.asks) : quotes.asks[i - 1].price <= quotes.asks[i].price
      /\ quotes.mid.bid \in Nat /\ s.price \in Nat
  <2>1. quotes.asks[1].price \in Nat \ {0} /\ Notional \in Nat /\ PoolPrices \subseteq Nat
    BY <1>1, Captured, ValuationAssumption
  <2>2. size \in Nat
    BY <2>1, Whole
  <2> QED
    BY <1>1, <1>3, <2>1, <2>2, Captured
<1>6. /\ fill.filled = size /\ fill.value \in Nat
      /\ Min({Value(quotes.asks, a) : a \in Portions(quotes.asks, size)}) = fill.value
  BY <1>4, <1>5, WalkIsPortions, WalkIsOptimum
<1>7. dex \in Nat
  <2>1. fill.filled * s.price \in Nat
    BY <1>5, <1>6
  <2> QED
    BY <1>5, <2>1
<1>8. Traded = <<Min({Value(quotes.asks, a) : a \in Portions(quotes.asks, claim.econ.size)}),
                 claim.econ.size * s.price * quotes.mid.bid>>
  BY DEF Traded
<1>9. dex = fill.filled * s.price * quotes.mid.bid
  OBVIOUS
<1> HIDE DEF fill, size, s, dex
<1>10. claim.econ.size = size /\ claim.econ.cex = fill.value /\ claim.econ.dex = dex
  <2>1. LET x == Economics("CEX_to_DEX", fill.filled, fill.value, dex, quotes.legs)
        IN  x.size = fill.filled /\ x.cex = fill.value /\ x.dex = dex
    BY <1>5, <1>6, <1>7, EconomicsTyped
  <2> QED
    BY <1>4, <1>6, <2>1
<1>11. Traded = <<fill.value, dex>>
  BY <1>6, <1>8, <1>9, <1>10
<1> QED
  BY <1>4, <1>5, <1>6, <1>7, <1>10, <1>11

\* The same for a purchase, which swaps the whole of what it spends.
LEMMA PurchaseMoves ==
    ASSUME ValuationInv, claim # Unpriced, claim.dir = "DEX_to_CEX"
    PROVE  LET e == claim.econ
               q == quotes
           IN  /\ e = Economics("DEX_to_CEX", e.size, e.cex, e.dex, q.legs)
               /\ e.size \in Nat /\ e.cex \in Nat /\ e.dex \in Nat
               /\ Traded = <<e.dex, e.cex>>
               /\ e.size * side[claim.dir].price = Notional \div q.mid.ask
<1> DEFINE s == side["DEX_to_CEX"]
           ask == quotes.mid.ask
           size == Notional \div (s.price * ask)
           fill == WalkBook(quotes.bids, size)
           swapped == Notional \div ask
<1>1. /\ ClaimSound /\ phase # "idle" /\ quotes \in Directs \cup Synthetics
      /\ \A d \in Ways : SideSound(quotes, d, side[d])
  BY DEF ValuationInv, ClaimSound
<1>2. claim.econ = s.econ /\ s.econ # Unpriced
  BY <1>1 DEF ClaimSound
<1>3. BuyPriced(quotes, s) /\ s.price \in PoolPrices
  BY <1>1, <1>2 DEF SideSound, Ways
<1>4. Complete(fill, size) /\ claim.econ = Economics("DEX_to_CEX", size, fill.value, Notional, quotes.legs)
  BY <1>2, <1>3 DEF BuyPriced
<1>5. /\ IsLadder(quotes.bids) /\ quotes.legs \in {1, 2}
      /\ \A i \in 2 .. Len(quotes.bids) : quotes.bids[i - 1].price >= quotes.bids[i].price
      /\ ask \in Nat \ {0} /\ ask \in {1} \cup {i.ask : i \in Intermediates}
  BY <1>1, Captured
<1>6. /\ s.price \in Nat \ {0} /\ Notional \in Nat
      /\ Notional % ask = 0 /\ Notional % (s.price * ask) = 0
  BY <1>3, <1>5, ValuationAssumption
<1> DEFINE price == s.price
           unit == s.price * ask
<1>7. unit \in Nat \ {0} /\ price \in Nat \ {0} /\ unit = price * ask /\ unit = s.price * ask
  BY <1>5, <1>6
<1> HIDE DEF unit
<1>8. size = Notional \div unit
  BY <1>7
<1> HIDE DEF ask
<1>9. /\ size \in Nat /\ swapped \in Nat /\ size * unit = Notional /\ swapped * ask = Notional
  BY <1>5, <1>6, <1>7, <1>8, Whole
<1>10. size * price = swapped
  <2> HIDE DEF size, swapped, price
  <2>1. size * price \in Nat
    BY <1>7, <1>9
  <2>2. (size * price) * ask = size * (price * ask)
    BY <1>5, <1>7, <1>9
  <2>3. (size * price) * ask = swapped * ask
    BY <1>7, <1>9, <2>2
  <2> QED
    BY <1>5, <1>9, <2>1, <2>3, Cancels
<1>11. /\ fill.filled = size /\ fill.value \in Nat
       /\ Max({Value(quotes.bids, a) : a \in Portions(quotes.bids, size)}) = fill.value
  BY <1>4, <1>5, <1>9, WalkIsPortions, WalkIsOptimum
<1>12. claim.econ.size = size /\ claim.econ.cex = fill.value /\ claim.econ.dex = Notional
  BY <1>4, <1>5, <1>6, <1>9, <1>11, EconomicsTyped
<1>13. Traded = <<swapped * ask, Max({Value(quotes.bids, a) : a \in Portions(quotes.bids, claim.econ.size)})>>
  BY DEF Traded, ask
<1>14. side[claim.dir].price = price
  OBVIOUS
<1> HIDE DEF fill, size, swapped, price
<1>15. Traded = <<Notional, fill.value>>
  BY <1>9, <1>11, <1>12, <1>13
<1> QED
  BY <1>4, <1>6, <1>9, <1>10, <1>11, <1>12, <1>14, <1>15 DEF swapped, ask

\* The claim is off by the fee on what a synthetic pair's two orders differ by.
LEMMA ClaimAddsUp ==
    ASSUME ValuationInv, claim # Unpriced
    PROVE  LET off == IF quotes.legs = 2 THEN TakerFee * (Traded[2] - Traded[1]) ELSE 0
           IN  claim.econ.net - CashFlow = (IF claim.dir = "CEX_to_DEX" THEN off ELSE -off)
<1> DEFINE e == claim.econ
           cost == e.cex * TakerFee * quotes.legs
           rest == Per * Gas
           turn == Per * RotationCost
           diff == TakerFee * (Traded[2] - Traded[1])
<1>1. /\ claim.dir \in Ways /\ quotes.legs \in {1, 2}
  <2>1. ClaimSound /\ phase # "idle" /\ quotes \in Directs \cup Synthetics
    BY DEF ValuationInv, ClaimSound
  <2> QED
    BY <2>1, Captured DEF ClaimSound
<1>2. TakerFee \in Nat /\ Per \in Nat /\ Gas \in Nat
  BY ValuationAssumption
<1>3. RotationCost \in Nat
  BY <1>1, EconomicsTyped
<1>4. rest \in Nat /\ turn \in Nat
  BY <1>2, <1>3
<1>5. CashFlow = Per * (Traded[2] - Traded[1]) - FeesDue - rest - turn
  BY DEF CashFlow
<1> HIDE DEF cost, rest, turn, diff
<1>6. CASE claim.dir = "CEX_to_DEX"
  <2>1. /\ e = Economics("CEX_to_DEX", e.size, e.cex, e.dex, quotes.legs)
        /\ e.size \in Nat /\ e.cex \in Nat /\ e.dex \in Nat
        /\ Traded = <<e.cex, e.dex>>
    BY <1>6, SaleMoves
  <2>2. e.net = Per * (e.dex - e.cex) - cost - rest - turn
    <3>1. Economics("CEX_to_DEX", e.size, e.cex, e.dex, quotes.legs).net
             = Per * (e.dex - e.cex) - e.cex * TakerFee * quotes.legs - Per * Gas - Per * RotationCost
      BY <1>1, <2>1, EconomicsTyped
    <3> QED
      BY <2>1, <3>1 DEF cost, rest, turn
  <2> DEFINE x == e.cex
             y == e.dex
  <2>3. Traded[1] = x /\ Traded[2] = y /\ x \in Nat /\ y \in Nat
    BY <2>1
  <2>4. FeesDue = IF quotes.legs = 2 THEN TakerFee * (x + y) ELSE TakerFee * x
    BY <1>6, <2>3 DEF FeesDue
  <2>5. cost = IF quotes.legs = 2 THEN x * TakerFee * 2 ELSE x * TakerFee * 1
    BY <1>1 DEF cost
  <2>6. diff = TakerFee * (y - x)
    BY <2>3 DEF diff
  <2> DEFINE gain == Per * (y - x)
  <2>7. gain \in Int
    <3>1. Per * (y - x) \in Int
      BY <1>2, <2>3
    <3> QED
      BY <3>1
  <2>8. e.net = gain - cost - rest - turn /\ CashFlow = gain - FeesDue - rest - turn
    BY <1>5, <2>2, <2>3
  <2> HIDE DEF x, y, gain, e
  <2>9. /\ TakerFee * (x + y) - x * TakerFee * 2 = TakerFee * (y - x)
        /\ TakerFee * x - x * TakerFee * 1 = 0
        /\ TakerFee * (x + y) \in Nat /\ TakerFee * x \in Nat
    BY <1>2, <2>3, FeesDiffer
  <2>10. FeesDue - cost = (IF quotes.legs = 2 THEN diff ELSE 0) /\ FeesDue \in Nat /\ cost \in Nat
    <3>1. x * TakerFee * 2 \in Nat /\ x * TakerFee * 1 \in Nat
      BY <1>2, <2>3
    <3> QED
      BY <2>4, <2>5, <2>6, <2>9, <3>1
  <2>11. e.net - CashFlow = FeesDue - cost
    BY <1>4, <2>7, <2>8, <2>10
  <2> QED
    BY <1>6, <2>10, <2>11 DEF diff, e
<1>7. CASE claim.dir = "DEX_to_CEX"
  <2>1. /\ e = Economics("DEX_to_CEX", e.size, e.cex, e.dex, quotes.legs)
        /\ e.size \in Nat /\ e.cex \in Nat /\ e.dex \in Nat
        /\ Traded = <<e.dex, e.cex>>
    BY <1>7, PurchaseMoves
  <2>2. e.net = Per * (e.cex - e.dex) - cost - rest - turn
    <3>1. Economics("DEX_to_CEX", e.size, e.cex, e.dex, quotes.legs).net
             = Per * (e.cex - e.dex) - e.cex * TakerFee * quotes.legs - Per * Gas - Per * RotationCost
      BY <1>1, <2>1, EconomicsTyped
    <3> QED
      BY <2>1, <3>1 DEF cost, rest, turn
  <2> DEFINE x == e.dex
             y == e.cex
  <2>3. Traded[1] = x /\ Traded[2] = y /\ x \in Nat /\ y \in Nat
    BY <2>1
  <2>4. FeesDue = IF quotes.legs = 2 THEN TakerFee * (x + y) ELSE TakerFee * y
    BY <1>7, <2>3 DEF FeesDue
  <2>5. cost = IF quotes.legs = 2 THEN y * TakerFee * 2 ELSE y * TakerFee * 1
    BY <1>1 DEF cost
  <2>6. diff = TakerFee * (y - x)
    BY <2>3 DEF diff
  <2> DEFINE gain == Per * (y - x)
  <2>7. gain \in Int
    <3>1. Per * (y - x) \in Int
      BY <1>2, <2>3
    <3> QED
      BY <3>1
  <2>8. e.net = gain - cost - rest - turn /\ CashFlow = gain - FeesDue - rest - turn
    BY <1>5, <2>2, <2>3
  <2> HIDE DEF x, y, gain, e
  <2>9. /\ TakerFee * (x + y) - y * TakerFee * 2 = -(TakerFee * (y - x))
        /\ TakerFee * y - y * TakerFee * 1 = 0
        /\ TakerFee * (x + y) \in Nat /\ TakerFee * y \in Nat /\ TakerFee * (y - x) \in Int
    BY <1>2, <2>3, FeesDiffer
  <2>10. FeesDue - cost = -(IF quotes.legs = 2 THEN diff ELSE 0) /\ FeesDue \in Nat /\ cost \in Nat
    <3>1. y * TakerFee * 2 \in Nat /\ y * TakerFee * 1 \in Nat
      BY <1>2, <2>3
    <3> QED
      BY <2>4, <2>5, <2>6, <2>9, <3>1
  <2>11. e.net - CashFlow = FeesDue - cost
    BY <1>4, <2>7, <2>8, <2>10
  <2> QED
    BY <1>7, <2>10, <2>11 DEF diff, e
<1> QED
  BY <1>1, <1>6, <1>7 DEF Ways

\* The legs that are carried out add up to the result that is reported.
LEMMA LegsAddUp ==
    ASSUME ValuationInv, plan # Unpriced, plan.legs # <<>>
    PROVE  LET buy == plan.legs[1]  sell == plan.legs[2] IN
           /\ buy.side = "buy" /\ sell.side = "sell" /\ buy.size = sell.size
           /\ plan.pnl = Per * (sell.value - buy.value) - buy.fee - sell.fee
                         - Per * Gas - Per * RotationCost
<1>1. claim # Unpriced /\ plan.legs = BuildLegs /\ plan.pnl = claim.econ.net
  BY DEF ValuationInv
<1>2. claim.dir \in Ways /\ quotes.legs \in {1, 2}
  <2>1. ClaimSound /\ phase # "idle" /\ quotes \in Directs \cup Synthetics
    BY <1>1 DEF ValuationInv, ClaimSound
  <2> QED
    BY <2>1, Captured DEF ClaimSound
<1>3. TakerFee \in Nat /\ Per \in Nat /\ quotes.legs \in Nat
  BY <1>2, ValuationAssumption
<1> DEFINE e == claim.econ
<1>4. CASE claim.dir = "CEX_to_DEX"
  <2>1. /\ e = Economics("CEX_to_DEX", e.size, e.cex, e.dex, quotes.legs)
        /\ e.size \in Nat /\ e.cex \in Nat /\ e.dex \in Nat
    BY <1>1, <1>4, SaleMoves
  <2>2. /\ Economics("CEX_to_DEX", e.size, e.cex, e.dex, quotes.legs).net
             = Per * (e.dex - e.cex) - e.cex * TakerFee * quotes.legs - Per * Gas - Per * RotationCost
        /\ Economics("CEX_to_DEX", e.size, e.cex, e.dex, quotes.legs).fee = e.cex * TakerFee * quotes.legs
    BY <1>2, <2>1, EconomicsTyped
  <2>3. plan.pnl = Per * (e.dex - e.cex) - e.fee - Per * Gas - Per * RotationCost /\ e.fee \in Int
    <3>1. e.cex \in Nat
      BY <2>1
    <3>2. e.cex * TakerFee \in Nat
      BY <1>3, <3>1
    <3>3. e.cex * TakerFee * quotes.legs \in Int
      BY <1>3, <3>2
    <3> QED
      BY <1>1, <2>1, <2>2, <3>3
  <2>4. plan.legs = <<Leg("CEX", "buy", e.cex, e.fee), Leg("DEX", "sell", e.dex, 0)>>
    BY <1>1, <1>4 DEF BuildLegs
  <2>5. /\ plan.legs[1].side = "buy" /\ plan.legs[2].side = "sell"
        /\ plan.legs[1].size = plan.legs[2].size
        /\ plan.legs[1].value = e.cex /\ plan.legs[2].value = e.dex
        /\ plan.legs[1].fee = e.fee /\ plan.legs[2].fee = 0
    BY <2>4 DEF Leg
  <2> HIDE DEF e
  <2>6. Per * (e.dex - e.cex) \in Int
    BY <1>3, <2>1
  <2>7. Per * (e.dex - e.cex) - e.fee - 0 = Per * (e.dex - e.cex) - e.fee
    BY <2>3, <2>6
  <2> QED
    BY <2>3, <2>5, <2>7
<1>5. CASE claim.dir = "DEX_to_CEX"
  <2>1. /\ e = Economics("DEX_to_CEX", e.size, e.cex, e.dex, quotes.legs)
        /\ e.size \in Nat /\ e.cex \in Nat /\ e.dex \in Nat
    BY <1>1, <1>5, PurchaseMoves
  <2>2. /\ Economics("DEX_to_CEX", e.size, e.cex, e.dex, quotes.legs).net
             = Per * (e.cex - e.dex) - e.cex * TakerFee * quotes.legs - Per * Gas - Per * RotationCost
        /\ Economics("DEX_to_CEX", e.size, e.cex, e.dex, quotes.legs).fee = e.cex * TakerFee * quotes.legs
    BY <1>2, <2>1, EconomicsTyped
  <2>3. plan.pnl = Per * (e.cex - e.dex) - e.fee - Per * Gas - Per * RotationCost /\ e.fee \in Int
    <3>1. e.cex \in Nat
      BY <2>1
    <3>2. e.cex * TakerFee \in Nat
      BY <1>3, <3>1
    <3>3. e.cex * TakerFee * quotes.legs \in Int
      BY <1>3, <3>2
    <3> QED
      BY <1>1, <2>1, <2>2, <3>3
  <2>4. plan.legs = <<Leg("DEX", "buy", e.dex, 0), Leg("CEX", "sell", e.cex, e.fee)>>
    BY <1>1, <1>5 DEF BuildLegs
  <2>5. /\ plan.legs[1].side = "buy" /\ plan.legs[2].side = "sell"
        /\ plan.legs[1].size = plan.legs[2].size
        /\ plan.legs[1].value = e.dex /\ plan.legs[2].value = e.cex
        /\ plan.legs[1].fee = 0 /\ plan.legs[2].fee = e.fee
    BY <2>4 DEF Leg
  <2> HIDE DEF e
  <2>6. Per * (e.cex - e.dex) \in Int
    BY <1>3, <2>1
  <2>7. Per * (e.cex - e.dex) - 0 - e.fee = Per * (e.cex - e.dex) - e.fee
    BY <2>3, <2>6
  <2> QED
    BY <2>3, <2>5, <2>7
<1> QED
  BY <1>2, <1>4, <1>5 DEF Ways

\* A row that is not the claim's was not the better one.
LEMMA RowsTellWhy ==
    ASSUME ValuationInv, claim # Unpriced
    PROVE  /\ {r \in rowsOf : r.taken} =
                 {[dir |-> claim.dir, tier |-> claim.tier, econ |-> claim.econ,
                   floor |-> NetFloor, taken |-> TRUE]}
           /\ \A r \in rowsOf : r.econ # Unpriced /\ r.econ.net > claim.econ.net =>
                 \/ r.econ.net > SanityNet * r.econ.notional
                 \/ r.econ.net < r.floor * r.econ.notional
<1> DEFINE best == claim.dir
           own == [dir |-> claim.dir, tier |-> claim.tier, econ |-> claim.econ,
                   floor |-> NetFloor, taken |-> TRUE]
<1>1. /\ ClaimSound /\ side \in [Ways -> Sides]
  BY DEF ValuationInv
<1>2. /\ best \in Ways /\ claim.tier = side[best].tier /\ claim.econ = side[best].econ
      /\ rowsOf = {Row(d, best) : d \in Ways} /\ side[best].econ # Unpriced
  BY <1>1 DEF ClaimSound
<1>3. \A d \in Ways : /\ Row(d, best).taken = (d = best) /\ Row(d, best).econ = side[d].econ
                      /\ Row(d, best).floor = NetFloor
  BY DEF Row
<1>4. Row(best, best) = own
  BY <1>2 DEF Row
<1>5. \A d \in Ways : side[d].econ # Unpriced => side[d].econ \in EconShape
  BY <1>1 DEF Sides
<1>6. claim.econ.net \in Int
  BY <1>2, <1>5 DEF EconShape
<1> HIDE DEF best, own
<1>7. {r \in rowsOf : r.taken} = {own}
  <2>1. \A r \in rowsOf : r.taken => r = own
    BY <1>2, <1>3, <1>4
  <2>2. own \in rowsOf /\ own.taken
    BY <1>2, <1>3, <1>4
  <2> QED
    BY <2>1, <2>2
<1>8. ASSUME NEW r \in rowsOf, r.econ # Unpriced, r.econ.net > claim.econ.net
      PROVE  \/ r.econ.net > SanityNet * r.econ.notional
             \/ r.econ.net < r.floor * r.econ.notional
  <2>1. PICK d \in Ways : r = Row(d, best)
    BY <1>2
  <2>2. r.econ = side[d].econ /\ r.floor = NetFloor /\ side[d].econ \in EconShape
    BY <1>3, <1>5, <1>8, <2>1
  <2>3. r.econ.net \in Int /\ r.econ.notional \in Nat
    BY <2>2 DEF EconShape
  <2>4. SanityNet * r.econ.notional \in Int /\ NetFloor * r.econ.notional \in Int
    <3>1. SanityNet \in Int /\ NetFloor \in Int
      BY ValuationAssumption DEF NetFloor
    <3> QED
      BY <2>3, <3>1
  <2>5. ~(side[d].econ.net <= claim.econ.net)
    BY <1>6, <1>8, <2>2, <2>3
  <2>6. ~Plausible(side[d].econ) \/ ~Clears(side[d].econ)
    BY <1>1, <1>8, <2>2, <2>5 DEF ClaimSound
  <2> QED
    BY <2>2, <2>3, <2>4, <2>6 DEF Plausible, Clears
<1> QED
  BY <1>7, <1>8 DEF own

\* What costs.py and detector.py claim an opportunity is worth is what carrying it out
\* brings, and the rows and the legs of executor.py say the same.
THEOREM ClaimIsWorth == ValuationSpec => []ClaimIsCashFlow
<1>1. ASSUME ValuationInv PROVE ClaimIsCashFlow
  <2>1. ASSUME claim # Unpriced, claim.dir = "DEX_to_CEX"
        PROVE  claim.econ.size * side[claim.dir].price = Notional \div quotes.mid.ask
    BY <1>1, <2>1, PurchaseMoves
  <2> QED
    BY <1>1, <2>1, ClaimAddsUp, RowsTellWhy, LegsAddUp DEF ClaimIsCashFlow
<1> QED
  BY <1>1, ValuationInvariant, PTL

-----------------------------------------------------------------------------
(* Backtest *)

\* What a pair asks of a trade at least; only the strategy's own floor is validated.
FloorNotNegative == NetFloor >= 0

Rows == [ask : {Unpriced} \cup (Nat \ {0}), bid : Nat, price : Nat \ {0},
         gas : {Unpriced} \cup Nat, gwei : {Unpriced} \cup Nat, native : {Unpriced} \cup Nat]

\* Gas that can be worked out is an amount, in whatever order it is multiplied.
LEMMA GasIsAmount ==
    ASSUME NEW r \in Records, GasOf(r) # Unpriced
    PROVE  /\ GasOf(r) \in Nat
           /\ GasOf(r) = IF r.gas # Unpriced THEN r.gas ELSE r.gwei * r.native * GasUnits
           /\ r.gas # Unpriced \/ (r.gwei # Unpriced /\ r.native # Unpriced)
<1>1. r \in Rows /\ GasUnits \in Nat
  BY BacktestAssumption DEF Rows
<1>2. CASE r.gas # Unpriced
  BY <1>1, <1>2 DEF GasOf, Rows
<1>3. CASE r.gas = Unpriced
  <2>1. r.gwei # Unpriced /\ r.native # Unpriced /\ GasOf(r) = r.gwei * GasUnits * r.native
    BY <1>3 DEF GasOf
  <2> DEFINE g == r.gwei
             n == r.native
  <2>2. g \in Nat /\ n \in Nat
    BY <1>1, <2>1 DEF Rows
  <2> HIDE DEF g, n
  <2>3. g * GasUnits * n = g * n * GasUnits /\ g * GasUnits * n \in Nat
    BY <1>1, <2>2
  <2> QED
    BY <1>3, <2>1, <2>3 DEF g, n
<1> QED
  BY <1>2, <1>3

\* What a trade is worth, with its costs taken off one by one or all at once.
LEMMA CostsTakenOff ==
    ASSUME NEW p \in Nat, NEW x \in Nat, NEW y \in Nat, NEW g \in Nat, NEW t \in Nat,
           NEW f \in Nat, NEW c \in Nat
    PROVE  /\ p * (x - y) - c * f * 1 - p * g - p * t = p * (x - y - g - t) - f * c
           /\ p * (x - y - g - t) - f * c \in Int
<1>1. p * (x - y - g - t) = p * (x - y) - p * g - p * t
  OBVIOUS
<1>2. c * f * 1 = f * c /\ f * c \in Nat
  OBVIOUS
<1>3. p * (x - y) \in Int /\ p * g \in Int /\ p * t \in Int
  OBVIOUS
<1> QED
  BY <1>1, <1>2, <1>3

\* A trade of a row, priced, is a record of amounts.
LEMMA RowEconomics ==
    ASSUME NEW gas \in Nat, NEW d, NEW size \in Nat, NEW cex \in Nat, NEW dex \in Nat
    PROVE  EconomicsWith(gas, d, size, cex, dex, 1) \in EconShape
<1>1. Per \in Nat /\ TakerFee \in Nat
  BY ValuationAssumption
<1>2. RotationCost \in Nat
  <2>1. 1 \in {1, 2} /\ 0 \in Nat
    OBVIOUS
  <2> QED
    BY <2>1, EconomicsTyped
<1> DEFINE gross == IF d = "CEX_to_DEX" THEN dex - cex ELSE cex - dex
           fee == cex * TakerFee * 1
           net == Per * gross - fee - Per * gas - Per * RotationCost
<1>3. gross \in Int /\ fee \in Nat /\ Per * gas \in Int /\ Per * RotationCost \in Int
  BY <1>1, <1>2
<1>4. EconomicsWith(gas, d, size, cex, dex, 1) =
         [size |-> size, cex |-> cex, dex |-> dex,
          notional |-> IF d = "CEX_to_DEX" THEN cex ELSE dex, fee |-> fee, net |-> net]
  BY DEF EconomicsWith, CexFee
<1> HIDE DEF gross, fee
<1>5. net \in Int
  <2>1. Per * gross \in Int
    BY <1>1, <1>3
  <2> QED
    BY <1>3, <2>1
<1> HIDE DEF net
<1> QED
  BY <1>3, <1>4, <1>5 DEF EconShape

\* An opportunity of a row is worth what the row's prices bring.
LEMMA OfferIsTrue ==
    ASSUME NEW r \in Records, GasOf(r) # Unpriced, NEW v \in RowOffers(r)
    PROVE  /\ v.dir \in Ways /\ v.econ.net \in Int /\ v # Unpriced
           /\ v.econ.net = RowBrings(r, v.dir)
           /\ v.econ.net >= NetFloor * Notional
           /\ Notional <= LevelDepth * (IF v.dir = "CEX_to_DEX" THEN r.ask ELSE r.price)
<1> DEFINE gas == GasOf(r)
           sold == Notional \div r.ask
           bought == Notional \div r.price
<1>1. /\ r \in Rows /\ LevelDepth \in Nat
      /\ r.ask # Unpriced => Notional % r.ask = 0 /\ Notional % r.price = 0
  BY BacktestAssumption DEF Rows
<1>2. /\ Per \in Nat /\ TakerFee \in Nat /\ Notional \in Nat /\ RotationCost \in Nat
  <2>1. 1 \in {1, 2} /\ 0 \in Nat
    OBVIOUS
  <2>2. RotationCost \in Nat
    BY <2>1, EconomicsTyped
  <2> QED
    BY <2>2, ValuationAssumption
<1>3. gas \in Nat /\ gas = IF r.gas # Unpriced THEN r.gas ELSE r.gwei * r.native * GasUnits
  BY GasIsAmount
<1>4. Readable(r) /\ \E t \in RowTrades(r) :
         v = [dir |-> t.dir, econ |-> EconomicsWith(gas, t.dir, t.size, t.cex, t.dex, 1)]
  BY DEF RowOffers
<1>5. Clears(v.econ)
  BY DEF RowOffers
<1>6. PICK t \in RowTrades(r) :
         v = [dir |-> t.dir, econ |-> EconomicsWith(gas, t.dir, t.size, t.cex, t.dex, 1)]
  BY <1>4
<1>7. /\ r.ask \in Nat \ {0} /\ r.price \in Nat \ {0} /\ r.bid \in Nat
      /\ Notional % r.ask = 0 /\ Notional % r.price = 0
  BY <1>1, <1>4 DEF Readable, Rows
<1>8. sold \in Nat /\ bought \in Nat /\ sold * r.ask = Notional /\ bought * r.price = Notional
  BY <1>2, <1>7, Whole
<1>9. /\ t \in {[dir |-> "CEX_to_DEX", size |-> sold, cex |-> Notional, dex |-> sold * r.price],
               [dir |-> "DEX_to_CEX", size |-> bought, cex |-> bought * r.bid, dex |-> Notional]}
      /\ t.size <= LevelDepth
  BY <1>6 DEF RowTrades, PoolValue
<1>10. v.econ.net = Per * (IF t.dir = "CEX_to_DEX" THEN t.dex - t.cex ELSE t.cex - t.dex)
                    - t.cex * TakerFee * 1 - Per * gas - Per * RotationCost
       /\ v.econ.notional = (IF t.dir = "CEX_to_DEX" THEN t.cex ELSE t.dex) /\ v.dir = t.dir
  BY <1>6 DEF EconomicsWith, CexFee
<1>11. RowBrings(r, v.dir) =
          LET buy == IF v.dir = "CEX_to_DEX" THEN r.ask ELSE r.price
              sell == IF v.dir = "CEX_to_DEX" THEN r.price ELSE r.bid
              size == Notional \div buy
          IN  Per * (size * sell - Notional - gas - RotationCost)
              - TakerFee * (IF v.dir = "CEX_to_DEX" THEN Notional ELSE size * sell)
  BY <1>3 DEF RowBrings
<1>12. v.econ.net >= NetFloor * v.econ.notional
  BY <1>5 DEF Clears
<1>13. v # Unpriced
  <2>1. t.size \in Nat /\ t.cex \in Nat /\ t.dex \in Nat /\ t.dir \in Ways
    <3>1. sold * r.price \in Nat /\ bought * r.bid \in Nat
      BY <1>7, <1>8
    <3> QED
      BY <1>2, <1>8, <1>9, <3>1 DEF Ways
  <2>2. EconomicsWith(gas, t.dir, t.size, t.cex, t.dex, 1) \in EconShape
    BY <1>3, <2>1, RowEconomics
  <2> QED
    BY <1>6, <2>1, <2>2, BacktestAssumption DEF EconShape, gas
<1> HIDE DEF gas, sold, bought
<1>14. CASE t.dir = "CEX_to_DEX"
  <2> DEFINE x == sold * r.price
  <2>1. x \in Nat
    BY <1>7, <1>8
  <2>2. t.cex = Notional /\ t.dex = x /\ t.size = sold
    BY <1>9, <1>14
  <2>3. RowBrings(r, v.dir) = Per * (x - Notional - gas - RotationCost) - TakerFee * Notional
    BY <1>10, <1>11, <1>14 DEF sold
  <2> HIDE DEF x
  <2>4. v.econ.net = Per * (x - Notional) - Notional * TakerFee * 1 - Per * gas - Per * RotationCost
    BY <1>10, <1>14, <2>2
  <2>5. v.econ.net = RowBrings(r, v.dir) /\ v.econ.net \in Int
    BY <1>2, <1>3, <2>1, <2>3, <2>4, CostsTakenOff
  <2>6. Notional <= LevelDepth * r.ask
    <3>1. sold <= LevelDepth
      BY <1>9, <2>2
    <3> QED
      BY <1>1, <1>7, <1>8, <3>1, DearerCostsMore
  <2> QED
    BY <1>10, <1>12, <1>13, <1>14, <2>2, <2>5, <2>6 DEF Ways
<1>15. CASE t.dir = "DEX_to_CEX"
  <2> DEFINE x == bought * r.bid
  <2>1. x \in Nat
    BY <1>7, <1>8
  <2>2. t.cex = x /\ t.dex = Notional /\ t.size = bought
    BY <1>9, <1>15
  <2>3. RowBrings(r, v.dir) = Per * (x - Notional - gas - RotationCost) - TakerFee * x
    BY <1>10, <1>11, <1>15 DEF bought
  <2> HIDE DEF x
  <2>4. v.econ.net = Per * (x - Notional) - x * TakerFee * 1 - Per * gas - Per * RotationCost
    BY <1>10, <1>15, <2>2
  <2>5. v.econ.net = RowBrings(r, v.dir) /\ v.econ.net \in Int
    BY <1>2, <1>3, <2>1, <2>3, <2>4, CostsTakenOff
  <2>6. Notional <= LevelDepth * r.price
    <3>1. bought <= LevelDepth
      BY <1>9, <2>2
    <3> QED
      BY <1>1, <1>7, <1>8, <3>1, DearerCostsMore
  <2> QED
    BY <1>10, <1>12, <1>13, <1>15, <2>2, <2>5, <2>6 DEF Ways
<1> QED
  BY <1>9, <1>14, <1>15

\* A row has one opportunity at most.
LEMMA OneOffer ==
    ASSUME NEW r \in Records, GasOf(r) # Unpriced
    PROVE  RowOffers(r) = {} \/ \E v : RowOffers(r) = {v}
<1> DEFINE viable == {v \in {[dir |-> t.dir, econ |-> EconomicsWith(GasOf(r), t.dir, t.size, t.cex, t.dex, 1)] :
                                t \in (IF Readable(r) THEN RowTrades(r) ELSE {})} :
                         Plausible(v.econ) /\ Clears(v.econ)}
<1>1. ASSUME NEW v \in RowOffers(r), NEW w \in RowOffers(r) PROVE v = w
  <2>1. /\ v \in viable /\ w \in viable
        /\ \A u \in viable : u.econ.net < v.econ.net \/ (u.econ.net = v.econ.net /\ v.dir = "CEX_to_DEX") \/ u = v
        /\ \A u \in viable : u.econ.net < w.econ.net \/ (u.econ.net = w.econ.net /\ w.dir = "CEX_to_DEX") \/ u = w
    BY DEF RowOffers
  <2>2. v.econ.net \in Int /\ w.econ.net \in Int
    BY OfferIsTrue
  <2>3. \A a, b \in viable : a.dir = b.dir => a = b
    <3> SUFFICES ASSUME NEW a \in viable, NEW b \in viable, a.dir = b.dir PROVE a = b
      OBVIOUS
    <3>1. PICK s \in RowTrades(r) :
             a = [dir |-> s.dir, econ |-> EconomicsWith(GasOf(r), s.dir, s.size, s.cex, s.dex, 1)]
      OBVIOUS
    <3>2. PICK t \in RowTrades(r) :
             b = [dir |-> t.dir, econ |-> EconomicsWith(GasOf(r), t.dir, t.size, t.cex, t.dex, 1)]
      OBVIOUS
    <3>3. s.dir = t.dir
      BY <3>1, <3>2
    <3>4. s = t
      BY <3>3 DEF RowTrades
    <3> QED
      BY <3>1, <3>2, <3>4
  <2> HIDE DEF viable
  <2> QED
    BY <2>1, <2>2, <2>3
<1> QED
  BY <1>1

\* The sum of a longer list is the sum so far and the last of it.
LEMMA TotalOfNext ==
    ASSUME NEW n \in Nat, NEW a, NEW b, \A i \in 1 .. n : a[i] \in Nat /\ b[i] = a[i], b[n + 1] \in Nat
    PROVE  Total(b, n + 1) = Total(a, n) + b[n + 1] /\ Total(a, n) \in Nat
<1>1. \A i \in 1 .. n + 1 : b[i] \in Nat
  <2>1. \A i \in 1 .. n + 1 : i \in 1 .. n \/ i = n + 1
    OBVIOUS
  <2> QED
    BY <2>1
<1>2. n + 1 \in Nat
  OBVIOUS
<1>3. PICK s : IsTotal(s, a, n)
  BY TotalUnfolds
<1>4. PICK t : IsTotal(t, b, n + 1)
  BY <1>1, <1>2, TotalUnfolds
<1>5. /\ s \in [0 .. n -> Nat] /\ s[0] = 0 /\ \A i \in 1 .. n : s[i] = s[i - 1] + a[i]
      /\ Total(a, n) = s[n]
  BY <1>3 DEF IsTotal
<1>6. /\ t[0] = 0 /\ \A i \in 1 .. n + 1 : t[i] = t[i - 1] + b[i]
      /\ Total(b, n + 1) = t[n + 1]
  BY <1>4 DEF IsTotal
<1> DEFINE T == {i \in Nat : i <= n => s[i] = t[i]}
<1>7. 0 \in T
  BY <1>5, <1>6
<1>8. ASSUME NEW i \in T PROVE i + 1 \in T
  <2> SUFFICES ASSUME i + 1 <= n PROVE s[i + 1] = t[i + 1]
    OBVIOUS
  <2>1. i + 1 \in 1 .. n /\ i + 1 \in 1 .. n + 1 /\ i + 1 - 1 = i /\ i <= n
    OBVIOUS
  <2>2. s[i] = t[i]
    BY <2>1
  <2>3. s[i + 1] = s[i + 1 - 1] + a[i + 1] /\ t[i + 1] = t[i + 1 - 1] + b[i + 1] /\ b[i + 1] = a[i + 1]
    BY <1>5, <1>6, <2>1
  <2> QED
    BY <2>1, <2>2, <2>3
<1>9. T = Nat
  <2>1. T \in SUBSET Nat
    OBVIOUS
  <2> HIDE DEF T
  <2> QED
    BY <1>7, <1>8, <2>1, InductionOn
<1>10. s[n] = t[n]
  BY <1>9
<1>11. n + 1 \in 1 .. n + 1 /\ n + 1 - 1 = n /\ n \in 0 .. n
  OBVIOUS
<1>12. t[n + 1] = t[n + 1 - 1] + b[n + 1]
  BY <1>6, <1>11
<1>13. s[n] \in Nat
  BY <1>5, <1>11
<1> QED
  BY <1>5, <1>6, <1>10, <1>11, <1>12, <1>13

\* No numbers sum to nothing.
LEMMA TotalOfNone ==
    ASSUME NEW a
    PROVE  Total(a, 0) = 0
<1>1. 0 \in Nat /\ \A i \in 1 .. 0 : a[i] \in Nat
  OBVIOUS
<1>2. PICK t : IsTotal(t, a, 0)
  BY <1>1, TotalUnfolds
<1> QED
  BY <1>2 DEF IsTotal

\* What the simulator has counted, and what every trade of its report is.
Dealt(i) == sim.results[i].row

TradeTrue(h, t) ==
    /\ t.pnl = RowBrings(h[t.row], t.dir)
    /\ t.pnl >= NetFloor * Notional
    /\ Notional <= LevelDepth * (IF t.dir = "CEX_to_DEX" THEN h[t.row].ask
                                 ELSE h[t.row].price)

Dealings == [row : Nat, dir : Ways, pnl : Nat]

SimTyped ==
    /\ history \in Seq(Records) /\ Len(history) <= MaxRecords
    /\ sim \in [rows : 0 .. Len(history), found : Nat, refused : Nat, results : Seq(Dealings)]
    /\ budget \in [pnl : Nat, halted : {FALSE}, cap : NotionalCaps]
    /\ progress \in {"new", "running", "rejected", "over"}

SimInv ==
    /\ SimTyped
    /\ progress \in {"new", "rejected"} => sim.rows = 0
    /\ progress \in {"running", "over"} => \A i \in 1 .. Len(history) : GasOf(history[i]) # Unpriced
    /\ pending # Unpriced =>
          /\ progress = "running" /\ sim.rows > 0
          /\ pending \in RowOffers(history[sim.rows])
    /\ sim.found = sim.refused + Len(sim.results) + (IF pending = Unpriced THEN 0 ELSE 1)
    /\ sim.found <= sim.rows
    /\ \A i \in 1 .. Len(sim.results) :
          /\ 0 < Dealt(i) /\ Dealt(i) <= sim.rows /\ (pending # Unpriced => Dealt(i) < sim.rows)
          /\ TradeTrue(history, sim.results[i])
    /\ \A i, j \in 1 .. Len(sim.results) : i < j => Dealt(i) < Dealt(j)
    /\ budget.pnl = Total([i \in 1 .. Len(sim.results) |-> sim.results[i].pnl], Len(sim.results))

\* What the floor makes of a trade.
LEMMA TradesGain ==
    ASSUME FloorNotNegative
    PROVE  /\ NetFloor \in Nat /\ NetFloor * Notional \in Nat
           /\ \A p \in Nat : ~OverBudget(p)
<1>1. NetFloor \in Nat /\ Notional \in Nat /\ Per \in Nat \ {0} /\ LossLimit \in Nat \ {0}
  <2>1. MinNet \in Int /\ TransferRisk \in Int
    BY ValuationAssumption
  <2>2. NetFloor \in Int
    BY <2>1 DEF NetFloor
  <2> QED
    BY <2>2, ValuationAssumption, BacktestAssumption DEF FloorNotNegative
<1>2. NetFloor * Notional \in Nat
  BY <1>1
<1>3. Per * LossLimit \in Nat /\ Per * LossLimit # 0
  BY <1>1
<1> DEFINE limit == Per * LossLimit
<1>4. limit \in Nat \ {0}
  BY <1>3
<1> HIDE DEF limit
<1>5. \A p \in Nat : ~(p <= -limit)
  BY <1>4
<1> QED
  BY <1>1, <1>2, <1>5 DEF OverBudget, limit

\* The dataset is read, and every row of it can be costed or none is evaluated.
LEMMA ValidateKeeps ==
    ASSUME SimInv, Validate
    PROVE  SimInv'
<1>1. PICK n \in 0 .. MaxRecords : history' \in [1 .. n -> Records]
  BY DEF Validate
<1>2. /\ progress = "new" /\ sim' = sim /\ budget' = budget /\ pending' = pending
      /\ progress' = IF \E i \in DOMAIN history' : GasOf(history'[i]) = Unpriced
                     THEN "rejected" ELSE "running"
  BY DEF Validate
<1>3. n \in Nat /\ n <= MaxRecords /\ MaxRecords \in Nat
  BY BacktestAssumption
<1>4. history' \in Seq(Records) /\ Len(history') = n /\ DOMAIN history' = 1 .. Len(history')
  BY <1>1, <1>3
<1>5. sim.rows = 0 /\ pending = Unpriced
  BY <1>2 DEF SimInv
<1>6. SimTyped'
  <2> DEFINE R == Seq(Dealings)
             m == Len(history)
  <2>1. sim \in [rows : 0 .. m, found : Nat, refused : Nat, results : R]
    BY DEF SimInv, SimTyped
  <2> HIDE DEF R, m
  <2>2. sim \in [rows : 0 .. n, found : Nat, refused : Nat, results : R]
    BY <1>3, <1>5, <2>1
  <2>3. budget \in [pnl : Nat, halted : {FALSE}, cap : NotionalCaps]
    BY DEF SimInv, SimTyped
  <2> QED
    BY <1>2, <1>3, <1>4, <2>2, <2>3 DEF SimTyped, R
<1>7. \A i \in 1 .. Len(sim.results) : FALSE
  <2>1. \A i \in 1 .. Len(sim.results) : 0 < Dealt(i) /\ Dealt(i) <= sim.rows /\ Dealt(i) \in Nat
    <3>1. \A i \in 1 .. Len(sim.results) : sim.results[i] \in Dealings
      BY DEF SimInv, SimTyped
    <3>2. \A i \in 1 .. Len(sim.results) : Dealt(i) \in Nat
      BY <3>1 DEF Dealings, Dealt
    <3> QED
      BY <3>2 DEF SimInv
  <2> QED
    BY <1>5, <2>1
<1>8. progress' \in {"running", "over"} => \A i \in 1 .. Len(history') : GasOf(history'[i]) # Unpriced
  BY <1>2, <1>4
<1>9. /\ sim'.found = sim'.refused + Len(sim'.results) + 0 /\ sim'.found <= sim'.rows /\ sim'.rows = 0
      /\ budget'.pnl = Total([i \in 1 .. Len(sim'.results) |-> sim'.results[i].pnl], Len(sim'.results))
  BY <1>2, <1>5 DEF SimInv
<1> QED
  BY <1>2, <1>5, <1>6, <1>7, <1>8, <1>9 DEF SimInv

\* The fields of the simulator's counts, written together.
Counts(s, n, k, m, ts) == s = [rows |-> n, found |-> k, refused |-> m, results |-> ts]

\* What one of them is replaced with, the others kept.
LEMMA CountsReplaced ==
    ASSUME NEW R, NEW s \in [rows : Nat, found : Nat, refused : Nat, results : R],
           NEW n, NEW k, NEW m, NEW ts
    PROVE  /\ Counts([s EXCEPT !.rows = n, !.found = k], n, k, s.refused, s.results)
           /\ Counts([s EXCEPT !.refused = m], s.rows, s.found, m, s.results)
           /\ Counts([s EXCEPT !.results = ts], s.rows, s.found, s.refused, ts)
<1> DEFINE S == [rows |-> n, found |-> s.found, refused |-> s.refused, results |-> s.results]
<1>1. [s EXCEPT !.rows = n] = S
  OBVIOUS
<1>2. /\ S \in [rows : {n}, found : Nat, refused : Nat, results : R]
      /\ S.rows = n /\ S.refused = s.refused /\ S.results = s.results
  OBVIOUS
<1> HIDE DEF S
<1>3. [S EXCEPT !.found = k] = [rows |-> S.rows, found |-> k, refused |-> S.refused, results |-> S.results]
  BY <1>2
<1>4. [s EXCEPT !.rows = n, !.found = k] = [[s EXCEPT !.rows = n] EXCEPT !.found = k]
  OBVIOUS
<1>5. [s EXCEPT !.rows = n, !.found = k] = [rows |-> n, found |-> k, refused |-> s.refused, results |-> s.results]
  BY <1>1, <1>2, <1>3, <1>4
<1>6. [s EXCEPT !.refused = m] = [rows |-> s.rows, found |-> s.found, refused |-> m, results |-> s.results]
  OBVIOUS
<1>7. [s EXCEPT !.results = ts] = [rows |-> s.rows, found |-> s.found, refused |-> s.refused, results |-> ts]
  OBVIOUS
<1> QED
  BY <1>5, <1>6, <1>7 DEF Counts

\* What the types say of the numbers.
LEMMA SimNumbers ==
    ASSUME SimInv
    PROVE  /\ history \in Seq(Records) /\ Len(history) \in Nat
           /\ sim.rows \in Nat /\ sim.rows <= Len(history) /\ sim.found \in Nat /\ sim.refused \in Nat
           /\ sim.results \in Seq(Dealings) /\ Len(sim.results) \in Nat
           /\ sim \in [rows : Nat, found : Nat, refused : Nat, results : Seq(Dealings)]
           /\ budget.pnl \in Nat /\ budget.halted = FALSE /\ budget.cap \in NotionalCaps
           /\ budget \in [pnl : Nat, halted : {FALSE}, cap : NotionalCaps]
<1> DEFINE R == Seq(Dealings)
           n == Len(history)
<1>1. /\ sim \in [rows : 0 .. n, found : Nat, refused : Nat, results : R]
      /\ history \in Seq(Records) /\ n \in Nat
      /\ budget \in [pnl : Nat, halted : {FALSE}, cap : NotionalCaps]
  <2>1. SimTyped
    BY DEF SimInv
  <2>2. history \in Seq(Records)
    BY <2>1 DEF SimTyped
  <2>3. n \in Nat
    BY <2>2
  <2> QED
    BY <2>1, <2>2, <2>3 DEF SimTyped
<1> HIDE DEF R, n
<1>2. sim.rows \in 0 .. n /\ sim.found \in Nat /\ sim.refused \in Nat /\ sim.results \in R
  BY <1>1
<1>3. sim.rows \in Nat /\ sim.rows <= n
  BY <1>1, <1>2
<1>4. sim \in [rows : Nat, found : Nat, refused : Nat, results : R]
  BY <1>1, <1>3
<1>5. budget.pnl \in Nat /\ budget.halted = FALSE /\ budget.cap \in NotionalCaps
  BY <1>1
<1>6. sim.results \in Seq(Dealings)
  BY <1>2 DEF R
<1>7. Len(sim.results) \in Nat
  BY <1>6
<1> QED
  BY <1>1, <1>2, <1>3, <1>4, <1>5, <1>6, <1>7 DEF R, n

\* A row through the detector.
LEMMA EvaluateKeeps ==
    ASSUME SimInv, Evaluate
    PROVE  SimInv'
<1> DEFINE n == sim.rows + 1
           offers == RowOffers(history[n])
           k == sim.found + Cardinality(offers)
<1>1. /\ progress = "running" /\ pending = Unpriced /\ sim.rows < Len(history)
      /\ sim' = [sim EXCEPT !.rows = n, !.found = k]
      /\ pending' = (IF offers = {} THEN Unpriced ELSE CHOOSE v \in offers : TRUE)
      /\ history' = history /\ budget' = budget /\ progress' = progress
  BY DEF Evaluate
<1>2. /\ history \in Seq(Records) /\ n \in 1 .. Len(history) /\ n \in Nat
      /\ history[n] \in Records /\ GasOf(history[n]) # Unpriced
  <2>1. n \in 1 .. Len(history) /\ history \in Seq(Records)
    BY <1>1, SimNumbers
  <2> QED
    BY <1>1, <2>1 DEF SimInv
<1>3. \/ offers = {} /\ pending' = Unpriced
      \/ offers # {} /\ pending' \in offers /\ \E v : offers = {v}
  <2>1. offers = {} \/ \E v : offers = {v}
    BY <1>2, OneOffer
  <2> QED
    BY <1>1, <2>1
<1>4. pending' \in offers => pending' # Unpriced
  BY <1>2, OfferIsTrue
<1>5. Cardinality(offers) = IF pending' = Unpriced THEN 0 ELSE 1
  <2> HIDE DEF offers
  <2>1. CASE offers = {}
    BY <1>3, <2>1, FS_EmptySet
  <2>2. CASE offers # {}
    <3>1. PICK v : offers = {v}
      BY <1>3, <2>2
    <3>2. Cardinality({v}) = 1
      BY FS_Singleton
    <3> QED
      BY <1>3, <1>4, <2>2, <3>1, <3>2
  <2> QED
    BY <2>1, <2>2
<1>6. Counts(sim', n, k, sim.refused, sim.results)
  <2> DEFINE R == Seq(Dealings)
  <2>1. sim \in [rows : Nat, found : Nat, refused : Nat, results : R]
    BY SimNumbers
  <2> HIDE DEF R, n, k
  <2> QED
    BY <1>1, <2>1, CountsReplaced
<1>7. sim' = [rows |-> n, found |-> k, refused |-> sim.refused, results |-> sim.results]
  BY <1>6 DEF Counts
<1>8. k \in Nat /\ k <= n /\ n \in 0 .. Len(history)
      /\ k = sim.refused + Len(sim.results) + (IF pending' = Unpriced THEN 0 ELSE 1)
  <2>1. sim.found = sim.refused + Len(sim.results) + 0 /\ sim.found <= sim.rows
    BY <1>1 DEF SimInv
  <2>2. /\ sim.found \in Nat /\ sim.refused \in Nat /\ Len(sim.results) \in Nat /\ sim.rows \in Nat
        /\ Len(history) \in Nat
    BY SimNumbers
  <2> HIDE DEF offers
  <2> QED
    BY <1>1, <1>5, <2>1, <2>2
<1> HIDE DEF n, k, offers
<1>9. /\ sim'.rows = n /\ sim'.found = k /\ sim'.refused = sim.refused /\ sim'.results = sim.results
  BY <1>7
<1>10. SimTyped'
  <2>1. sim.refused \in Nat /\ sim.results \in Seq(Dealings)
    BY SimNumbers
  <2> DEFINE R == Seq(Dealings)
             m == Len(history)
  <2>2. sim.results \in R /\ n \in 0 .. m
    BY <1>8, <2>1
  <2> HIDE DEF R, m
  <2>3. sim' \in [rows : 0 .. m, found : Nat, refused : Nat, results : R]
    BY <1>7, <1>8, <2>1, <2>2
  <2> QED
    BY <1>1, <2>3 DEF SimInv, SimTyped, R, m
<1>11. ASSUME NEW i \in 1 .. Len(sim.results)
       PROVE  Dealt(i)' = Dealt(i) /\ 0 < Dealt(i) /\ Dealt(i) < n /\ TradeTrue(history, sim.results[i])
  <2>1. sim.results[i] \in Dealings
    BY SimNumbers
  <2>2. Dealt(i) \in Nat
    BY <2>1 DEF Dealt, Dealings
  <2>3. 0 < Dealt(i) /\ Dealt(i) <= sim.rows /\ TradeTrue(history, sim.results[i]) /\ sim.rows \in Nat
    BY SimNumbers DEF SimInv
  <2>4. Dealt(i)' = Dealt(i)
    BY <1>9 DEF Dealt
  <2> QED
    BY <2>2, <2>3, <2>4 DEF n
<1>12. ASSUME NEW i \in 1 .. Len(sim.results)
       PROVE  TradeTrue(history', sim'.results[i])
  BY <1>1, <1>9, <1>11 DEF TradeTrue
<1>13. \A i \in 1 .. Len(sim'.results) :
          /\ 0 < Dealt(i)' /\ Dealt(i)' <= sim'.rows /\ (pending' # Unpriced => Dealt(i)' < sim'.rows)
          /\ TradeTrue(history', sim'.results[i])
  <2>1. \A i \in 1 .. Len(sim.results) : Dealt(i) <= n
    <3>1. \A i \in 1 .. Len(sim.results) : sim.results[i] \in Dealings
      BY SimNumbers
    <3>2. \A i \in 1 .. Len(sim.results) : Dealt(i) \in Nat
      BY <3>1 DEF Dealt, Dealings
    <3> QED
      BY <1>8, <1>11, <3>2
  <2> QED
    BY <1>9, <1>11, <1>12, <2>1
<1>14. \A i, j \in 1 .. Len(sim'.results) : i < j => Dealt(i)' < Dealt(j)'
  BY <1>9, <1>11 DEF SimInv
<1>15. pending' # Unpriced =>
          /\ progress' = "running" /\ sim'.rows > 0 /\ pending' \in RowOffers(history'[sim'.rows])
  BY <1>1, <1>2, <1>3, <1>9 DEF offers
<1>16. /\ budget'.pnl = Total([i \in 1 .. Len(sim'.results) |-> sim'.results[i].pnl], Len(sim'.results))
       /\ progress' \notin {"new", "rejected"}
       /\ \A i \in 1 .. Len(history') : GasOf(history'[i]) # Unpriced
  BY <1>1, <1>9 DEF SimInv
<1> QED
  BY <1>8, <1>9, <1>10, <1>13, <1>14, <1>15, <1>16 DEF SimInv

\* A budget of a narrower type is one of a wider.
Budgets(P, H) == [pnl : P, halted : H, cap : NotionalCaps]

\* They widen with the types of their fields.
LEMMA BudgetWidens ==
    ASSUME NEW P, NEW P2, P \subseteq P2, NEW H, NEW H2, H \subseteq H2, NEW b \in Budgets(P, H)
    PROVE  b \in Budgets(P2, H2)
BY DEF Budgets

\* A trade that is not made is one refused.
LEMMA RefusalKeeps ==
    ASSUME SimInv, FloorNotNegative, NotPermitted \/ GateRefuses
    PROVE  SimInv'
<1> DEFINE m == sim.refused + 1
<1>1. /\ pending # Unpriced /\ sim' = [sim EXCEPT !.refused = m]
      /\ pending' = Unpriced /\ history' = history /\ progress' = progress
  BY DEF NotPermitted, GateRefuses
<1>2. Counts(sim', sim.rows, sim.found, m, sim.results)
  <2> DEFINE R == Seq(Dealings)
  <2>1. sim \in [rows : Nat, found : Nat, refused : Nat, results : R]
    BY SimNumbers
  <2> HIDE DEF R, m
  <2> QED
    BY <1>1, <2>1, CountsReplaced
<1>3. sim' = [rows |-> sim.rows, found |-> sim.found, refused |-> m, results |-> sim.results]
  BY <1>2 DEF Counts
<1>4. budget' = budget
  <2>1. CASE GateRefuses
    BY <2>1 DEF GateRefuses
  <2>2. CASE NotPermitted
    <3>1. ~OverBudget(budget.pnl) /\ budget \in [pnl : Nat, halted : {FALSE}, cap : NotionalCaps]
      BY SimNumbers, TradesGain
    <3>2. budget' = [budget EXCEPT !.halted = budget.halted \/ FALSE]
      BY <2>2, <3>1 DEF NotPermitted
    <3>3. (budget.halted \/ FALSE) = budget.halted
      BY <3>1
    <3>4. budget' = [budget EXCEPT !.halted = budget.halted]
      BY <3>2, <3>3
    <3> QED
      BY <3>1, <3>4
  <2> QED
    BY <2>1, <2>2
<1>5. m \in Nat /\ sim.found = m + Len(sim.results) + 0 /\ sim.found <= sim.rows
  <2>1. sim.found = sim.refused + Len(sim.results) + 1 /\ sim.found <= sim.rows
    BY <1>1 DEF SimInv
  <2>2. sim.refused \in Nat /\ Len(sim.results) \in Nat /\ sim.found \in Nat
    BY SimNumbers
  <2> QED
    BY <2>1, <2>2
<1> HIDE DEF m
<1>6. sim'.rows = sim.rows /\ sim'.found = sim.found /\ sim'.refused = m /\ sim'.results = sim.results
  BY <1>3
<1>7. SimTyped'
  <2> DEFINE R == Seq(Dealings)
             n == Len(history)
  <2>1. sim.rows \in 0 .. n /\ sim.found \in Nat /\ sim.results \in R
    <3>1. n \in Nat
      BY SimNumbers
    <3> HIDE DEF n
    <3> QED
      BY <3>1, SimNumbers DEF n
  <2> HIDE DEF R, n
  <2>2. sim' \in [rows : 0 .. n, found : Nat, refused : Nat, results : R]
    BY <1>3, <1>5, <2>1
  <2> QED
    BY <1>1, <1>4, <2>2 DEF SimInv, SimTyped, R, n
<1>8. \A i \in 1 .. Len(sim.results) : Dealt(i)' = Dealt(i) /\ TradeTrue(history', sim'.results[i]) = TradeTrue(history, sim.results[i])
  BY <1>1, <1>6 DEF Dealt, TradeTrue
<1> QED
  BY <1>1, <1>4, <1>5, <1>6, <1>7, <1>8 DEF SimInv

\* A trade is what its row's opportunity was, and adds to the sum of the results.
LEMMA TradeKeeps ==
    ASSUME SimInv, FloorNotNegative, Trade
    PROVE  SimInv'
<1> DEFINE n == Len(sim.results)
           t == [row |-> sim.rows, dir |-> pending.dir, pnl |-> pending.econ.net]
           ts == Append(sim.results, t)
           r == history[sim.rows]
           total == budget.pnl + pending.econ.net
<1>1. /\ pending # Unpriced /\ sim' = [sim EXCEPT !.results = ts]
      /\ budget' = [budget EXCEPT !.pnl = total, !.halted = budget.halted \/ OverBudget(total)]
      /\ pending' = Unpriced /\ history' = history /\ progress' = progress
  BY DEF Trade
<1>2. /\ progress = "running" /\ sim.rows > 0 /\ pending \in RowOffers(r)
      /\ history \in Seq(Records) /\ sim.rows \in 1 .. Len(history) /\ sim.rows \in Nat
  <2>1. progress = "running" /\ sim.rows > 0 /\ pending \in RowOffers(r)
    BY <1>1 DEF SimInv
  <2>2. history \in Seq(Records) /\ sim.rows \in Nat /\ sim.rows <= Len(history)
    BY SimNumbers
  <2>3. sim.rows \in 1 .. Len(history)
    BY <2>1, <2>2
  <2> QED
    BY <2>1, <2>2, <2>3
<1>3. r \in Records /\ GasOf(r) # Unpriced
  BY <1>2 DEF SimInv
<1>4. /\ pending.dir \in Ways /\ pending.econ.net \in Int
      /\ pending.econ.net = RowBrings(r, pending.dir)
      /\ pending.econ.net >= NetFloor * Notional
      /\ Notional <= LevelDepth * (IF pending.dir = "CEX_to_DEX" THEN r.ask ELSE r.price)
  BY <1>2, <1>3, OfferIsTrue
<1>5. pending.econ.net \in Nat
  <2>1. NetFloor * Notional \in Nat
    BY TradesGain
  <2> DEFINE least == NetFloor * Notional
  <2> HIDE DEF least
  <2> QED
    BY <1>4, <2>1 DEF least
<1>6. t \in Dealings
  BY <1>2, <1>4, <1>5 DEF Dealings
<1>7. /\ sim.results \in Seq(Dealings) /\ n \in Nat
      /\ ts \in Seq(Dealings) /\ Len(ts) = n + 1 /\ ts[n + 1] = t
      /\ \A i \in 1 .. n : ts[i] = sim.results[i]
  <2> HIDE DEF t
  <2>1. sim.results \in Seq(Dealings) /\ n \in Nat
    BY SimNumbers
  <2> QED
    BY <1>6, <2>1
<1>8. Counts(sim', sim.rows, sim.found, sim.refused, ts)
  <2> DEFINE R == Seq(Dealings)
  <2>1. sim \in [rows : Nat, found : Nat, refused : Nat, results : R]
    BY SimNumbers
  <2> HIDE DEF R, ts
  <2> QED
    BY <1>1, <2>1, CountsReplaced
<1>9. sim' = [rows |-> sim.rows, found |-> sim.found, refused |-> sim.refused, results |-> ts]
  BY <1>8 DEF Counts
<1>10. t.row = sim.rows /\ t.dir = pending.dir /\ t.pnl = pending.econ.net
  OBVIOUS
<1> HIDE DEF ts, t, n
<1>11. sim'.rows = sim.rows /\ sim'.found = sim.found /\ sim'.refused = sim.refused /\ sim'.results = ts
  BY <1>9
<1>12. total \in Nat /\ budget' \in [pnl : Nat, halted : {FALSE}, cap : NotionalCaps] /\ budget'.pnl = total
  <2>1. budget \in [pnl : Nat, halted : {FALSE}, cap : NotionalCaps] /\ budget.pnl \in Nat /\ budget.halted = FALSE
    BY SimNumbers
  <2>2. total \in Nat
    BY <1>5, <2>1
  <2>3. ~OverBudget(total)
    BY <2>2, TradesGain
  <2> DEFINE b == [budget EXCEPT !.pnl = total]
             h == budget.halted \/ OverBudget(total)
  <2>4. h = FALSE
    BY <2>1, <2>3
  <2> HIDE DEF total, h
  <2>5. b \in [pnl : Nat, halted : {FALSE}, cap : NotionalCaps] /\ b.pnl = total
    BY <2>1, <2>2
  <2>6. budget' = [b EXCEPT !.halted = h]
    BY <1>1 DEF h
  <2> HIDE DEF b
  <2> QED
    BY <2>2, <2>4, <2>5, <2>6
<1>13. SimTyped'
  <2> DEFINE R == Seq(Dealings)
             len == Len(history)
  <2>1. sim.rows \in 0 .. len /\ sim.found \in Nat /\ sim.refused \in Nat /\ ts \in R
    <3>1. len \in Nat
      BY SimNumbers
    <3> HIDE DEF len
    <3> QED
      BY <1>7, <3>1, SimNumbers DEF len
  <2> HIDE DEF R, len
  <2>2. sim' \in [rows : 0 .. len, found : Nat, refused : Nat, results : R]
    BY <1>9, <2>1
  <2> QED
    BY <1>1, <1>12, <2>2 DEF SimInv, SimTyped, R, len
<1>14. TradeTrue(history', t)
  BY <1>1, <1>4, <1>10 DEF TradeTrue
<1>15. ASSUME NEW i \in 1 .. n
       PROVE  /\ ts[i] = sim.results[i] /\ 0 < ts[i].row /\ ts[i].row < sim.rows /\ ts[i].row \in Nat
              /\ TradeTrue(history', ts[i])
  <2>1. ts[i] = sim.results[i]
    BY <1>7
  <2>2. 0 < ts[i].row /\ ts[i].row < sim.rows /\ TradeTrue(history, ts[i])
    BY <1>1, <2>1 DEF SimInv, n, Dealt
  <2>3. ts[i] \in Dealings
    BY <1>7, <2>1 DEF n
  <2> QED
    BY <1>1, <2>1, <2>2, <2>3 DEF Dealings
<1>16. ts[n + 1].row = sim.rows
  BY <1>7, <1>10
<1>17. \A i \in 1 .. n + 1 : i \in 1 .. n \/ i = n + 1
  BY <1>7
<1>18. ASSUME NEW i \in 1 .. n + 1
       PROVE  0 < ts[i].row /\ ts[i].row <= sim.rows /\ TradeTrue(history', ts[i])
  <2>1. CASE i \in 1 .. n
    BY <1>2, <1>15, <2>1
  <2>2. CASE i = n + 1
    BY <1>2, <1>7, <1>14, <1>16, <2>2
  <2> QED
    BY <1>17, <2>1, <2>2
<1>19. \A i \in 1 .. Len(sim'.results) :
          0 < Dealt(i)' /\ Dealt(i)' <= sim'.rows /\ TradeTrue(history', sim'.results[i])
  BY <1>7, <1>11, <1>18 DEF Dealt
<1>20. \A i, j \in 1 .. Len(sim'.results) : i < j => Dealt(i)' < Dealt(j)'
  <2> SUFFICES ASSUME NEW i \in 1 .. n + 1, NEW j \in 1 .. n + 1, i < j PROVE ts[i].row < ts[j].row
    BY <1>7, <1>11 DEF Dealt
  <2>1. i \in 1 .. n
    BY <1>7
  <2>2. CASE j \in 1 .. n
    <3>1. Dealt(i) < Dealt(j)
      BY <2>1, <2>2 DEF SimInv, n
    <3> QED
      BY <1>15, <2>1, <2>2, <3>1 DEF Dealt
  <2>3. CASE j = n + 1
    BY <1>15, <1>16, <2>1, <2>3
  <2> QED
    BY <1>17, <2>2, <2>3
<1>21. budget'.pnl = Total([i \in 1 .. Len(sim'.results) |-> sim'.results[i].pnl], Len(sim'.results))
  <2> DEFINE a == [i \in 1 .. n |-> sim.results[i].pnl]
             b == [i \in 1 .. n + 1 |-> ts[i].pnl]
  <2>1. \A i \in 1 .. n : sim.results[i].pnl \in Nat
    <3>1. \A i \in 1 .. n : sim.results[i] \in Dealings
      BY <1>7 DEF n
    <3> QED
      BY <3>1 DEF Dealings
  <2>2. ASSUME NEW i \in 1 .. n PROVE a[i] \in Nat /\ b[i] = a[i]
    <3>1. i \in 1 .. n + 1 /\ a[i] = sim.results[i].pnl /\ b[i] = ts[i].pnl
      BY <1>7
    <3> QED
      BY <1>15, <2>1, <3>1
  <2>3. b[n + 1] = pending.econ.net /\ b[n + 1] \in Nat
    BY <1>5, <1>7, <1>10
  <2>4. budget.pnl = Total(a, n)
    BY DEF SimInv, n
  <2> HIDE DEF a, b
  <2>5. Total(b, n + 1) = Total(a, n) + b[n + 1]
    BY <1>7, <2>2, <2>3, TotalOfNext
  <2>6. budget'.pnl = Total(b, n + 1)
    BY <1>12, <2>3, <2>4, <2>5
  <2> QED
    BY <1>7, <1>11, <2>6 DEF b
<1>22. sim'.found = sim'.refused + Len(sim'.results) + 0 /\ sim'.found <= sim'.rows
  <2>1. sim.found = sim.refused + n + 1 /\ sim.found <= sim.rows
    BY <1>1 DEF SimInv, n
  <2>2. sim.refused \in Nat /\ n \in Nat /\ sim.found \in Nat
    BY <1>7, SimNumbers
  <2> QED
    BY <1>7, <1>11, <2>1, <2>2
<1>23. progress' = "running" /\ \A i \in 1 .. Len(history') : GasOf(history'[i]) # Unpriced
  BY <1>1, <1>2 DEF SimInv
<1> QED
  BY <1>1, <1>11, <1>13, <1>19, <1>20, <1>21, <1>22, <1>23 DEF SimInv

\* Every step of a backtest keeps its invariant.
LEMMA SimInvariant ==
    ASSUME FloorNotNegative
    PROVE  BacktestSpec => []SimInv
<1>1. ASSUME BacktestInit PROVE SimInv
  <2>1. /\ history = <<>> /\ pending = Unpriced /\ progress = "new"
        /\ sim = [rows |-> 0, found |-> 0, refused |-> 0, results |-> <<>>]
        /\ budget \in [pnl : {0}, halted : {FALSE}, cap : NotionalCaps]
    BY <1>1 DEF BacktestInit
  <2>2. /\ Len(history) = 0 /\ history \in Seq(Records) /\ Len(sim.results) = 0
        /\ sim.results \in Seq(Dealings) /\ sim.rows = 0 /\ sim.found = 0 /\ sim.refused = 0
        /\ budget.pnl = 0
    BY <2>1
  <2>3. SimTyped
    <3> DEFINE R == Seq(Dealings)
               b == budget
    <3>1. <<>> \in R
      OBVIOUS
    <3> HIDE DEF R
    <3>2. sim \in [rows : 0 .. 0, found : Nat, refused : Nat, results : R]
      BY <2>1, <3>1
    <3>3. budget \in [pnl : Nat, halted : {FALSE}, cap : NotionalCaps]
      <4> DEFINE H == {FALSE}
      <4>1. budget \in Budgets({0}, H)
        BY <2>1, Zenon DEF Budgets
      <4> HIDE DEF H
      <4>2. {0} \subseteq Nat
        OBVIOUS
      <4>3. H \subseteq H
        OBVIOUS
      <4>4. budget \in Budgets(Nat, H)
        BY <4>1, <4>2, <4>3, BudgetWidens, Zenon
      <4> QED
        BY <4>4, Zenon DEF Budgets, H
    <3>4. sim \in [rows : 0 .. Len(history), found : Nat, refused : Nat, results : R]
      BY <2>2, <3>2
    <3>5. Len(history) <= MaxRecords /\ progress \in {"new", "running", "rejected", "over"}
      BY <2>1, <2>2, BacktestAssumption
    <3> QED
      BY <2>2, <3>3, <3>4, <3>5 DEF SimTyped, R
  <2>4. Total([i \in 1 .. Len(sim.results) |-> sim.results[i].pnl], 0) = 0
    BY TotalOfNone
  <2> QED
    BY <2>1, <2>2, <2>3, <2>4 DEF SimInv
<1>2. ASSUME SimInv, [BacktestNext]_backtestVars PROVE SimInv'
  <2>1. CASE Validate
    BY <1>2, <2>1, ValidateKeeps
  <2>2. CASE Evaluate
    BY <1>2, <2>2, EvaluateKeeps
  <2>3. CASE NotPermitted \/ GateRefuses
    BY <1>2, <2>3, RefusalKeeps
  <2>4. CASE Trade
    BY <1>2, <2>4, TradeKeeps
  <2>5. CASE Finish \/ UNCHANGED backtestVars
    <3>1. /\ sim' = sim /\ history' = history /\ budget' = budget /\ pending' = pending
          /\ progress' = progress \/ (progress = "running" /\ progress' = "over" /\ pending = Unpriced)
      BY <2>5 DEF Finish, backtestVars
    <3>2. \A i \in 1 .. Len(sim.results) : Dealt(i)' = Dealt(i) /\ TradeTrue(history', sim'.results[i]) = TradeTrue(history, sim.results[i])
      BY <3>1 DEF Dealt, TradeTrue
    <3>3. SimTyped'
      BY <1>2, <3>1 DEF SimInv, SimTyped
    <3> QED
      BY <1>2, <3>1, <3>2, <3>3 DEF SimInv
  <2> QED
    BY <1>2, <2>1, <2>2, <2>3, <2>4, <2>5 DEF BacktestNext
<1> QED
  BY <1>1, <1>2, PTL DEF BacktestSpec

\* What backtest/simulator.py keeps has its type, as long as no pair asks for less than
\* nothing.
THEOREM BacktestTypeCorrect ==
    ASSUME FloorNotNegative
    PROVE  BacktestSpec => []BacktestTypeOK
<1>1. ASSUME SimInv PROVE BacktestTypeOK
  <2>1. \A i \in DOMAIN sim.results : sim.results[i].dir \in Ways
    <3>1. sim.results \in Seq(Dealings)
      BY <1>1, SimNumbers
    <3>2. \A i \in DOMAIN sim.results : sim.results[i] \in Dealings
      BY <3>1
    <3> QED
      BY <3>2 DEF Dealings
  <2>2. \A i \in DOMAIN history : history[i] \in Records
    BY <1>1, SimNumbers
  <2>3. sim.rows \in 0 .. Len(history) /\ sim.found \in Nat /\ sim.refused \in Nat
    <3> DEFINE len == Len(history)
    <3>1. len \in Nat /\ sim.rows \in Nat /\ sim.rows <= len
      BY <1>1, SimNumbers
    <3> HIDE DEF len
    <3>2. sim.rows \in 0 .. len
      BY <3>1
    <3> QED
      BY <1>1, <3>2, SimNumbers DEF len
  <2>4. budget \in [pnl : Int, halted : BOOLEAN, cap : NotionalCaps]
    <3>1. budget \in [pnl : Nat, halted : {FALSE}, cap : NotionalCaps]
      BY <1>1, SimNumbers
    <3> DEFINE H == {FALSE}
    <3>2. budget \in Budgets(Nat, H)
      BY <3>1, Zenon DEF Budgets
    <3>3. Nat \subseteq Int
      OBVIOUS
    <3>4. H \subseteq BOOLEAN
      OBVIOUS
    <3> HIDE DEF H
    <3>5. budget \in Budgets(Int, BOOLEAN)
      BY <3>2, <3>3, <3>4, BudgetWidens, Zenon
    <3> QED
      BY <3>5, Zenon DEF Budgets
  <2>5. Len(history) <= MaxRecords /\ progress \in {"new", "running", "rejected", "over"}
    BY <1>1 DEF SimInv, SimTyped
  <2> QED
    BY <2>1, <2>2, <2>3, <2>4, <2>5 DEF BacktestTypeOK
<1> QED
  BY <1>1, SimInvariant, PTL

\* A report of the simulator accounts for every opportunity, every trade of it is worth
\* what the prices of its row bring, and without a gas cost nothing is evaluated.
THEOREM BacktestIsHonest ==
    ASSUME FloorNotNegative
    PROVE  BacktestSpec => []BacktestHonest
<1>1. ASSUME SimInv PROVE BacktestHonest
  <2>1. /\ sim.results \in Seq(Dealings) /\ history \in Seq(Records)
        /\ DOMAIN sim.results = 1 .. Len(sim.results) /\ DOMAIN history = 1 .. Len(history)
        /\ ~budget.halted
    <3>1. sim.results \in Seq(Dealings) /\ history \in Seq(Records)
      BY <1>1, SimNumbers
    <3>2. ~budget.halted
      BY <1>1, SimNumbers
    <3> QED
      BY <3>1, <3>2
  <2>2. /\ sim.found = sim.refused + Len(sim.results) + (IF pending = Unpriced THEN 0 ELSE 1)
        /\ sim.found <= sim.rows
        /\ \A i, j \in 1 .. Len(sim.results) : i < j => sim.results[i].row < sim.results[j].row
        /\ budget.pnl = Total([i \in 1 .. Len(sim.results) |-> sim.results[i].pnl], Len(sim.results))
    BY <1>1 DEF SimInv, Dealt
  <2>3. \A i \in 1 .. Len(sim.results) :
           LET t == sim.results[i]  r == history[t.row] IN
           /\ t.pnl = RowBrings(r, t.dir)
           /\ t.pnl >= NetFloor * Notional
           /\ Notional <= LevelDepth * (IF t.dir = "CEX_to_DEX" THEN r.ask ELSE r.price)
    BY <1>1 DEF SimInv, TradeTrue
  <2>4. ASSUME NEW i \in 1 .. Len(history), history[i].gas = Unpriced,
               Unpriced \in {history[i].gwei, history[i].native}
        PROVE  sim.rows = 0
    <3>1. GasOf(history[i]) = Unpriced
      BY <2>4 DEF GasOf
    <3>2. progress \in {"new", "rejected"}
      BY <1>1, <3>1 DEF SimInv, SimTyped
    <3> QED
      BY <1>1, <3>2 DEF SimInv
  <2> QED
    BY <2>1, <2>2, <2>3, <2>4 DEF BacktestHonest
<1> QED
  BY <1>1, SimInvariant, PTL

-----------------------------------------------------------------------------
(* DexSwap *)

\* A transaction in the pool is the one its call waits for, or has given up on.
AwaitedBy(t) ==
    IF t.kind = "approve"
    THEN \/ swap[t.call].at = "raised"
         \/ swap[t.call].at = "approving" /\ swap[t.call].receipt = "none"
    ELSE \/ swap[t.call].at = "raised"
         \/ swap[t.call].at = "sent" /\ swap[t.call].receipt = "none"

OneEach == \A t, u \in pool : t.call = u.call => t = u

\* A swap leaves only after its floor was found to be more than nothing.
FloorKept ==
    /\ \A c \in Calls : swap[c].at = "send" => MinOut(c) > 0
    /\ \A t \in pool : t.kind = "swap" => MinOut(t.call) > 0
    /\ \A c \in Calls : got[c] >= 0 => MinOut(c) > 0 /\ got[c] >= MinOut(c)

\* A receipt of success for a swap is of a swap that was mined.
ReceiptOfSwap ==
    \A c \in Calls :
        \/ swap[c].at = "success"
        \/ swap[c].at = "sent" /\ swap[c].receipt = "done"
        => got[c] >= 0

SwapInv ==
    /\ SwapTypeOK
    /\ \A t \in pool : AwaitedBy(t)
    /\ OneEach
    /\ FloorKept
    /\ ReceiptOfSwap
    /\ ExposureIsOneTrade

\* Rounded down, a floor is short by less than a unit.
LEMMA RoundedDown ==
    ASSUME NEW l \in Nat, NEW f \in Nat \ {0}
    PROVE  l \div f \in Nat /\ l < (l \div f + 1) * f
<1>1. l = f * (l \div f) + (l % f) /\ l % f < f /\ l \div f \in Int /\ l % f \in Int
  OBVIOUS
<1>2. (l \div f + 1) * f = f * (l \div f) + f
  BY <1>1
<1>3. l \div f >= 0
  OBVIOUS
<1> QED
  BY <1>1, <1>2, <1>3

\* The next number times a factor grows with the number.
LEMMA MoreIsMore ==
    ASSUME NEW a \in Int, NEW b \in Int, a <= b, NEW f \in Nat
    PROVE  (a + 1) * f <= (b + 1) * f
  OBVIOUS

\* Calls that have not begun and an empty pool satisfy the invariant.
LEMMA SwapStarts == SwapInit => SwapInv
  BY DexSwapAssumption
  DEF SwapInit, SwapInv, SwapTypeOK, Steps, Tx, AwaitedBy, OneEach, FloorKept,
      ReceiptOfSwap, ExposureIsOneTrade

\* Steps of a call that neither send nor touch the chain.
LEMMA CallSteps ==
    ASSUME SwapInv, NEW c \in Calls, NEW a \in Steps, NEW n \in Nat,
           swap' = [swap EXCEPT ![c] = [@ EXCEPT !.at = a, !.nonce = n]],
           swap[c].at \notin {"approving", "sent"},
           a \notin {"success", "sent", "approving"},
           a = "send" => MinOut(c) > 0,
           swap[c].at = "raised" => a = "raised",
           UNCHANGED <<mined, allowance, pool, got>>
    PROVE  SwapInv'
<1>1. SwapTypeOK'
  BY DEF SwapInv, SwapTypeOK
<1>2. \A t \in pool : AwaitedBy(t)'
  BY DEF SwapInv, SwapTypeOK, AwaitedBy, Tx
<1>3. FloorKept'
  BY DEF SwapInv, SwapTypeOK, FloorKept, MinOut
<1>4. ReceiptOfSwap'
  BY DEF SwapInv, SwapTypeOK, ReceiptOfSwap
<1> QED
  BY <1>1, <1>2, <1>3, <1>4 DEF SwapInv, OneEach, ExposureIsOneTrade

\* Every step of a call, of the chain and of the node keeps the invariant.
LEMMA SwapStep ==
    ASSUME SwapInv, [SwapNext]_swapVars
    PROVE  SwapInv'
<1> USE DexSwapAssumption
<1>1. SwapTypeOK
  BY DEF SwapInv
<1>2. CASE UNCHANGED swapVars
  BY <1>2 DEF swapVars, SwapInv, SwapTypeOK, AwaitedBy, OneEach, FloorKept,
              ReceiptOfSwap, ExposureIsOneTrade, MinOut
<1>3. ASSUME NEW c \in Calls, StartSwap(c) PROVE SwapInv'
  <2>1. swap' = [swap EXCEPT ![c] = [@ EXCEPT !.at = "allowance", !.nonce = swap[c].nonce]]
    BY <1>1, <1>3 DEF StartSwap, Goes, SwapTypeOK
  <2> QED
    BY <1>1, <1>3, <2>1, CallSteps DEF StartSwap, Goes, Steps, SwapTypeOK
<1>4. ASSUME NEW c \in Calls, ReadAllowance(c) PROVE SwapInv'
  <2> DEFINE a == IF allowance >= AmountIn[c] THEN "nonce" ELSE "approve nonce"
  <2>1. swap' = [swap EXCEPT ![c] = [@ EXCEPT !.at = a, !.nonce = swap[c].nonce]]
    BY <1>1, <1>4 DEF ReadAllowance, Goes, SwapTypeOK
  <2> QED
    BY <1>1, <1>4, <2>1, CallSteps DEF ReadAllowance, Goes, Steps, SwapTypeOK
<1>5. ASSUME NEW c \in Calls, ReadNonce(c) PROVE SwapInv'
  <2> DEFINE a == IF swap[c].at = "nonce" THEN "estimate" ELSE "approve"
  <2>1. swap' = [swap EXCEPT ![c] = [@ EXCEPT !.at = a, !.nonce = mined]]
    BY <1>1, <1>5 DEF ReadNonce, SwapTypeOK
  <2> QED
    BY <1>1, <1>5, <2>1, CallSteps DEF ReadNonce, Steps, SwapTypeOK
<1>6. ASSUME NEW c \in Calls, Estimate(c) PROVE SwapInv'
  <2>1. swap' = [swap EXCEPT ![c] = [@ EXCEPT !.at = "send", !.nonce = swap[c].nonce]]
    BY <1>1, <1>6 DEF Estimate, Goes, SwapTypeOK
  <2> QED
    BY <1>1, <1>6, <2>1, CallSteps DEF Estimate, Goes, Steps, SwapTypeOK
<1>7. ASSUME NEW c \in Calls, Send(c) PROVE SwapInv'
  <2> DEFINE k == IF swap[c].at = "send" THEN "swap" ELSE "approve"
             tx == [call |-> c, nonce |-> swap[c].nonce, kind |-> k]
  <2>1. pool' = pool \cup {tx} /\ swap[c].at \in {"approve", "send"}
    BY <1>7 DEF Send
  <2>2. \A d \in Calls : d # c => swap'[d] = swap[d]
    BY <1>1, <1>7 DEF Send, SwapTypeOK
  <2>3. /\ swap'[c].at = (IF swap[c].at = "send" THEN "sent" ELSE "approving")
        /\ swap'[c].receipt = "none"
    BY <1>1, <1>7 DEF Send, SwapTypeOK
  <2>4. tx \in Tx
    BY <1>1 DEF SwapTypeOK, Tx
  <2>5. SwapTypeOK'
    <3>1. swap' \in [Calls -> [at : Steps, nonce : Nat, receipt : {"none", "done", "reverted"}]]
      <4> DEFINE S == [at : Steps, nonce : Nat, receipt : {"none", "done", "reverted"}]
                 r == [swap[c] EXCEPT !.at = IF swap[c].at = "send" THEN "sent" ELSE "approving",
                                      !.receipt = "none"]
      <4>1. swap \in [Calls -> S]
        BY <1>1 DEF SwapTypeOK
      <4>2. r \in S
        BY <4>1, <2>1 DEF Steps
      <4>3. swap' = [swap EXCEPT ![c] = r]
        BY <1>1, <1>7 DEF Send, SwapTypeOK
      <4> HIDE DEF S, r
      <4>4. swap' \in [Calls -> S]
        BY <4>1, <4>2, <4>3
      <4> QED
        BY <4>4 DEF S
    <3>2. pool' \subseteq Tx
      BY <1>1, <2>1, <2>4 DEF SwapTypeOK
    <3> QED
      BY <1>1, <1>7, <3>1, <3>2 DEF Send, SwapTypeOK
  <2>6. \A t \in pool : t.call \in Calls /\ t.call # c
    BY <1>1, <2>1 DEF SwapInv, AwaitedBy, SwapTypeOK, Tx
  <2>7. \A t \in pool' : AwaitedBy(t)'
    BY <2>1, <2>2, <2>3, <2>6 DEF SwapInv, AwaitedBy
  <2>8. OneEach'
    BY <2>1, <2>6 DEF SwapInv, OneEach
  <2>9. got' = got /\ allowance' = allowance
    BY <1>7 DEF Send
  <2>10. FloorKept'
    BY <1>1, <2>1, <2>2, <2>3, <2>6, <2>9 DEF SwapInv, FloorKept, MinOut
  <2>11. ReceiptOfSwap'
    BY <1>1, <2>2, <2>3, <2>9 DEF SwapInv, ReceiptOfSwap
  <2> QED
    BY <2>5, <2>7, <2>8, <2>9, <2>10, <2>11 DEF SwapInv, ExposureIsOneTrade
<1>8. ASSUME NEW c \in Calls, ApprovalReceipt(c) PROVE SwapInv'
  <2>1. SwapTypeOK'
    BY <1>1, <1>8 DEF ApprovalReceipt, Goes, SwapTypeOK, Steps
  <2>2. \A t \in pool' : AwaitedBy(t)'
    BY <1>1, <1>8 DEF ApprovalReceipt, Goes, SwapInv, AwaitedBy, SwapTypeOK, Tx
  <2>3. FloorKept' /\ ReceiptOfSwap'
    BY <1>1, <1>8 DEF ApprovalReceipt, Goes, SwapInv, FloorKept, ReceiptOfSwap, MinOut, SwapTypeOK
  <2> QED
    BY <1>8, <2>1, <2>2, <2>3 DEF ApprovalReceipt, SwapInv, OneEach, ExposureIsOneTrade
<1>9. ASSUME NEW c \in Calls, SwapReceipt(c) PROVE SwapInv'
  <2>1. SwapTypeOK'
    BY <1>1, <1>9 DEF SwapReceipt, Goes, SwapTypeOK, Steps
  <2>2. \A t \in pool' : AwaitedBy(t)'
    BY <1>1, <1>9 DEF SwapReceipt, Goes, SwapInv, AwaitedBy, SwapTypeOK, Tx
  <2>3. FloorKept' /\ ReceiptOfSwap'
    BY <1>1, <1>9 DEF SwapReceipt, Goes, SwapInv, FloorKept, ReceiptOfSwap, MinOut, SwapTypeOK
  <2> QED
    BY <1>9, <2>1, <2>2, <2>3 DEF SwapReceipt, SwapInv, OneEach, ExposureIsOneTrade
<1>10. ASSUME NEW c \in Calls, SwapRaises(c) PROVE SwapInv'
  <2>1. SwapTypeOK'
    BY <1>1, <1>10 DEF SwapRaises, SwapTypeOK, Steps
  <2>2. \A t \in pool' : AwaitedBy(t)'
    BY <1>1, <1>10 DEF SwapRaises, SwapInv, AwaitedBy, SwapTypeOK, Tx
  <2>3. FloorKept' /\ ReceiptOfSwap'
    BY <1>1, <1>10 DEF SwapRaises, SwapInv, FloorKept, ReceiptOfSwap, MinOut, SwapTypeOK
  <2> QED
    BY <1>10, <2>1, <2>2, <2>3 DEF SwapRaises, SwapInv, OneEach, ExposureIsOneTrade
<1>11. CASE Mine
  <2>1. PICK t \in pool :
          /\ pool' = pool \ {t}
          /\ \/ /\ t.kind = "approve"
                /\ allowance' = Approval(t.call)
                /\ swap' = [swap EXCEPT ![t.call].receipt = "done"]
                /\ got' = got
             \/ /\ t.kind = "swap" /\ allowance >= AmountIn[t.call]
                /\ allowance' = allowance - AmountIn[t.call]
                /\ \E y \in Yields :
                      y >= MinOut(t.call) /\ got' = [got EXCEPT ![t.call] = y]
                /\ swap' = [swap EXCEPT ![t.call].receipt = "done"]
             \/ /\ swap' = [swap EXCEPT ![t.call].receipt = "reverted"]
                /\ allowance' = allowance /\ got' = got
    BY <1>11 DEF Mine
  <2>2. t \in Tx /\ AwaitedBy(t) /\ mined' = mined + 1
    BY <1>1, <1>11 DEF SwapInv, SwapTypeOK, Mine
  <2>3. /\ \A d \in Calls : d # t.call => swap'[d] = swap[d] /\ got'[d] = got[d]
        /\ swap'[t.call].at = swap[t.call].at /\ swap'[t.call].nonce = swap[t.call].nonce
    BY <1>1, <2>1, <2>2 DEF SwapTypeOK, Tx
  <2>4. SwapTypeOK'
    BY <1>1, <2>1, <2>2 DEF SwapTypeOK, Tx, Approval
  <2>5. \A u \in pool' : u \in pool /\ u.call \in Calls /\ u.call # t.call
    BY <1>1, <2>1 DEF SwapInv, OneEach, SwapTypeOK, Tx
  <2>6. \A u \in pool' : AwaitedBy(u)'
    BY <2>3, <2>5 DEF SwapInv, AwaitedBy
  <2>7. OneEach'
    BY <2>5 DEF SwapInv, OneEach
  <2>8. MinOut(t.call) \in Nat /\ \A y \in Yields : y \in Nat
    BY <2>2, RoundedDown DEF MinOut, Tx
  <2>9. \A c \in Calls : got'[c] >= 0 => MinOut(c) > 0 /\ got'[c] >= MinOut(c)
    <3>1. CASE got' = got
      BY <3>1 DEF SwapInv, FloorKept
    <3>2. CASE t.kind = "swap" /\ \E y \in Yields :
                  y >= MinOut(t.call) /\ got' = [got EXCEPT ![t.call] = y]
      <4>1. MinOut(t.call) > 0
        BY <3>2 DEF SwapInv, FloorKept
      <4> QED
        BY <1>1, <2>2, <2>3, <3>2, <4>1 DEF SwapInv, FloorKept, SwapTypeOK, Tx
    <3> QED
      BY <2>1, <3>1, <3>2
  <2>10. FloorKept'
    <3>1. \A c \in Calls : swap'[c].at = "send" => MinOut(c) > 0
      BY <2>3 DEF SwapInv, FloorKept
    <3> QED
      BY <2>5, <2>9, <3>1 DEF SwapInv, FloorKept, MinOut
  <2>11. ReceiptOfSwap'
    <3>1. \A c \in Calls : got[c] >= 0 => got'[c] >= 0
      BY <1>1, <2>1, <2>2, <2>3, <2>8 DEF SwapTypeOK, Tx
    <3>2. swap'[t.call].at = "sent" /\ swap'[t.call].receipt = "done" => got'[t.call] >= 0
      <4>1. CASE t.kind = "approve"
        BY <2>2, <2>3, <4>1 DEF AwaitedBy
      <4>2. CASE t.kind = "swap" /\ \E y \in Yields : got' = [got EXCEPT ![t.call] = y]
        BY <1>1, <2>2, <2>8, <4>2 DEF SwapTypeOK, Tx
      <4>3. CASE swap' = [swap EXCEPT ![t.call].receipt = "reverted"]
        BY <1>1, <2>2, <4>3 DEF SwapTypeOK, Tx
      <4> QED
        BY <2>1, <4>1, <4>2, <4>3
    <3>3. \A c \in Calls : swap'[c].at = "success" => got'[c] >= 0
      BY <2>3, <3>1 DEF SwapInv, ReceiptOfSwap
    <3> QED
      BY <2>2, <2>3, <3>1, <3>2, <3>3 DEF SwapInv, ReceiptOfSwap
  <2>12. ExposureIsOneTrade'
    <3>1. CASE allowance' = Approval(t.call)
      BY <2>2, <3>1 DEF ExposureIsOneTrade, Approval, Tx
    <3>2. CASE allowance' = allowance
      BY <3>2 DEF SwapInv, ExposureIsOneTrade
    <3>3. CASE allowance' = allowance - AmountIn[t.call]
      BY <1>1, <2>2, <3>3 DEF SwapInv, ExposureIsOneTrade, SwapTypeOK, Tx
    <3> QED
      BY <2>1, <3>1, <3>2, <3>3
  <2> QED
    BY <2>4, <2>6, <2>7, <2>10, <2>11, <2>12 DEF SwapInv
<1>12. CASE Forgotten
  BY <1>12 DEF Forgotten, SwapInv, SwapTypeOK, AwaitedBy, OneEach, FloorKept,
               ReceiptOfSwap, ExposureIsOneTrade, MinOut
<1> QED
  BY <1>2, <1>3, <1>4, <1>5, <1>6, <1>7, <1>8, <1>9, <1>10, <1>11, <1>12 DEF SwapNext

\* DexSwap keeps its types: for any calls, however they overlap, no allowance or nonce
\* is out of range and a transaction in the pool belongs to a call.
THEOREM SwapTypeCorrect == SwapSpec => []SwapTypeOK
<1>1. SwapInit => SwapInv
  BY SwapStarts
<1>2. SwapInv /\ [SwapNext]_swapVars => SwapInv'
  BY SwapStep
<1>3. SwapInv => SwapTypeOK
  BY DEF SwapInv
<1> QED
  BY <1>1, <1>2, <1>3, PTL DEF SwapSpec

\* execute_swap approves what it spends and no more: however calls overlap on a nonce
\* and an allowance, the router may never take more than one of them spends.
THEOREM ExposureIsBounded == SwapSpec => []ExposureIsOneTrade
<1>1. SwapInit => SwapInv
  BY SwapStarts
<1>2. SwapInv /\ [SwapNext]_swapVars => SwapInv'
  BY SwapStep
<1>3. SwapInv => ExposureIsOneTrade
  BY DEF SwapInv
<1> QED
  BY <1>1, <1>2, <1>3, PTL DEF SwapSpec

\* A receipt that execute_swap returns is of its own swap, mined, and no swap is mined
\* short of its floor by a unit or more.
THEOREM SwapsKeepPromise == SwapSpec => []SwapsAsPromised
<1>1. SwapInit => SwapInv
  BY SwapStarts
<1>2. SwapInv /\ [SwapNext]_swapVars => SwapInv'
  BY SwapStep
<1>3. SwapInv => SwapsAsPromised
  <2> SUFFICES ASSUME SwapInv, NEW c \in Calls
               PROVE  /\ swap[c].at = "success" => got[c] >= 0
                      /\ got[c] >= 0 => got[c] > 0 /\ (got[c] + 1) * Fraction > LeastOut[c]
    BY DEF SwapsAsPromised
  <2>1. got[c] \in Int
    <3>1. got \in [Calls -> {-1} \cup Yields]
      BY DEF SwapInv, SwapTypeOK
    <3>2. {-1} \cup Yields \subseteq Int
      BY DexSwapAssumption
    <3> QED
      BY <3>1, <3>2
  <2>2. /\ MinOut(c) \in Nat /\ LeastOut[c] < (MinOut(c) + 1) * Fraction
        /\ LeastOut[c] \in Nat /\ Fraction \in Nat
    BY DexSwapAssumption, RoundedDown DEF MinOut
  <2>3. got[c] >= 0 => got[c] > 0 /\ (MinOut(c) + 1) * Fraction <= (got[c] + 1) * Fraction
    BY <2>1, <2>2, MoreIsMore DEF SwapInv, FloorKept
  <2>4. /\ (MinOut(c) + 1) * Fraction \in Int
        /\ (got[c] + 1) * Fraction \in Int
    BY <2>1, <2>2
  <2> QED
    BY <2>2, <2>3, <2>4 DEF SwapInv, ReceiptOfSwap
<1> QED
  BY <1>1, <1>2, <1>3, PTL DEF SwapSpec

-----------------------------------------------------------------------------
(* Orders *)

\* An order told of, by an answer or a report, has filled as much, and if it was said
\* to be over it is.
True(told, record) ==
    /\ told.filled <= record.filled
    /\ told.state \in Over => told.state = record.state /\ told.filled = record.filled

OrdersInv ==
    /\ OrdersTypeOK
    /\ \A o \in Tickets : placing[o].at \in {"idle", "posted"} => venue[o] = NoRecord
    /\ \A o \in Tickets : venue[o].state = "none" => venue[o].filled = 0
    /\ \A o \in Tickets : True(placing[o].told, venue[o]) /\ True(update[o], venue[o])
    /\ \A i \in 1 .. Len(reports) : True(reports[i], venue[reports[i].order])
    /\ \A o \in Tickets : dropping[o] = "done" => venue[o].state \in Over
    /\ \A o \in unwound : venue[o].state \in Over

\* An order that is not over may fill further or end: what was true of it stays true.
LEMMA TrueLater ==
    ASSUME NEW told, NEW old \in Record, NEW new \in Record,
           told.filled \in Nat, old.state \notin Over, old.filled <= new.filled,
           True(told, old)
    PROVE  True(told, new)
  BY OrdersAssumption DEF True, Record

\* The part of a step of the exchange that a report may tell of.
LEMMA RecordChanges ==
    ASSUME OrdersInv, NEW o \in Tickets, NEW record \in Record, Becomes(o, record),
           record.state # "none", venue[o].state \notin Over, venue[o].filled <= record.filled
    PROVE  /\ venue' \in [Tickets -> Record] /\ venue'[o] = record
           /\ \A u \in Tickets : u # o => venue'[u] = venue[u]
           /\ reports' \in Seq(Report)
           /\ \A i \in 1 .. Len(reports') : True(reports'[i], venue'[reports'[i].order])
           /\ \A u \in Tickets : True(update[u], venue'[u])
           /\ \A u \in Tickets : True(placing[u].told, venue'[u])
           /\ \A u \in Tickets : venue[u].state \in Over => venue'[u].state \in Over
<1> USE OrdersAssumption
<1>1. OrdersTypeOK
  BY DEF OrdersInv
<1>2. /\ venue' \in [Tickets -> Record] /\ venue'[o] = record
      /\ \A u \in Tickets : u # o => venue'[u] = venue[u]
  BY <1>1 DEF Becomes, OrdersTypeOK
<1>3. \A u \in Tickets : venue[u].state \in Over => venue'[u].state \in Over
  BY <1>2
<1>4. ASSUME NEW u \in Tickets, NEW told, told.filled \in Nat, True(told, venue[u])
      PROVE  True(told, venue'[u])
  <2>1. venue[o] \in Record
    BY <1>1 DEF OrdersTypeOK
  <2>2. u = o => True(told, venue'[u])
    BY <1>2, <1>4, <2>1, TrueLater
  <2> QED
    BY <1>2, <1>4, <2>2
<1>5. \A u \in Tickets : update[u].filled \in Nat /\ placing[u].told.filled \in Nat
  BY <1>1 DEF OrdersTypeOK, Record
<1>6. \A i \in 1 .. Len(reports) :
          reports[i] \in Report /\ reports[i].filled \in Nat /\ reports[i].order \in Tickets
  <2> TAKE i \in 1 .. Len(reports)
  <2>1. reports \in Seq(Report)
    BY <1>1 DEF OrdersTypeOK
  <2>2. reports[i] \in Report
    BY <2>1
  <2> QED
    BY <2>2 DEF Report
<1>7. \A i \in 1 .. Len(reports) : True(reports[i], venue'[reports[i].order])
  BY <1>4, <1>6 DEF OrdersInv
<1>8. reports' \in Seq(Report)
      /\ \A i \in 1 .. Len(reports') : True(reports'[i], venue'[reports'[i].order])
  <2>1. CASE reports' = reports
    BY <1>1, <1>7, <2>1 DEF OrdersTypeOK
  <2>2. CASE \E s \in {record.state} \cup (IF record.state = "new" THEN {"unknown"} ELSE {}) :
               reports' = Append(reports, [order |-> o, state |-> s, filled |-> record.filled,
                                           last |-> record.filled - venue[o].filled])
    <3>1. PICK s \in {record.state} \cup (IF record.state = "new" THEN {"unknown"} ELSE {}) :
               reports' = Append(reports, [order |-> o, state |-> s, filled |-> record.filled,
                                           last |-> record.filled - venue[o].filled])
      BY <2>2
    <3> DEFINE r == [order |-> o, state |-> s, filled |-> record.filled,
                     last |-> record.filled - venue[o].filled]
    <3>2. record.filled - venue[o].filled \in 0 .. Size
      BY <1>1 DEF OrdersTypeOK, Record
    <3>3. s \in {"new", "unknown"} \cup Over
      BY DEF Record, Over
    <3>4. r \in Report
      BY <3>2, <3>3 DEF Report, Record
    <3>5. True(r, venue'[o]) /\ r.order = o
      BY <1>2 DEF True, Over, Record
    <3> HIDE DEF r
    <3>6. reports' = Append(reports, r) /\ reports \in Seq(Report)
      BY <1>1, <3>1 DEF OrdersTypeOK, r
    <3>7. /\ reports' \in Seq(Report) /\ Len(reports') = Len(reports) + 1
          /\ \A i \in 1 .. Len(reports) : reports'[i] = reports[i]
          /\ reports'[Len(reports) + 1] = r
      BY <3>4, <3>6
    <3> QED
      BY <1>7, <3>5, <3>7
  <2> QED
    BY <2>1, <2>2 DEF Becomes
<1> QED
  BY <1>2, <1>3, <1>4, <1>5, <1>8 DEF OrdersInv

Stage == [at : {"idle", "posted", "answered", "returned", "raised"}, told : Record]

\* Where a call is and what it was told are of their types.
LEMMA PlacedTyped == OrdersTypeOK => placing \in [Tickets -> Stage]
  BY DEF OrdersTypeOK, Stage

\* Orders not placed, or placed by an earlier process, satisfy the invariant.
LEMMA OrdersStart == OrdersInit => OrdersInv
<1> USE OrdersAssumption
<1> SUFFICES ASSUME OrdersInit PROVE OrdersInv
  OBVIOUS
<1>1. PICK earlier \in SUBSET Tickets :
        /\ venue = [o \in Tickets |->
              IF o \in earlier THEN [NoRecord EXCEPT !.state = "new"] ELSE NoRecord]
        /\ placing = [o \in Tickets |->
              [at |-> IF o \in earlier THEN "raised" ELSE "idle", told |-> NoRecord]]
  BY DEF OrdersInit
<1>2. NoRecord \in Record /\ [NoRecord EXCEPT !.state = "new"] \in Record
  BY DEF NoRecord, Record
<1>3. OrdersTypeOK
  <2>1. venue \in [Tickets -> Record]
    BY <1>1, <1>2
  <2>2. placing \in [Tickets -> Stage]
    BY <1>1, <1>2 DEF Stage
  <2>3. update \in [Tickets -> [state : {"none", "new", "unknown"} \cup Over, filled : 0 .. Size]]
    BY DEF OrdersInit, NoRecord
  <2>4. reports \in Seq(Report)
    BY DEF OrdersInit
  <2> QED
    BY <2>1, <2>2, <2>3, <2>4 DEF OrdersInit, OrdersTypeOK, Stage
<1> QED
  BY <1>1, <1>3 DEF OrdersInit, OrdersInv, NoRecord, True, Over

\* Every step of the client and of the exchange keeps the invariant.
LEMMA OrdersStep ==
    ASSUME OrdersInv, [OrdersNext]_orderVars
    PROVE  OrdersInv'
<1> USE OrdersAssumption
<1>1. OrdersTypeOK
  BY DEF OrdersInv
<1>2. CASE UNCHANGED orderVars
  BY <1>2 DEF orderVars, OrdersInv, OrdersTypeOK
<1>3. CASE StartStream \/ StreamReturns \/ KeyRunsOut
  BY <1>3 DEF StartStream, StreamReturns, KeyRunsOut, OrdersInv, OrdersTypeOK
<1>4. CASE StreamDrops \/ CloseClient
  <2>1. reports' = <<>> /\ reports' \in Seq(Report) /\ Len(reports') = 0
    <3>1. <<>> \in Seq(Report) /\ Len(<<>>) = 0
      OBVIOUS
    <3>2. reports' = <<>>
      BY <1>4 DEF StreamDrops, CloseClient
    <3> QED
      BY <3>1, <3>2
  <2>2. \A i \in 1 .. Len(reports') : True(reports'[i], venue'[reports'[i].order])
    BY <2>1
  <2>3. UNCHANGED <<venue, placing, dropping, unwound, pairOf, update>>
    BY <1>4 DEF StreamDrops, CloseClient
  <2>4. OrdersTypeOK'
    BY <1>1, <1>4, <2>1, <2>3 DEF StreamDrops, CloseClient, OrdersTypeOK
  <2> QED
    BY <2>2, <2>3, <2>4 DEF OrdersInv
<1>5. ASSUME NEW o \in Tickets, CreateOrder(o) PROVE OrdersInv'
  <2> DEFINE p == [placing[o] EXCEPT !.at = "posted"]
  <2>1. p \in Stage /\ p.at = "posted" /\ p.told = placing[o].told
    BY <1>1, PlacedTyped DEF Stage
  <2>2. placing' = [placing EXCEPT ![o] = p]
    BY <1>5 DEF CreateOrder
  <2> HIDE DEF p
  <2>3. /\ placing' \in [Tickets -> Stage] /\ placing'[o] = p
        /\ \A u \in Tickets : u # o => placing'[u] = placing[u]
    BY <1>1, <2>1, <2>2, PlacedTyped
  <2>4. \A u \in Tickets :
          /\ placing'[u].told = placing[u].told
          /\ placing'[u].at \in {"idle", "posted"} => placing[u].at \in {"idle", "posted"}
    BY <1>5, <2>1, <2>3 DEF CreateOrder
  <2>5. OrdersTypeOK'
    BY <1>1, <1>5, <2>3 DEF CreateOrder, OrdersTypeOK, Stage
  <2> QED
    BY <1>5, <2>4, <2>5 DEF CreateOrder, OrdersInv
<1>6. ASSUME NEW o \in Tickets, OrderTaken(o) PROVE OrdersInv'
  <2>1. PICK f \in 0 .. Size, s \in {"new", "canceled", "rejected", "filled"} :
          /\ Becomes(o, [state |-> s, filled |-> f])
          /\ placing' = [placing EXCEPT ![o] =
                            [at |-> "answered", told |-> [state |-> s, filled |-> f]]]
    BY <1>6 DEF OrderTaken
  <2> DEFINE r == [state |-> s, filled |-> f]
  <2>2. r \in Record /\ r.state # "none"
    BY DEF Record, Over
  <2>3. venue[o] = NoRecord
    BY <1>6 DEF OrderTaken, OrdersInv
  <2> HIDE DEF r
  <2>4. /\ venue' \in [Tickets -> Record] /\ venue'[o] = r
        /\ \A u \in Tickets : u # o => venue'[u] = venue[u]
        /\ reports' \in Seq(Report)
        /\ \A i \in 1 .. Len(reports') : True(reports'[i], venue'[reports'[i].order])
        /\ \A u \in Tickets : True(update[u], venue'[u])
        /\ \A u \in Tickets : True(placing[u].told, venue'[u])
        /\ \A u \in Tickets : venue[u].state \in Over => venue'[u].state \in Over
    <3>1. Becomes(o, r)
      BY <2>1 DEF r
    <3>2. venue[o].state \notin Over /\ venue[o].filled <= r.filled
      BY <2>2, <2>3 DEF NoRecord, Over, Record
    <3> QED
      BY <2>2, <3>1, <3>2, RecordChanges
  <2>5. placing' = [placing EXCEPT ![o] = [at |-> "answered", told |-> r]]
    BY <2>1 DEF r
  <2>6. OrdersTypeOK'
    BY <1>1, <1>6, <2>2, <2>4, <2>5 DEF OrderTaken, OrdersTypeOK
  <2>7. True(r, r)
    BY <2>2 DEF True, Record
  <2>8. /\ \A u \in Tickets : u # o => placing'[u] = placing[u]
        /\ placing'[o].told = r /\ placing'[o].at = "answered"
    BY <1>1, <2>5 DEF OrdersTypeOK
  <2>9. UNCHANGED <<dropping, unwound, stream, key, pairOf, update>>
    BY <1>6 DEF OrderTaken
  <2>10. \A u \in Tickets : True(placing'[u].told, venue'[u]) /\ True(update[u], venue'[u])
    BY <2>4, <2>7, <2>8
  <2>11. \A u \in Tickets :
           /\ placing'[u].at \in {"idle", "posted"} => venue'[u] = NoRecord
           /\ venue'[u].state = "none" => venue'[u].filled = 0
    BY <2>2, <2>4, <2>8 DEF OrdersInv
  <2>12. /\ \A u \in Tickets : dropping[u] = "done" => venue'[u].state \in Over
         /\ \A u \in unwound : venue'[u].state \in Over
    BY <1>1, <2>4 DEF OrdersInv, OrdersTypeOK
  <2> QED
    BY <2>4, <2>6, <2>9, <2>10, <2>11, <2>12 DEF OrdersInv
<1>7. ASSUME NEW o \in Tickets, OrderReturns(o) PROVE OrdersInv'
  <2> DEFINE p == [placing[o] EXCEPT !.at = "returned"]
  <2>1. p \in Stage /\ p.at = "returned" /\ p.told = placing[o].told
    BY <1>1, PlacedTyped DEF Stage
  <2>2. placing' = [placing EXCEPT ![o] = p]
    BY <1>7 DEF OrderReturns
  <2> HIDE DEF p
  <2>3. /\ placing' \in [Tickets -> Stage] /\ placing'[o] = p
        /\ \A u \in Tickets : u # o => placing'[u] = placing[u]
    BY <1>1, <2>1, <2>2, PlacedTyped
  <2>4. \A u \in Tickets :
          /\ placing'[u].told = placing[u].told
          /\ placing'[u].at \in {"idle", "posted"} => placing[u].at \in {"idle", "posted"}
    BY <1>7, <2>1, <2>3 DEF OrderReturns
  <2>5. OrdersTypeOK'
    BY <1>1, <1>7, <2>3 DEF OrderReturns, OrdersTypeOK, Stage
  <2> QED
    BY <1>7, <2>4, <2>5 DEF OrderReturns, OrdersInv
<1>8. ASSUME NEW o \in Tickets, OrderRaises(o) PROVE OrdersInv'
  <2>1. placing' = [placing EXCEPT ![o] = [at |-> "raised", told |-> NoRecord]]
    BY <1>8 DEF OrderRaises
  <2>2. NoRecord \in Record
    BY DEF NoRecord, Record
  <2>3. OrdersTypeOK'
    BY <1>1, <1>8, <2>1, <2>2 DEF OrderRaises, OrdersTypeOK
  <2>4. /\ \A u \in Tickets : u # o => placing'[u] = placing[u]
        /\ placing'[o].told = NoRecord /\ placing'[o].at = "raised"
    BY <1>1, <2>1 DEF OrdersTypeOK
  <2>5. True(NoRecord, venue[o])
    BY <1>1 DEF True, NoRecord, OrdersTypeOK, Record, Over
  <2> QED
    BY <1>8, <2>3, <2>4, <2>5 DEF OrderRaises, OrdersInv
<1>9. ASSUME NEW o \in Tickets, NEW record \in Record, Becomes(o, record),
             record.state # "none", venue[o].state = "new", venue[o].filled <= record.filled,
             dropping' = dropping \/ (/\ record.state \in Over
                                     /\ dropping' = [dropping EXCEPT ![o] = "done"]),
             UNCHANGED <<placing, unwound, stream, key, pairOf, update>>
      PROVE  OrdersInv'
  <2>1. /\ venue' \in [Tickets -> Record] /\ venue'[o] = record
        /\ \A u \in Tickets : u # o => venue'[u] = venue[u]
        /\ reports' \in Seq(Report)
        /\ \A i \in 1 .. Len(reports') : True(reports'[i], venue'[reports'[i].order])
        /\ \A u \in Tickets : True(update[u], venue'[u])
        /\ \A u \in Tickets : True(placing[u].told, venue'[u])
        /\ \A u \in Tickets : venue[u].state \in Over => venue'[u].state \in Over
    <3>1. venue[o].state \notin Over
      BY <1>9 DEF Over
    <3> QED
      BY <1>9, <3>1, RecordChanges
  <2>2. OrdersTypeOK'
    BY <1>1, <1>9, <2>1 DEF OrdersTypeOK
  <2>3. \A u \in Tickets : dropping'[u] = "done" => venue'[u].state \in Over
    BY <1>1, <1>9, <2>1 DEF OrdersInv, OrdersTypeOK
  <2>4. \A u \in Tickets : placing[u].at \in {"idle", "posted"} => venue'[u] = NoRecord
    BY <1>9, <2>1 DEF OrdersInv, NoRecord
  <2>5. \A u \in Tickets : venue'[u].state = "none" => venue'[u].filled = 0
    BY <1>9, <2>1 DEF OrdersInv
  <2>6. \A u \in unwound : venue'[u].state \in Over
    BY <1>1, <2>1 DEF OrdersInv, OrdersTypeOK
  <2> QED
    BY <1>9, <2>1, <2>2, <2>3, <2>4, <2>5, <2>6 DEF OrdersInv
<1>10. ASSUME NEW o \in Tickets, Matched(o) PROVE OrdersInv'
  <2>1. PICK f \in venue[o].filled + 1 .. Size :
          Becomes(o, [state |-> IF f = Size THEN "filled" ELSE "new", filled |-> f])
    BY <1>10 DEF Matched
  <2>2. venue[o].filled \in Nat
    BY <1>1 DEF OrdersTypeOK, Record
  <2>3. [state |-> IF f = Size THEN "filled" ELSE "new", filled |-> f] \in Record
    BY <2>2 DEF Record, Over
  <2> QED
    BY <1>9, <1>10, <2>1, <2>2, <2>3 DEF Matched
<1>11. ASSUME NEW o \in Tickets, Expires(o) PROVE OrdersInv'
  <2> DEFINE r == [venue[o] EXCEPT !.state = "canceled"]
  <2>1. venue[o] \in Record
    BY <1>1 DEF OrdersTypeOK
  <2>2. /\ r \in Record /\ r.state = "canceled" /\ r.state \in Over
        /\ r.filled = venue[o].filled /\ venue[o].filled \in Nat
    BY <2>1 DEF Record, Over
  <2>3. Becomes(o, r)
    BY <1>11 DEF Expires
  <2> HIDE DEF r
  <2>4. /\ venue[o].state = "new" /\ UNCHANGED dropping
        /\ UNCHANGED <<placing, unwound, stream, key, pairOf, update>>
    BY <1>11 DEF Expires
  <2> QED
    BY <1>9, <2>2, <2>3, <2>4
<1>12. ASSUME NEW o \in Tickets, Cancelled(o) PROVE OrdersInv'
  <2> DEFINE r == [venue[o] EXCEPT !.state = "canceled"]
  <2>1. venue[o] \in Record
    BY <1>1 DEF OrdersTypeOK
  <2>2. /\ r \in Record /\ r.state = "canceled" /\ r.state \in Over
        /\ r.filled = venue[o].filled /\ venue[o].filled \in Nat
    BY <2>1 DEF Record, Over
  <2>3. Becomes(o, r)
    BY <1>12 DEF Cancelled
  <2> HIDE DEF r
  <2>4. /\ venue[o].state = "new" /\ dropping' = [dropping EXCEPT ![o] = "done"]
        /\ UNCHANGED <<placing, unwound, stream, key, pairOf, update>>
    BY <1>12 DEF Cancelled
  <2>5. \/ dropping' = dropping
        \/ r.state \in Over /\ dropping' = [dropping EXCEPT ![o] = "done"]
    BY <2>2, <2>4
  <2>6. r.state # "none" /\ venue[o].filled <= r.filled
    BY <2>2
  <2> QED
    BY <1>9, <2>2, <2>3, <2>4, <2>5, <2>6
<1>13. CASE ReportArrives
  <2> DEFINE r == Head(reports)
  <2>1. r \in Report /\ reports' = Tail(reports) /\ reports' \in Seq(Report)
    BY <1>1, <1>13 DEF ReportArrives, OrdersTypeOK
  <2>2. /\ Len(reports') = Len(reports) - 1 /\ r = reports[1] /\ Len(reports) >= 1
        /\ \A i \in 1 .. Len(reports') : reports'[i] = reports[i + 1]
    BY <1>1, <1>13 DEF ReportArrives, OrdersTypeOK
  <2>3. update' = [update EXCEPT ![r.order] = [state |-> r.state, filled |-> r.filled]]
    BY <1>13 DEF ReportArrives, UpdateOf
  <2>4. True(r, venue[r.order])
    BY <2>2 DEF OrdersInv
  <2>5. \A o \in Tickets : True(update'[o], venue[o])
    BY <1>1, <2>1, <2>3, <2>4 DEF OrdersInv, OrdersTypeOK, Report, True
  <2>6. OrdersTypeOK'
    BY <1>1, <1>13, <2>1, <2>3 DEF ReportArrives, OrdersTypeOK, Report
  <2>7. \A i \in 1 .. Len(reports') : True(reports'[i], venue[reports'[i].order])
    BY <2>2 DEF OrdersInv
  <2> QED
    BY <1>13, <2>5, <2>6, <2>7 DEF ReportArrives, OrdersInv
<1>14. ASSUME NEW o \in Tickets, CancelOrder(o) \/ NotCancelled(o) PROVE OrdersInv'
  BY <1>1, <1>14 DEF CancelOrder, NotCancelled, OrdersInv, OrdersTypeOK
<1>15. CASE CancelAllOrders
  BY <1>1, <1>15 DEF CancelAllOrders, OrdersInv, OrdersTypeOK
<1>16. ASSUME NEW o \in Tickets, CancelReturns(o) PROVE OrdersInv'
  BY <1>1, <1>16 DEF CancelReturns, OrdersInv, OrdersTypeOK
<1> QED
  BY <1>2, <1>3, <1>4, <1>5, <1>6, <1>7, <1>8, <1>10, <1>11, <1>12, <1>13, <1>14, <1>15, <1>16
  DEF OrdersNext

\* Orders keeps its types: what a report or an answer carries is a state and a fill the
\* exchange can have.
THEOREM OrdersTypeCorrect == OrdersSpec => []OrdersTypeOK
<1>1. OrdersInv => OrdersTypeOK
  BY DEF OrdersInv
<1> QED
  BY <1>1, OrdersStart, OrdersStep, PTL DEF OrdersSpec

\* Whatever the bot is told of its orders is so, whichever of answer and report comes
\* first, whatever is lost, and however a cancellation races the last fill.
THEOREM OrderReportsAreTrue == OrdersSpec => []OrderReportsTrue
<1>1. OrdersInv => OrderReportsTrue
  <2> SUFFICES ASSUME OrdersInv PROVE OrderReportsTrue
    OBVIOUS
  <2>1. ASSUME NEW o \in Tickets, NEW told \in {update[o], placing[o].told}
        PROVE  /\ told.filled <= venue[o].filled
               /\ told.state \in Over => told = venue[o]
    <3>1. True(told, venue[o])
      BY DEF OrdersInv
    <3>2. /\ DOMAIN told = {"state", "filled"} /\ told = [state |-> told.state, filled |-> told.filled]
          /\ venue[o] = [state |-> venue[o].state, filled |-> venue[o].filled]
      BY DEF OrdersInv, OrdersTypeOK, Record
    <3> QED
      BY <3>1, <3>2 DEF True
  <2> QED
    BY <2>1 DEF OrderReportsTrue, UpdatesTrue, CancelTruthful, OrdersInv
<1> QED
  BY <1>1, OrdersStart, OrdersStep, PTL DEF OrdersSpec

=============================================================================
