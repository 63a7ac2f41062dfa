--------------------------- MODULE ResearchProofs ---------------------------
(***************************************************************************)
(* Proofs about what is done with recorded history, for any observations,  *)
(* grid of sizes, delays and offsets: the replay of the observations finds *)
(* what the study finds, the report and its control are what they claim to *)
(* be.  With the proofs of Backtest in TradingProofs, both replays, and    *)
(* with those of DecisionProofs, all that MCTrading runs.                  *)
(***************************************************************************)
EXTENDS DecisionProofs, TradingProofs, MCTrading

-----------------------------------------------------------------------------
(* What an observation is worth: optimiser.py and evaluate.py *)

\* Of finitely many things that can all be compared one is not below any other.
LEMMA TopOf ==
    ASSUME NEW n \in Nat, NEW fit \in SUBSET (1 .. n), fit # {}, NEW R,
           \A i, j \in fit : <<i, j>> \in R \/ <<j, i>> \in R,
           \A i, j, k \in fit : <<i, j>> \in R /\ <<j, k>> \in R => <<i, k>> \in R
    PROVE  \E i \in fit : \A j \in fit : <<j, i>> \in R
<1> DEFINE Among(k) == {i \in fit : i <= k}
           Topped(k) == \E i \in Among(k) : \A j \in Among(k) : <<j, i>> \in R
           T == {k \in Nat : Among(k) # {} => Topped(k)}
<1>0. \A i \in fit : i \in Nat /\ 1 <= i /\ i <= n
  OBVIOUS
<1>1. 0 \in T
  <2>1. ASSUME NEW i \in fit PROVE ~(i <= 0)
    BY <1>0
  <2>2. Among(0) = {}
    BY <2>1
  <2> QED
    BY <2>2
<1>2. ASSUME NEW k \in T PROVE k + 1 \in T
  <2> SUFFICES ASSUME Among(k + 1) # {} PROVE Topped(k + 1)
    OBVIOUS
  <2>1. k \in Nat /\ k + 1 \in Nat
    OBVIOUS
  <2>2. \A i \in fit : i <= k + 1 <=> (i <= k \/ i = k + 1)
    BY <2>1
  <2>3. CASE k + 1 \notin fit
    <3>1. Among(k + 1) = Among(k)
      BY <2>1, <2>2, <2>3
    <3> QED
      BY <3>1
  <2>4. CASE k + 1 \in fit /\ Among(k) = {}
    <3>1. \A j \in Among(k + 1) : j = k + 1
      BY <2>2, <2>4
    <3>2. k + 1 \in Among(k + 1)
      BY <2>1, <2>4
    <3>3. <<k + 1, k + 1>> \in R
      BY <2>4
    <3> QED
      BY <3>1, <3>2, <3>3
  <2>5. CASE k + 1 \in fit /\ Among(k) # {}
    <3>1. PICK i \in Among(k) : \A j \in Among(k) : <<j, i>> \in R
      BY <2>5
    <3>2. i \in fit /\ i \in Among(k + 1) /\ k + 1 \in Among(k + 1)
      BY <2>1, <2>2, <2>5
    <3>3. \A j \in Among(k + 1) : j \in fit /\ (j \in Among(k) \/ j = k + 1)
      BY <2>2
    <3>4. CASE <<k + 1, i>> \in R
      <4>1. \A j \in Among(k + 1) : <<j, i>> \in R
        BY <3>1, <3>3, <3>4
      <4> QED
        BY <3>2, <4>1
    <3>5. CASE <<i, k + 1>> \in R
      <4>1. <<k + 1, k + 1>> \in R
        BY <2>5
      <4>2. \A j \in Among(k + 1) : <<j, k + 1>> \in R
        BY <2>5, <3>1, <3>2, <3>3, <3>5, <4>1
      <4> QED
        BY <3>2, <4>2
    <3> QED
      BY <2>5, <3>2, <3>4, <3>5
  <2> QED
    BY <2>3, <2>4, <2>5
<1>3. T = Nat
  <2>1. T \in SUBSET Nat
    OBVIOUS
  <2> HIDE DEF T
  <2> QED
    BY <1>1, <1>2, <2>1, InductionOn
<1>4. Among(n) = fit
  BY <1>0
<1>5. n \in T
  BY <1>3
<1> QED
  BY <1>4, <1>5

\* What FirstBest finds by value is among the points it may choose, and of no less value.
LEMMA BestByValue ==
    ASSUME NEW n \in Nat, NEW points, NEW fit \in SUBSET (1 .. n), fit # {},
           \A i \in fit : points[i].net \in Int
    PROVE  \E i \in fit : /\ FirstBest(points, fit, ByValue) = points[i]
                          /\ \A j \in fit : points[j].net <= points[i].net
<1> DEFINE R == {p \in fit \X fit : points[p[1]].net <= points[p[2]].net}
           top == {i \in fit : \A j \in fit : ~ByValue(points[j], points[i])}
<1>1. \A i, j \in fit : <<i, j>> \in R <=> points[i].net <= points[j].net
  OBVIOUS
<1> HIDE DEF R
<1>2. ASSUME NEW i \in fit, NEW j \in fit PROVE <<i, j>> \in R \/ <<j, i>> \in R
  <2> DEFINE x == points[i].net
             y == points[j].net
  <2>1. x \in Int /\ y \in Int
    OBVIOUS
  <2>2. (<<i, j>> \in R <=> x <= y) /\ (<<j, i>> \in R <=> y <= x)
    BY <1>1
  <2> HIDE DEF x, y
  <2> QED
    BY <2>1, <2>2
<1>3. ASSUME NEW i \in fit, NEW j \in fit, NEW k \in fit, <<i, j>> \in R, <<j, k>> \in R
      PROVE  <<i, k>> \in R
  <2> DEFINE x == points[i].net
             y == points[j].net
             z == points[k].net
  <2>1. x <= y /\ y <= z /\ (<<i, k>> \in R <=> x <= z)
    BY <1>1, <1>3
  <2>2. x \in Int /\ y \in Int /\ z \in Int
    OBVIOUS
  <2> HIDE DEF x, y, z
  <2> QED
    BY <2>1, <2>2
<1>4. PICK i \in fit : \A j \in fit : <<j, i>> \in R
  BY <1>2, <1>3, TopOf
<1>5. i \in top
  <2>1. ASSUME NEW j \in fit PROVE ~ByValue(points[j], points[i])
    <3>1. points[j].net <= points[i].net /\ points[j].net \in Int /\ points[i].net \in Int
      BY <1>1, <1>4
    <3> QED
      BY <3>1 DEF ByValue
  <2> QED
    BY <2>1
<1>6. top \in SUBSET Nat
  <2>1. top \subseteq fit
    OBVIOUS
  <2>2. fit \subseteq Nat
    OBVIOUS
  <2> HIDE DEF top
  <2> QED
    BY <2>1, <2>2
<1>7. FirstBest(points, fit, ByValue) = points[Min(top)]
  BY DEF FirstBest, ByValue
<1>8. \A k \in top : k \in fit /\ \A j \in fit : points[j].net <= points[k].net
  BY DEF ByValue
<1> HIDE DEF top
<1>9. Min(top) \in top
  BY <1>5, <1>6, MinOf
<1> QED
  BY <1>7, <1>8, <1>9

\* Rates can be compared with each other.
LEMMA RatesCompare ==
    ASSUME NEW a \in Int, NEW b \in Int, NEW c \in Int,
           NEW p \in Nat \ {0}, NEW q \in Nat \ {0}, NEW r \in Nat \ {0},
           a * q <= b * p, b * r <= c * q
    PROVE  a * r <= c * p
<1>1. (a * q) * r <= (b * p) * r
  <2> DEFINE x == a * q
             y == b * p
  <2>1. x \in Int /\ y \in Int /\ x <= y
    OBVIOUS
  <2> HIDE DEF x, y
  <2>2. x * r <= y * r
    BY <2>1
  <2> QED
    BY <2>2 DEF x, y
<1>2. (b * r) * p <= (c * q) * p
  <2> DEFINE x == b * r
             y == c * q
  <2>1. x \in Int /\ y \in Int /\ x <= y
    OBVIOUS
  <2> HIDE DEF x, y
  <2>2. x * p <= y * p
    BY <2>1
  <2> QED
    BY <2>2 DEF x, y
<1>3. (a * q) * r = (a * r) * q /\ (b * p) * r = (b * r) * p /\ (c * q) * p = (c * p) * q
  OBVIOUS
<1> DEFINE u == a * r
           v == c * p
<1>4. u \in Int /\ v \in Int
  OBVIOUS
<1>5. (b * r) * p \in Int
  OBVIOUS
<1>6. u * q <= v * q
  <2> DEFINE m == (b * r) * p
  <2>1. u * q <= m /\ m <= v * q
    BY <1>1, <1>2, <1>3
  <2>2. m \in Int /\ u * q \in Int /\ v * q \in Int
    BY <1>4, <1>5
  <2> HIDE DEF m, u, v
  <2> QED
    BY <2>1, <2>2
<1> HIDE DEF u, v
<1>7. u <= v
  <2> SUFFICES ASSUME v + 1 <= u PROVE FALSE
    BY <1>4
  <2>1. (v + 1) * q <= u * q
    BY <1>4
  <2>2. (v + 1) * q = v * q + q
    BY <1>4
  <2>3. v * q \in Int /\ u * q \in Int
    BY <1>4
  <2> QED
    BY <1>6, <2>1, <2>2, <2>3
<1> QED
  BY <1>7 DEF u, v

\* What FirstBest finds by rate is among the points it may choose.
LEMMA BestByRate ==
    ASSUME NEW n \in Nat, NEW points, NEW fit \in SUBSET (1 .. n), fit # {},
           \A i \in fit : points[i].net \in Int /\ points[i].notional \in Nat \ {0}
    PROVE  \E i \in fit : FirstBest(points, fit, ByRate) = points[i]
<1> DEFINE R == {p \in fit \X fit : points[p[1]].net * points[p[2]].notional
                                    <= points[p[2]].net * points[p[1]].notional}
           top == {i \in fit : \A j \in fit : ~ByRate(points[j], points[i])}
<1>1. \A i, j \in fit : <<i, j>> \in R <=>
          points[i].net * points[j].notional <= points[j].net * points[i].notional
  OBVIOUS
<1> HIDE DEF R
<1>2. ASSUME NEW i \in fit, NEW j \in fit PROVE <<i, j>> \in R \/ <<j, i>> \in R
  <2> DEFINE a == points[i].net
             b == points[j].net
             p == points[i].notional
             q == points[j].notional
             x == a * q
             y == b * p
  <2>1. x \in Int /\ y \in Int
    <3>1. a \in Int /\ p \in Nat \ {0}
      OBVIOUS
    <3>2. b \in Int /\ q \in Nat \ {0}
      OBVIOUS
    <3> HIDE DEF a, b, p, q
    <3> QED
      BY <3>1, <3>2
  <2>2. (<<i, j>> \in R <=> x <= y) /\ (<<j, i>> \in R <=> y <= x)
    BY <1>1
  <2> HIDE DEF x, y
  <2> QED
    BY <2>1, <2>2
<1>3. ASSUME NEW i \in fit, NEW j \in fit, NEW k \in fit, <<i, j>> \in R, <<j, k>> \in R
      PROVE  <<i, k>> \in R
  <2> DEFINE a == points[i].net
             b == points[j].net
             c == points[k].net
             p == points[i].notional
             q == points[j].notional
             r == points[k].notional
  <2>1. a \in Int /\ p \in Nat \ {0}
    OBVIOUS
  <2>2. b \in Int /\ q \in Nat \ {0}
    OBVIOUS
  <2>3. c \in Int /\ r \in Nat \ {0}
    OBVIOUS
  <2>4. a * q <= b * p /\ b * r <= c * q
    BY <1>1, <1>3
  <2>5. <<i, k>> \in R <=> a * r <= c * p
    BY <1>1
  <2> HIDE DEF a, b, c, p, q, r
  <2>6. a * r <= c * p
    BY <2>1, <2>2, <2>3, <2>4, RatesCompare
  <2> QED
    BY <2>5, <2>6
<1>4. PICK i \in fit : \A j \in fit : <<j, i>> \in R
  BY <1>2, <1>3, TopOf
<1>5. ASSUME NEW j \in fit PROVE ~ByRate(points[j], points[i])
  <2> DEFINE x == points[j].net * points[i].notional
             y == points[i].net * points[j].notional
  <2>1. x \in Int /\ y \in Int
    <3> DEFINE a == points[j].net
               b == points[i].net
               p == points[i].notional
               q == points[j].notional
    <3>1. a \in Int /\ q \in Nat \ {0}
      OBVIOUS
    <3>2. b \in Int /\ p \in Nat \ {0}
      OBVIOUS
    <3>3. x = a * p /\ y = b * q
      OBVIOUS
    <3> HIDE DEF a, b, p, q, x, y
    <3> QED
      BY <3>1, <3>2, <3>3
  <2>2. x <= y
    BY <1>1, <1>4
  <2>3. ByRate(points[j], points[i]) <=> x > y
    BY DEF ByRate
  <2> HIDE DEF x, y
  <2> QED
    BY <2>1, <2>2, <2>3
<1>6. i \in top /\ top \in SUBSET Nat
  <2>1. i \in top
    BY <1>5
  <2>2. top \subseteq fit
    OBVIOUS
  <2>3. fit \subseteq Nat
    OBVIOUS
  <2> HIDE DEF top
  <2> QED
    BY <2>1, <2>2, <2>3
<1>7. FirstBest(points, fit, ByRate) = points[Min(top)]
  BY DEF FirstBest, ByRate
<1>8. top \subseteq fit
  OBVIOUS
<1> HIDE DEF top
<1>9. Min(top) \in top
  BY <1>6, MinOf
<1> QED
  BY <1>7, <1>8, <1>9

\* A book that is walked to a size that is wanted costs something.
LEMMA WalkCosts ==
    ASSUME NEW levels, IsLadder(levels), NEW size \in Nat
    PROVE  /\ WalkBook(levels, size) \in Filling(size)
           /\ WalkBook(levels, size).filled <= WalkBook(levels, size).value
<1> DEFINE n == Len(levels)
<1>1. PICK f : IsWalk(f, levels, size)
  BY WalkUnfolds
<1>2. n \in Nat /\ \A k \in 1 .. n : levels[k].price \in Nat \ {0} /\ levels[k].size \in Nat
  BY DEF IsLadder
<1>3. /\ f \in [0 .. n -> Filling(size)] /\ f[0] = [filled |-> 0, value |-> 0]
      /\ \A i \in 1 .. n : f[i] = Fill(f[i - 1], levels[i], size)
      /\ WalkBook(levels, size) = f[n]
  BY <1>1 DEF IsWalk
<1> HIDE DEF n
<1> DEFINE T == {k \in Nat : k <= n => f[k].filled <= f[k].value}
<1>4. 0 \in T
  BY <1>3
<1>5. ASSUME NEW k \in T PROVE k + 1 \in T
  <2> SUFFICES ASSUME k + 1 <= n PROVE f[k + 1].filled <= f[k + 1].value
    OBVIOUS
  <2>1. k \in Nat /\ k <= n /\ k + 1 \in 1 .. n /\ k + 1 - 1 = k /\ k \in 0 .. n
    BY <1>2
  <2>2. f[k].filled <= f[k].value /\ f[k] \in Filling(size)
    BY <1>3, <2>1
  <2> DEFINE g == f[k + 1]
             p == levels[k + 1].price
             more == g.filled - f[k].filled
  <2>3. g = Fill(f[k], levels[k + 1], size) /\ p \in Nat \ {0} /\ levels[k + 1].size \in Nat
    BY <1>2, <1>3, <2>1
  <2>4. more \in 0 .. size /\ g.value = f[k].value + more * p /\ g \in Filling(size)
    BY <2>2, <2>3, FillTyped
  <2>5. f[k].filled \in Nat /\ f[k].value \in Nat /\ g.filled \in Nat /\ g.value \in Nat
    BY <2>2, <2>4 DEF Filling
  <2>6. g.filled = f[k].filled + more
    BY <2>5
  <2> HIDE DEF g, p, more
  <2>7. more <= more * p
    BY <2>3, <2>4
  <2>8. more * p \in Nat /\ more \in Nat
    BY <2>3, <2>4
  <2>9. g.filled <= g.value
    BY <2>2, <2>4, <2>5, <2>6, <2>7, <2>8
  <2> QED
    BY <2>9 DEF g
<1>6. T = Nat
  <2>1. T \in SUBSET Nat
    OBVIOUS
  <2> HIDE DEF T
  <2> QED
    BY <1>4, <1>5, <2>1, InductionOn
<1>7. f[n].filled <= f[n].value
  BY <1>2, <1>6
<1>8. f[n] \in Filling(size)
  BY <1>2, <1>3
<1> QED
  BY <1>3, <1>7, <1>8

SightingShape(s) ==
    /\ s.price \in Nat \ {0} /\ s.room \in Nat /\ s.gas \in BOOLEAN
    /\ s.asks = <<>> \/ IsLadder(s.asks)
    /\ s.bids = <<>> \/ IsLadder(s.bids)

\* An amount of money that buys whole amounts of an observation.
Buys(s, n) == n % s.price = 0 /\ (s.asks # <<>> => n % s.asks[1].price = 0)

\* What the assumption says of one observation and one size.
LEMMA SightingIs ==
    ASSUME NEW s \in Sightings, NEW i \in DOMAIN Grid
    PROVE  SightingShape(s) /\ Grid[i] \in Nat \ {0} /\ Buys(s, Grid[i])
<1>1. /\ s.price \in Nat \ {0} /\ s.room \in Nat /\ s.gas \in BOOLEAN
      /\ \A l \in {s.asks, s.bids} : l = <<>> \/ IsLadder(l)
  BY ResearchAssumption
<1>2. Grid \in Seq(Nat \ {0})
  BY ResearchAssumption
<1>3. Grid[i] \in Nat \ {0} /\ Grid[i] \in {Grid[j] : j \in DOMAIN Grid}
  BY <1>2
<1>4. /\ Grid[i] % s.price = 0
      /\ s.asks # <<>> => Grid[i] % s.asks[1].price = 0
  BY <1>3, ResearchAssumption
<1> QED
  BY <1>1, <1>3, <1>4 DEF SightingShape, Buys

\* The detector's notional is a size of the study, wherever in the grid.
LEMMA NotionalInGrid ==
    \E i \in DOMAIN Grid : Grid[i] = Notional
BY ResearchAssumption

\* A positive amount that divides is worth at least one.
LEMMA Divides ==
    ASSUME NEW n \in Nat \ {0}, NEW d \in Nat \ {0}, n % d = 0
    PROVE  n \div d \in Nat \ {0} /\ n = d * (n \div d)
<1>1. n = d * (n \div d) /\ n \div d \in Nat
  OBVIOUS
<1> DEFINE k == n \div d
<1> HIDE DEF k
<1>2. k # 0
  <2> SUFFICES ASSUME k = 0 PROVE FALSE
    OBVIOUS
  <2>1. n = d * 0
    BY <1>1 DEF k
  <2> QED
    BY <2>1
<1> QED
  BY <1>1, <1>2 DEF k

\* A size that has a price is priced with amounts, and is paid for with some money.
LEMMA PointTyped ==
    ASSUME NEW s, SightingShape(s), NEW d \in Ways, NEW n \in Nat \ {0}, Buys(s, n),
           SizePoint(s, d, n) # Unpriced
    PROVE  /\ SizePoint(s, d, n) \in EconShape
           /\ SizePoint(s, d, n).notional \in Nat \ {0}
           /\ d = "DEX_to_CEX" => SizePoint(s, d, n).notional = n
<1>1. CASE d = "CEX_to_DEX"
  <2> DEFINE size == n \div s.asks[1].price
             fill == WalkBook(s.asks, size)
  <2>1. s.asks # <<>> /\ SizePoint(s, d, n) = SizedSell(s, n)
    BY <1>1 DEF SizePoint
  <2>2. IsLadder(s.asks) /\ s.price \in Nat \ {0}
    BY <2>1 DEF SightingShape
  <2>3. s.asks[1].price \in Nat \ {0}
    BY <2>2 DEF IsLadder
  <2>4. size \in Nat \ {0}
    <3>1. n % s.asks[1].price = 0
      BY <2>1 DEF Buys
    <3> QED
      BY <2>3, <3>1, Divides
  <2>5. /\ Complete(fill, size)
        /\ SizePoint(s, d, n) = Economics(d, fill.filled, fill.value, fill.filled * s.price, 1)
    BY <1>1, <2>1 DEF SizedSell
  <2> HIDE DEF size
  <2>6. fill \in Filling(size) /\ fill.filled <= fill.value
    BY <2>2, <2>4, WalkCosts
  <2> HIDE DEF fill
  <2>7. fill.filled \in Nat /\ fill.value \in Nat /\ fill.filled >= size
    BY <2>5, <2>6 DEF Filling, Complete
  <2>8. fill.filled * s.price \in Nat /\ fill.value # 0 /\ 1 \in {1, 2}
    BY <2>2, <2>4, <2>6, <2>7
  <2> DEFINE dex == fill.filled * s.price
             e == Economics(d, fill.filled, fill.value, dex, 1)
  <2>9. dex \in Nat
    BY <2>8
  <2> HIDE DEF dex
  <2>10. e \in EconShape /\ e.notional = fill.value
    BY <1>1, <2>7, <2>8, <2>9, EconomicsTyped
  <2> QED
    BY <1>1, <2>5, <2>7, <2>8, <2>10 DEF dex
<1>2. CASE d = "DEX_to_CEX"
  <2> DEFINE size == n \div s.price
             fill == WalkBook(s.bids, size)
             e == Economics(d, size, fill.value, n, 1)
  <2>1. d # "CEX_to_DEX"
    BY <1>2
  <2>2. s.bids # <<>> /\ SizePoint(s, d, n) = SizedBuy(s, n)
    BY <2>1 DEF SizePoint
  <2>3. IsLadder(s.bids) /\ s.price \in Nat \ {0}
    BY <2>2 DEF SightingShape
  <2>4. size \in Nat
    <3>1. n % s.price = 0
      BY DEF Buys
    <3> QED
      BY <2>3, <3>1, Divides
  <2>5. SizePoint(s, d, n) = e
    BY <1>2, <2>2 DEF SizedBuy
  <2> HIDE DEF size
  <2>6. fill \in Filling(size)
    BY <2>3, <2>4, WalkCosts
  <2> HIDE DEF fill
  <2>7. fill.value \in Nat /\ 1 \in {1, 2}
    BY <2>6 DEF Filling
  <2>8. e \in EconShape /\ e.notional = n
    BY <2>1, <2>4, <2>7, EconomicsTyped
  <2> QED
    BY <2>5, <2>8
<1> QED
  BY <1>1, <1>2 DEF Ways

\* The shipped detector prices its notional as the study does.
LEMMA DetectorPricesAlike ==
    ASSUME NEW s, SightingShape(s), s.asks # <<>>, s.bids # <<>>, NEW d \in Ways,
           Buys(s, Notional)
    PROVE  Detected(s, d) = SizePoint(s, d, Notional)
<1>1. Notional \in Nat \ {0} /\ Unpriced \notin Nat
  BY ValuationAssumption, ResearchAssumption
<1>2. s.price \in Nat \ {0} /\ s.room \in Nat
  BY DEF SightingShape
<1>3. CASE d = "CEX_to_DEX"
  <2> DEFINE size == Notional \div s.asks[1].price
             fill == WalkBook(s.asks, size)
             out == ReplayQuote(s, fill.filled, "sell")
  <2>1. IsLadder(s.asks)
    BY DEF SightingShape
  <2>2. s.asks[1].price \in Nat \ {0}
    BY <2>1 DEF IsLadder
  <2>3. size \in Nat
    <3>1. Notional % s.asks[1].price = 0
      BY DEF Buys
    <3> QED
      BY <1>1, <2>2, <3>1, Divides
  <2>4. /\ Detected(s, d) = IF Complete(fill, size) /\ out # Unpriced
                            THEN Economics(d, fill.filled, fill.value, out, 1) ELSE Unpriced
        /\ SizePoint(s, d, Notional) =
              IF Complete(fill, size) /\ fill.filled <= s.room
              THEN Economics(d, fill.filled, fill.value, fill.filled * s.price, 1) ELSE Unpriced
    BY <1>3 DEF Detected, SizePoint, SizedSell
  <2> HIDE DEF size
  <2>5. fill \in Filling(size)
    BY <2>1, <2>3, WalkCosts
  <2> HIDE DEF fill
  <2>6. fill.filled \in Nat
    BY <2>5 DEF Filling
  <2>7. fill.filled * s.price \in Nat
    BY <1>2, <2>6
  <2>8. out = IF fill.filled <= s.room THEN fill.filled * s.price ELSE Unpriced
    BY DEF ReplayQuote
  <2>9. out # Unpriced <=> fill.filled <= s.room
    BY <1>1, <2>7, <2>8
  <2> HIDE DEF out
  <2> QED
    BY <2>4, <2>8, <2>9
<1>4. CASE d = "DEX_to_CEX"
  <2> DEFINE size == Notional \div s.price
             out == ReplayQuote(s, Notional, "buy")
  <2>1. size \in Nat \ {0} /\ Notional = s.price * size
    <3>1. Notional % s.price = 0
      BY DEF Buys
    <3> QED
      BY <1>1, <1>2, <3>1, Divides
  <2>2. out = IF Notional <= s.room * s.price THEN size ELSE Unpriced
    BY DEF ReplayQuote
  <2>3. d # "CEX_to_DEX"
    BY <1>4
  <2>4. /\ Detected(s, d) = IF out # Unpriced /\ Complete(WalkBook(s.bids, out), out)
                            THEN Economics(d, out, WalkBook(s.bids, out).value, Notional, 1) ELSE Unpriced
        /\ SizePoint(s, d, Notional) =
              IF size <= s.room /\ Complete(WalkBook(s.bids, size), size)
              THEN Economics(d, size, WalkBook(s.bids, size).value, Notional, 1) ELSE Unpriced
    BY <1>4, <2>3 DEF Detected, SizePoint, SizedBuy
  <2> HIDE DEF size, out
  <2>5. Notional <= s.room * s.price <=> size <= s.room
    <3> DEFINE p == s.price
               r == s.room
    <3>1. p \in Nat \ {0} /\ r \in Nat /\ size \in Nat
      BY <1>2, <2>1
    <3> HIDE DEF p, r
    <3>2. size <= r => p * size <= r * p
      BY <3>1
    <3>3. r + 1 <= size => p * size >= r * p + p
      <4>1. r + 1 <= size => p * (r + 1) <= p * size
        BY <3>1
      <4>2. p * (r + 1) = r * p + p
        BY <3>1
      <4> QED
        BY <4>1, <4>2
    <3>4. r * p \in Nat /\ p * size \in Nat
      BY <3>1
    <3>5. p * size <= r * p <=> size <= r
      BY <3>1, <3>2, <3>3, <3>4
    <3> QED
      BY <2>1, <3>5 DEF p, r
  <2>6. out # Unpriced <=> size <= s.room
    BY <1>1, <2>1, <2>2, <2>5
  <2>7. size <= s.room => out = size
    BY <2>2, <2>5
  <2> QED
    BY <2>4, <2>6, <2>7
<1> QED
  BY <1>3, <1>4 DEF Ways

\* A point of the study as a decision.
Picked(s, d, j) == Sided(SizePoint(s, d, Grid[j]), d)

\* A size that has a price makes a decision.
LEMMA SidedIs ==
    ASSUME NEW s \in Sightings, NEW d \in Ways, NEW j \in DOMAIN Grid
    PROVE  /\ Picked(s, d, j) # Unpriced <=> SizePoint(s, d, Grid[j]) # Unpriced
           /\ Picked(s, d, j) # Unpriced =>
                 /\ Picked(s, d, j).dir = d
                 /\ Picked(s, d, j).net = SizePoint(s, d, Grid[j]).net
                 /\ Picked(s, d, j).notional = SizePoint(s, d, Grid[j]).notional
                 /\ Picked(s, d, j).net \in Int /\ Picked(s, d, j).notional \in Nat \ {0}
<1> DEFINE e == SizePoint(s, d, Grid[j])
           p == [dir |-> d, net |-> e.net, notional |-> e.notional]
<1>1. CASE e = Unpriced
  BY <1>1 DEF Picked, Sided
<1>2. CASE e # Unpriced
  <2>1. Picked(s, d, j) = p
    BY <1>2 DEF Picked, Sided
  <2>2. SightingShape(s) /\ Grid[j] \in Nat \ {0} /\ Buys(s, Grid[j])
    BY SightingIs
  <2>3. e \in EconShape /\ e.notional \in Nat \ {0}
    BY <1>2, <2>2, PointTyped
  <2>4. e.net \in Int
    BY <2>3 DEF EconShape
  <2> HIDE DEF e
  <2>5. p \in [dir : Ways, net : Int, notional : Nat]
    BY <2>3, <2>4
  <2>6. p # Unpriced
    BY <2>5, ResearchAssumption
  <2> QED
    BY <1>2, <2>1, <2>3, <2>4, <2>6 DEF e
<1> QED
  BY <1>1, <1>2

Above(e) == e # Unpriced /\ e.net > StudyFloor * e.notional

\* optimise_size returns one of the sizes above the floor, and none of them is worth more.
LEMMA OptimumIs ==
    ASSUME NEW s \in Sightings, NEW d \in Ways
    PROVE  \/ /\ OptimiseSize(s, d) = Unpriced
              /\ \A i \in DOMAIN Grid : ~Above(SizePoint(s, d, Grid[i]))
           \/ \E j \in DOMAIN Grid :
                 /\ OptimiseSize(s, d) = SizePoint(s, d, Grid[j]) /\ Above(SizePoint(s, d, Grid[j]))
                 /\ \A i \in DOMAIN Grid : Above(SizePoint(s, d, Grid[i])) =>
                       SizePoint(s, d, Grid[i]).net <= SizePoint(s, d, Grid[j]).net
<1> DEFINE c == Curve(s, d)
           fit == {i \in DOMAIN Grid : Above(SizePoint(s, d, Grid[i]))}
           n == Len(Grid)
<1>1. n \in Nat /\ DOMAIN Grid = 1 .. n
  BY ResearchAssumption
<1>2. DOMAIN c = DOMAIN Grid /\ \A i \in DOMAIN Grid : c[i] = SizePoint(s, d, Grid[i])
  BY DEF Curve
<1>3. OptimiseSize(s, d) = FirstBest(c, {i \in Priced(c) : c[i].net > StudyFloor * c[i].notional}, ByValue)
  BY DEF OptimiseSize
<1> HIDE DEF c
<1>4. {i \in Priced(c) : c[i].net > StudyFloor * c[i].notional} = fit
  BY <1>2 DEF Priced, Above
<1>5. OptimiseSize(s, d) = FirstBest(c, fit, ByValue)
  BY <1>3, <1>4
<1>6. ASSUME NEW i \in fit PROVE i \in DOMAIN Grid /\ c[i] = SizePoint(s, d, Grid[i]) /\ c[i].net \in Int
  <2>1. i \in DOMAIN Grid /\ c[i] = SizePoint(s, d, Grid[i]) /\ c[i] # Unpriced
    BY <1>2 DEF Above
  <2>2. SightingShape(s) /\ Grid[i] \in Nat \ {0} /\ Buys(s, Grid[i])
    BY <2>1, SightingIs
  <2>3. c[i] \in EconShape
    BY <2>1, <2>2, PointTyped
  <2> QED
    BY <2>1, <2>3 DEF EconShape
<1>7. CASE fit = {}
  <2>1. OptimiseSize(s, d) = Unpriced
    BY <1>5, <1>7 DEF FirstBest
  <2> QED
    BY <1>7, <2>1
<1>8. CASE fit # {}
  <2>1. fit \in SUBSET (1 .. n)
    BY <1>1
  <2>2. \A i \in fit : c[i].net \in Int
    BY <1>6
  <2>3. \A i \in DOMAIN Grid : i \in fit <=> Above(SizePoint(s, d, Grid[i]))
    OBVIOUS
  <2> HIDE DEF fit, n
  <2>4. PICK j \in fit : /\ FirstBest(c, fit, ByValue) = c[j]
                         /\ \A i \in fit : c[i].net <= c[j].net
    BY <1>1, <1>8, <2>1, <2>2, BestByValue
  <2>5. j \in DOMAIN Grid /\ c[j] = SizePoint(s, d, Grid[j])
    BY <1>6
  <2>6. OptimiseSize(s, d) = SizePoint(s, d, Grid[j]) /\ Above(SizePoint(s, d, Grid[j]))
    BY <1>5, <2>3, <2>4, <2>5
  <2>7. \A i \in DOMAIN Grid : Above(SizePoint(s, d, Grid[i])) =>
           SizePoint(s, d, Grid[i]).net <= SizePoint(s, d, Grid[j]).net
    BY <1>6, <2>3, <2>4, <2>5
  <2> QED
    BY <2>5, <2>6, <2>7
<1> QED
  BY <1>7, <1>8

\* A decision is the optimum of one of the directions, and there is one if one has one.
LEMMA DecisionIs ==
    ASSUME NEW s \in Sightings
    PROVE  /\ BestDecision(s) # Unpriced <=> \E d \in Ways : OptimiseSize(s, d) # Unpriced
           /\ BestDecision(s) # Unpriced =>
                 \E d \in Ways, j \in DOMAIN Grid :
                    /\ BestDecision(s) = Picked(s, d, j) /\ SizePoint(s, d, Grid[j]) # Unpriced
<1> DEFINE way(i) == IF i = 1 THEN "CEX_to_DEX" ELSE "DEX_to_CEX"
           two == <<Sided(OptimiseSize(s, "CEX_to_DEX"), "CEX_to_DEX"),
                    Sided(OptimiseSize(s, "DEX_to_CEX"), "DEX_to_CEX")>>
           fit == {i \in 1 .. 2 : OptimiseSize(s, way(i)) # Unpriced}
<1>1. \A i \in 1 .. 2 : way(i) \in Ways
  BY DEF Ways
<1>2. DOMAIN two = 1 .. 2 /\ \A i \in 1 .. 2 : two[i] = Sided(OptimiseSize(s, way(i)), way(i))
  OBVIOUS
<1>3. BestDecision(s) = FirstBest(two, Priced(two), ByRate)
  BY DEF BestDecision
<1>4. \A d \in Ways : \E i \in 1 .. 2 : d = way(i)
  BY DEF Ways
<1> HIDE DEF two, way
<1>5. ASSUME NEW i \in 1 .. 2, OptimiseSize(s, way(i)) # Unpriced
      PROVE  \E j \in DOMAIN Grid : /\ two[i] = Picked(s, way(i), j) /\ two[i] # Unpriced
                                    /\ SizePoint(s, way(i), Grid[j]) # Unpriced
                                    /\ two[i].net \in Int /\ two[i].notional \in Nat \ {0}
  <2>1. PICK j \in DOMAIN Grid : /\ OptimiseSize(s, way(i)) = SizePoint(s, way(i), Grid[j])
                                 /\ Above(SizePoint(s, way(i), Grid[j]))
    BY <1>1, <1>5, OptimumIs
  <2>2. two[i] = Picked(s, way(i), j) /\ SizePoint(s, way(i), Grid[j]) # Unpriced
    BY <1>2, <2>1 DEF Picked, Above
  <2> QED
    BY <1>1, <2>2, SidedIs
<1>6. \A i \in 1 .. 2 : OptimiseSize(s, way(i)) = Unpriced => two[i] = Unpriced
  BY <1>2 DEF Sided
<1>7. Priced(two) = fit
  BY <1>2, <1>5, <1>6 DEF Priced
<1>8. fit \in SUBSET (1 .. 2) /\ 2 \in Nat
  OBVIOUS
<1>9. \A i \in fit : two[i].net \in Int /\ two[i].notional \in Nat \ {0}
  BY <1>5
<1>10. fit = {} <=> \A d \in Ways : OptimiseSize(s, d) = Unpriced
  BY <1>1, <1>4
<1>11. \A i \in fit : i \in 1 .. 2 /\ OptimiseSize(s, way(i)) # Unpriced
  OBVIOUS
<1> HIDE DEF fit
<1>12. CASE fit = {}
  <2>1. BestDecision(s) = Unpriced
    BY <1>3, <1>7, <1>12 DEF FirstBest
  <2> QED
    BY <1>10, <1>12, <2>1
<1>13. CASE fit # {}
  <2>1. PICK i \in fit : BestDecision(s) = two[i]
    BY <1>3, <1>7, <1>8, <1>9, <1>13, BestByRate
  <2>2. PICK j \in DOMAIN Grid : /\ two[i] = Picked(s, way(i), j) /\ two[i] # Unpriced
                                 /\ SizePoint(s, way(i), Grid[j]) # Unpriced
    BY <1>5, <1>11
  <2> QED
    BY <1>1, <1>10, <1>11, <1>13, <2>1, <2>2
<1> QED
  BY <1>12, <1>13

\* The best of all sizes is one that has a price.
LEMMA PriceableIs ==
    ASSUME NEW s \in Sightings, BestPriceable(s) # Unpriced
    PROVE  \E d \in Ways, j \in DOMAIN Grid :
              BestPriceable(s) = Picked(s, d, j) /\ SizePoint(s, d, Grid[j]) # Unpriced
<1> DEFINE of(d) == [i \in DOMAIN Grid |-> Sided(SizePoint(s, d, Grid[i]), d)]
           a == of("CEX_to_DEX")
           b == of("DEX_to_CEX")
           all == a \o b
           n == Len(Grid)
           S == {a[i] : i \in DOMAIN Grid} \cup {b[i] : i \in DOMAIN Grid}
<1>1. n \in Nat /\ DOMAIN Grid = 1 .. n
  BY ResearchAssumption
<1>2. /\ \A i \in 1 .. n : a[i] = Picked(s, "CEX_to_DEX", i) /\ b[i] = Picked(s, "DEX_to_CEX", i)
      /\ a \in [1 .. n -> S] /\ b \in [1 .. n -> S]
  <2>1. \A i \in 1 .. n : a[i] = Picked(s, "CEX_to_DEX", i) /\ b[i] = Picked(s, "DEX_to_CEX", i)
    BY <1>1 DEF Picked
  <2>2. a \in [1 .. n -> S] /\ b \in [1 .. n -> S]
    <3>1. \A i \in 1 .. n : a[i] \in S /\ b[i] \in S
      BY <1>1
    <3>2. a = [i \in 1 .. n |-> a[i]] /\ b = [i \in 1 .. n |-> b[i]]
      BY <1>1
    <3> HIDE DEF a, b, S
    <3> QED
      BY <3>1, <3>2
  <2> QED
    BY <2>1, <2>2
<1>3. BestPriceable(s) = FirstBest(all, Priced(all), ByRate)
  BY DEF BestPriceable
<1> HIDE DEF S, a, b
<1>4. a \in Seq(S) /\ b \in Seq(S) /\ Len(a) = n /\ Len(b) = n
  <2> HIDE DEF n
  <2> QED
    BY <1>1, <1>2
<1>5. /\ all \in Seq(S) /\ Len(all) = n + n
      /\ \A i \in 1 .. n : all[i] = a[i]
      /\ \A i \in 1 .. n : all[n + i] = b[i]
      /\ \A i \in 1 .. n + n : i \in 1 .. n \/ \E j \in 1 .. n : i = n + j
  <2> HIDE DEF n
  <2>1. /\ all \in Seq(S) /\ Len(all) = Len(a) + Len(b)
        /\ \A i \in 1 .. Len(a) : i \in 1 .. Len(all) /\ all[i] = a[i]
        /\ \A j \in 1 .. Len(b) : Len(a) + j \in 1 .. Len(all) /\ all[Len(a) + j] = b[j]
        /\ \A i \in 1 .. Len(all) : i \in 1 .. Len(a) \/ \E j \in 1 .. Len(b) : i = Len(a) + j
    BY <1>4, ConcatSplits
  <2> HIDE DEF all
  <2> QED
    BY <1>4, <2>1
<1>6. DOMAIN all = 1 .. n + n
  BY <1>5
<1> HIDE DEF all
<1>7. "CEX_to_DEX" \in Ways /\ "DEX_to_CEX" \in Ways
  BY DEF Ways
<1>8. ASSUME NEW i \in 1 .. n + n
      PROVE  \E d \in Ways, j \in DOMAIN Grid : all[i] = Picked(s, d, j)
  <2>1. CASE i \in 1 .. n
    BY <1>1, <1>2, <1>5, <1>7, <2>1
  <2>2. CASE \E j \in 1 .. n : i = n + j
    <3>1. PICK j \in 1 .. n : i = n + j
      BY <2>2
    <3>2. all[i] = b[j] /\ b[j] = Picked(s, "DEX_to_CEX", j)
      BY <1>2, <1>5, <3>1
    <3> QED
      BY <1>1, <1>7, <3>2
  <2> QED
    BY <1>5, <2>1, <2>2
<1> DEFINE fit == Priced(all)
           m == n + n
<1>9. fit \in SUBSET (1 .. m) /\ m \in Nat /\ \A i \in fit : all[i] # Unpriced
  BY <1>1, <1>6 DEF Priced
<1>10. \A i \in fit : all[i].net \in Int /\ all[i].notional \in Nat \ {0}
  <2> TAKE i \in fit
  <2>1. PICK d \in Ways, j \in DOMAIN Grid : all[i] = Picked(s, d, j)
    BY <1>8, <1>9
  <2> QED
    BY <1>9, <2>1, SidedIs
<1> HIDE DEF fit, m
<1>11. fit # {}
  BY <1>3 DEF FirstBest, fit
<1>12. PICK i \in fit : FirstBest(all, fit, ByRate) = all[i]
  BY <1>9, <1>10, <1>11, BestByRate
<1>13. PICK d \in Ways, j \in DOMAIN Grid : all[i] = Picked(s, d, j)
  BY <1>8, <1>9 DEF m
<1>14. SizePoint(s, d, Grid[j]) # Unpriced
  BY <1>9, <1>13, SidedIs
<1>15. BestPriceable(s) = Picked(s, d, j)
  BY <1>3, <1>12, <1>13 DEF fit
<1> QED
  BY <1>14, <1>15

-----------------------------------------------------------------------------
(* The replay of observations: observation_replay.py *)

\* What the detector could take of an observation, and what replaying it must yield.
Passing(s) == {e \in {SizePoint(s, d, Notional) : d \in Ways} :
                 e # Unpriced /\ Plausible(e) /\ Clears(e)}

Taken(s, e) ==
    /\ Costable(s) /\ e \in Passing(s) /\ \A f \in Passing(s) : f.net <= e.net
    /\ e.net > StudyFloor * e.notional =>
          /\ BestDecision(s) # Unpriced
          /\ \E d \in Ways : OptimiseSize(s, d) # Unpriced /\ OptimiseSize(s, d).net >= e.net

PassedBy(s, clears) == ~Costable(s) \/ ~clears \/ Passing(s) = {}

\* Above both floors the study decides as well, for no lesser value.
LEMMA StudyDecidesToo ==
    ASSUME NEW s \in Sightings, NEW e \in Passing(s), e.net > StudyFloor * e.notional
    PROVE  /\ BestDecision(s) # Unpriced
           /\ \E d \in Ways : OptimiseSize(s, d) # Unpriced /\ OptimiseSize(s, d).net >= e.net
<1>1. PICK d \in Ways : e = SizePoint(s, d, Notional) /\ e # Unpriced
  BY DEF Passing
<1>2. PICK i \in DOMAIN Grid : Grid[i] = Notional
  BY NotionalInGrid
<1>3. Above(SizePoint(s, d, Grid[i])) /\ e = SizePoint(s, d, Grid[i])
  BY <1>1, <1>2 DEF Above
<1>4. PICK j \in DOMAIN Grid :
         /\ OptimiseSize(s, d) = SizePoint(s, d, Grid[j]) /\ Above(SizePoint(s, d, Grid[j]))
         /\ \A k \in DOMAIN Grid : Above(SizePoint(s, d, Grid[k])) =>
               SizePoint(s, d, Grid[k]).net <= SizePoint(s, d, Grid[j]).net
  BY <1>3, OptimumIs
<1>5. OptimiseSize(s, d) # Unpriced /\ e.net <= OptimiseSize(s, d).net
  BY <1>3, <1>4 DEF Above
<1>6. ASSUME NEW k \in DOMAIN Grid, SizePoint(s, d, Grid[k]) # Unpriced
      PROVE  SizePoint(s, d, Grid[k]).net \in Int
  <2>1. SightingShape(s) /\ Grid[k] \in Nat \ {0} /\ Buys(s, Grid[k])
    BY SightingIs
  <2>2. SizePoint(s, d, Grid[k]) \in EconShape
    BY <1>6, <2>1, PointTyped
  <2> QED
    BY <2>2 DEF EconShape
<1>7. e.net \in Int /\ OptimiseSize(s, d).net \in Int
  BY <1>3, <1>4, <1>6 DEF Above
<1>8. OptimiseSize(s, d).net >= e.net
  BY <1>5, <1>7
<1> QED
  BY <1>5, <1>8, DecisionIs

\* A row that is replayed is decided as the study would decide it.
LEMMA RowReplayed ==
    ASSUME NEW s \in Sightings, s.gas, NEW clears \in BOOLEAN
    PROVE  IF Opportunities(s, clears) = Unpriced THEN PassedBy(s, clears)
           ELSE Taken(s, Opportunities(s, clears))
<1>1. CASE ~clears \/ s.asks = <<>> \/ s.bids = <<>>
  BY <1>1 DEF Opportunities, PassedBy, Costable
<1>2. CASE ~(~clears \/ s.asks = <<>> \/ s.bids = <<>>)
  <2> DEFINE way(i) == IF i = 1 THEN "CEX_to_DEX" ELSE "DEX_to_CEX"
             two == <<Detected(s, "CEX_to_DEX"), Detected(s, "DEX_to_CEX")>>
             fit == {i \in Priced(two) : Plausible(two[i]) /\ Clears(two[i])}
  <2>1. Opportunities(s, clears) = FirstBest(two, fit, ByValue)
    BY <1>2 DEF Opportunities
  <2>2. SightingShape(s) /\ Notional \in Nat \ {0} /\ Buys(s, Notional)
    BY NotionalInGrid, SightingIs
  <2>3. \A i \in 1 .. 2 : way(i) \in Ways
    BY DEF Ways
  <2>4. \A d \in Ways : \E i \in 1 .. 2 : d = way(i)
    BY DEF Ways
  <2>5. DOMAIN two = 1 .. 2 /\ \A i \in 1 .. 2 : two[i] = Detected(s, way(i))
    OBVIOUS
  <2> HIDE DEF way, two
  <2>6. \A i \in 1 .. 2 : two[i] = SizePoint(s, way(i), Notional)
    BY <1>2, <2>2, <2>3, <2>5, DetectorPricesAlike
  <2>7. \A i \in fit : i \in 1 .. 2 /\ two[i] \in Passing(s)
    BY <2>3, <2>5, <2>6 DEF Priced, Passing
  <2>8. \A e \in Passing(s) : \E i \in fit : e = two[i]
    <3> TAKE e \in Passing(s)
    <3>1. PICK d \in Ways : e = SizePoint(s, d, Notional)
      BY DEF Passing
    <3>2. PICK i \in 1 .. 2 : d = way(i)
      BY <2>4
    <3>3. e = two[i] /\ e # Unpriced /\ Plausible(e) /\ Clears(e)
      BY <2>6, <3>1, <3>2 DEF Passing
    <3> QED
      BY <2>5, <3>3 DEF Priced
  <2>9. \A e \in Passing(s) : e.net \in Int
    <3> TAKE e \in Passing(s)
    <3>1. PICK d \in Ways : e = SizePoint(s, d, Notional) /\ e # Unpriced
      BY DEF Passing
    <3>2. e \in EconShape
      BY <2>2, <3>1, PointTyped
    <3> QED
      BY <3>2 DEF EconShape
  <2>10. Costable(s)
    BY <1>2 DEF Costable
  <2> HIDE DEF fit
  <2>11. CASE fit = {}
    <3>1. Opportunities(s, clears) = Unpriced
      BY <2>1, <2>11 DEF FirstBest
    <3>2. Passing(s) = {}
      BY <2>8, <2>11
    <3> QED
      BY <3>1, <3>2 DEF PassedBy
  <2>12. CASE fit # {}
    <3>1. fit \in SUBSET (1 .. 2) /\ 2 \in Nat
      BY <2>7
    <3>2. \A i \in fit : two[i].net \in Int
      BY <2>7, <2>9
    <3>3. PICK i \in fit : /\ FirstBest(two, fit, ByValue) = two[i]
                           /\ \A j \in fit : two[j].net <= two[i].net
      BY <2>12, <3>1, <3>2, BestByValue
    <3> DEFINE e == Opportunities(s, clears)
    <3>4. e = two[i] /\ e \in Passing(s) /\ e # Unpriced
      BY <2>1, <2>7, <3>3 DEF Passing
    <3>5. \A f \in Passing(s) : f.net <= e.net
      BY <2>8, <3>3, <3>4
    <3> HIDE DEF e
    <3>6. Taken(s, e)
      BY <2>10, <3>4, <3>5, StudyDecidesToo DEF Taken
    <3> QED
      BY <3>4, <3>6 DEF e
  <2> QED
    BY <2>11, <2>12
<1> QED
  BY <1>1, <1>2

Seen == [at : Nat, seen : Sightings]

\* The observations of a tape are in order of their times.
TapeGood(recs) ==
    /\ recs \in Seq(Seen)
    /\ \A i \in 1 .. Len(recs) - 1 : recs[i].at < recs[i + 1].at

\* The fields of a replay.
Fields == {"at", "evaluated", "uncostable", "opportunities", "clears", "found"}

\* What each of the ways a replay is written leaves of it.
LEMMA ReplayBegun ==
    ASSUME NEW r, DOMAIN r = Fields, NEW a2, NEW c2
    PROVE  LET q == [r EXCEPT !.at = a2, !.clears = c2] IN
           /\ DOMAIN q = Fields /\ q.at = a2 /\ q.clears = c2
           /\ q.evaluated = r.evaluated /\ q.uncostable = r.uncostable
           /\ q.opportunities = r.opportunities /\ q.found = r.found
BY DEF Fields

ReplayGood(recs, r) ==
    /\ DOMAIN r = Fields
    /\ r.at \in Nat /\ r.at <= Len(recs) + 1 /\ r.clears \in BOOLEAN
    /\ r.evaluated \in Nat /\ r.uncostable \in Nat
    /\ r.at > 0 => r.evaluated + r.uncostable = r.at - 1
    /\ DOMAIN r.found \subseteq 1 .. r.at - 1
    /\ r.opportunities = Cardinality(DOMAIN r.found)
    /\ \A i \in 1 .. r.at - 1 :
          IF i \in DOMAIN r.found THEN Taken(recs[i].seen, r.found[i])
          ELSE PassedBy(recs[i].seen, r.clears)

\* A replay that has not begun has found nothing.
LEMMA NothingReplayed ==
    ASSUME NEW recs, Len(recs) \in Nat
    PROVE  ReplayGood(recs, NoReplay)
<1> DEFINE none == [i \in {} |-> Unpriced]
<1>1. DOMAIN none = {} /\ Cardinality({}) = 0
  BY FS_EmptySet
<1> HIDE DEF none
<1>2. NoReplay = [at |-> 0, evaluated |-> 0, uncostable |-> 0, opportunities |-> 0,
                  clears |-> FALSE, found |-> none]
  BY DEF NoReplay, none
<1>3. /\ NoReplay.at = 0 /\ NoReplay.evaluated = 0 /\ NoReplay.uncostable = 0
      /\ NoReplay.opportunities = 0 /\ NoReplay.clears = FALSE /\ NoReplay.found = none
  BY <1>2
<1>4. 1 .. 0 - 1 = {}
  OBVIOUS
<1>5. DOMAIN NoReplay = Fields
  BY DEF NoReplay, Fields
<1>6. \A i \in 1 .. NoReplay.at - 1 : FALSE
  BY <1>3, <1>4
<1>7. DOMAIN NoReplay.found = {} /\ NoReplay.opportunities = Cardinality(DOMAIN NoReplay.found)
  BY <1>1, <1>3
<1>8. NoReplay.at \in Nat /\ NoReplay.at <= Len(recs) + 1 /\ ~(NoReplay.at > 0)
  BY <1>3
<1>9. NoReplay.evaluated \in Nat /\ NoReplay.uncostable \in Nat
  BY <1>3
<1>10. NoReplay.clears \in BOOLEAN
  BY <1>3, Zenon
<1> QED
  BY <1>5, <1>6, <1>7, <1>8, <1>9, <1>10 DEF ReplayGood

\* Nor has one that begins.
LEMMA BeginsGood ==
    ASSUME NEW recs, Len(recs) \in Nat, NEW c \in BOOLEAN
    PROVE  ReplayGood(recs, [NoReplay EXCEPT !.at = 1, !.clears = c])
<1> DEFINE r == [NoReplay EXCEPT !.at = 1, !.clears = c]
<1>1. ReplayGood(recs, NoReplay)
  BY NothingReplayed
<1>2. /\ NoReplay.evaluated = 0 /\ NoReplay.uncostable = 0 /\ NoReplay.opportunities = 0
      /\ DOMAIN NoReplay.found = {}
  BY DEF NoReplay
<1>3. DOMAIN NoReplay = Fields /\ NoReplay.opportunities = Cardinality(DOMAIN NoReplay.found)
  BY <1>1 DEF ReplayGood
<1>4. /\ DOMAIN r = Fields /\ r.at = 1 /\ r.evaluated = 0 /\ r.uncostable = 0
      /\ r.clears = c /\ r.found = NoReplay.found /\ r.opportunities = NoReplay.opportunities
  BY <1>2, <1>3, ReplayBegun
<1> HIDE DEF r
<1>5. 1 .. 1 - 1 = {}
  OBVIOUS
<1>6. \A i \in 1 .. r.at - 1 : FALSE
  BY <1>4, <1>5
<1>7. DOMAIN r.found = {} /\ r.opportunities = Cardinality(DOMAIN r.found)
  BY <1>2, <1>3, <1>4
<1>8. /\ r.at \in Nat /\ r.at <= Len(recs) + 1 /\ r.evaluated + r.uncostable = r.at - 1
      /\ r.evaluated \in Nat /\ r.uncostable \in Nat /\ r.clears \in BOOLEAN
  BY <1>4
<1>9. ReplayGood(recs, r)
  BY <1>4, <1>6, <1>7, <1>8 DEF ReplayGood
<1> QED
  BY <1>9 DEF r

\* A replay that goes on by one row stays faithful.
LEMMA GoesOnGood ==
    ASSUME NEW recs, TapeGood(recs), NEW r, ReplayGood(recs, r), 0 < r.at, r.at <= Len(recs),
           NEW q,
           LET s == recs[r.at].seen
               e == Opportunities(s, r.clears)
           IN  q = IF ~s.gas THEN [r EXCEPT !.at = @ + 1, !.uncostable = @ + 1]
                   ELSE [r EXCEPT !.at = @ + 1, !.evaluated = @ + 1,
                                  !.opportunities = @ + (IF e = Unpriced THEN 0 ELSE 1),
                                  !.found = IF e = Unpriced THEN @ ELSE With(@, r.at, e)]
    PROVE  ReplayGood(recs, q)
<1> DEFINE s == recs[r.at].seen
           e == Opportunities(s, r.clears)
           n == Len(recs)
           k == r.at
           v == r.evaluated
           u == r.uncostable
           o == r.opportunities
           c == r.clears
           f == r.found
           o2 == o + (IF e = Unpriced THEN 0 ELSE 1)
           f2 == IF e = Unpriced THEN f ELSE With(f, k, e)
<1>1. /\ DOMAIN r = Fields
      /\ k \in Nat /\ c \in BOOLEAN /\ v \in Nat /\ u \in Nat /\ v + u = k - 1
      /\ DOMAIN f \subseteq 1 .. k - 1 /\ o = Cardinality(DOMAIN f)
      /\ \A i \in 1 .. k - 1 : IF i \in DOMAIN f THEN Taken(recs[i].seen, f[i])
                               ELSE PassedBy(recs[i].seen, c)
  BY DEF ReplayGood
<1>2. n \in Nat /\ k \in 1 .. n /\ s \in Sightings
  <2>1. recs \in Seq(Seen)
    BY DEF TapeGood
  <2>2. n \in Nat /\ k \in 1 .. n
    BY <1>1, <2>1
  <2>3. recs[k] \in Seen
    BY <2>1, <2>2
  <2> QED
    BY <2>2, <2>3 DEF Seen
<1>3. q = IF ~s.gas THEN [r EXCEPT !.at = k + 1, !.uncostable = u + 1]
          ELSE [r EXCEPT !.at = k + 1, !.evaluated = v + 1, !.opportunities = o2, !.found = f2]
  BY <1>1
<1>4. k <= n /\ k + 1 <= n + 1 /\ k + 1 \in Nat
  BY <1>2
<1> HIDE DEF s, e, k, v, u, o, c, f, o2, f2, n
<1>5. k + 1 - 1 = k /\ \A i \in 1 .. k : i \in 1 .. k - 1 \/ i = k
  BY <1>1
<1>6. IsFiniteSet(DOMAIN f) /\ o \in Nat
  <2>1. IsFiniteSet(1 .. k - 1)
    <3>1. 1 \in Int /\ k - 1 \in Int
      BY <1>1
    <3> QED
      BY <3>1, FS_Interval
  <2>2. IsFiniteSet(DOMAIN f)
    BY <1>1, <2>1, FS_Subset
  <2> QED
    BY <1>1, <2>2, FS_CardinalityType
<1>7. k \notin DOMAIN f
  <2>1. k \notin 1 .. k - 1
    BY <1>1
  <2> QED
    BY <1>1, <2>1
<1>8. DOMAIN f \subseteq 1 .. k /\ k \in 1 .. k
  <2>1. 1 .. k - 1 \subseteq 1 .. k
    BY <1>1
  <2> QED
    BY <1>1, <1>2, <2>1
<1>9. CASE ~s.gas
  <2> DEFINE u2 == u + 1
             k2 == k + 1
  <2> HIDE DEF u2, k2
  <2>1. q = [r EXCEPT !.at = k2, !.uncostable = u2]
    BY <1>3, <1>9 DEF k2, u2
  <2>2. /\ DOMAIN q = Fields /\ q.at = k2 /\ q.evaluated = v /\ q.uncostable = u2
        /\ q.opportunities = o /\ q.clears = c /\ q.found = f
    <3>1. DOMAIN r = Fields
      BY <1>1
    <3> QED
      BY <2>1, <3>1 DEF v, o, c, f, Fields
  <2>3. PassedBy(s, c)
    BY <1>9 DEF PassedBy, Costable
  <2>4. \A i \in 1 .. k : IF i \in DOMAIN f THEN Taken(recs[i].seen, f[i])
                          ELSE PassedBy(recs[i].seen, c)
    BY <1>1, <1>5, <1>7, <2>3 DEF s, k
  <2>5. k2 - 1 = k /\ u2 \in Nat /\ v + u2 = k2 - 1 /\ k2 \in Nat /\ k2 <= n + 1
    BY <1>1, <1>4 DEF k2, u2
  <2>6. DOMAIN f \subseteq 1 .. k2 - 1
    BY <1>8, <2>5
  <2> QED
    BY <1>1, <2>2, <2>4, <2>5, <2>6 DEF ReplayGood, n
<1>10. CASE s.gas
  <2> DEFINE v2 == v + 1
             k2 == k + 1
  <2> HIDE DEF v2, k2
  <2>1. q = [r EXCEPT !.at = k2, !.evaluated = v2, !.opportunities = o2, !.found = f2]
    BY <1>3, <1>10 DEF k2, v2
  <2>2. /\ DOMAIN q = Fields /\ q.at = k2 /\ q.evaluated = v2 /\ q.uncostable = u
        /\ q.opportunities = o2 /\ q.clears = c /\ q.found = f2
    <3>1. DOMAIN r = Fields
      BY <1>1
    <3> QED
      BY <2>1, <3>1 DEF u, c, Fields
  <2>3. IF e = Unpriced THEN PassedBy(s, c) ELSE Taken(s, e)
    BY <1>1, <1>2, <1>10, RowReplayed DEF e, c
  <2>4. /\ DOMAIN f2 \subseteq 1 .. k /\ o2 = Cardinality(DOMAIN f2)
        /\ \A i \in 1 .. k : IF i \in DOMAIN f2 THEN Taken(recs[i].seen, f2[i])
                             ELSE PassedBy(recs[i].seen, c)
    <3>1. CASE e = Unpriced
      <4>1. f2 = f /\ o2 = o
        BY <1>6, <3>1 DEF f2, o2
      <4>2. \A i \in 1 .. k : IF i \in DOMAIN f THEN Taken(recs[i].seen, f[i])
                              ELSE PassedBy(recs[i].seen, c)
        BY <1>1, <1>5, <1>7, <2>3, <3>1 DEF s, k
      <4> QED
        BY <1>1, <1>8, <4>1, <4>2
    <3>2. CASE e # Unpriced
      <4>1. f2 = [i \in DOMAIN f \cup {k} |-> IF i = k THEN e ELSE f[i]] /\ o2 = o + 1
        BY <3>2 DEF f2, o2, With
      <4>2. DOMAIN f2 = DOMAIN f \cup {k} /\ f2[k] = e /\ \A i \in DOMAIN f : f2[i] = f[i]
        BY <1>7, <4>1
      <4>3. Cardinality(DOMAIN f2) = o + 1
        BY <1>1, <1>6, <1>7, <4>2, FS_AddElement
      <4>4. \A i \in 1 .. k : IF i \in DOMAIN f2 THEN Taken(recs[i].seen, f2[i])
                              ELSE PassedBy(recs[i].seen, c)
        BY <1>1, <1>5, <1>7, <2>3, <3>2, <4>2 DEF s, k
      <4> QED
        BY <1>8, <4>1, <4>2, <4>3, <4>4
    <3> QED
      BY <3>1, <3>2
  <2>5. k2 - 1 = k /\ v2 \in Nat /\ v2 + u = k2 - 1 /\ k2 \in Nat /\ k2 <= n + 1
    BY <1>1, <1>4 DEF k2, v2
  <2> QED
    BY <1>1, <2>2, <2>4, <2>5 DEF ReplayGood, n
<1>11. s.gas \in BOOLEAN
  BY <1>2, ResearchAssumption
<1> QED
  BY <1>9, <1>10, <1>11

\* The tape grows in the order of its times.
LEMMA TapeGrows ==
    ASSUME NEW recs, TapeGood(recs), NEW s \in Sightings, NEW g \in Gaps
    PROVE  TapeGood(Append(recs, [at |-> IF recs = <<>> THEN 0 ELSE Last(recs).at + g, seen |-> s]))
<1> DEFINE n == Len(recs)
           t == IF recs = <<>> THEN 0 ELSE Last(recs).at + g
           row == [at |-> t, seen |-> s]
           more == Append(recs, row)
<1>1. /\ recs \in Seq(Seen) /\ n \in Nat /\ g \in Nat \ {0}
      /\ \A i \in 1 .. n - 1 : recs[i].at < recs[i + 1].at
  BY ResearchAssumption DEF TapeGood
<1>2. \A i \in 1 .. n : recs[i] \in Seen /\ recs[i].at \in Nat
  <2>1. \A i \in 1 .. n : recs[i] \in Seen
    BY <1>1
  <2>2. \A x \in Seen : x.at \in Nat
    BY DEF Seen
  <2> QED
    BY <2>1, <2>2
<1>3. recs # <<>> => n \in 1 .. n /\ t = recs[n].at + g
  <2>1. recs # <<>> => n \in 1 .. n
    BY <1>1
  <2> QED
    BY <2>1 DEF Last
<1>4. t \in Nat
  BY <1>1, <1>2, <1>3
<1> HIDE DEF t
<1>5. row \in Seen /\ row.at = t
  BY <1>4 DEF Seen
<1> HIDE DEF row
<1>6. /\ more \in Seq(Seen) /\ Len(more) = n + 1 /\ more[n + 1] = row
      /\ \A i \in 1 .. n : more[i] = recs[i]
  BY <1>1, <1>5
<1> HIDE DEF more
<1>7. ASSUME NEW i \in 1 .. Len(more) - 1 PROVE more[i].at < more[i + 1].at
  <2>1. i \in 1 .. n
    BY <1>1, <1>6
  <2>2. CASE i < n
    <3>1. i \in 1 .. n - 1 /\ i + 1 \in 1 .. n
      BY <1>1, <2>1, <2>2
    <3> QED
      BY <1>1, <1>6, <2>1, <3>1
  <2>3. CASE i = n
    <3>1. recs # <<>>
      BY <1>1, <2>1
    <3>2. more[i].at = recs[n].at /\ more[i + 1].at = recs[n].at + g /\ recs[n].at \in Nat
      BY <1>2, <1>3, <1>5, <1>6, <2>1, <2>3, <3>1
    <3> QED
      BY <1>1, <3>2
  <2> QED
    BY <1>1, <2>1, <2>2, <2>3
<1>8. TapeGood(more)
  BY <1>6, <1>7 DEF TapeGood
<1> QED
  BY <1>8 DEF more, row, t

\* What is replayed so far, and what the tape is.
ReplayInv == TapeGood(tape) /\ ReplayGood(tape, replay)

\* At the start nothing is.
LEMMA ReplayStarts == ResearchInit => ReplayInv
<1> SUFFICES ASSUME ResearchInit PROVE ReplayInv
  OBVIOUS
<1>1. tape = <<>> /\ replay = NoReplay
  BY DEF ResearchInit
<1>2. Len(tape) = 0 /\ tape \in Seq(Seen)
  BY <1>1
<1>3. TapeGood(tape)
  BY <1>2 DEF TapeGood
<1>4. ReplayGood(tape, replay)
  BY <1>1, <1>2, NothingReplayed
<1> QED
  BY <1>3, <1>4 DEF ReplayInv

\* Every step keeps it.
LEMMA ReplayStep == ReplayInv /\ [ResearchNext]_researchVars => ReplayInv'
<1> SUFFICES ASSUME ReplayInv, [ResearchNext]_researchVars PROVE ReplayInv'
  OBVIOUS
<1>0. TapeGood(tape) /\ ReplayGood(tape, replay) /\ Len(tape) \in Nat
  BY DEF ReplayInv, TapeGood
<1>1. CASE Observe
  <2>1. PICK s \in (IF Len(tape) < Lively THEN Sightings ELSE {Last(tape).seen}), g \in Gaps :
           tape' = Append(tape, [at |-> IF tape = <<>> THEN 0 ELSE Last(tape).at + g, seen |-> s])
    BY <1>1 DEF Observe
  <2>2. s \in Sightings
    <3>1. CASE Len(tape) < Lively
      BY <2>1, <3>1
    <3>2. CASE ~(Len(tape) < Lively)
      <4>1. s = tape[Len(tape)].seen
        BY <2>1, <3>2 DEF Last
      <4>2. Len(tape) \in 1 .. Len(tape)
        BY <1>0, <3>2, ResearchAssumption
      <4>3. tape[Len(tape)] \in Seen
        BY <1>0, <4>2 DEF TapeGood
      <4> QED
        BY <4>1, <4>3 DEF Seen
    <3> QED
      BY <3>1, <3>2
  <2>3. TapeGood(tape')
    BY <1>0, <2>1, <2>2, TapeGrows
  <2>4. replay' = NoReplay /\ Len(tape') \in Nat
    BY <1>1, <2>3 DEF Observe, Unstudied, TapeGood
  <2>5. ReplayGood(tape', replay')
    BY <2>4, NothingReplayed
  <2> QED
    BY <2>3, <2>5 DEF ReplayInv
<1>2. CASE Analyse \/ Scramble \/ UNCHANGED researchVars
  <2>1. UNCHANGED <<tape, replay>>
    BY <1>2 DEF Analyse, Scramble, researchVars
  <2> QED
    BY <1>0, <2>1 DEF ReplayInv
<1>3. CASE ReplayBegins
  <2>1. PICK c \in BOOLEAN : replay' = [NoReplay EXCEPT !.at = 1, !.clears = c]
    BY <1>3 DEF ReplayBegins
  <2>2. tape' = tape
    BY <1>3 DEF ReplayBegins
  <2>3. ReplayGood(tape, replay')
    BY <1>0, <2>1, BeginsGood
  <2> QED
    BY <1>0, <2>2, <2>3 DEF ReplayInv
<1>4. CASE ReplayRow
  <2>1. 0 < replay.at /\ replay.at <= Len(tape) /\ tape' = tape
    BY <1>4 DEF ReplayRow
  <2>2. LET s == tape[replay.at].seen
            e == Opportunities(s, replay.clears)
        IN  replay' = IF ~s.gas THEN [replay EXCEPT !.at = @ + 1, !.uncostable = @ + 1]
                      ELSE [replay EXCEPT !.at = @ + 1, !.evaluated = @ + 1,
                               !.opportunities = @ + (IF e = Unpriced THEN 0 ELSE 1),
                               !.found = IF e = Unpriced THEN @ ELSE With(@, replay.at, e)]
    BY <1>4 DEF ReplayRow
  <2>3. ReplayGood(tape, replay')
    BY <1>0, <2>1, <2>2, GoesOnGood
  <2> QED
    BY <1>0, <2>1, <2>3 DEF ReplayInv
<1> QED
  BY <1>1, <1>2, <1>3, <1>4 DEF ResearchNext

\* It says what ReplayAgrees says.
LEMMA ReplayInvAgrees == ReplayInv => ReplayAgrees
<1> SUFFICES ASSUME ReplayInv PROVE ReplayAgrees
  OBVIOUS
<1>1. ReplayGood(tape, replay)
  BY DEF ReplayInv
<1>2. /\ replay.at > 0 => replay.evaluated + replay.uncostable = replay.at - 1
      /\ replay.opportunities = Cardinality(DOMAIN replay.found)
      /\ \A i \in 1 .. replay.at - 1 :
            IF i \in DOMAIN replay.found THEN Taken(tape[i].seen, replay.found[i])
            ELSE PassedBy(tape[i].seen, replay.clears)
  BY <1>1 DEF ReplayGood
<1>3. ASSUME NEW i \in 1 .. replay.at - 1
      PROVE  LET s == tape[i].seen
                 viable == {e \in {SizePoint(s, d, Notional) : d \in Ways} :
                               e # Unpriced /\ Plausible(e) /\ Clears(e)}
             IN  IF i \notin DOMAIN replay.found
                 THEN ~Costable(s) \/ ~replay.clears \/ viable = {}
                 ELSE LET e == replay.found[i] IN
                      /\ Costable(s) /\ e \in viable /\ \A f \in viable : f.net <= e.net
                      /\ e.net > StudyFloor * e.notional =>
                            /\ BestDecision(s) # Unpriced
                            /\ \E d \in Ways : LET f == OptimiseSize(s, d)
                                               IN  f # Unpriced /\ f.net >= e.net
  <2> DEFINE s == tape[i].seen
             viable == {e \in {SizePoint(s, d, Notional) : d \in Ways} :
                           e # Unpriced /\ Plausible(e) /\ Clears(e)}
  <2>1. viable = Passing(s)
    BY DEF Passing
  <2>2. IF i \in DOMAIN replay.found THEN Taken(s, replay.found[i]) ELSE PassedBy(s, replay.clears)
    BY <1>2
  <2> HIDE DEF s, viable
  <2>3. CASE i \notin DOMAIN replay.found
    <3>1. ~Costable(s) \/ ~replay.clears \/ viable = {}
      BY <2>1, <2>2, <2>3 DEF PassedBy
    <3> QED
      BY <2>3, <3>1 DEF s, viable
  <2>4. CASE i \in DOMAIN replay.found
    <3> DEFINE e == replay.found[i]
    <3>1. Taken(s, e)
      BY <2>2, <2>4
    <3> HIDE DEF e
    <3>2. Costable(s) /\ e \in viable /\ \A f \in viable : f.net <= e.net
      BY <2>1, <3>1 DEF Taken
    <3>3. e.net > StudyFloor * e.notional =>
             /\ BestDecision(s) # Unpriced
             /\ \E d \in Ways : LET f == OptimiseSize(s, d) IN f # Unpriced /\ f.net >= e.net
      BY <3>1 DEF Taken
    <3> QED
      BY <2>4, <3>2, <3>3 DEF s, viable, e
  <2> QED
    BY <2>3, <2>4
<1> QED
  BY <1>2, <1>3 DEF ReplayAgrees

\* Replaying the observations of a market finds, at every row, what the detector's one
\* size is worth there and in the study.
THEOREM ReplayAgreesWithStudy == ResearchSpec => []ReplayAgrees
<1>1. ResearchInit => ReplayInv
  BY ReplayStarts
<1>2. ReplayInv /\ [ResearchNext]_researchVars => ReplayInv'
  BY ReplayStep
<1>3. ReplayInv => ReplayAgrees
  BY ReplayInvAgrees
<1> QED
  BY <1>1, <1>2, <1>3, PTL DEF ResearchSpec

\* Neither replay of history departs from what it replays: the observations of a market
\* through the detector, a dataset of prices through the simulator.
THEOREM ReplaysAreFaithful ==
    ASSUME FloorNotNegative PROVE ReplaysSpec => []ReplaysFaithful
<1>1. ResearchSpec => []ReplayAgrees
  BY ReplayAgreesWithStudy
<1>2. BacktestSpec => []BacktestHonest
  BY BacktestIsHonest
<1> QED
  BY <1>1, <1>2, PTL DEF ReplaysSpec, ReplaysFaithful

-----------------------------------------------------------------------------
(* Rows that are near: evaluate.py and report.py *)

\* A distance is an amount.
LEMMA DistanceIs ==
    ASSUME NEW x \in Int
    PROVE  Distance(x) \in Nat /\ x <= Distance(x) /\ 0 - x <= Distance(x)
           /\ (Distance(x) = x \/ Distance(x) = 0 - x)
BY DEF Distance

\* The times of a tape are numbers.
LEMMA TapeTimes ==
    ASSUME NEW recs, TapeGood(recs)
    PROVE  /\ Len(recs) \in Nat /\ DOMAIN recs = 1 .. Len(recs)
           /\ \A i \in 1 .. Len(recs) : recs[i] \in Seen /\ recs[i].at \in Nat /\ recs[i].seen \in Sightings
<1>1. recs \in Seq(Seen)
  BY DEF TapeGood
<1>2. \A x \in Seen : x.at \in Nat /\ x.seen \in Sightings
  BY DEF Seen
<1>3. Len(recs) \in Nat /\ DOMAIN recs = 1 .. Len(recs)
  BY <1>1
<1>4. \A i \in 1 .. Len(recs) : recs[i] \in Seen
  BY <1>1
<1> QED
  BY <1>2, <1>3, <1>4

\* And in order.
LEMMA TapeOrdered ==
    ASSUME NEW recs, TapeGood(recs), NEW i \in 1 .. Len(recs), NEW j \in 1 .. Len(recs), i < j
    PROVE  recs[i].at < recs[j].at
<1> DEFINE n == Len(recs)
           T == {k \in Nat : i + 1 + k <= n => recs[i].at < recs[i + 1 + k].at}
<1>1. n \in Nat /\ \A m \in 1 .. n : recs[m].at \in Nat
  BY TapeTimes
<1>2. \A m \in 1 .. n - 1 : recs[m].at < recs[m + 1].at
  BY DEF TapeGood
<1> HIDE DEF n
<1>3. i \in 1 .. n /\ j \in 1 .. n
  BY DEF n
<1>4. 0 \in T
  <2>1. i + 1 <= n => i \in 1 .. n - 1
    BY <1>1, <1>3
  <2>2. i + 1 + 0 = i + 1
    BY <1>3
  <2> QED
    BY <1>2, <2>1, <2>2
<1>5. ASSUME NEW k \in T PROVE k + 1 \in T
  <2> SUFFICES ASSUME i + 1 + (k + 1) <= n PROVE recs[i].at < recs[i + 1 + (k + 1)].at
    OBVIOUS
  <2> DEFINE m == i + 1 + k
  <2>1. k \in Nat /\ m <= n /\ m \in 1 .. n - 1 /\ m + 1 = i + 1 + (k + 1) /\ m \in 1 .. n /\ m + 1 \in 1 .. n
    BY <1>1, <1>3
  <2>2. recs[i].at < recs[m].at
    BY <2>1
  <2> HIDE DEF m
  <2>3. recs[m].at < recs[m + 1].at
    BY <1>2, <2>1
  <2>4. recs[i].at \in Nat /\ recs[m].at \in Nat /\ recs[m + 1].at \in Nat
    BY <1>1, <1>3, <2>1
  <2>5. recs[i].at < recs[m + 1].at
    BY <2>2, <2>3, <2>4
  <2> QED
    BY <2>1, <2>5
<1>6. T = Nat
  <2>1. T \in SUBSET Nat
    OBVIOUS
  <2> HIDE DEF T
  <2> QED
    BY <1>4, <1>5, <2>1, InductionOn
<1>7. j - i - 1 \in Nat /\ i + 1 + (j - i - 1) = j
  BY <1>3
<1>8. j - i - 1 \in T
  BY <1>6, <1>7
<1> QED
  BY <1>3, <1>7, <1>8

\* Nearest finds one of the rows it may find, and none of them is nearer.
LEMMA NearestIs ==
    ASSUME NEW recs, TapeGood(recs), NEW among \in SUBSET (1 .. Len(recs)), among # {}, NEW x \in Int
    PROVE  /\ Nearest(recs, among, x) \in among
           /\ \A j \in among : Distance(recs[Nearest(recs, among, x)].at - x) <= Distance(recs[j].at - x)
<1> DEFINE n == Len(recs)
           d(i) == Distance(recs[i].at - x)
           R == {p \in among \X among : d(p[2]) <= d(p[1])}
           top == {i \in among : \A j \in among : d(i) <= d(j)}
<1>1. n \in Nat /\ \A m \in 1 .. n : recs[m].at \in Nat
  BY TapeTimes
<1>2. \A i \in among : d(i) \in Nat
  <2> TAKE i \in among
  <2>1. recs[i].at - x \in Int
    BY <1>1
  <2> QED
    BY <2>1, DistanceIs
<1> HIDE DEF d
<1>3. \A i, j \in among : <<i, j>> \in R <=> d(j) <= d(i)
  OBVIOUS
<1>4. ASSUME NEW i \in among, NEW j \in among PROVE <<i, j>> \in R \/ <<j, i>> \in R
  <2>1. (<<i, j>> \in R <=> d(j) <= d(i)) /\ (<<j, i>> \in R <=> d(i) <= d(j))
    BY <1>3
  <2>2. d(i) \in Nat /\ d(j) \in Nat
    BY <1>2
  <2> QED
    BY <2>1, <2>2
<1>5. ASSUME NEW i \in among, NEW j \in among, NEW k \in among, <<i, j>> \in R, <<j, k>> \in R
      PROVE  <<i, k>> \in R
  <2>1. d(j) <= d(i) /\ d(k) <= d(j) /\ (<<i, k>> \in R <=> d(k) <= d(i))
    BY <1>3, <1>5
  <2>2. d(i) \in Nat /\ d(j) \in Nat /\ d(k) \in Nat
    BY <1>2
  <2> QED
    BY <2>1, <2>2
<1> HIDE DEF R
<1>6. PICK i \in among : \A j \in among : <<j, i>> \in R
  BY <1>1, <1>4, <1>5, TopOf
<1>7. i \in top
  BY <1>3, <1>6
<1>8. top \in SUBSET Nat
  <2>1. among \subseteq Nat
    BY <1>1
  <2> QED
    BY <2>1
<1>9. Nearest(recs, among, x) = Min(top)
  BY DEF Nearest, d
<1>10. Min(top) \in top
  <2> HIDE DEF top
  <2> QED
    BY <1>7, <1>8, MinOf
<1> DEFINE p == Nearest(recs, among, x)
<1>11. p \in top
  BY <1>9, <1>10
<1> HIDE DEF p
<1>12. p \in among /\ \A j \in among : d(p) <= d(j)
  BY <1>11
<1> QED
  BY <1>12 DEF p, d

\* Where no gap is longer than an offset there is a row within half of it of every time
\* in the recording.
LEMMA RowWithin ==
    ASSUME NEW recs, TapeGood(recs), NEW o \in Nat,
           \A i \in 1 .. Len(recs) - 1 : recs[i + 1].at - recs[i].at <= o,
           1 <= Len(recs), NEW x \in Int, recs[1].at <= x, x <= recs[Len(recs)].at
    PROVE  \E j \in 1 .. Len(recs) : 2 * Distance(recs[j].at - x) <= o
<1> DEFINE n == Len(recs)
           a(i) == recs[i].at
           close(i) == 2 * Distance(a(i) - x) <= o
           T == {k \in Nat : k + 1 <= n /\ x <= a(k + 1) => \E j \in 1 .. n : close(j)}
<1>1. n \in Nat /\ n >= 1 /\ \A m \in 1 .. n : a(m) \in Nat
  BY TapeTimes
<1>2. \A i \in 1 .. n - 1 : a(i + 1) - a(i) <= o
  OBVIOUS
<1>3. a(1) <= x /\ x <= a(n)
  OBVIOUS
<1> HIDE DEF n, a
<1>4. 0 \in T
  <2> SUFFICES ASSUME x <= a(0 + 1) PROVE \E j \in 1 .. n : close(j)
    OBVIOUS
  <2>1. 1 \in 1 .. n /\ a(1) \in Nat
    BY <1>1
  <2>2. a(1) - x = 0
    BY <1>3, <2>1
  <2>3. Distance(0) = 0
    BY DEF Distance
  <2>4. close(1)
    BY <2>2, <2>3
  <2> QED
    BY <2>1, <2>4
<1>5. ASSUME NEW k \in T PROVE k + 1 \in T
  <2> SUFFICES ASSUME k + 1 + 1 <= n, x <= a(k + 1 + 1) PROVE \E j \in 1 .. n : close(j)
    OBVIOUS
  <2> DEFINE u == a(k + 1)
             v == a(k + 1 + 1)
  <2>1. k \in Nat /\ k + 1 \in 1 .. n - 1 /\ k + 1 <= n /\ k + 1 \in 1 .. n /\ k + 1 + 1 \in 1 .. n
    BY <1>1
  <2>2. u \in Nat /\ v \in Nat /\ v - u <= o
    BY <1>1, <1>2, <2>1
  <2>3. CASE x <= u
    BY <2>1, <2>3
  <2>4. CASE ~(x <= u)
    <3>1. x <= v
      OBVIOUS
    <3> HIDE DEF u, v
    <3>2. 2 * Distance(u - x) <= o \/ 2 * Distance(v - x) <= o
      <4>1. Distance(u - x) = x - u
        BY <2>2, <2>4 DEF Distance
      <4>2. Distance(v - x) = v - x
        BY <2>2, <3>1 DEF Distance
      <4> QED
        BY <2>2, <2>4, <3>1, <4>1, <4>2
    <3>3. close(k + 1) \/ close(k + 1 + 1)
      BY <3>2 DEF u, v
    <3> QED
      BY <2>1, <3>3
  <2> QED
    BY <2>3, <2>4
<1>6. T = Nat
  <2>1. T \in SUBSET Nat
    OBVIOUS
  <2> HIDE DEF T
  <2> QED
    BY <1>4, <1>5, <2>1, InductionOn
<1>7. n - 1 \in Nat /\ n - 1 + 1 = n
  BY <1>1
<1>8. n - 1 \in T
  BY <1>6, <1>7
<1>9. \E j \in 1 .. n : close(j)
  BY <1>3, <1>7, <1>8
<1> QED
  BY <1>9 DEF n, a

Between(recs) == {i \in 1 .. Len(recs) - 1 : recs[i + 1].at > recs[i].at}

Lasting(recs, i) == recs[i + 1].at - recs[i].at

\* The k-th of the gaps of a tape is one of them.
LEMMA RankedIs ==
    ASSUME NEW recs, TapeGood(recs), NEW k \in Nat, 1 <= k, k <= Cardinality(Between(recs))
    PROVE  Ranked(recs, k) \in Nat \ {0}
<1> DEFINE n == Len(recs)
           S == Between(recs)
           gaps == {Lasting(recs, i) : i \in S}
           reach(g) == {i \in S : Lasting(recs, i) <= g}
           fit == {g \in gaps : Cardinality(reach(g)) >= k}
           R == {p \in S \X S : Lasting(recs, p[1]) <= Lasting(recs, p[2])}
<1>1. n \in Nat /\ \A m \in 1 .. n : recs[m].at \in Nat
  BY TapeTimes
<1>2. S \in SUBSET (1 .. n)
  BY <1>1 DEF Between
<1>3. \A i \in S : Lasting(recs, i) \in Nat \ {0}
  <2> TAKE i \in S
  <2>1. i \in 1 .. n - 1 /\ recs[i + 1].at > recs[i].at
    BY DEF Between
  <2>2. i \in 1 .. n /\ i + 1 \in 1 .. n
    BY <1>1, <2>1
  <2>3. recs[i + 1].at \in Nat /\ recs[i].at \in Nat
    BY <1>1, <2>2
  <2> QED
    BY <2>1, <2>3 DEF Lasting
<1>4. S # {}
  <2> SUFFICES ASSUME S = {} PROVE FALSE
    OBVIOUS
  <2>1. Cardinality(S) = 0
    BY FS_EmptySet
  <2> QED
    BY <2>1
<1>5. Ranked(recs, k) = Min(fit)
  BY DEF Ranked, Between, Lasting
<1>6. k <= Cardinality(S)
  OBVIOUS
<1>7. \A i, j \in S : <<i, j>> \in R <=> Lasting(recs, i) <= Lasting(recs, j)
  OBVIOUS
<1> HIDE DEF R, n, S
<1>8. ASSUME NEW i \in S, NEW j \in S PROVE <<i, j>> \in R \/ <<j, i>> \in R
  BY <1>3, <1>7
<1>9. ASSUME NEW i \in S, NEW j \in S, NEW m \in S, <<i, j>> \in R, <<j, m>> \in R
      PROVE  <<i, m>> \in R
  <2>1. Lasting(recs, i) <= Lasting(recs, j) /\ Lasting(recs, j) <= Lasting(recs, m)
    BY <1>7, <1>9
  <2>2. Lasting(recs, i) \in Nat /\ Lasting(recs, j) \in Nat /\ Lasting(recs, m) \in Nat
    BY <1>3
  <2>3. Lasting(recs, i) <= Lasting(recs, m)
    BY <2>1, <2>2
  <2> QED
    BY <1>7, <2>3
<1>10. PICK i \in S : \A j \in S : <<j, i>> \in R
  BY <1>1, <1>2, <1>4, <1>8, <1>9, TopOf
<1>11. reach(Lasting(recs, i)) = S
  BY <1>7, <1>10
<1>12. Lasting(recs, i) \in fit
  BY <1>6, <1>11
<1>13. fit \subseteq Nat \ {0}
  BY <1>3
<1> HIDE DEF fit
<1>14. Min(fit) \in fit
  BY <1>12, <1>13, MinOf
<1> QED
  BY <1>5, <1>13, <1>14

\* There is a cadence where there is a gap, and it is not zero.
LEMMA CadenceIs ==
    ASSUME NEW recs, TapeGood(recs)
    PROVE  /\ MedianCadence(recs) # Unpriced => MedianCadence(recs) \in Nat \ {0}
           /\ Len(recs) > 1 => MedianCadence(recs) \in Nat \ {0}
<1> DEFINE m == Len(recs)
           n == Cardinality(Between(recs))
           half == (n + 1) \div 2
           c == MedianCadence(recs)
<1>1. m \in Nat
  BY TapeTimes
<1>2. IsFiniteSet(Between(recs)) /\ n \in Nat
  <2>1. 1 \in Int /\ m - 1 \in Int
    BY <1>1
  <2>2. IsFiniteSet(1 .. m - 1)
    BY <2>1, FS_Interval
  <2>3. Between(recs) \subseteq 1 .. m - 1
    BY DEF Between
  <2> HIDE DEF m
  <2> QED
    BY <2>2, <2>3, FS_Subset, FS_CardinalityType
<1>3. c = IF n = 0 THEN Unpriced
          ELSE IF n % 2 = 1 THEN Ranked(recs, half)
          ELSE (Ranked(recs, half) + Ranked(recs, half + 1)) \div 2
  BY DEF MedianCadence, Between
<1>4. n # 0 => 1 <= half /\ half <= n /\ half \in Nat /\ half + 1 \in Nat /\ 1 <= half + 1
  BY <1>2
<1>5. n # 0 /\ n % 2 # 1 => half + 1 <= n
  BY <1>2
<1> HIDE DEF half, c
<1>6. n # 0 => c \in Nat \ {0}
  <2> SUFFICES ASSUME n # 0 PROVE c \in Nat \ {0}
    OBVIOUS
  <2>1. Ranked(recs, half) \in Nat \ {0}
    BY <1>4, RankedIs
  <2>2. CASE n % 2 = 1
    BY <1>3, <2>1, <2>2
  <2>3. CASE n % 2 # 1
    <3> DEFINE x == Ranked(recs, half)
               y == Ranked(recs, half + 1)
    <3>1. y \in Nat \ {0}
      BY <1>4, <1>5, <2>3, RankedIs
    <3>2. c = (x + y) \div 2
      BY <1>3, <2>3
    <3>3. x \in Nat \ {0}
      BY <2>1
    <3> HIDE DEF x, y
    <3> QED
      BY <3>1, <3>2, <3>3
  <2> QED
    BY <2>2, <2>3
<1>7. m > 1 => n # 0
  <2> SUFFICES ASSUME m > 1 PROVE n # 0
    OBVIOUS
  <2>1. 1 \in 1 .. m - 1
    BY <1>1
  <2>2. 1 \in 1 .. m /\ 1 + 1 \in 1 .. m
    BY <1>1
  <2>3. recs[1].at < recs[1 + 1].at /\ recs[1].at \in Nat /\ recs[1 + 1].at \in Nat
    BY <2>1, <2>2, TapeTimes DEF TapeGood
  <2>4. 1 \in Between(recs)
    BY <2>1, <2>3 DEF Between
  <2> HIDE DEF m
  <2> QED
    BY <1>2, <2>4, FS_EmptySet
<1>8. n = 0 => c = Unpriced
  BY <1>3
<1> QED
  BY <1>6, <1>7, <1>8 DEF c

\* How far a decision may be from the row that settles it.
LEMMA ToleranceIs ==
    ASSUME NEW recs, TapeGood(recs)
    PROVE  Tolerance(recs) \in Nat /\ 1 <= Tolerance(recs)
<1> DEFINE c == MedianCadence(recs)
<1>1. CASE c = Unpriced
  BY <1>1 DEF Tolerance
<1>2. CASE c # Unpriced
  <2>1. c \in Nat \ {0}
    BY <1>2, CadenceIs
  <2>2. Tolerance(recs) = Max({1, c})
    BY <1>2 DEF Tolerance
  <2> HIDE DEF c
  <2>3. {1, c} \in SUBSET (0 .. c) /\ {1, c} # {}
    BY <2>1
  <2>4. Max({1, c}) \in {1, c} /\ \A k \in {1, c} : k <= Max({1, c})
    BY <2>1, <2>3, MaxOf
  <2> QED
    BY <2>1, <2>2, <2>4
<1> QED
  BY <1>1, <1>2

\* What an offset that wraps around comes to.
LEMMA Wraps ==
    ASSUME NEW first \in Nat, NEW last \in Nat, NEW x \in Nat, x > last, first < last,
           2 * (x - first) < 4 * (last - first)
    PROVE  (x - first) % (last - first) = x - last
<1> DEFINE s == last - first
           y == x - first
<1>1. s \in Nat /\ s > 0 /\ y \in Nat /\ s < y /\ y < 2 * s /\ y - s = x - last
  OBVIOUS
<1> HIDE DEF s, y
<1>2. y % s = y - s
  <2>1. y = s * (y \div s) + (y % s) /\ y % s \in 0 .. s - 1 /\ y \div s \in Nat
    BY <1>1
  <2> DEFINE q == y \div s
             r == y % s
  <2>2. y = s * q + r /\ r \in 0 .. s - 1 /\ q \in Nat
    BY <2>1
  <2> HIDE DEF q, r
  <2>3. q = 1
    <3>1. CASE q = 0
      <4>1. y = r
        BY <1>1, <2>2, <3>1
      <4> QED
        BY <1>1, <2>2, <4>1
    <3>2. CASE q >= 2
      <4>1. s * q >= 2 * s
        <5>1. q - 2 \in Nat /\ q = 2 + (q - 2)
          BY <2>2, <3>2
        <5> DEFINE z == q - 2
        <5> HIDE DEF z
        <5>2. q = 2 + z /\ z \in Nat
          BY <5>1 DEF z
        <5>3. s * (2 + z) = 2 * s + s * z /\ s * z \in Nat
          BY <1>1, <5>2
        <5> QED
          BY <1>1, <5>2, <5>3
      <4>2. s * q \in Nat
        BY <1>1, <2>2
      <4> QED
        BY <1>1, <2>2, <4>1, <4>2
    <3> QED
      BY <2>2, <3>1, <3>2
  <2>4. s * q = s
    BY <1>1, <2>3
  <2> QED
    BY <1>1, <2>2, <2>4 DEF r
<1> QED
  BY <1>1, <1>2 DEF s, y

-----------------------------------------------------------------------------
(* The scrambled control: report.py *)

\* A time that is wrapped around is a time.
LEMMA WrappedIs ==
    ASSUME TapeGood(tape), Len(tape) >= 1, NEW x \in Nat
    PROVE  WrappedAround(x) \in Int
<1> DEFINE n == Len(tape)
           a == tape[1].at
           b == Last(tape).at
<1>1. n \in Nat /\ n \in 1 .. n /\ 1 \in 1 .. n
  BY TapeTimes
<1>2. a \in Nat /\ tape[n].at \in Nat
  BY <1>1, TapeTimes
<1>3. b = tape[n].at
  BY DEF Last
<1>4. WrappedAround(x) = IF b - a > 0 /\ x > b THEN a + ((x - a) % (b - a)) ELSE x
  BY DEF WrappedAround, Span
<1> HIDE DEF a, b, n
<1>5. CASE b - a > 0 /\ x > b
  <2> DEFINE y == x - a
             s == b - a
  <2>1. y \in Nat /\ s \in Nat \ {0}
    BY <1>2, <1>3, <1>5
  <2>2. WrappedAround(x) = a + (y % s)
    BY <1>4, <1>5
  <2> HIDE DEF y, s
  <2>3. y % s \in Int
    BY <2>1
  <2> QED
    BY <1>2, <2>2, <2>3
<1>6. CASE ~(b - a > 0 /\ x > b)
  BY <1>4, <1>6
<1> QED
  BY <1>5, <1>6

\* The pool a book is paired with is from half an offset away, at least.
LEMMA PartnerApart ==
    ASSUME TapeGood(tape), Len(tape) > 1, NEW o \in Nat \ {0}, 2 * o <= Span,
           \A i \in 1 .. Len(tape) - 1 : tape[i + 1].at - tape[i].at <= o,
           NEW i \in 1 .. Len(tape), NEW p,
           p = Nearest(tape, DOMAIN tape, WrappedAround(tape[i].at + o))
    PROVE  p \in 1 .. Len(tape) /\ 2 * Distance(tape[p].at - tape[i].at) >= o
<1> DEFINE n == Len(tape)
           a == tape[1].at
           b == tape[n].at
           t == tape[i].at
           x == WrappedAround(t + o)
<1>1. n \in Nat /\ DOMAIN tape = 1 .. n /\ \A k \in 1 .. n : tape[k].at \in Nat
  BY TapeTimes
<1>2. 1 \in 1 .. n /\ n \in 1 .. n /\ 1 < n /\ i \in 1 .. n
  BY <1>1
<1>3. a \in Nat /\ b \in Nat /\ t \in Nat /\ a < b
  BY <1>1, <1>2, TapeOrdered
<1>4. a <= t /\ t <= b
  <2>1. CASE 1 < i /\ i < n
    <3>1. a < t /\ t < b
      BY <1>2, <2>1, TapeOrdered
    <3> QED
      BY <1>3, <3>1
  <2>2. CASE i = 1
    BY <1>3, <2>2
  <2>3. CASE i = n
    BY <1>3, <2>3
  <2>4. i = 1 \/ i = n \/ (1 < i /\ i < n)
    <3> HIDE DEF n
    <3> QED
      BY <1>1, <1>2
  <2> QED
    BY <2>1, <2>2, <2>3, <2>4
<1>5. Last(tape).at = b /\ 2 * o <= b - a
  BY DEF Last, Span
<1>6. \A y : y = t + o => x = IF b - a > 0 /\ y > b THEN a + ((y - a) % (b - a)) ELSE y
  <2> SUFFICES ASSUME NEW y, y = t + o
               PROVE  x = IF b - a > 0 /\ y > b THEN a + ((y - a) % (b - a)) ELSE y
    OBVIOUS
  <2>1. x = WrappedAround(y)
    OBVIOUS
  <2>2. Last(tape).at = b
    BY DEF Last
  <2>3. WrappedAround(y) = IF Last(tape).at - a > 0 /\ y > Last(tape).at
                           THEN a + ((y - a) % (Last(tape).at - a)) ELSE y
    BY DEF WrappedAround, Span
  <2> QED
    BY <2>1, <2>2, <2>3
<1>7. p = Nearest(tape, 1 .. n, x)
  BY <1>1
<1> HIDE DEF x, a, b, t, n
<1>8. x = t + o \/ x = t + o - (b - a)
  <2>1. CASE t + o > b
    <3>1. t + o \in Nat /\ 2 * (t + o - a) < 4 * (b - a)
      BY <1>3, <1>4, <1>5
    <3> DEFINE y == t + o
    <3> HIDE DEF y
    <3>3. b - a > 0 /\ y > b /\ y \in Nat /\ 2 * (y - a) < 4 * (b - a)
      BY <1>3, <2>1, <3>1 DEF y
    <3>2. (y - a) % (b - a) = y - b
      BY <1>3, <3>3, Wraps
    <3>4. x = a + ((y - a) % (b - a))
      BY <1>6, <3>3 DEF y
    <3> QED
      BY <1>3, <3>2, <3>3, <3>4 DEF y
  <2>2. CASE ~(t + o > b)
    BY <1>6, <2>2
  <2> QED
    BY <2>1, <2>2
<1>9. x \in Int /\ a <= x /\ x <= b
  <2>1. CASE t + o > b
    <3>1. t + o \in Nat /\ 2 * (t + o - a) < 4 * (b - a)
      BY <1>3, <1>4, <1>5
    <3> DEFINE y == t + o
    <3> HIDE DEF y
    <3>3. b - a > 0 /\ y > b /\ y \in Nat /\ 2 * (y - a) < 4 * (b - a)
      BY <1>3, <2>1, <3>1 DEF y
    <3>2. (y - a) % (b - a) = y - b
      BY <1>3, <3>3, Wraps
    <3>4. x = a + ((y - a) % (b - a))
      BY <1>6, <3>3 DEF y
    <3>5. x = a + (y - b)
      BY <3>2, <3>4
    <3>6. y <= b + o
      BY <1>3, <1>4 DEF y
    <3> QED
      BY <1>3, <1>5, <3>3, <3>5, <3>6
  <2>2. CASE ~(t + o > b)
    BY <1>3, <1>4, <1>6, <2>2
  <2> QED
    BY <2>1, <2>2
<1>10. \E j \in 1 .. n : 2 * Distance(tape[j].at - x) <= o
  <2>1. 1 <= Len(tape) /\ tape[1].at <= x /\ x <= tape[Len(tape)].at
    BY <1>2, <1>9 DEF a, b, n
  <2> QED
    BY <1>9, <2>1, RowWithin DEF n
<1>11. PICK j \in 1 .. n : 2 * Distance(tape[j].at - x) <= o
  BY <1>10
<1>12. p \in 1 .. n /\ Distance(tape[p].at - x) <= Distance(tape[j].at - x)
  <2>1. 1 .. n \in SUBSET (1 .. Len(tape)) /\ 1 .. n # {}
    BY <1>2 DEF n
  <2> QED
    BY <1>7, <1>9, <2>1, NearestIs
<1> DEFINE q == tape[p].at
           r == tape[j].at
<1>13. q \in Nat /\ r \in Nat
  BY <1>1, <1>11, <1>12
<1> HIDE DEF q, r
<1>14. /\ Distance(q - x) \in Nat /\ Distance(r - x) \in Nat
       /\ q - x <= Distance(q - x) /\ x - q <= Distance(q - x)
  <2>1. q - x \in Int /\ r - x \in Int /\ 0 - (q - x) = x - q
    BY <1>9, <1>13
  <2> QED
    BY <2>1, DistanceIs
<1>15. 2 * Distance(q - x) <= o
  <2> DEFINE u == Distance(q - x)
             v == Distance(r - x)
  <2>1. u \in Nat /\ v \in Nat /\ 2 * v <= o /\ u <= v
    BY <1>11, <1>12, <1>14 DEF q, r
  <2> HIDE DEF u, v
  <2>2. 2 * u <= o
    BY <2>1
  <2> QED
    BY <2>2 DEF u
<1>16. 2 * (q - x) <= o /\ 2 * (x - q) <= o
  BY <1>9, <1>13, <1>14, <1>15
<1>17. 2 * (q - t) >= o \/ 2 * (t - q) >= o
  <2>1. CASE x = t + o
    BY <1>3, <1>13, <1>16, <2>1
  <2>2. CASE x = t + o - (b - a)
    BY <1>3, <1>5, <1>13, <1>16, <2>2
  <2> QED
    BY <1>8, <2>1, <2>2
<1>18. 2 * Distance(q - t) >= o
  <2>1. q - t \in Int /\ 0 - (q - t) = t - q
    BY <1>3, <1>13
  <2>2. Distance(q - t) \in Nat /\ q - t <= Distance(q - t) /\ t - q <= Distance(q - t)
    BY <2>1, DistanceIs
  <2> QED
    BY <1>3, <1>13, <1>17, <2>2
<1> QED
  BY <1>12, <1>18 DEF q, t, n

\* The scrambled control, once it is made.
ControlShape == control # Unpriced => control.partner \in [DOMAIN tape -> DOMAIN tape]

\* Making it pairs every book with a pool of another time.
LEMMA ScrambleMixes ==
    ASSUME TapeGood(tape), Scramble
    PROVE  ControlMixes' /\ ControlShape'
<1>1. PICK offset \in Offsets :
        /\ MedianCadence(tape) # Unpriced => offset >= 2 * MedianCadence(tape)
        /\ LET partner == [i \in DOMAIN tape |->
                              Nearest(tape, DOMAIN tape, WrappedAround(tape[i].at + offset))]
               merged == [i \in DOMAIN tape |->
                             LET p == tape[partner[i]].seen
                             IN  [tape[i].seen EXCEPT !.price = p.price, !.room = p.room,
                                                      !.gas = p.gas]]
               priceable(recs) == Cardinality({i \in DOMAIN recs :
                                      Costable(recs[i]) /\ BestPriceable(recs[i]) # Unpriced})
           IN  control' =
                  [offset |-> offset, partner |-> partner,
                   identical |-> Cardinality({i \in DOMAIN tape : tape[partner[i]].at = tape[i].at}),
                   true |-> priceable([i \in DOMAIN tape |-> tape[i].seen]),
                   scrambled |-> IF Len(tape) < 3 THEN 0 ELSE priceable(merged)]
  BY DEF Scramble
<1> DEFINE n == Len(tape)
           partner == [i \in DOMAIN tape |->
                          Nearest(tape, DOMAIN tape, WrappedAround(tape[i].at + offset))]
           same == {i \in DOMAIN tape : tape[partner[i]].at = tape[i].at}
<1>2. tape' = tape /\ tape # <<>>
  BY DEF Scramble
<1>3. control'.offset = offset /\ control'.partner = partner /\ control'.identical = Cardinality(same)
  BY <1>1
<1>4. n \in Nat /\ DOMAIN tape = 1 .. n /\ (\A i \in 1 .. n : tape[i].at \in Nat) /\ n >= 1
  <2>1. tape \in Seq(Seen)
    BY DEF TapeGood
  <2>2. n # 0
    BY <1>2, <2>1
  <2> QED
    BY <2>2, TapeTimes
<1>5. offset \in Nat
  BY ResearchAssumption
<1>6. \A i \in 1 .. n : partner[i] = Nearest(tape, DOMAIN tape, WrappedAround(tape[i].at + offset))
  BY <1>4
<1>7. DOMAIN partner = 1 .. n
  BY <1>4
<1>8. partner = [i \in 1 .. n |-> partner[i]]
  BY <1>4
<1> HIDE DEF partner, n
<1>9. \A i \in 1 .. n : partner[i] \in 1 .. n
  <2> TAKE i \in 1 .. n
  <2>1. tape[i].at + offset \in Nat /\ Len(tape) >= 1
    BY <1>4, <1>5 DEF n
  <2>2. WrappedAround(tape[i].at + offset) \in Int
    BY <2>1, WrappedIs
  <2>3. 1 .. n \in SUBSET (1 .. Len(tape)) /\ 1 .. n # {}
    BY <1>4 DEF n
  <2>4. Nearest(tape, 1 .. n, WrappedAround(tape[i].at + offset)) \in 1 .. n
    BY <2>2, <2>3, NearestIs
  <2> QED
    BY <1>4, <1>6, <2>4
<1>10. partner \in [1 .. n -> 1 .. n]
  BY <1>8, <1>9
<1>11. ControlShape'
  BY <1>2, <1>3, <1>4, <1>10 DEF ControlShape
<1>12. ASSUME Len(tape) > 1, 2 * offset <= Span,
              \A i \in 1 .. Len(tape) - 1 : tape[i + 1].at - tape[i].at <= offset
       PROVE  /\ Cardinality(same) = 0
              /\ \A i \in DOMAIN tape : 2 * Distance(tape[partner[i]].at - tape[i].at) >= offset
  <2>1. offset \in Nat \ {0}
    <3> DEFINE c == MedianCadence(tape)
    <3>1. c \in Nat \ {0}
      BY <1>12, CadenceIs
    <3>2. c # Unpriced
      BY <3>1, ResearchAssumption
    <3>3. offset >= 2 * c
      BY <1>1, <3>2
    <3> HIDE DEF c
    <3> QED
      BY <1>5, <3>1, <3>3
  <2>2. \A i \in 1 .. n : 2 * Distance(tape[partner[i]].at - tape[i].at) >= offset
    <3> TAKE i \in 1 .. n
    <3>1. i \in 1 .. Len(tape)
      BY DEF n
    <3> QED
      BY <1>6, <1>12, <2>1, <3>1, PartnerApart
  <2>3. same = {}
    <3> SUFFICES ASSUME NEW i \in 1 .. n, tape[partner[i]].at = tape[i].at PROVE FALSE
      BY <1>4
    <3>1. tape[partner[i]].at - tape[i].at = 0
      BY <1>4
    <3>2. Distance(0) = 0
      BY DEF Distance
    <3>3. 2 * Distance(tape[partner[i]].at - tape[i].at) >= offset
      BY <2>2
    <3> QED
      BY <2>1, <3>1, <3>2, <3>3
  <2> QED
    BY <1>4, <2>2, <2>3, FS_EmptySet
<1> HIDE DEF same
<1>13. ControlMixes'
  BY <1>2, <1>3, <1>12 DEF ControlMixes, Span
<1> QED
  BY <1>11, <1>13

-----------------------------------------------------------------------------
(* Episodes: statistics.py *)

Runs == [runs : Seq(Nat), current : Nat]

\* An episode that ends is one of the series.
LEMMA EndedIs ==
    ASSUME NEW e \in Runs
    PROVE  /\ Ended(e) \in Runs /\ Ended(e).current = 0
           /\ Len(Ended(e).runs) = Len(e.runs) + (IF e.current > 0 THEN 1 ELSE 0)
           /\ Total(Ended(e).runs, Len(Ended(e).runs)) = Total(e.runs, Len(e.runs)) + e.current
           /\ Total(e.runs, Len(e.runs)) \in Nat
<1> DEFINE r == e.runs
           c == e.current
           n == Len(r)
           r2 == Append(r, c)
<1>1. r \in Seq(Nat) /\ c \in Nat /\ n \in Nat
  <2>1. r \in Seq(Nat) /\ c \in Nat
    BY DEF Runs
  <2> HIDE DEF r
  <2> QED
    BY <2>1
<1>2. \A i \in 1 .. n : r[i] \in Nat
  <2> HIDE DEF r
  <2> QED
    BY <1>1
<1>3. r2 \in Seq(Nat) /\ Len(r2) = n + 1 /\ r2[n + 1] = c /\ \A i \in 1 .. n : r2[i] = r[i]
  <2> HIDE DEF r, c
  <2> QED
    BY <1>1
<1>4. Total(r2, n + 1) = Total(r, n) + c /\ Total(r, n) \in Nat
  <2> HIDE DEF r, c, n, r2
  <2> QED
    BY <1>1, <1>2, <1>3, TotalOfNext
<1>5. CASE c > 0
  <2>1. Ended(e) = [runs |-> r2, current |-> 0]
    BY <1>5 DEF Ended
  <2>2. Ended(e).runs = r2 /\ Ended(e).current = 0
    BY <2>1
  <2>3. Ended(e) \in Runs
    <3> HIDE DEF r2
    <3> QED
      BY <1>3, <2>1 DEF Runs
  <2> HIDE DEF r, c, n, r2
  <2>4. /\ Len(Ended(e).runs) = n + 1
        /\ Total(Ended(e).runs, Len(Ended(e).runs)) = Total(r, n) + c
    BY <1>3, <1>4, <2>2
  <2> QED
    BY <1>4, <1>5, <2>2, <2>3, <2>4 DEF r, c, n
<1>6. CASE ~(c > 0)
  <2>1. Ended(e) = e
    BY <1>6 DEF Ended
  <2>2. c = 0
    BY <1>1, <1>6
  <2> HIDE DEF r, c, n, r2
  <2>3. Total(r, n) = Total(r, n) + c /\ n = n + 0
    BY <1>1, <1>4, <2>2
  <2> QED
    BY <1>4, <1>6, <2>1, <2>2, <2>3 DEF r, c, n
<1> QED
  BY <1>5, <1>6

\* A row goes on with the episodes there are.
LEMMA OnwardIs ==
    ASSUME NEW e \in Runs, NEW flags, NEW i
    PROVE  /\ Onward(e, flags, i) \in Runs
           /\ i \in DOMAIN flags /\ flags[i] =>
                 Onward(e, flags, i).runs = e.runs /\ Onward(e, flags, i).current = e.current + 1
<1>1. CASE i \notin DOMAIN flags
  BY <1>1 DEF Onward
<1>2. CASE i \in DOMAIN flags /\ flags[i]
  <2>1. Onward(e, flags, i) = [e EXCEPT !.current = @ + 1]
    BY <1>2 DEF Onward
  <2> QED
    BY <2>1 DEF Runs
<1>3. CASE i \in DOMAIN flags /\ ~flags[i]
  BY <1>3, EndedIs DEF Onward
<1> QED
  BY <1>1, <1>2, <1>3

IsCount(f, flags, n) ==
    /\ f \in [0 .. n -> Runs] /\ f[0] = [runs |-> <<>>, current |-> 0]
    /\ \A i \in 1 .. n : f[i] = Onward(f[i - 1], flags, i)
    /\ PersistenceRuns(flags, n) = Ended(f[n]).runs

\* The episodes are counted row by row.
LEMMA RunsUnfold ==
    ASSUME NEW n \in Nat, NEW flags
    PROVE  \E f : IsCount(f, flags, n)
<1> DEFINE nothing == [runs |-> <<>>, current |-> 0]
           after[i \in 0 .. n] == IF i = 0 THEN nothing ELSE Onward(after[i - 1], flags, i)
           step == [x \in (1 .. n) \X Runs |-> Onward(x[2], flags, x[1])]
<1>1. step \in [(1 .. n) \X Runs -> Runs]
  <2>1. \A x \in (1 .. n) \X Runs : Onward(x[2], flags, x[1]) \in Runs
    <3> TAKE x \in (1 .. n) \X Runs
    <3>1. x[2] \in Runs
      OBVIOUS
    <3> QED
      BY <3>1, OnwardIs
  <2> QED
    BY <2>1
<1>2. \A k \in 1 .. n, v \in Runs : step[<<k, v>>] = Onward(v, flags, k)
  OBVIOUS
<1>3. nothing \in Runs
  BY DEF Runs
<1>4. PersistenceRuns(flags, n) = Ended(after[n]).runs
  BY DEF PersistenceRuns, after, nothing
<1>5. after = CHOOSE g : g = [i \in 0 .. n |-> IF i = 0 THEN nothing ELSE Onward(g[i - 1], flags, i)]
  BY DEF after
<1> HIDE DEF step, after, nothing
<1>6. PICK f : Iterates(f, n, Runs, nothing, step)
  BY <1>1, <1>3, RecursionExists, Zenon
<1>7. /\ f \in [0 .. n -> Runs] /\ f[0] = nothing
      /\ \A k \in 1 .. n : f[k] = step[<<k, f[k - 1]>>]
  BY <1>6 DEF Iterates
<1>8. ASSUME NEW k \in 1 .. n PROVE f[k] = Onward(f[k - 1], flags, k)
  <2>1. k - 1 \in 0 .. n
    OBVIOUS
  <2>2. f[k - 1] \in Runs
    BY <1>7, <2>1
  <2> QED
    BY <1>2, <1>7, <2>2
<1>9. \A i \in 0 .. n : f[i] = IF i = 0 THEN nothing ELSE Onward(f[i - 1], flags, i)
  <2>1. \A i \in 0 .. n : i = 0 \/ (i \in 1 .. n /\ i # 0)
    OBVIOUS
  <2> QED
    BY <1>7, <1>8, <2>1
<1>10. f = [i \in 0 .. n |-> IF i = 0 THEN nothing ELSE Onward(f[i - 1], flags, i)]
  BY <1>7, <1>9
<1>11. after = [i \in 0 .. n |-> IF i = 0 THEN nothing ELSE Onward(after[i - 1], flags, i)]
  BY <1>5, <1>10
<1> DEFINE T == {i \in Nat : i <= n => after[i] = f[i]}
<1>12. 0 \in T
  BY <1>7, <1>11
<1>13. ASSUME NEW i \in T PROVE i + 1 \in T
  <2> SUFFICES ASSUME i + 1 <= n PROVE after[i + 1] = f[i + 1]
    OBVIOUS
  <2>1. i \in Nat /\ i + 1 \in 0 .. n /\ i + 1 # 0 /\ i + 1 - 1 = i /\ i <= n /\ i + 1 \in 1 .. n
    OBVIOUS
  <2>2. after[i] = f[i]
    BY <2>1
  <2>3. after[i + 1] = Onward(after[i + 1 - 1], flags, i + 1)
    BY <1>11, <2>1
  <2>4. f[i + 1] = Onward(f[i + 1 - 1], flags, i + 1)
    BY <1>8, <2>1
  <2> QED
    BY <2>1, <2>2, <2>3, <2>4
<1>14. T = Nat
  <2>1. T \in SUBSET Nat
    OBVIOUS
  <2> HIDE DEF T
  <2> QED
    BY <1>12, <1>13, <2>1, InductionOn
<1>15. PersistenceRuns(flags, n) = Ended(f[n]).runs
  BY <1>4, <1>14
<1> QED
  BY <1>7, <1>8, <1>15 DEF IsCount, nothing

\* The flagged rows up to one, and those that open an episode.
Upto(flags, k) == {i \in DOMAIN flags : i <= k}

Flagged(flags, k) == {i \in DOMAIN flags : i <= k /\ flags[i]}

Fresh(flags, i) ==
    LET b == {j \in DOMAIN flags : j < i} IN b = {} \/ ~flags[Max(b)]

Opening(flags, k) == {i \in Flagged(flags, k) : Fresh(flags, i)}

Counted(e, flags, k) ==
    /\ e \in Runs
    /\ Total(e.runs, Len(e.runs)) + e.current = Cardinality(Flagged(flags, k))
    /\ Len(e.runs) + (IF e.current > 0 THEN 1 ELSE 0) = Cardinality(Opening(flags, k))
    /\ e.current > 0 <=> (Upto(flags, k) # {} /\ flags[Max(Upto(flags, k))])

\* One more row keeps the count.
LEMMA CountGoesOn ==
    ASSUME NEW n \in Nat, NEW flags, DOMAIN flags \subseteq 1 .. n,
           NEW k \in Nat, NEW e, Counted(e, flags, k)
    PROVE  Counted(Onward(e, flags, k + 1), flags, k + 1)
<1> DEFINE m == k + 1
           g == Onward(e, flags, m)
<1>0. e \in Runs /\ g \in Runs
  BY OnwardIs DEF Counted
<1>1. \A i \in DOMAIN flags : i \in Nat /\ 1 <= i /\ i <= n
  OBVIOUS
<1>2. \A i \in DOMAIN flags : (i <= m <=> i <= k \/ i = m) /\ (i < m <=> i <= k)
  BY <1>1
<1>3. /\ Total(e.runs, Len(e.runs)) + e.current = Cardinality(Flagged(flags, k))
      /\ Len(e.runs) + (IF e.current > 0 THEN 1 ELSE 0) = Cardinality(Opening(flags, k))
      /\ e.current > 0 <=> (Upto(flags, k) # {} /\ flags[Max(Upto(flags, k))])
  BY DEF Counted
<1>4. ASSUME NEW i \in Nat
      PROVE IsFiniteSet(Flagged(flags, i)) /\ IsFiniteSet(Opening(flags, i))
  <2>1. 1 \in Int /\ n \in Int
    OBVIOUS
  <2>2. IsFiniteSet(1 .. n)
    BY <2>1, FS_Interval
  <2>3. Flagged(flags, i) \subseteq 1 .. n /\ Opening(flags, i) \subseteq 1 .. n
    BY DEF Flagged, Opening
  <2> QED
    BY <2>2, <2>3, FS_Subset
<1>5. e.current \in Nat /\ Total(e.runs, Len(e.runs)) \in Nat /\ Len(e.runs) \in Nat
  <2>1. e.runs \in Seq(Nat) /\ e.current \in Nat
    BY <1>0 DEF Runs
  <2>2. Len(e.runs) \in Nat
    BY <2>1
  <2>3. Total(e.runs, Len(e.runs)) \in Nat
    BY <1>0, EndedIs
  <2> QED
    BY <2>1, <2>2, <2>3
<1>6. m \in DOMAIN flags => {j \in DOMAIN flags : j < m} = Upto(flags, k)
  BY <1>2 DEF Upto
<1>7. m \in DOMAIN flags => Upto(flags, m) # {} /\ Max(Upto(flags, m)) = m
  <2> SUFFICES ASSUME m \in DOMAIN flags PROVE Upto(flags, m) # {} /\ Max(Upto(flags, m)) = m
    OBVIOUS
  <2> DEFINE U == Upto(flags, m)
  <2>1. m \in U /\ U \in SUBSET (0 .. n) /\ \A i \in U : i <= m /\ i \in Nat
    BY <1>1 DEF Upto
  <2> HIDE DEF U
  <2>2. Max(U) \in U /\ m <= Max(U)
    BY <2>1, MaxOf
  <2> QED
    BY <2>1, <2>2 DEF U
<1> HIDE DEF m, g
<1>8. m \in Nat /\ m = k + 1
  BY DEF m
<1>9. CASE m \notin DOMAIN flags
  <2>1. g = e
    BY <1>9 DEF g, Onward
  <2>2. Upto(flags, m) = Upto(flags, k) /\ Flagged(flags, m) = Flagged(flags, k)
    BY <1>2, <1>9 DEF Upto, Flagged
  <2>3. Opening(flags, m) = Opening(flags, k)
    BY <2>2 DEF Opening
  <2>4. Counted(g, flags, m)
    BY <1>0, <1>3, <2>1, <2>2, <2>3 DEF Counted
  <2> QED
    BY <2>4 DEF g, m
<1>10. CASE m \in DOMAIN flags /\ flags[m]
  <2>1. g.runs = e.runs /\ g.current = e.current + 1
    BY <1>0, <1>10, OnwardIs DEF g
  <2>2. Flagged(flags, m) = Flagged(flags, k) \cup {m}
    BY <1>2, <1>10 DEF Flagged
  <2>3. m \notin Flagged(flags, k)
    BY <1>8 DEF Flagged
  <2>4. Cardinality(Flagged(flags, m)) = Cardinality(Flagged(flags, k)) + 1
    BY <1>4, <2>2, <2>3, FS_AddElement
  <2>5. Fresh(flags, m) <=> ~(e.current > 0)
    BY <1>3, <1>6, <1>10 DEF Fresh
  <2>6. Opening(flags, m) = IF Fresh(flags, m) THEN Opening(flags, k) \cup {m} ELSE Opening(flags, k)
    BY <2>2 DEF Opening
  <2>7. m \notin Opening(flags, k)
    BY <2>3 DEF Opening
  <2>8. Cardinality(Opening(flags, m)) =
           Cardinality(Opening(flags, k)) + (IF e.current > 0 THEN 0 ELSE 1)
    <3>1. Cardinality(Opening(flags, k) \cup {m}) = Cardinality(Opening(flags, k)) + 1
      BY <1>4, <2>7, FS_AddElement
    <3>2. Cardinality(Opening(flags, k)) \in Nat
      BY <1>4, FS_CardinalityType
    <3> QED
      BY <2>5, <2>6, <3>1, <3>2
  <2>9. g.current > 0 /\ Upto(flags, m) # {} /\ flags[Max(Upto(flags, m))]
    BY <1>5, <1>7, <1>10, <2>1
  <2>10. Total(g.runs, Len(g.runs)) + g.current = Cardinality(Flagged(flags, m))
    BY <1>3, <1>5, <2>1, <2>4
  <2>11. Len(g.runs) + (IF g.current > 0 THEN 1 ELSE 0) = Cardinality(Opening(flags, m))
    <3> DEFINE x == Len(e.runs)
               a == Cardinality(Opening(flags, k))
               b == Cardinality(Opening(flags, m))
    <3>1. x + (IF e.current > 0 THEN 1 ELSE 0) = a /\ x \in Nat /\ Len(g.runs) = x
      BY <1>3, <1>5, <2>1
    <3>2. b = a + (IF e.current > 0 THEN 0 ELSE 1)
      BY <2>8
    <3> HIDE DEF x, a, b
    <3>3. x + 1 = b
      BY <3>1, <3>2
    <3> QED
      BY <2>9, <3>1, <3>3 DEF b
  <2>12. Counted(g, flags, m)
    BY <1>0, <2>9, <2>10, <2>11 DEF Counted
  <2> QED
    BY <2>12 DEF g, m
<1>11. CASE m \in DOMAIN flags /\ ~flags[m]
  <2>1. g = Ended(e)
    BY <1>11 DEF g, Onward
  <2>2. Flagged(flags, m) = Flagged(flags, k)
    BY <1>2, <1>11 DEF Flagged
  <2>3. Opening(flags, m) = Opening(flags, k)
    BY <2>2 DEF Opening
  <2>4. /\ g.current = 0
        /\ Len(g.runs) = Len(e.runs) + (IF e.current > 0 THEN 1 ELSE 0)
        /\ Total(g.runs, Len(g.runs)) = Total(e.runs, Len(e.runs)) + e.current
    BY <1>0, <2>1, EndedIs
  <2>5. ~(g.current > 0) /\ ~flags[Max(Upto(flags, m))]
    BY <1>7, <1>11, <2>4
  <2>6. Total(g.runs, Len(g.runs)) + g.current = Cardinality(Flagged(flags, m))
    <3> DEFINE x == Total(g.runs, Len(g.runs))
    <3>0. x = Total(e.runs, Len(e.runs)) + e.current /\ g.current = 0
      BY <2>4
    <3> HIDE DEF x
    <3>1. x = Cardinality(Flagged(flags, m)) /\ x \in Nat
      BY <1>3, <1>5, <2>2, <3>0
    <3>2. x + g.current = Cardinality(Flagged(flags, m))
      BY <3>0, <3>1
    <3> QED
      BY <3>2 DEF x
  <2>7. Len(g.runs) + (IF g.current > 0 THEN 1 ELSE 0) = Cardinality(Opening(flags, m))
    <3> DEFINE x == Len(g.runs)
    <3>0. x = Len(e.runs) + (IF e.current > 0 THEN 1 ELSE 0) /\ g.current = 0
      BY <2>4
    <3> HIDE DEF x
    <3>1. x = Cardinality(Opening(flags, m)) /\ x \in Nat
      <4>1. x = Cardinality(Opening(flags, k))
        BY <1>3, <3>0
      <4>2. x \in Nat
        <5>1. g.runs \in Seq(Nat)
          BY <1>0 DEF Runs
        <5> QED
          BY <5>1 DEF x
      <4> QED
        BY <2>3, <4>1, <4>2
    <3>2. ~(g.current > 0)
      BY <3>0
    <3>3. x + 0 = Cardinality(Opening(flags, m))
      BY <3>1
    <3> QED
      BY <3>2, <3>3 DEF x
  <2>8. Counted(g, flags, m)
    BY <1>0, <2>5, <2>6, <2>7 DEF Counted
  <2> QED
    BY <2>8 DEF g, m
<1> QED
  BY <1>9, <1>10, <1>11

\* There is an episode for every row that opens one, and they have all the flagged rows.
LEMMA EpisodesCount ==
    ASSUME NEW n \in Nat, NEW flags, DOMAIN flags \subseteq 1 .. n
    PROVE  LET runs == PersistenceRuns(flags, n) IN
           /\ Len(runs) = Cardinality(Opening(flags, n))
           /\ Total(runs, Len(runs)) = Cardinality(Flagged(flags, n))
<1>1. PICK f : IsCount(f, flags, n)
  BY RunsUnfold
<1>2. /\ f \in [0 .. n -> Runs] /\ f[0] = [runs |-> <<>>, current |-> 0]
      /\ \A i \in 1 .. n : f[i] = Onward(f[i - 1], flags, i)
      /\ PersistenceRuns(flags, n) = Ended(f[n]).runs
  BY <1>1 DEF IsCount
<1> DEFINE T == {k \in Nat : k <= n => Counted(f[k], flags, k)}
<1>3. 0 \in T
  <2> DEFINE e == f[0]
  <2>1. e.runs = <<>> /\ e.current = 0 /\ e \in Runs
    BY <1>2
  <2>2. Flagged(flags, 0) = {} /\ Upto(flags, 0) = {}
    <3>1. \A i \in DOMAIN flags : ~(i <= 0)
      OBVIOUS
    <3> QED
      BY <3>1 DEF Flagged, Upto
  <2>3. Opening(flags, 0) = {}
    BY <2>2 DEF Opening
  <2>4. Len(e.runs) = 0 /\ Total(e.runs, Len(e.runs)) = 0
    BY <2>1, TotalOfNone
  <2> HIDE DEF e
  <2>5. Cardinality(Flagged(flags, 0)) = 0 /\ Cardinality(Opening(flags, 0)) = 0
    BY <2>2, <2>3, FS_EmptySet
  <2>6. Counted(e, flags, 0)
    BY <2>1, <2>2, <2>4, <2>5 DEF Counted
  <2> QED
    BY <2>6 DEF e
<1>4. ASSUME NEW k \in T PROVE k + 1 \in T
  <2> SUFFICES ASSUME k + 1 <= n PROVE Counted(f[k + 1], flags, k + 1)
    OBVIOUS
  <2>1. k \in Nat /\ k <= n /\ k + 1 \in 1 .. n /\ k + 1 - 1 = k
    OBVIOUS
  <2>2. Counted(f[k], flags, k) /\ f[k + 1] = Onward(f[k], flags, k + 1)
    BY <1>2, <2>1
  <2> QED
    BY <2>1, <2>2, CountGoesOn
<1>5. T = Nat
  <2>1. T \in SUBSET Nat
    OBVIOUS
  <2> HIDE DEF T
  <2> QED
    BY <1>3, <1>4, <2>1, InductionOn
<1>6. Counted(f[n], flags, n)
  BY <1>5
<1> DEFINE e == f[n]
<1>7. /\ e \in Runs /\ Total(e.runs, Len(e.runs)) + e.current = Cardinality(Flagged(flags, n))
      /\ Len(e.runs) + (IF e.current > 0 THEN 1 ELSE 0) = Cardinality(Opening(flags, n))
  BY <1>6 DEF Counted
<1> HIDE DEF e
<1>8. /\ Len(Ended(e).runs) = Len(e.runs) + (IF e.current > 0 THEN 1 ELSE 0)
      /\ Total(Ended(e).runs, Len(Ended(e).runs)) = Total(e.runs, Len(e.runs)) + e.current
  BY <1>7, EndedIs
<1>9. PersistenceRuns(flags, n) = Ended(e).runs
  BY <1>2 DEF e
<1> QED
  BY <1>7, <1>8, <1>9

-----------------------------------------------------------------------------
(* The report *)

\* How a decision made at row k is settled.
SettledAs(recs, delay, k, t) ==
    LET off(i) == Distance(recs[i].at - (recs[k].at + delay)) IN
    /\ Costable(recs[k].seen)
    /\ \E j \in DOMAIN Grid :
          LET e == SizePoint(recs[k].seen, t.decision.dir, Grid[j])
          IN  e # Unpriced /\ e.net = t.decision.net /\ e.notional = t.decision.notional
    /\ t.by # 0 => /\ recs[t.by].at >= recs[k].at
                   /\ \A i \in DOMAIN recs : recs[i].at >= recs[k].at => off(t.by) <= off(i)
    /\ t.by = 0 => \A i \in DOMAIN recs : recs[i].at >= recs[k].at => off(i) > 1
    /\ t.worth # Unpriced =>
          /\ t.decision.dir = "DEX_to_CEX" => t.worth.notional = t.decision.notional
          /\ recs[t.by].seen.gas

\* Resolving a decision settles it: by the nearest row that is not before it, if one is
\* near enough.
LEMMA ResolveSettles ==
    ASSUME NEW recs, TapeGood(recs), NEW k \in 1 .. Len(recs), Costable(recs[k].seen),
           NEW d \in Ways, NEW j \in DOMAIN Grid, SizePoint(recs[k].seen, d, Grid[j]) # Unpriced,
           NEW delay \in Nat
    PROVE  SettledAs(recs, delay, k, Resolve(recs, recs[k], Picked(recs[k].seen, d, j), delay))
<1> DEFINE n == Len(recs)
           s == recs[k].seen
           x == recs[k].at + delay
           p == Picked(s, d, j)
           tol == Tolerance(recs)
           near == Candidates(recs, recs[k].at, x, tol)
           q == Nearest(recs, near, x)
           later == recs[q].seen
           by == IF near = {} THEN 0 ELSE q
           worth == IF near = {} \/ ~later.gas THEN Unpriced ELSE SizePoint(later, p.dir, p.notional)
           t == Resolve(recs, recs[k], p, delay)
           off(i) == Distance(recs[i].at - x)
<1>1. n \in Nat /\ DOMAIN recs = 1 .. n
      /\ \A i \in 1 .. n : recs[i].at \in Nat /\ recs[i].seen \in Sightings
  BY TapeTimes
<1>2. x \in Nat /\ s \in Sightings /\ k \in 1 .. n
  BY <1>1
<1>3. t.decision = p /\ t.by = by /\ t.worth = worth
  BY DEF Resolve
<1>4. /\ p.dir = d /\ p.net = SizePoint(s, d, Grid[j]).net
      /\ p.notional = SizePoint(s, d, Grid[j]).notional
  <2>1. Picked(s, d, j) # Unpriced
    BY <1>2, SidedIs
  <2> QED
    BY <1>2, <2>1, SidedIs
<1>5. tol \in Nat /\ 1 <= tol
  BY ToleranceIs
<1>6. \A i \in 1 .. n : i \in near <=> off(i) <= tol /\ recs[i].at >= recs[k].at
  BY <1>1 DEF Candidates
<1>7. near \in SUBSET (1 .. n)
  BY <1>1 DEF Candidates
<1>8. near # {} => q \in near /\ \A i \in near : off(q) <= off(i)
  BY <1>2, <1>7, NearestIs
<1>9. \A i \in 1 .. n : off(i) \in Nat
  <2> TAKE i \in 1 .. n
  <2>1. recs[i].at - x \in Int
    BY <1>1, <1>2
  <2> QED
    BY <2>1, DistanceIs
<1>10. SightingShape(s) /\ Grid[j] \in Nat \ {0} /\ Buys(s, Grid[j])
  BY <1>2, SightingIs
<1>11. d = "DEX_to_CEX" => p.notional = Grid[j]
  BY <1>4, <1>10, PointTyped
<1>12. Costable(s) /\ SizePoint(s, d, Grid[j]) # Unpriced
  OBVIOUS
<1> HIDE DEF n, s, x, p, tol, near, q, t
<1>13. by # 0 => near # {} /\ by = q
  OBVIOUS
<1>14. near # {} => q # 0 /\ q \in 1 .. n /\ by = q
  <2> SUFFICES ASSUME near # {} PROVE q # 0 /\ q \in 1 .. n /\ by = q
    OBVIOUS
  <2>1. q \in 1 .. n
    BY <1>7, <1>8
  <2>2. q # 0
    BY <1>1, <2>1
  <2> QED
    BY <2>1, <2>2
<1>15. by # 0 => /\ recs[by].at >= recs[k].at
                 /\ \A i \in 1 .. n : recs[i].at >= recs[k].at => off(by) <= off(i)
  <2> SUFFICES ASSUME by # 0 PROVE /\ recs[by].at >= recs[k].at
                                   /\ \A i \in 1 .. n : recs[i].at >= recs[k].at => off(by) <= off(i)
    OBVIOUS
  <2>1. near # {} /\ by = q /\ q \in near /\ q \in 1 .. n
    BY <1>8, <1>13, <1>14
  <2>2. recs[q].at >= recs[k].at /\ off(q) <= tol
    BY <1>6, <2>1
  <2> HIDE DEF off
  <2>3. ASSUME NEW i \in 1 .. n, recs[i].at >= recs[k].at PROVE off(q) <= off(i)
    <3>1. CASE i \in near
      BY <1>8, <2>1, <3>1
    <3>2. CASE i \notin near
      <4>1. ~(off(i) <= tol) /\ off(i) \in Nat /\ off(q) \in Nat
        BY <1>6, <1>9, <2>1, <2>3, <3>2
      <4> QED
        BY <1>5, <2>2, <4>1
    <3> QED
      BY <3>1, <3>2
  <2> QED
    BY <2>1, <2>2, <2>3
<1>16. by = 0 => \A i \in 1 .. n : recs[i].at >= recs[k].at => off(i) > 1
  <2> SUFFICES ASSUME by = 0, NEW i \in 1 .. n, recs[i].at >= recs[k].at PROVE off(i) > 1
    OBVIOUS
  <2>1. near = {}
    BY <1>14
  <2> HIDE DEF off
  <2>2. ~(off(i) <= tol) /\ off(i) \in Nat
    BY <1>6, <1>9, <2>1
  <2> QED
    BY <1>5, <2>2
<1>17. worth # Unpriced => /\ d = "DEX_to_CEX" => worth.notional = p.notional
                           /\ recs[by].seen.gas
  <2> SUFFICES ASSUME worth # Unpriced
               PROVE  /\ d = "DEX_to_CEX" => worth.notional = p.notional
                      /\ recs[by].seen.gas
    OBVIOUS
  <2>1. near # {} /\ later.gas /\ worth = SizePoint(later, p.dir, p.notional)
    OBVIOUS
  <2>2. q \in 1 .. n /\ by = q
    BY <1>14, <2>1
  <2>3. later \in Sightings
    BY <1>1, <2>2
  <2>4. SightingShape(later) /\ Buys(later, Grid[j])
    BY <2>3, SightingIs
  <2> HIDE DEF by, worth
  <2>5. ASSUME d = "DEX_to_CEX" PROVE worth.notional = p.notional
    <3>1. worth = SizePoint(later, d, Grid[j])
      BY <1>4, <1>11, <2>1, <2>5
    <3> QED
      BY <1>10, <1>11, <2>4, <2>5, <3>1, PointTyped
  <2> QED
    BY <2>1, <2>2, <2>5
<1> HIDE DEF by, worth, off
<1>18. SettledAs(recs, delay, k, t)
  <2>1. \A i : Distance(recs[i].at - (recs[k].at + delay)) = off(i)
    BY DEF off, x
  <2>2. Costable(recs[k].seen)
    OBVIOUS
  <2>3. LET e == SizePoint(recs[k].seen, t.decision.dir, Grid[j])
        IN  e # Unpriced /\ e.net = t.decision.net /\ e.notional = t.decision.notional
    BY <1>3, <1>4, <1>12 DEF s
  <2>4. t.by # 0 => /\ recs[t.by].at >= recs[k].at
                    /\ \A i \in DOMAIN recs : recs[i].at >= recs[k].at => off(t.by) <= off(i)
    BY <1>1, <1>3, <1>15
  <2>5. t.by = 0 => \A i \in DOMAIN recs : recs[i].at >= recs[k].at => off(i) > 1
    BY <1>1, <1>3, <1>16
  <2>6. t.worth # Unpriced =>
          /\ t.decision.dir = "DEX_to_CEX" => t.worth.notional = t.decision.notional
          /\ recs[t.by].seen.gas
    BY <1>3, <1>4, <1>17
  <2> QED
    BY <2>2, <2>3, <2>4, <2>5, <2>6 DEF SettledAs, off, x
<1> QED
  BY <1>18 DEF t, p, s

\* What the latency study settles are decisions of rows that can be costed.
LEMMA DecidedIs ==
    ASSUME NEW recs, TapeGood(recs), NEW among \in SUBSET (1 .. Len(recs))
    PROVE  LET decided == DecidedRows(recs, among) IN
           /\ DOMAIN decided \subseteq among
           /\ \A i \in DOMAIN decided : \E d \in Ways, j \in DOMAIN Grid :
                 /\ decided[i] = Picked(recs[i].seen, d, j)
                 /\ SizePoint(recs[i].seen, d, Grid[j]) # Unpriced
<1> DEFINE own == {i \in among : BestDecision(recs[i].seen) # Unpriced}
           any == {i \in among : BestPriceable(recs[i].seen) # Unpriced}
           decided == DecidedRows(recs, among)
<1>1. \A i \in among : recs[i].seen \in Sightings
  BY TapeTimes
<1>2. \A i \in own : i \in among /\ BestDecision(recs[i].seen) # Unpriced
  OBVIOUS
<1>3. \A i \in any : i \in among /\ BestPriceable(recs[i].seen) # Unpriced
  OBVIOUS
<1>4. decided = IF own # {} THEN [i \in own |-> BestDecision(recs[i].seen)]
                ELSE [i \in any |-> BestPriceable(recs[i].seen)]
  BY DEF DecidedRows
<1> HIDE DEF own, any, decided
<1>5. CASE own # {}
  <2>1. DOMAIN decided = own /\ \A i \in own : decided[i] = BestDecision(recs[i].seen)
    BY <1>4, <1>5
  <2> QED
    BY <1>1, <1>2, <2>1, DecisionIs DEF decided
<1>6. CASE own = {}
  <2>1. DOMAIN decided = any /\ \A i \in any : decided[i] = BestPriceable(recs[i].seen)
    BY <1>4, <1>6
  <2> QED
    BY <1>1, <1>3, <2>1, PriceableIs DEF decided
<1> QED
  BY <1>5, <1>6

\* Rows are one of three kinds.
LEMMA RowsAccounted ==
    ASSUME NEW n \in Nat, NEW costed \in SUBSET (1 .. n), NEW priced \in SUBSET costed
    PROVE  n = Cardinality((1 .. n) \ costed) + Cardinality(costed \ priced) + Cardinality(priced)
<1>1. 1 \in Int /\ n \in Int
  OBVIOUS
<1>2. IsFiniteSet(1 .. n) /\ Cardinality(1 .. n) = n
  BY <1>1, FS_Interval
<1>3. IsFiniteSet(costed) /\ IsFiniteSet(priced)
  BY <1>2, FS_Subset
<1>4. (1 .. n) \cap costed = costed /\ costed \cap priced = priced
  OBVIOUS
<1>5. Cardinality((1 .. n) \ costed) = n - Cardinality(costed)
  <2> DEFINE all == 1 .. n
  <2>1. IsFiniteSet(all) /\ Cardinality(all) = n /\ all \cap costed = costed
    BY <1>2, <1>4
  <2> HIDE DEF all
  <2>2. Cardinality(all \ costed) = Cardinality(all) - Cardinality(all \cap costed)
    BY <2>1, FS_Difference
  <2> QED
    BY <2>1, <2>2 DEF all
<1>6. Cardinality(costed \ priced) = Cardinality(costed) - Cardinality(priced)
  BY <1>3, <1>4, FS_Difference
<1>7. Cardinality(costed) \in Nat /\ Cardinality(priced) \in Nat
  BY <1>3, FS_CardinalityType
<1> QED
  BY <1>5, <1>6, <1>7

\* A report that is made honestly.
StudyGood(recs, st) ==
    /\ DOMAIN st.trades \subseteq DOMAIN recs
    /\ Len(recs) = st.uncostable + st.unpriceable + Cardinality(DOMAIN st.nets)
    /\ LET flagged == {i \in DOMAIN st.flags : st.flags[i]}
           before(i) == {j \in DOMAIN st.flags : j < i}
       IN  /\ Len(st.episodes) =
                 Cardinality({i \in flagged : before(i) = {} \/ Max(before(i)) \notin flagged})
           /\ Total(st.episodes, Len(st.episodes)) = Cardinality(flagged)
    /\ \A k \in DOMAIN st.trades : SettledAs(recs, st.delay, k, st.trades[k])

\* Every report is.
LEMMA AnalyseSettles ==
    ASSUME TapeGood(tape), Analyse
    PROVE  StudyGood(tape, study')
<1>1. PICK delay \in Latencies :
          LET costed == {i \in DOMAIN tape : Costable(tape[i].seen)}
              priced == {i \in costed : BestPriceable(tape[i].seen) # Unpriced}
              flags == [i \in costed |-> BestDecision(tape[i].seen) # Unpriced]
              decided == DecidedRows(tape, costed)
          IN  study' =
                [delay |-> delay,
                 uncostable |-> Cardinality(DOMAIN tape \ costed),
                 nets |-> [i \in priced |-> BestPriceable(tape[i].seen)],
                 unpriceable |-> Cardinality(costed \ priced),
                 flags |-> flags,
                 episodes |-> PersistenceRuns(flags, Len(tape)),
                 trades |-> [i \in DOMAIN decided |-> Resolve(tape, tape[i], decided[i], delay)]]
  BY DEF Analyse
<1> DEFINE n == Len(tape)
           costed == {i \in DOMAIN tape : Costable(tape[i].seen)}
           priced == {i \in costed : BestPriceable(tape[i].seen) # Unpriced}
           flags == [i \in costed |-> BestDecision(tape[i].seen) # Unpriced]
           decided == DecidedRows(tape, costed)
           nets == [i \in priced |-> BestPriceable(tape[i].seen)]
           trades == [i \in DOMAIN decided |-> Resolve(tape, tape[i], decided[i], delay)]
           runs == PersistenceRuns(flags, n)
           st == study'
<1>2. /\ st.delay = delay /\ st.uncostable = Cardinality(DOMAIN tape \ costed)
      /\ st.nets = nets /\ st.unpriceable = Cardinality(costed \ priced)
      /\ st.flags = flags /\ st.episodes = runs /\ st.trades = trades
  BY <1>1
<1>3. delay \in Nat
  BY ResearchAssumption
<1>4. n \in Nat /\ DOMAIN tape = 1 .. n
  BY TapeTimes
<1>5. costed \in SUBSET (1 .. n) /\ priced \in SUBSET costed /\ \A i \in costed : Costable(tape[i].seen)
  BY <1>4
<1>6. DOMAIN nets = priced /\ DOMAIN flags = costed /\ DOMAIN trades = DOMAIN decided
  OBVIOUS
<1>7. \A i \in DOMAIN decided : trades[i] = Resolve(tape, tape[i], decided[i], delay)
  OBVIOUS
<1>8. /\ DOMAIN decided \subseteq costed
      /\ \A i \in DOMAIN decided : \E d \in Ways, j \in DOMAIN Grid :
            decided[i] = Picked(tape[i].seen, d, j) /\ SizePoint(tape[i].seen, d, Grid[j]) # Unpriced
  BY <1>5, DecidedIs
<1> HIDE DEF costed, priced, flags, decided, nets, trades, st
<1>9. DOMAIN st.trades \subseteq DOMAIN tape
  BY <1>2, <1>4, <1>5, <1>6, <1>8
<1>10. n = st.uncostable + st.unpriceable + Cardinality(DOMAIN st.nets)
  <2>1. n = Cardinality((1 .. n) \ costed) + Cardinality(costed \ priced) + Cardinality(priced)
    <3> HIDE DEF n
    <3> QED
      BY <1>4, <1>5, RowsAccounted
  <2> QED
    BY <1>2, <1>4, <1>6, <2>1
<1> DEFINE flagged == {i \in DOMAIN flags : flags[i]}
           before(i) == {j \in DOMAIN flags : j < i}
           opening == {i \in flagged : before(i) = {} \/ Max(before(i)) \notin flagged}
<1>11. flagged = Flagged(flags, n)
  <2>1. \A i \in 1 .. n : i \in 0 .. n /\ i <= n
    BY <1>4
  <2>2. \A i \in DOMAIN flags : i \in 0 .. n /\ i <= n
    BY <1>5, <1>6, <2>1
  <2> QED
    BY <2>2 DEF Flagged
<1>12. opening = Opening(flags, n)
  <2>1. ASSUME NEW i \in flagged
        PROVE  Fresh(flags, i) <=> before(i) = {} \/ Max(before(i)) \notin flagged
    <3>1. CASE before(i) = {}
      BY <3>1 DEF Fresh
    <3>2. CASE before(i) # {}
      <4>1. before(i) \in SUBSET (0 .. n)
        <5>1. \A m \in 1 .. n : m \in 0 .. n
          BY <1>4
        <5> QED
          BY <1>5, <1>6, <5>1
      <4> DEFINE b == before(i)
      <4>2. \A m \in b : m \in DOMAIN flags
        OBVIOUS
      <4>3. Fresh(flags, i) <=> b = {} \/ ~flags[Max(b)]
        BY DEF Fresh
      <4> HIDE DEF b
      <4>4. Max(b) \in b
        BY <1>4, <3>2, <4>1, MaxOf DEF b
      <4>5. Max(b) \in DOMAIN flags
        BY <4>2, <4>4
      <4>6. Fresh(flags, i) <=> b = {} \/ Max(b) \notin flagged
        BY <4>3, <4>5
      <4> QED
        BY <4>6 DEF b
    <3> QED
      BY <3>1, <3>2
  <2>2. Opening(flags, n) = {i \in flagged : Fresh(flags, i)}
    BY <1>11 DEF Opening
  <2> HIDE DEF flagged, before
  <2> QED
    BY <2>1, <2>2
<1>13. Len(runs) = Cardinality(opening) /\ Total(runs, Len(runs)) = Cardinality(flagged)
  <2>1. DOMAIN flags \subseteq 1 .. n
    BY <1>5, <1>6
  <2> HIDE DEF flagged, opening, n
  <2>2. /\ Len(runs) = Cardinality(Opening(flags, n))
        /\ Total(runs, Len(runs)) = Cardinality(Flagged(flags, n))
    BY <1>4, <2>1, EpisodesCount
  <2> QED
    BY <1>11, <1>12, <2>2
<1>14. \A k \in DOMAIN st.trades : SettledAs(tape, st.delay, k, st.trades[k])
  <2> SUFFICES ASSUME NEW k \in DOMAIN decided PROVE SettledAs(tape, delay, k, trades[k])
    BY <1>2, <1>6
  <2>1. k \in 1 .. Len(tape) /\ Costable(tape[k].seen)
    BY <1>5, <1>8
  <2>2. PICK d \in Ways, j \in DOMAIN Grid :
            decided[k] = Picked(tape[k].seen, d, j) /\ SizePoint(tape[k].seen, d, Grid[j]) # Unpriced
    BY <1>8
  <2>3. SettledAs(tape, delay, k, Resolve(tape, tape[k], Picked(tape[k].seen, d, j), delay))
    BY <1>3, <2>1, <2>2, ResolveSettles
  <2> QED
    BY <1>7, <2>2, <2>3
<1> HIDE DEF runs
<1>15. StudyGood(tape, st)
  BY <1>2, <1>9, <1>10, <1>13, <1>14 DEF StudyGood
<1> QED
  BY <1>15 DEF st

\* What is studied, scrambled and replayed, all of it from the tape.
ResearchInv ==
    /\ ReplayInv
    /\ study # Unpriced => StudyGood(tape, study)
    /\ ControlMixes /\ ControlShape

\* The module's steps all keep it.
LEMMA ResearchInvariant == ResearchSpec => []ResearchInv
<1>1. ResearchInit => ResearchInv
  BY ReplayStarts DEF ResearchInit, ResearchInv, ControlMixes, ControlShape
<1>2. ResearchInv /\ [ResearchNext]_researchVars => ResearchInv'
  <2> SUFFICES ASSUME ResearchInv, [ResearchNext]_researchVars PROVE ResearchInv'
    OBVIOUS
  <2>1. ReplayInv'
    BY ReplayStep DEF ResearchInv
  <2>2. TapeGood(tape)
    BY DEF ResearchInv, ReplayInv
  <2>3. CASE Observe
    <3>1. study' = Unpriced /\ control' = Unpriced
      BY <2>3 DEF Observe, Unstudied
    <3> QED
      BY <2>1, <3>1 DEF ResearchInv, ControlMixes, ControlShape
  <2>4. CASE Analyse
    <3>1. tape' = tape /\ control' = Unpriced
      BY <2>4 DEF Analyse, Unstudied
    <3>2. StudyGood(tape', study')
      BY <2>2, <2>4, <3>1, AnalyseSettles
    <3> QED
      BY <2>1, <3>1, <3>2 DEF ResearchInv, ControlMixes, ControlShape
  <2>5. CASE Scramble
    <3>1. study' = Unpriced
      BY <2>5 DEF Scramble, Unstudied
    <3>2. ControlMixes' /\ ControlShape'
      BY <2>2, <2>5, ScrambleMixes
    <3> QED
      BY <2>1, <3>1, <3>2 DEF ResearchInv
  <2>6. CASE ReplayBegins \/ ReplayRow \/ UNCHANGED researchVars
    <3>1. UNCHANGED <<tape, study, control>>
      BY <2>6 DEF ReplayBegins, ReplayRow, researchVars
    <3>2. study' # Unpriced => StudyGood(tape', study')
      BY <3>1 DEF ResearchInv
    <3>3. ControlShape'
      BY <3>1 DEF ResearchInv, ControlShape
    <3>4. ControlMixes'
      BY <3>1 DEF ResearchInv, ControlMixes, Span
    <3> QED
      BY <2>1, <3>2, <3>3, <3>4 DEF ResearchInv
  <2> QED
    BY <2>3, <2>4, <2>5, <2>6 DEF ResearchNext
<1> QED
  BY <1>1, <1>2, PTL DEF ResearchSpec

\* A report is made honestly, every row of it accounted for, every decision settled by
\* the nearest row that is not before it, and its scrambled control is one.
THEOREM StudyIsHonest == ResearchSpec => []StudyHonest
<1>1. ResearchInv => StudyHonest
  <2> SUFFICES ASSUME ResearchInv PROVE StudyHonest
    OBVIOUS
  <2>1. ControlMixes
    BY DEF ResearchInv
  <2>2. ASSUME study # Unpriced
        PROVE  LET flagged == {i \in DOMAIN study.flags : study.flags[i]}
                   before(i) == {j \in DOMAIN study.flags : j < i}
               IN  /\ Len(tape) = study.uncostable + study.unpriceable + Cardinality(DOMAIN study.nets)
                   /\ Len(study.episodes) =
                         Cardinality({i \in flagged : before(i) = {} \/ Max(before(i)) \notin flagged})
                   /\ Total(study.episodes, Len(study.episodes)) = Cardinality(flagged)
                   /\ \A k \in DOMAIN study.trades : SettledAs(tape, study.delay, k, study.trades[k])
    BY <2>2 DEF ResearchInv, StudyGood
  <2>3. SettledHonestly
    BY <2>2 DEF SettledHonestly, SettledAs
  <2> QED
    BY <2>1, <2>3 DEF StudyHonest
<1> QED
  BY <1>1, ResearchInvariant, PTL

\* The tape, the report, the control and the replay have their shapes.
THEOREM ResearchTypeCorrect == ResearchSpec => []ResearchTypeOK
<1>1. ResearchInv => ResearchTypeOK
  <2> SUFFICES ASSUME ResearchInv PROVE ResearchTypeOK
    OBVIOUS
  <2>0. TapeGood(tape) /\ ReplayGood(tape, replay)
    BY DEF ResearchInv, ReplayInv
  <2>1. \A i \in DOMAIN tape : tape[i].seen \in Sightings /\ tape[i].at \in Nat
    BY <2>0, TapeTimes
  <2>2. study # Unpriced => DOMAIN study.trades \subseteq DOMAIN tape
    BY DEF ResearchInv, StudyGood
  <2>3. control # Unpriced => control.partner \in [DOMAIN tape -> DOMAIN tape]
    BY DEF ResearchInv, ControlShape
  <2>4. /\ replay.at \in Nat /\ replay.at <= Len(tape) + 1
        /\ DOMAIN replay.found \subseteq 1 .. replay.at - 1
    BY <2>0 DEF ReplayGood
  <2>5. Len(tape) \in Nat /\ DOMAIN tape = 1 .. Len(tape)
    BY <2>0, TapeTimes
  <2>6. 1 .. replay.at - 1 \subseteq 1 .. Len(tape)
    BY <2>4, <2>5
  <2>7. replay.at \in 0 .. Len(tape) + 1 /\ DOMAIN replay.found \subseteq DOMAIN tape
    BY <2>4, <2>5, <2>6
  <2> QED
    BY <2>1, <2>2, <2>3, <2>7 DEF ResearchTypeOK
<1> QED
  BY <1>1, ResearchInvariant, PTL

-----------------------------------------------------------------------------
(* MCTrading *)

tradingVars ==
    <<part, fedVars, placeboVars, orderVars, swapVars, valuationVars, researchVars, backtestVars,
      universeVars>>

\* Ages the feed can vouch for are ages a book can have.
LEMMA VouchedIsDetected == Vouching!DetectorNext => DetectorNext
<1> SUFFICES ASSUME Vouching!DetectorNext PROVE DetectorNext
  OBVIOUS
<1>1. -1 .. MaxBookAge \subseteq -1 .. BookAge
  BY FeedAssumption, FedAssumption
<1>2. CASE Vouching!Detect
  <2>1. PICK age \in [Pairs \ Denied -> -1 .. MaxBookAge], inter \in -1 .. MaxBookAge :
            Vouching!DetectWith(age, inter)
    BY <1>2 DEF Vouching!Detect
  <2>2. age \in [Pairs \ Denied -> -1 .. BookAge] /\ inter \in -1 .. BookAge
    BY <1>1
  <2>3. DetectWith(age, inter)
    BY <2>1 DEF Vouching!DetectWith, Vouching!Rate, Vouching!RateUsable, Vouching!Unasked,
                Vouching!Directions, DetectWith, Rate, RateUsable, Unasked, Directions
  <2> QED
    BY <2>2, <2>3 DEF Detect, DetectorNext
<1>3. CASE \E p \in Pairs, d \in DOMAIN Directions : Vouching!LegReturns(p, d)
  <2> SUFFICES ASSUME NEW p \in Pairs, NEW d \in DOMAIN Directions, Vouching!LegReturns(p, d)
               PROVE  LegReturns(p, d)
    BY <1>3 DEF DetectorNext
  <2> QED
    BY DEF Vouching!LegReturns, Vouching!Best, Vouching!Viable, Vouching!Directions,
           LegReturns, Best, Viable, Directions
<1>4. CASE Vouching!DetectReturns
  BY <1>4 DEF Vouching!DetectReturns, Vouching!Unasked, Vouching!Directions, Vouching!SetToSeqs,
              Vouching!Cardinality, DetectReturns, Unasked, Directions, SetToSeqs,
              Cardinality, DetectorNext
<1>5. CASE Vouching!Handle
  BY <1>5 DEF Vouching!Handle, Vouching!Alive, Handle, Alive, DetectorNext
<1>6. CASE Vouching!DetectorTick
  BY <1>6 DEF Vouching!DetectorTick, DetectorTick, DetectorNext
<1>7. DOMAIN Vouching!Directions = DOMAIN Directions
  BY DEF Vouching!Directions, Directions
<1> QED
  BY <1>2, <1>3, <1>4, <1>5, <1>6, <1>7 DEF Vouching!DetectorNext

\* A pair that is denied besides is one whose book is not to be used.
LEMMA FedLooksAsAny == ASSUME FeedInv, Fed!Look PROVE Detect
<1> DEFINE age == [p \in Pairs \ Denied |-> IF p = p1 THEN -1 ELSE AgeOf(SymbolOf[p])]
           few == [p \in Pairs \ (Denied \cup {p1}) |-> AgeOf(SymbolOf[p])]
           inter == AgeOf(MiddleSymbol)
<1>1. \A s : Fed!AgeOf(s) = AgeOf(s)
  BY DEF Fed!AgeOf, Fed!Usable, AgeOf, Usable
<1>2. Fed!DetectWith(few, inter)
  BY <1>1 DEF Fed!Look
<1>3. \A p \in Pairs \ Denied : SymbolOf[p] \in Symbols
  BY FedAssumption
<1>4. /\ \A p \in Pairs \ Denied : age[p] \in -1 .. BookAge
      /\ inter \in -1 .. BookAge
  BY <1>3, AgeFacts, FedAssumption, DetectorAssumption
<1>5. age \in [Pairs \ Denied -> -1 .. BookAge]
  BY <1>4
<1>6. /\ \A p \in Pairs \ (Denied \cup {p1}) : age[p] = few[p]
      /\ \A p \in Pairs \ Denied : age[p] >= 0 => p \in Pairs \ (Denied \cup {p1})
  OBVIOUS
<1> HIDE DEF age, few, inter
<1>7. \A r : Fed!RateUsable(r) = RateUsable(r)
  BY DEF Fed!RateUsable, RateUsable
<1>8. Fed!Rate(inter) = Rate(inter) /\ Fed!Unasked = Unasked /\ Fed!Directions = Directions
  BY DEF Fed!Rate, Rate, Fed!Unasked, Unasked, Fed!Directions, Directions
<1>9. (\E p \in Synthetic \ Denied : age[p] >= 0)
         <=> (\E p \in Synthetic \ (Denied \cup {p1}) : few[p] >= 0)
  BY <1>6, DetectorAssumption
<1>10. \A r : {p \in Pairs \ Denied : age[p] >= 0 /\ (p \in Synthetic => RateUsable(r))}
              = {p \in Pairs \ (Denied \cup {p1}) :
                   few[p] >= 0 /\ (p \in Synthetic => RateUsable(r))}
  BY <1>6
<1>11. DetectWith(age, inter)
  BY <1>2, <1>6, <1>7, <1>8, <1>9, <1>10 DEF Fed!DetectWith, DetectWith
<1> QED
  BY <1>4, <1>5, <1>11 DEF Detect

\* The feed of the part that has both is the feed.
LEMMA FedPartIsFeed == Fed!FedNext => [FeedNext]_feedVars
<1> SUFFICES ASSUME Fed!FedNext PROVE [FeedNext]_feedVars
  OBVIOUS
<1>1. CASE Fed!Look
  BY <1>1 DEF Fed!Look, Fed!feedVars, feedVars
<1>2. CASE Fed!Conclude
  BY <1>2 DEF Fed!Conclude, Fed!feedVars, feedVars
<1>3. CASE Fed!Listen
  BY <1>3 DEF Fed!Listen, Fed!BookChanges, Fed!Stall, Fed!Drop, Fed!ConnectFails, Fed!Reconnect,
              Fed!Deliver, Fed!BackOff, Fed!LagBehind, BookChanges, Stall, Drop, ConnectFails,
              Reconnect, Deliver, BackOff, LagBehind, FeedNext
<1>4. CASE Fed!Clock
  BY <1>4 DEF Fed!Clock, Fed!Second, Fed!Older, Second, Older, FeedNext
<1> QED
  BY <1>1, <1>2, <1>3, <1>4 DEF Fed!FedNext

\* Its detector is the detector.
LEMMA FedPartDetects == FeedInv /\ Fed!FedNext => [DetectorNext]_detectorVars
<1> SUFFICES ASSUME FeedInv, Fed!FedNext PROVE [DetectorNext]_detectorVars
  OBVIOUS
<1>1. CASE Fed!Look
  BY <1>1, FedLooksAsAny DEF DetectorNext
<1>2. CASE Fed!Listen
  BY <1>2 DEF Fed!Listen, Fed!detectorVars, detectorVars
<1>3. CASE \E p \in Pairs, d \in DOMAIN Fed!Directions : Fed!LegReturns(p, d)
  <2> SUFFICES ASSUME NEW p \in Pairs, NEW d \in DOMAIN Fed!Directions, Fed!LegReturns(p, d)
               PROVE  d \in DOMAIN Directions /\ LegReturns(p, d)
    BY <1>3 DEF DetectorNext
  <2> QED
    BY DEF Fed!LegReturns, Fed!Best, Fed!Viable, Fed!Directions, LegReturns, Best, Viable, Directions
<1>4. CASE Fed!DetectReturns
  BY <1>4 DEF Fed!DetectReturns, Fed!Unasked, Fed!Directions, Fed!SetToSeqs, Fed!Cardinality,
              DetectReturns, Unasked, Directions, SetToSeqs, Cardinality, DetectorNext
<1>5. CASE Fed!Handle
  BY <1>5 DEF Fed!Handle, Fed!Alive, Handle, Alive, DetectorNext
<1>6. CASE Fed!Clock
  BY <1>6 DEF Fed!Clock, Fed!DetectorTick, Fed!detectorVars, DetectorTick, detectorVars, DetectorNext
<1> QED
  BY <1>1, <1>2, <1>3, <1>4, <1>5, <1>6 DEF Fed!FedNext, Fed!Conclude

\* Every part begins as it does alone.
LEMMA TradingBegins ==
    Init => /\ FeedInit /\ DetectorInit /\ PlaceboInit /\ OrdersInit /\ SwapInit /\ ValuationInit
            /\ ResearchInit /\ BacktestInit /\ DiscoveryInit /\ AdmissionInit
  BY DEF Init, FedInit

\* What is a step of one part is none of any other.
LEMMA TradingKeepsApart ==
    [Next]_tradingVars =>
        /\ [FeedNext]_feedVars /\ [PlaceboNext]_placeboVars /\ [OrdersNext]_orderVars
        /\ [SwapNext]_swapVars /\ [ValuationNext]_valuationVars /\ [ResearchNext]_researchVars
        /\ [BacktestNext]_backtestVars /\ [AdmissionNext]_<<discoveryVars, admissionVars>>
<1> SUFFICES ASSUME [Next]_tradingVars
             PROVE  /\ [FeedNext]_feedVars /\ [PlaceboNext]_placeboVars /\ [OrdersNext]_orderVars
                    /\ [SwapNext]_swapVars /\ [ValuationNext]_valuationVars
                    /\ [ResearchNext]_researchVars /\ [BacktestNext]_backtestVars
                    /\ [AdmissionNext]_<<discoveryVars, admissionVars>>
  OBVIOUS
<1>1. CASE Feed
  BY <1>1 DEF Feed, universeVars
<1>2. CASE Detecting
  BY <1>2 DEF Detecting, universeVars
<1>3. CASE Feeding
  BY <1>3, FedPartIsFeed DEF Feeding, universeVars
<1>4. CASE Control
  BY <1>4 DEF Control, fedVars, universeVars
<1>5. CASE Ordering
  BY <1>5 DEF Ordering, fedVars, universeVars
<1>6. CASE Swapping
  BY <1>6 DEF Swapping, fedVars, universeVars
<1>7. CASE Valuing
  BY <1>7 DEF Valuing, fedVars, universeVars
<1>8. CASE Studying
  BY <1>8 DEF Studying, fedVars, universeVars
<1>9. CASE Backtesting
  BY <1>9 DEF Backtesting, fedVars, universeVars
<1>10. CASE Admitting
  BY <1>10 DEF Admitting, fedVars
<1>11. CASE UNCHANGED tradingVars
  BY <1>11 DEF tradingVars, fedVars, universeVars
<1> QED
  BY <1>1, <1>2, <1>3, <1>4, <1>5, <1>6, <1>7, <1>8, <1>9, <1>10, <1>11 DEF Next

\* On books of its own or on those of the feed, the detector takes its own steps.
LEMMA DetectorKeepsApart == FeedInv /\ [Next]_tradingVars => [DetectorNext]_detectorVars
<1> SUFFICES ASSUME FeedInv, [Next]_tradingVars PROVE [DetectorNext]_detectorVars
  OBVIOUS
<1>1. CASE Detecting
  BY <1>1, VouchedIsDetected DEF Detecting
<1>2. CASE Feeding
  BY <1>2, FedPartDetects DEF Feeding
<1>3. CASE ~Detecting /\ ~Feeding
  BY <1>3 DEF Next, Feed, Control, Ordering, Swapping, Valuing, Studying, Backtesting, Admitting,
              tradingVars, fedVars
<1> QED
  BY <1>1, <1>2, <1>3

\* Whatever of MCTrading runs, feed, detector, placebo, orders, swaps, valuation, study,
\* backtest and universe run as each does alone, and what is proved of one of them holds
\* of the whole.  The detector's step needs the feed's invariant: on a book older than
\* any the feed counts it would not be one.
THEOREM TradingRunsItsParts ==
    Spec => /\ FeedInit /\ [][FeedNext]_feedVars
            /\ part = "feed" => FeedSpec
            /\ DetectorSpec /\ PlaceboSpec /\ OrdersSpec /\ SwapSpec /\ ValuationSpec
            /\ ReplaysSpec /\ AdmissionSpec
  BY TradingBegins, TradingKeepsApart, DetectorKeepsApart, FeedStarts, FeedStep, PTL
  DEF Spec, tradingVars, FeedSpec, DetectorSpec, PlaceboSpec, OrdersSpec, SwapSpec, ValuationSpec,
      ReplaysSpec, ResearchSpec, BacktestSpec, AdmissionSpec

\* Everything between the exchanges and a trade keeps its type, whichever part runs.
THEOREM TradingTypeCorrect ==
    ASSUME FloorNotNegative
    PROVE  Spec => []TypeOK
<1>1. FeedInv => FeedTypeOK
  BY DEF FeedInv
<1>2. FeedInit /\ [][FeedNext]_feedVars => []FeedTypeOK
  BY <1>1, FeedStarts, FeedStep, PTL
<1>3. BacktestSpec => []BacktestTypeOK
  BY BacktestTypeCorrect
<1> QED
  BY <1>2, <1>3, TradingRunsItsParts, DetectorTypeCorrect, PlaceboTypeCorrect, OrdersTypeCorrect,
     SwapTypeCorrect, ValuationTypeCorrect, ResearchTypeCorrect, AdmissionTypeCorrect, PTL
  DEF TypeOK, ReplaysSpec

=============================================================================
