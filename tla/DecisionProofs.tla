--------------------------- MODULE DecisionProofs ---------------------------
(***************************************************************************)
(* Proofs about what an opportunity rests on: the books of the market feed *)
(* (MarketFeed), the decision and the trade made of them (Detector, and    *)
(* FedDetector with the feed beside it), and the quotes they are compared  *)
(* with (Placebo).                                                         *)
(***************************************************************************)
EXTENDS FedDetector, Placebo, DataLemmas, FiniteSetTheorems, TLAPS

-----------------------------------------------------------------------------
(* MarketFeed *)

Frame == [sym : Symbols, kind : {"book", "junk"}, age : 0 .. MaxAged]
Kept == [held : BOOLEAN, here : BOOLEAN, skipped : BOOLEAN, lag : -1 .. MaxAged]

\* A book received over this connection with no frame of it dropped since.
Chained(b) == b.held /\ b.here /\ ~b.skipped

\* Frames are under way on a live connection only, in the order they were sent, none
\* for longer than the delay.
WireInv ==
    /\ wire # <<>> => conn = "live"
    /\ \A i \in 1 .. Len(wire) : wire[i].age <= NetDelay
    /\ \A i, j \in 1 .. Len(wire) : i <= j => wire[j].age <= wire[i].age

\* What a book misses is on the wire while the connection lives, and however it died
\* no book is behind by more than a delay and the silence since.
BookInv ==
    /\ conn = "down" => \A s \in Symbols : ~book[s].here
    /\ conn = "live" =>
          \A s \in Symbols : Chained(book[s]) /\ book[s].lag >= 0 =>
              \E i \in 1 .. Len(wire) : wire[i].sym = s /\ wire[i].age >= book[s].lag
    /\ \A s \in Symbols : Chained(book[s]) =>
          book[s].lag <= NetDelay + quiet \/ quiet = MaxAged

FeedInv == FeedTypeOK /\ WireInv /\ BookInv

\* An age grows by one until it reaches the bound, and keeps the order of ages.
LEMMA OlderFacts ==
    ASSUME NEW a \in 0 .. MaxAged
    PROVE  /\ Older(a) \in 0 .. MaxAged /\ a <= Older(a) /\ Older(a) <= a + 1
           /\ Older(a) = a + 1 \/ Older(a) = MaxAged
           /\ \A b \in 0 .. MaxAged : b <= a => Older(b) <= Older(a)
  BY FeedAssumption DEF Older

\* The typing of FeedTypeOK in the terms used here.
LEMMA FeedTypes ==
    FeedTypeOK =>
        /\ wire \in Seq(Frame) /\ book \in [Symbols -> Kept] /\ quiet \in 0 .. MaxAged
        /\ Len(wire) \in Nat
        /\ \A i \in 1 .. Len(wire) : wire[i] \in Frame /\ wire[i].age \in 0 .. MaxAged
        /\ \A s \in Symbols : book[s] \in Kept /\ book[s].lag \in -1 .. MaxAged
<1> SUFFICES ASSUME FeedTypeOK
             PROVE  /\ wire \in Seq(Frame) /\ book \in [Symbols -> Kept] /\ quiet \in 0 .. MaxAged
                    /\ Len(wire) \in Nat
                    /\ \A i \in 1 .. Len(wire) : wire[i] \in Frame /\ wire[i].age \in 0 .. MaxAged
                    /\ \A s \in Symbols : book[s] \in Kept /\ book[s].lag \in -1 .. MaxAged
  OBVIOUS
<1>1. wire \in Seq(Frame) /\ book \in [Symbols -> Kept] /\ quiet \in 0 .. MaxAged
  BY DEF FeedTypeOK, Frame, Kept
<1>2. Len(wire) \in Nat /\ \A i \in 1 .. Len(wire) : wire[i] \in Frame
  BY <1>1
<1>3. \A f \in Frame : f.age \in 0 .. MaxAged
  BY DEF Frame
<1>4. \A s \in Symbols : book[s] \in Kept
  BY <1>1
<1>5. \A b \in Kept : b.lag \in -1 .. MaxAged
  BY DEF Kept
<1> QED
  BY <1>1, <1>2, <1>3, <1>4, <1>5

\* A listener that has not connected yet has no frame and no book.
LEMMA FeedStarts == FeedInit => FeedInv
<1> SUFFICES ASSUME FeedInit PROVE FeedInv
  OBVIOUS
<1>1. NoBook \in Kept /\ ~NoBook.here /\ ~Chained(NoBook)
  BY FeedAssumption DEF NoBook, Kept, Chained
<1> HIDE DEF NoBook
<1>2. book \in [Symbols -> Kept] /\ \A s \in Symbols : book[s] = NoBook
  BY <1>1 DEF FeedInit
<1>3. FeedTypeOK
  BY <1>2, FeedAssumption DEF FeedInit, FeedTypeOK, Kept
<1> QED
  BY <1>1, <1>2, <1>3 DEF FeedInit, FeedInv, WireInv, BookInv

\* Every step of the listener, the exchange and the clock keeps the invariant.
LEMMA FeedStep ==
    ASSUME FeedInv, [FeedNext]_feedVars
    PROVE  FeedInv'
<1> USE FeedAssumption
<1>1. /\ FeedTypeOK /\ WireInv /\ BookInv
      /\ wire \in Seq(Frame) /\ book \in [Symbols -> Kept] /\ quiet \in 0 .. MaxAged
      /\ Len(wire) \in Nat
      /\ \A i \in 1 .. Len(wire) : wire[i] \in Frame /\ wire[i].age \in 0 .. MaxAged
      /\ \A s \in Symbols : book[s] \in Kept /\ book[s].lag \in -1 .. MaxAged
  BY FeedTypes DEF FeedInv
<1>2. CASE UNCHANGED feedVars
  BY <1>2 DEF feedVars, FeedInv, FeedTypeOK, WireInv, BookInv
<1>3. ASSUME NEW s \in Symbols, BookChanges(s) PROVE FeedInv'
  <2> DEFINE b == [book[s] EXCEPT !.lag = IF book[s].held /\ book[s].lag = -1 THEN 0
                                          ELSE book[s].lag]
  <2>1. /\ b \in Kept /\ b.held = book[s].held /\ b.here = book[s].here
        /\ b.skipped = book[s].skipped
        /\ b.lag = book[s].lag \/ b.lag = 0
    BY <1>1 DEF Kept
  <2>2. book' = [book EXCEPT ![s] = b]
    BY <1>3 DEF BookChanges
  <2> HIDE DEF b
  <2>3. /\ book' \in [Symbols -> Kept] /\ book'[s] = b
        /\ \A u \in Symbols : u # s => book'[u] = book[u]
    BY <1>1, <2>1, <2>2
  <2>4. UNCHANGED <<conn, wait, backoff, quiet>>
    BY <1>3 DEF BookChanges
  <2>5. \A u \in Symbols :
          /\ book'[u].here = book[u].here
          /\ Chained(book'[u]) => Chained(book[u])
          /\ book'[u].lag = book[u].lag \/ (u = s /\ book'[u].lag = 0)
    BY <2>1, <2>3 DEF Chained
  <2>6. \A u \in Symbols : Chained(book'[u]) =>
          book'[u].lag <= NetDelay + quiet \/ quiet = MaxAged
    BY <1>1, <2>5 DEF BookInv
  <2>7. CASE conn # "live"
    <3>1. wire' = wire
      BY <1>3, <2>7 DEF BookChanges
    <3> QED
      BY <1>1, <2>3, <2>4, <2>5, <2>6, <2>7, <3>1
      DEF FeedInv, FeedTypeOK, Kept, WireInv, BookInv
  <2>8. CASE conn = "live"
    <3>1. PICK k \in {"book", "junk"} : wire' = Append(wire, [sym |-> s, kind |-> k, age |-> 0])
      BY <1>3, <2>8 DEF BookChanges
    <3> DEFINE f == [sym |-> s, kind |-> k, age |-> 0]
    <3>2. f \in Frame /\ f.sym = s /\ f.age = 0
      BY DEF Frame
    <3> HIDE DEF f
    <3>3. /\ wire' \in Seq(Frame) /\ Len(wire') = Len(wire) + 1 /\ wire'[Len(wire) + 1] = f
          /\ \A i \in 1 .. Len(wire) : wire'[i] = wire[i]
      BY <1>1, <3>1, <3>2 DEF f
    <3>4. FeedTypeOK'
      BY <1>1, <2>3, <2>4, <3>3 DEF FeedTypeOK, Kept, Frame
    <3>5. WireInv'
      <4>1. \A i \in 1 .. Len(wire') : i \in 1 .. Len(wire) \/ wire'[i] = f
        BY <1>1, <3>3
      <4>2. \A i \in 1 .. Len(wire') : wire'[i].age \in 0 .. NetDelay
        BY <1>1, <3>2, <3>3, <4>1 DEF WireInv
      <4>3. ASSUME NEW i \in 1 .. Len(wire'), NEW j \in 1 .. Len(wire'), i <= j
            PROVE  wire'[j].age <= wire'[i].age
        <5>1. CASE j \in 1 .. Len(wire)
          <6>1. i \in 1 .. Len(wire)
            BY <1>1, <4>3, <5>1
          <6> QED
            BY <1>1, <3>3, <4>3, <5>1, <6>1 DEF WireInv
        <5>2. CASE wire'[j] = f
          BY <3>2, <4>2, <5>2
        <5> QED
          BY <4>1, <5>1, <5>2
      <4> QED
        BY <2>4, <2>8, <4>2, <4>3 DEF WireInv
    <3>6. ASSUME NEW u \in Symbols, Chained(book'[u]), book'[u].lag >= 0
          PROVE  \E i \in 1 .. Len(wire') : wire'[i].sym = u /\ wire'[i].age >= book'[u].lag
      <4>1. CASE book'[u].lag = book[u].lag
        <5>1. PICK i \in 1 .. Len(wire) : wire[i].sym = u /\ wire[i].age >= book[u].lag
          BY <1>1, <2>5, <2>8, <3>6, <4>1 DEF BookInv
        <5> QED
          BY <1>1, <3>3, <4>1, <5>1
      <4>2. CASE u = s /\ book'[u].lag = 0
        BY <1>1, <3>2, <3>3, <4>2
      <4> QED
        BY <2>5, <4>1, <4>2
    <3> QED
      BY <1>1, <2>4, <2>5, <2>6, <2>8, <3>4, <3>5, <3>6 DEF FeedInv, BookInv
  <2> QED
    BY <2>7, <2>8
<1>4. CASE Stall
  <2>1. wire' = <<>> /\ wire' \in Seq(Frame) /\ Len(wire') = 0
    <3>1. <<>> \in Seq(Frame) /\ Len(<<>>) = 0
      OBVIOUS
    <3> QED
      BY <1>4, <3>1 DEF Stall
  <2>2. FeedTypeOK'
    BY <1>1, <1>4, <2>1 DEF Stall, FeedTypeOK, Frame
  <2> QED
    BY <1>1, <1>4, <2>1, <2>2 DEF Stall, FeedInv, WireInv, BookInv
<1>5. CASE Second
  <2>1. /\ UNCHANGED <<conn, backoff>> /\ quiet' = Older(quiet)
        /\ wait' = IF wait = 0 THEN 0 ELSE wait - 1
    BY <1>5 DEF Second
  <2>2. ASSUME NEW i \in 1 .. Len(wire)
        PROVE  LET g == [wire[i] EXCEPT !.age = Older(wire[i].age)]
               IN  g \in Frame /\ g.sym = wire[i].sym /\ g.age = Older(wire[i].age)
    <3>1. Older(wire[i].age) \in 0 .. MaxAged
      BY <1>1, OlderFacts
    <3> QED
      BY <1>1, <3>1 DEF Frame
  <2>3. wire' = [i \in 1 .. Len(wire) |-> [wire[i] EXCEPT !.age = Older(wire[i].age)]]
    BY <1>1, <1>5 DEF Second
  <2>4. /\ wire' \in Seq(Frame) /\ Len(wire') = Len(wire)
        /\ \A i \in 1 .. Len(wire) : wire'[i].sym = wire[i].sym /\ wire'[i].age = Older(wire[i].age)
    <3> DEFINE G(i) == [wire[i] EXCEPT !.age = Older(wire[i].age)]
    <3>1. \A i \in 1 .. Len(wire) :
             G(i) \in Frame /\ G(i).sym = wire[i].sym /\ G(i).age = Older(wire[i].age)
      BY <2>2
    <3>2. wire' = [i \in 1 .. Len(wire) |-> G(i)]
      BY <2>3
    <3> HIDE DEF G
    <3>3. wire' \in [1 .. Len(wire) -> Frame]
      BY <3>1, <3>2
    <3>4. wire' \in Seq(Frame) /\ Len(wire') = Len(wire)
      BY <1>1, <3>3
    <3> QED
      BY <3>1, <3>2, <3>4
  <2>5. ASSUME NEW s \in Symbols
        PROVE  LET c == [book[s] EXCEPT !.lag = IF book[s].lag = -1 THEN -1 ELSE Older(book[s].lag)]
               IN  /\ c \in Kept /\ Chained(c) = Chained(book[s]) /\ c.here = book[s].here
                   /\ c.lag = IF book[s].lag = -1 THEN -1 ELSE Older(book[s].lag)
    <3>1. book[s].lag = -1 \/ Older(book[s].lag) \in 0 .. MaxAged
      BY <1>1, OlderFacts
    <3> QED
      BY <1>1, <3>1 DEF Kept, Chained
  <2>6. book' = [s \in Symbols |->
                   [book[s] EXCEPT !.lag = IF book[s].lag = -1 THEN -1 ELSE Older(book[s].lag)]]
    BY <1>5 DEF Second
  <2>7. /\ book' \in [Symbols -> Kept]
        /\ \A s \in Symbols :
              /\ Chained(book'[s]) = Chained(book[s]) /\ book'[s].here = book[s].here
              /\ book'[s].lag = IF book[s].lag = -1 THEN -1 ELSE Older(book[s].lag)
    BY <2>5, <2>6
  <2>8. quiet' \in 0 .. MaxAged /\ (quiet' = quiet + 1 \/ quiet' = MaxAged)
    BY <1>1, <2>1, OlderFacts
  <2>9. FeedTypeOK'
    <3>1. wait' \in 0 .. MaxBackoff
      BY <1>1, <2>1 DEF FeedTypeOK
    <3> QED
      BY <1>1, <2>1, <2>4, <2>7, <2>8, <3>1 DEF FeedTypeOK, Frame, Kept
  <2>10. WireInv'
    <3>1. \A i, j \in 1 .. Len(wire) : i <= j => wire'[j].age <= wire'[i].age
      BY <1>1, <2>4, OlderFacts DEF WireInv
    <3>2. ASSUME NEW i \in 1 .. Len(wire) PROVE wire'[i].age <= NetDelay
      <4>1. wire # <<>> /\ Head(wire) = wire[1] /\ 1 \in 1 .. Len(wire) /\ 1 <= i
        BY <1>1
      <4>2. wire[1].age < NetDelay
        BY <1>1, <1>5, <4>1 DEF Second, WireInv
      <4>3. wire'[1].age <= NetDelay /\ wire'[i].age <= wire'[1].age
        <5>1. wire[1].age \in 0 .. MaxAged /\ wire'[1].age = Older(wire[1].age)
          BY <1>1, <2>4, <4>1
        <5>2. Older(wire[1].age) <= wire[1].age + 1 /\ Older(wire[1].age) \in 0 .. MaxAged
          BY <5>1, OlderFacts
        <5>3. wire'[i].age <= wire'[1].age
          BY <3>1, <4>1
        <5> QED
          BY <4>2, <5>1, <5>2, <5>3
      <4>4. ASSUME NEW k \in 1 .. Len(wire) PROVE wire'[k].age \in Int
        <5>1. wire[k].age \in 0 .. MaxAged /\ wire'[k].age = Older(wire[k].age)
          BY <1>1, <2>4
        <5> QED
          BY <5>1, OlderFacts
      <4>5. wire'[i].age \in Int /\ wire'[1].age \in Int
        BY <4>1, <4>4
      <4> QED
        BY <4>3, <4>5
    <3>3. wire' # <<>> => wire # <<>>
      BY <1>1, <2>4
    <3> QED
      BY <1>1, <2>1, <2>4, <3>1, <3>2, <3>3 DEF WireInv
  <2>11. ASSUME NEW s \in Symbols, Chained(book'[s]), book'[s].lag >= 0, conn = "live"
         PROVE  \E i \in 1 .. Len(wire') : wire'[i].sym = s /\ wire'[i].age >= book'[s].lag
    <3>1. Chained(book[s]) /\ book[s].lag >= 0 /\ book'[s].lag = Older(book[s].lag)
      BY <1>1, <2>7, <2>11
    <3>2. PICK i \in 1 .. Len(wire) : wire[i].sym = s /\ wire[i].age >= book[s].lag
      BY <1>1, <2>11, <3>1 DEF BookInv
    <3>3. Older(wire[i].age) >= Older(book[s].lag)
      <4>1. wire[i].age \in 0 .. MaxAged /\ book[s].lag \in 0 .. MaxAged
        <5>1. wire[i].age \in 0 .. MaxAged
          BY <1>1, <3>2
        <5>2. book[s].lag \in -1 .. MaxAged
          BY <1>1
        <5> QED
          BY <3>1, <5>1, <5>2
      <4>2. Older(book[s].lag) <= Older(wire[i].age)
        BY <3>2, <4>1, OlderFacts
      <4>3. Older(book[s].lag) \in Int
        BY <4>1 DEF Older
      <4>4. Older(wire[i].age) \in Int
        BY <4>1 DEF Older
      <4> QED
        BY <4>2, <4>3, <4>4
    <3> QED
      BY <2>4, <3>1, <3>2, <3>3
  <2>12. ASSUME NEW s \in Symbols, Chained(book'[s])
         PROVE  book'[s].lag <= NetDelay + quiet' \/ quiet' = MaxAged
    <3>1. book[s].lag <= NetDelay + quiet \/ quiet = MaxAged
      BY <1>1, <2>7, <2>12 DEF BookInv
    <3>2. book'[s].lag \in Int /\ book'[s].lag <= book[s].lag + 1
      <4>1. CASE book[s].lag = -1
        <5>1. book'[s].lag = -1
          BY <2>7, <4>1
        <5> QED
          BY <4>1, <5>1
      <4>2. CASE book[s].lag # -1
        <5>1. book[s].lag \in 0 .. MaxAged /\ book'[s].lag = Older(book[s].lag)
          <6>1. book[s].lag \in -1 .. MaxAged
            BY <1>1
          <6>2. book'[s].lag = Older(book[s].lag)
            BY <2>7, <4>2
          <6> QED
            BY <4>2, <6>1, <6>2
        <5> QED
          BY <5>1, OlderFacts
      <4> QED
        BY <4>1, <4>2
    <3>3. quiet = MaxAged => quiet' = MaxAged
      BY <1>1, <2>8
    <3> QED
      BY <1>1, <2>8, <3>1, <3>2, <3>3
  <2>13. conn = "down" => \A s \in Symbols : ~book'[s].here
    BY <1>1, <2>7 DEF BookInv
  <2> QED
    BY <2>1, <2>9, <2>10, <2>11, <2>12, <2>13 DEF FeedInv, BookInv
<1>6. CASE Drop
  <2>1. /\ conn' = "down" /\ wire' = <<>> /\ BackOff /\ quiet' = quiet
        /\ book' = [s \in Symbols |-> [book[s] EXCEPT !.here = FALSE]]
    BY <1>6 DEF Drop
  <2>2. wire' \in Seq(Frame) /\ Len(wire') = 0
    <3>1. <<>> \in Seq(Frame) /\ Len(<<>>) = 0
      OBVIOUS
    <3> QED
      BY <2>1, <3>1
  <2>3. ASSUME NEW s \in Symbols
        PROVE  [book[s] EXCEPT !.here = FALSE] \in Kept /\ ~[book[s] EXCEPT !.here = FALSE].here
    BY <1>1 DEF Kept
  <2>4. book' \in [Symbols -> Kept] /\ \A s \in Symbols : ~book'[s].here
    BY <2>1, <2>3
  <2>5. wait' \in 0 .. MaxBackoff /\ backoff' \in FirstBackoff .. MaxBackoff
    BY <1>1, <2>1 DEF BackOff, FeedTypeOK
  <2>6. FeedTypeOK'
    BY <1>1, <2>1, <2>2, <2>4, <2>5 DEF FeedTypeOK, Frame, Kept
  <2>7. WireInv'
    BY <2>1, <2>2 DEF WireInv
  <2>8. BookInv'
    BY <2>1, <2>4 DEF BookInv, Chained
  <2> QED
    BY <2>6, <2>7, <2>8 DEF FeedInv
<1>7. CASE ConnectFails
  <2>1. wait' \in 0 .. MaxBackoff /\ backoff' \in FirstBackoff .. MaxBackoff
    BY <1>1, <1>7 DEF ConnectFails, BackOff, FeedTypeOK
  <2> QED
    BY <1>1, <1>7, <2>1 DEF ConnectFails, FeedInv, FeedTypeOK, WireInv, BookInv
<1>8. CASE Reconnect
  <2>1. wire' = <<>> /\ wire' \in Seq(Frame) /\ Len(wire') = 0
    <3>1. <<>> \in Seq(Frame) /\ Len(<<>>) = 0
      OBVIOUS
    <3> QED
      BY <1>8, <3>1 DEF Reconnect
  <2>2. FeedTypeOK'
    BY <1>1, <1>8, <2>1 DEF Reconnect, FeedTypeOK, Frame
  <2> QED
    BY <1>1, <1>8, <2>1, <2>2 DEF Reconnect, FeedInv, WireInv, BookInv, Chained
<1>9. CASE Deliver
  <2> DEFINE f == Head(wire)
  <2>1. /\ conn = "live" /\ wire # <<>> /\ wire' = Tail(wire)
        /\ UNCHANGED <<conn, wait, backoff>>
    BY <1>9 DEF Deliver
  <2>2. /\ Len(wire) >= 1 /\ f = wire[1] /\ f \in Frame /\ f.sym \in Symbols
        /\ wire' \in Seq(Frame) /\ Len(wire') = Len(wire) - 1
        /\ \A i \in 1 .. Len(wire') : i + 1 \in 1 .. Len(wire) /\ wire'[i] = wire[i + 1]
    <3>1. Len(wire) >= 1 /\ f = wire[1]
      BY <1>1, <2>1
    <3>2. f \in Frame /\ f.sym \in Symbols
      BY <1>1, <3>1 DEF Frame
    <3> QED
      BY <1>1, <2>1, <3>1, <3>2
  <2> HIDE DEF f
  <2>3. WireInv'
    BY <1>1, <2>1, <2>2 DEF WireInv
  <2>4. \A u \in Symbols : u # f.sym /\ Chained(book[u]) /\ book[u].lag >= 0 =>
          \E i \in 1 .. Len(wire') : wire'[i].sym = u /\ wire'[i].age >= book[u].lag
    <3> SUFFICES ASSUME NEW u \in Symbols, u # f.sym, Chained(book[u]), book[u].lag >= 0
                 PROVE  \E i \in 1 .. Len(wire') : wire'[i].sym = u /\ wire'[i].age >= book[u].lag
      OBVIOUS
    <3>1. PICK i \in 1 .. Len(wire) : wire[i].sym = u /\ wire[i].age >= book[u].lag
      BY <1>1, <2>1 DEF BookInv
    <3>2. i # 1 /\ i - 1 \in 1 .. Len(wire') /\ wire'[i - 1] = wire[i]
      BY <1>1, <2>2, <3>1
    <3> QED
      BY <3>1, <3>2
  <2>5. CASE f.kind = "junk"
    <3> DEFINE b == [book[f.sym] EXCEPT !.skipped = TRUE]
    <3>1. book' = [book EXCEPT ![f.sym] = b] /\ quiet' = quiet
      BY <1>9, <2>5 DEF Deliver, f
    <3>2. b \in Kept /\ ~Chained(b)
      BY <1>1, <2>2 DEF Kept, Chained
    <3> HIDE DEF b
    <3>3. /\ book' \in [Symbols -> Kept] /\ book'[f.sym] = b
          /\ \A u \in Symbols : u # f.sym => book'[u] = book[u]
      BY <1>1, <2>2, <3>1, <3>2
    <3>4. FeedTypeOK'
      BY <1>1, <2>1, <2>2, <3>1, <3>3 DEF FeedTypeOK, Frame, Kept
    <3> QED
      BY <1>1, <2>1, <2>3, <2>4, <3>1, <3>2, <3>3, <3>4 DEF FeedInv, BookInv
  <2>6. CASE f.kind # "junk"
    <3> DEFINE b == [held |-> TRUE, here |-> TRUE, skipped |-> FALSE, lag |-> LagBehind(f.sym)]
    <3>1. book' = [book EXCEPT ![f.sym] = b] /\ quiet' = 0
      BY <1>9, <2>6 DEF Deliver, f
    <3>2. \/ LagBehind(f.sym) = -1
          \/ \E i \in 1 .. Len(wire') : wire'[i].sym = f.sym /\ LagBehind(f.sym) = wire'[i].age
      <4> DEFINE later == {i \in 2 .. Len(wire) : wire[i].sym = f.sym}
                 first == CHOOSE i \in later : \A j \in later : i <= j
      <4>1. CASE later = {}
        BY <4>1 DEF LagBehind
      <4>2. CASE later # {}
        <5>1. \E i \in later : \A j \in later : i <= j
          <6>1. later \subseteq Nat
            BY <1>1
          <6> HIDE DEF later
          <6> QED
            BY <4>2, <6>1, LeastOf
        <5>2. first \in later
          BY <5>1
        <5>3. LagBehind(f.sym) = wire[first].age
          BY <4>2 DEF LagBehind
        <5> HIDE DEF first
        <5>4. first \in 2 .. Len(wire) /\ wire[first].sym = f.sym
          BY <5>2
        <5>5. first - 1 \in 1 .. Len(wire') /\ wire'[first - 1] = wire[first]
          BY <1>1, <2>2, <5>4
        <5> QED
          BY <5>3, <5>4, <5>5
      <4> QED
        BY <4>1, <4>2
    <3>3. LagBehind(f.sym) \in -1 .. MaxAged /\ LagBehind(f.sym) <= NetDelay
      BY <1>1, <2>2, <2>3, <3>2 DEF WireInv
    <3>4. b \in Kept /\ b.lag = LagBehind(f.sym)
      BY <3>3 DEF Kept
    <3> HIDE DEF b
    <3>5. /\ book' \in [Symbols -> Kept] /\ book'[f.sym] = b
          /\ \A u \in Symbols : u # f.sym => book'[u] = book[u]
      BY <1>1, <2>2, <3>1, <3>4
    <3>6. FeedTypeOK'
      BY <1>1, <2>1, <2>2, <3>1, <3>5 DEF FeedTypeOK, Frame, Kept
    <3>7. ASSUME NEW u \in Symbols, Chained(book'[u]), book'[u].lag >= 0
          PROVE  \E i \in 1 .. Len(wire') : wire'[i].sym = u /\ wire'[i].age >= book'[u].lag
      <4>1. CASE u = f.sym
        <5>1. PICK i \in 1 .. Len(wire') : wire'[i].sym = u /\ LagBehind(u) = wire'[i].age
          BY <3>2, <3>4, <3>5, <3>7, <4>1
        <5>2. wire'[i].age \in Int
          <6>1. wire'[i] \in Frame
            BY <2>2
          <6> QED
            BY <6>1 DEF Frame
        <5> QED
          BY <3>4, <3>5, <4>1, <5>1, <5>2
      <4>2. CASE u # f.sym
        BY <2>4, <3>5, <3>7, <4>2
      <4> QED
        BY <4>1, <4>2
    <3>8. ASSUME NEW u \in Symbols, Chained(book'[u]) PROVE book'[u].lag <= NetDelay + 0
      <4>1. CASE book'[u].lag < 0
        BY <4>1, <3>5, <1>1 DEF Kept
      <4>2. CASE book'[u].lag >= 0
        <5>1. PICK i \in 1 .. Len(wire') : wire'[i].age >= book'[u].lag
          BY <3>7, <3>8, <4>2
        <5>2. wire'[i].age <= NetDelay /\ wire'[i].age \in Int
          <6>1. wire'[i] \in Frame
            BY <2>2, <5>1
          <6> QED
            BY <2>3, <6>1 DEF Frame, WireInv
        <5>3. book'[u].lag \in Int
          BY <3>5 DEF Kept
        <5> QED
          BY <5>1, <5>2, <5>3
      <4>3. book'[u].lag \in Int
        BY <3>5 DEF Kept
      <4> QED
        BY <4>1, <4>2, <4>3
    <3> QED
      BY <2>1, <2>3, <3>1, <3>6, <3>7, <3>8 DEF FeedInv, BookInv
  <2> QED
    BY <2>5, <2>6
<1> QED
  BY <1>2, <1>3, <1>4, <1>5, <1>6, <1>7, <1>8, <1>9 DEF FeedNext

\* The feed keeps its types; its backoff never leaves its bounds.
THEOREM FeedTypeCorrect == FeedSpec => []FeedTypeOK
<1>1. FeedInv => FeedTypeOK
  BY DEF FeedInv
<1> QED
  BY <1>1, FeedStarts, FeedStep, PTL DEF FeedSpec

\* A book of this connection with no frame dropped is behind by the silence and a
\* delay at most.
LEMMA CurrentBooks == FeedInv => FeedCurrent
<1> SUFFICES ASSUME FeedInv, NEW s \in Symbols, Usable(s), book[s].here, ~book[s].skipped
             PROVE  book[s].lag <= MaxBookAge + NetDelay
  BY DEF FeedCurrent
<1>1. Chained(book[s]) /\ quiet <= MaxBookAge
  BY DEF Usable, Chained
<1>2. book[s].lag \in Int /\ quiet \in Nat
  BY FeedTypes DEF FeedInv
<1> QED
  BY <1>1, <1>2, FeedAssumption DEF FeedInv, BookInv

\* One young frame vouches for every book of its connection: the delivery of any
\* symbol's frame shows that no earlier frame of any other is still under way.
THEOREM BooksAreCurrent == FeedSpec => []FeedCurrent
  BY CurrentBooks, FeedStarts, FeedStep, PTL DEF FeedSpec

-----------------------------------------------------------------------------
(* Detector *)

\* How old the oldest price of a pair may be when its evaluation begins.
Slack(p) == BookAge + (IF p \in Synthetic THEN IntermediateFor - 1 ELSE 0)

\* An opportunity was young when it was found, and its deadline counts from then.
InTime(o) ==
    /\ -BookAge <= o.since /\ o.since <= dnow
    /\ o.until - o.since <= Slack(o.pair) + LegBy + Lifetime

ClockInv ==
    /\ begun <= dnow
    /\ looking # {} => ~over /\ dnow <= begun + LegBy
    /\ \A p \in looking : begun - Slack(p) <= since[p] /\ since[p] <= begun
    /\ rate # Nothing =>
          rate.at <= dnow /\ rate.at - BookAge <= rate.since /\ rate.since <= rate.at
    /\ \A p \in Pairs : found[p] # Nothing => InTime(found[p])
    /\ \A i \in 1 .. Len(offered) : InTime(offered[i])
    /\ BasisBounded

\* DecisionSound of one pair: its evaluations l, its rows r, what was found f.
DecidedSound(l, r, f) ==
    LET taken == {i \in DOMAIN r : r[i].taken}
        good == {d \in DOMAIN Directions : l[d] # Failed /\ l[d].bps \in Floor .. Ceiling}
    IN  /\ \A d \in DOMAIN Directions : l # Unasked => \E i \in DOMAIN r : r[i].dir = d
        /\ r # <<>>
        /\ good = {} <=> f = Nothing
        /\ good # {} =>
              /\ f.dir \in good /\ f.quote = l[f.dir]
              /\ \A d \in good : l[d].net <= f.quote.net
              /\ {r[i].dir : i \in taken} = {f.dir}
        /\ good = {} => taken = {}

DecideInv ==
    /\ over => \A p \in Pairs : found[p] = Nothing
    /\ \A p \in Pairs \ looking : ~over => DecidedSound(leg[p], rows[p], found[p])

DetectorInv == DetectorTypeOK /\ ClockInv /\ DecideInv

DecisionRow == [dir : 0 .. 2, taken : BOOLEAN]
Legs == [{1, 2} -> Quotes \cup {Failed, Pending}]

\* There are exactly two directions.
LEMMA TwoDirections == DOMAIN Directions = {1, 2} /\ DOMAIN Directions = 1 .. 2
  BY DEF Directions

\* Of the directions within the limits the best is one worth most; 0 if there is none.
LEMMA BestIsBest ==
    ASSUME NEW legs \in Legs
    PROVE  LET viable == {d \in {1, 2} : Viable(legs[d])}
           IN  \/ viable = {} /\ Best(legs) = 0
               \/ /\ Best(legs) \in viable
                  /\ \A e \in viable : legs[e].net <= legs[Best(legs)].net
<1> DEFINE viable == {d \in {1, 2} : Viable(legs[d])}
           Top(d) == \A e \in viable :
                        legs[d].net > legs[e].net \/ (legs[d].net = legs[e].net /\ d <= e)
<1>1. Best(legs) = IF viable = {} THEN 0 ELSE CHOOSE d \in viable : Top(d)
  BY TwoDirections DEF Best
<1>2. \A d \in viable : legs[d] \in Quotes /\ legs[d].net \in Int
  BY DetectorAssumption DEF Viable, Legs
<1>3. CASE viable = {}
  BY <1>1, <1>3
<1>4. CASE viable # {}
  <2>1. \E d \in viable : Top(d)
    <3>1. CASE viable = {1}
      BY <1>2, <3>1
    <3>2. CASE viable = {2}
      BY <1>2, <3>2
    <3>3. CASE 1 \in viable /\ 2 \in viable /\ legs[1].net >= legs[2].net
      <4>1. Top(1)
        BY <1>2, <3>3
      <4> QED
        BY <3>3, <4>1
    <3>4. CASE 1 \in viable /\ 2 \in viable /\ legs[1].net < legs[2].net
      <4>1. Top(2)
        BY <1>2, <3>4
      <4> QED
        BY <3>4, <4>1
    <3> QED
      BY <1>2, <1>4, <3>1, <3>2, <3>3, <3>4
  <2>2. Best(legs) \in viable /\ Top(Best(legs))
    BY <1>1, <1>4, <2>1
  <2> QED
    BY <1>2, <2>2
<1> QED
  BY <1>3, <1>4

\* Viable is the test of DecisionSound.
LEMMA ViableIsWithin ==
    ASSUME NEW q \in Quotes \cup {Failed}
    PROVE  Viable(q) <=> q # Failed /\ q.bps \in Floor .. Ceiling
<1>1. CASE q = Failed
  BY <1>1 DEF Viable
<1>2. CASE q \in Quotes
  <2>1. q.bps \in Int /\ q # Failed /\ q # Pending
    BY <1>2, DetectorAssumption
  <2> QED
    BY <2>1, DetectorAssumption DEF Viable
<1> QED
  BY <1>1, <1>2

\* The decision of a pair whose directions have both answered.
LEMMA DecidedWell ==
    ASSUME NEW legs \in Legs, \A d \in {1, 2} : legs[d] # Pending,
           NEW r, r = [e \in DOMAIN Directions |-> [dir |-> e, taken |-> e = Best(legs)]],
           NEW f, Best(legs) = 0 => f = Nothing,
           Best(legs) # 0 =>
               f # Nothing /\ f.dir = Best(legs) /\ f.quote = legs[Best(legs)]
    PROVE  DecidedSound(legs, r, f)
<1> DEFINE good == {d \in DOMAIN Directions : legs[d] # Failed /\ legs[d].bps \in Floor .. Ceiling}
           taken == {i \in DOMAIN r : r[i].taken}
<1>1. good = {d \in {1, 2} : Viable(legs[d])}
  BY TwoDirections, ViableIsWithin DEF Legs
<1>2. \/ good = {} /\ Best(legs) = 0
      \/ /\ Best(legs) \in good
         /\ \A e \in good : legs[e].net <= legs[Best(legs)].net
  BY <1>1, BestIsBest
<1>3. /\ DOMAIN r = {1, 2} /\ \A i \in {1, 2} : r[i].dir = i /\ (r[i].taken <=> i = Best(legs))
      /\ r # <<>>
  <2>1. DOMAIN r = {1, 2}
    BY TwoDirections
  <2>2. \A i \in {1, 2} : r[i] = [dir |-> i, taken |-> i = Best(legs)]
    BY TwoDirections
  <2>3. ASSUME NEW i \in {1, 2} PROVE r[i].dir = i /\ (r[i].taken <=> i = Best(legs))
    <3>1. r[i].dir = i
      BY <2>2
    <3>2. r[i].taken = (i = Best(legs))
      BY ONLY <2>2
    <3> QED
      BY ONLY <3>1, <3>2, Zenon
  <2>4. r # <<>>
    BY <2>1
  <2> QED
    BY <2>1, <2>3, <2>4
<1>4. good \subseteq {1, 2}
  BY TwoDirections
<1>5. DecidedSound(legs, r, f) <=>
        /\ \A d \in DOMAIN Directions : legs # Unasked => \E i \in DOMAIN r : r[i].dir = d
        /\ r # <<>>
        /\ good = {} <=> f = Nothing
        /\ good # {} =>
              /\ f.dir \in good /\ f.quote = legs[f.dir]
              /\ \A d \in good : legs[d].net <= f.quote.net
              /\ {r[i].dir : i \in taken} = {f.dir}
        /\ good = {} => taken = {}
  BY DEF DecidedSound
<1> HIDE DEF good, taken
<1>6. \A d \in DOMAIN Directions : \E i \in DOMAIN r : r[i].dir = d
  BY <1>3, TwoDirections
<1>7. CASE good = {}
  <2>1. taken = {}
    BY <1>2, <1>3, <1>4, <1>7 DEF taken
  <2>2. f = Nothing
    BY <1>2, <1>4, <1>7
  <2> QED
    BY <1>5, <1>3, <1>7, <1>6, <2>1, <2>2
<1>8. CASE good # {}
  <2>1. Best(legs) \in good /\ Best(legs) \in {1, 2}
    BY <1>2, <1>4, <1>8
  <2>2. f # Nothing /\ f.dir = Best(legs) /\ f.quote = legs[Best(legs)]
    BY <2>1
  <2>3. {r[i].dir : i \in taken} = {f.dir}
    <3>1. \A i \in {1, 2} : i \in taken <=> i = Best(legs)
      BY <1>3 DEF taken
    <3>2. taken \subseteq {1, 2}
      BY <1>3 DEF taken
    <3>3. taken = {Best(legs)} /\ r[Best(legs)].dir = Best(legs)
      BY <1>3, <2>1, <3>1, <3>2
    <3> QED
      BY <2>2, <3>3
  <2>4. \A d \in good : legs[d].net <= f.quote.net
    BY <1>2, <2>1, <2>2, <1>8
  <2> QED
    BY <1>5, <1>3, <1>8, <1>6, <2>1, <2>2, <2>3, <2>4
<1> QED
  BY <1>7, <1>8

\* A pair that was not asked is sound with its one row.
LEMMA UnaskedWell ==
    DecidedSound(Unasked, <<[dir |-> 0, taken |-> FALSE]>>, Nothing)
<1> DEFINE r == <<[dir |-> 0, taken |-> FALSE]>>
<1>1. DOMAIN r = {1} /\ r[1].taken = FALSE /\ r # <<>>
  OBVIOUS
<1>2. \A d \in DOMAIN Directions : Unasked[d] = Failed
  BY DEF Unasked
<1> HIDE DEF r
<1>3. DecidedSound(Unasked, r, Nothing)
  BY <1>1, <1>2 DEF DecidedSound
<1> QED
  BY <1>3 DEF r

\* The typing of DetectorTypeOK in the terms used here.
LEMMA DetectorTypes ==
    DetectorTypeOK <=>
        /\ dnow \in 0 .. LastLook /\ begun \in 0 .. LastLook /\ over \in BOOLEAN
        /\ looking \subseteq Pairs
        /\ since \in [Pairs -> -BookAge .. LastLook]
        /\ leg \in [Pairs -> Legs] /\ rows \in [Pairs -> Seq(DecisionRow)]
        /\ found \in [Pairs -> Opportunity \cup {Nothing}]
        /\ rate \in [at : 0 .. LastLook, since : -BookAge .. LastLook] \cup {Nothing}
        /\ offered \in Seq(Opportunity)
        /\ trade \in [pair : Pairs, age : 0 .. LastLook + BookAge] \cup {Nothing}
  BY TwoDirections DEF DetectorTypeOK, Legs, DecisionRow

\* A direction nobody has asked about yet is a leg.
LEMMA UnaskedTyped == Unasked \in Legs
  BY TwoDirections DEF Unasked, Legs

\* No pair is allowed less than the age of a book.
LEMMA SlackFacts == \A p \in Pairs : Slack(p) \in Nat /\ Slack(p) >= BookAge
  BY DetectorAssumption DEF Slack

\* A detector that has not looked yet satisfies the invariant.
LEMMA DetectorStarts == DetectorInit => DetectorInv
<1> SUFFICES ASSUME DetectorInit PROVE DetectorInv
  OBVIOUS
<1> USE DetectorAssumption
<1>1. DetectorTypeOK
  BY DetectorTypes, UnaskedTyped DEF DetectorInit
<1>2. ClockInv
  BY DEF DetectorInit, ClockInv, BasisBounded
<1>3. DecideInv
  BY DEF DetectorInit, DecideInv
<1> QED
  BY <1>1, <1>2, <1>3 DEF DetectorInv

\* Rate gives a rate read now, the one there was, or none.
LEMMA RateFacts ==
    ASSUME DetectorInv, NEW age \in -1 .. BookAge
    PROVE  /\ Rate(age) \in [at : 0 .. LastLook, since : -BookAge .. LastLook] \cup {Nothing}
           /\ Rate(age) # Nothing =>
                 /\ Rate(age).at <= dnow /\ Rate(age).at - BookAge <= Rate(age).since
                 /\ Rate(age).since <= Rate(age).at
<1> USE DetectorAssumption
<1>1. dnow \in 0 .. LastLook
      /\ rate \in [at : 0 .. LastLook, since : -BookAge .. LastLook] \cup {Nothing}
  BY DetectorTypes DEF DetectorInv
<1>2. CASE Rate(age) = rate
  BY <1>1, <1>2 DEF DetectorInv, ClockInv
<1>3. CASE Rate(age) # rate
  <2>1. Rate(age) = [at |-> dnow, since |-> dnow - age] /\ age >= 0
    BY <1>3 DEF Rate
  <2> QED
    BY <1>1, <2>1
<1> QED
  BY <1>2, <1>3

\* detect captures books and a price that are within their ages.
LEMMA DetectKeeps == ASSUME DetectorInv, Detect PROVE DetectorInv'
<1> USE DetectorAssumption
<1>1. /\ dnow \in 0 .. LastLook /\ looking \subseteq Pairs
      /\ found \in [Pairs -> Opportunity \cup {Nothing}]
      /\ rate \in [at : 0 .. LastLook, since : -BookAge .. LastLook] \cup {Nothing}
      /\ offered \in Seq(Opportunity) /\ ClockInv /\ DecideInv
  BY DetectorTypes DEF DetectorInv
<1>0. PICK age \in [Pairs \ Denied -> -1 .. BookAge], inter \in -1 .. BookAge :
        DetectWith(age, inter)
  BY DEF Detect
<1>2.   LET r == IF \E p \in Synthetic \ Denied : age[p] >= 0 THEN Rate(inter) ELSE rate
            asked == {p \in Pairs \ Denied :
                        age[p] >= 0 /\ (p \in Synthetic => RateUsable(r))}
        IN  /\ rate' = r
            /\ looking' = asked
            /\ since' = [p \in Pairs |->
                  IF p \notin asked THEN 0
                  ELSE IF p \in Synthetic /\ r.since < dnow - age[p] THEN r.since
                  ELSE dnow - age[p]]
            /\ leg' = [p \in Pairs |->
                  IF p \in asked THEN [d \in DOMAIN Directions |-> Pending] ELSE Unasked]
            /\ rows' = [p \in Pairs |->
                  IF p \in asked THEN <<>> ELSE <<[dir |-> 0, taken |-> FALSE]>>]
  BY <1>0 DEF DetectWith
<1> DEFINE r == IF \E p \in Synthetic \ Denied : age[p] >= 0 THEN Rate(inter) ELSE rate
           asked == {p \in Pairs \ Denied : age[p] >= 0 /\ (p \in Synthetic => RateUsable(r))}
<1>3. /\ over /\ over' = FALSE /\ begun' = dnow /\ dnow' = dnow /\ trade' = Nothing
      /\ found' = found /\ offered' = offered /\ offered = <<>>
  BY <1>0 DEF DetectWith
<1>4. /\ r \in [at : 0 .. LastLook, since : -BookAge .. LastLook] \cup {Nothing}
      /\ r # Nothing => r.at <= dnow /\ r.at - BookAge <= r.since /\ r.since <= r.at
  BY <1>1, RateFacts DEF ClockInv
<1>5. rate' = r /\ looking' = asked
  BY <1>2
<1> HIDE DEF r
<1>6. ASSUME NEW p \in asked
      PROVE  /\ p \in Pairs /\ age[p] \in 0 .. BookAge
             /\ p \in Synthetic => r # Nothing /\ dnow - r.at < IntermediateFor
  BY DEF RateUsable
<1>7. \A p \in Pairs : since'[p] =
        IF p \notin asked THEN 0
        ELSE IF p \in Synthetic /\ r.since < dnow - age[p] THEN r.since ELSE dnow - age[p]
  BY <1>2 DEF r
<1>8. \A p \in Pairs : p \notin asked =>
        leg'[p] = Unasked /\ rows'[p] = <<[dir |-> 0, taken |-> FALSE]>>
  BY <1>2 DEF r
<1>9. leg' \in [Pairs -> Legs]
  <2>1. [d \in DOMAIN Directions |-> Pending] \in Legs
    BY TwoDirections DEF Legs
  <2> QED
    BY <1>2, <2>1, UnaskedTyped DEF r
<1>10. rows' \in [Pairs -> Seq(DecisionRow)]
  <2>1. <<[dir |-> 0, taken |-> FALSE]>> \in Seq(DecisionRow) /\ <<>> \in Seq(DecisionRow)
    BY DEF DecisionRow
  <2> QED
    BY <1>2, <2>1 DEF r
<1>11. since' \in [Pairs -> Int]
       /\ \A p \in asked : dnow - Slack(p) <= since'[p] /\ since'[p] <= dnow
  <2>1. ASSUME NEW p \in asked
        PROVE  since'[p] \in Int /\ dnow - Slack(p) <= since'[p] /\ since'[p] <= dnow
    <3>1. CASE p \in Synthetic /\ r.since < dnow - age[p]
      <4>1. since'[p] = r.since
        BY <1>6, <1>7, <3>1
      <4>2. r \in [at : 0 .. LastLook, since : -BookAge .. LastLook]
            /\ dnow - r.at < IntermediateFor
            /\ r.at <= dnow /\ r.at - BookAge <= r.since /\ r.since <= r.at
        BY <1>4, <1>6, <3>1
      <4>3. r.at \in Int /\ r.since \in Int
        BY <4>2
      <4> QED
        BY <1>1, <3>1, <4>1, <4>2, <4>3 DEF Slack
    <3>2. CASE ~(p \in Synthetic /\ r.since < dnow - age[p])
      <4>1. since'[p] = dnow - age[p]
        BY <1>6, <1>7, <3>2
      <4>2. Slack(p) \in Nat /\ Slack(p) >= BookAge
        BY <1>6, SlackFacts
      <4> QED
        BY <1>1, <1>6, <4>1, <4>2
    <3> QED
      BY <3>1, <3>2
  <2>2. DOMAIN since' = Pairs /\ since' = [p \in Pairs |-> since'[p]]
    BY <1>2
  <2>3. \A p \in Pairs : since'[p] \in Int
    BY <1>7, <2>1
  <2> QED
    BY <2>1, <2>2, <2>3
<1>12. \A p \in Pairs : since'[p] \in -BookAge .. LastLook
  <2> SUFFICES ASSUME NEW p \in Pairs PROVE since'[p] \in -BookAge .. LastLook
    OBVIOUS
  <2>1. CASE p \notin asked
    BY <1>7, <2>1
  <2>2. CASE p \in asked /\ p \in Synthetic /\ r.since < dnow - age[p]
    <3>1. since'[p] = r.since /\ r \in [at : 0 .. LastLook, since : -BookAge .. LastLook]
      BY <1>4, <1>6, <1>7, <2>2
    <3> QED
      BY <3>1
  <2>3. CASE p \in asked /\ ~(p \in Synthetic /\ r.since < dnow - age[p])
    <3>1. since'[p] = dnow - age[p]
      BY <1>7, <2>3
    <3> QED
      BY <1>1, <1>6, <2>3, <3>1
  <2> QED
    BY <2>1, <2>2, <2>3
<1>13. DetectorTypeOK'
  <2>1. since' \in [Pairs -> -BookAge .. LastLook] /\ asked \subseteq Pairs
    BY <1>11, <1>12
  <2> HIDE DEF asked
  <2> QED
    BY <1>1, <1>3, <1>4, <1>5, <1>9, <1>10, <2>1, TwoDirections DEF DetectorTypeOK, Legs, DecisionRow
<1>14. ClockInv'
  <2>1. \A p \in Pairs : found'[p] = Nothing
    BY <1>1, <1>3 DEF DecideInv
  <2>2. looking' # {} => ~over' /\ dnow' <= begun' + LegBy
    BY <1>1, <1>3
  <2>3. Len(offered') = 0
    BY <1>3
  <2>4. begun' <= dnow'
    BY <1>1, <1>3
  <2>5. \A p \in looking' : begun' - Slack(p) <= since'[p] /\ since'[p] <= begun'
    BY <1>3, <1>5, <1>11
  <2>6. rate' # Nothing =>
          rate'.at <= dnow' /\ rate'.at - BookAge <= rate'.since /\ rate'.since <= rate'.at
    BY <1>3, <1>4, <1>5
  <2> QED
    BY <1>3, <2>1, <2>2, <2>3, <2>4, <2>5, <2>6 DEF ClockInv, BasisBounded
<1>15. DecideInv'
  <2>1. \A p \in Pairs : found'[p] = Nothing
    BY <1>1, <1>3 DEF DecideInv
  <2>2. ASSUME NEW p \in Pairs \ looking' PROVE DecidedSound(leg'[p], rows'[p], found'[p])
    <3>1. /\ leg'[p] = Unasked /\ rows'[p] = <<[dir |-> 0, taken |-> FALSE]>>
          /\ found'[p] = Nothing
      BY <1>5, <1>8, <2>1, <2>2
    <3> QED
      BY <3>1, UnaskedWell
  <2> QED
    BY <1>3, <2>2 DEF DecideInv
<1> QED
  BY <1>13, <1>14, <1>15 DEF DetectorInv

\* A function on the first n numbers is a sequence.
LEMMA SeqOfLength ==
    ASSUME NEW T, NEW n \in Nat, NEW g \in [1 .. n -> T]
    PROVE  g \in Seq(T)
  OBVIOUS

\* An answer keeps the invariant; the last one decides the pair from the best of both.
LEMMA LegKeeps ==
    ASSUME DetectorInv, NEW p \in Pairs, NEW d \in DOMAIN Directions, LegReturns(p, d)
    PROVE  DetectorInv'
<1> USE DetectorAssumption
<1>1. /\ dnow \in 0 .. LastLook /\ begun \in 0 .. LastLook /\ looking \subseteq Pairs
      /\ since \in [Pairs -> -BookAge .. LastLook]
      /\ leg \in [Pairs -> Legs] /\ rows \in [Pairs -> Seq(DecisionRow)]
      /\ found \in [Pairs -> Opportunity \cup {Nothing}]
      /\ ClockInv /\ DecideInv /\ DetectorTypeOK
  BY DetectorTypes DEF DetectorInv
<1>2. PICK q \in Quotes \cup {Failed} :
        LET legs == [leg[p] EXCEPT ![d] = q]
            best == Best(legs)
        IN  /\ leg' = [leg EXCEPT ![p] = legs]
            /\ IF \E e \in DOMAIN Directions : legs[e] = Pending
               THEN UNCHANGED <<looking, rows, found>>
               ELSE /\ looking' = looking \ {p}
                    /\ rows' = [rows EXCEPT ![p] =
                          [e \in DOMAIN Directions |-> [dir |-> e, taken |-> e = best]]]
                    /\ found' = [found EXCEPT ![p] =
                          IF best = 0 THEN Nothing
                          ELSE [pair |-> p, dir |-> best, quote |-> legs[best],
                                since |-> since[p], until |-> dnow + Lifetime]]
  BY DEF LegReturns
<1> DEFINE legs == [leg[p] EXCEPT ![d] = q]
<1>3. /\ p \in looking /\ leg[p][d] = Pending
      /\ UNCHANGED <<dnow, begun, over, since, rate, offered, trade>>
  BY DEF LegReturns
<1>4. legs \in Legs
  BY <1>1, TwoDirections DEF Legs
<1>5. leg' = [leg EXCEPT ![p] = legs]
  BY <1>2
<1>6. CASE \E e \in DOMAIN Directions : legs[e] = Pending
  <2>1. UNCHANGED <<looking, rows, found>>
    BY <1>2, <1>6
  <2> HIDE DEF legs
  <2>2. leg' \in [Pairs -> Legs] /\ \A u \in Pairs : u # p => leg'[u] = leg[u]
    BY <1>1, <1>4, <1>5
  <2>3. DetectorTypeOK'
    BY <1>1, <1>3, <2>1, <2>2, TwoDirections DEF DetectorTypeOK, Legs
  <2>4. ClockInv'
    BY <1>1, <1>3, <2>1 DEF ClockInv, InTime, BasisBounded
  <2>5. DecideInv'
    BY <1>1, <1>3, <2>1, <2>2 DEF DecideInv
  <2> QED
    BY <2>3, <2>4, <2>5 DEF DetectorInv
<1>7. CASE ~ \E e \in DOMAIN Directions : legs[e] = Pending
  <2> DEFINE best == Best(legs)
             o == [pair |-> p, dir |-> best, quote |-> legs[best],
                   since |-> since[p], until |-> dnow + Lifetime]
             f == IF best = 0 THEN Nothing ELSE o
             R == [e \in DOMAIN Directions |-> [dir |-> e, taken |-> e = best]]
  <2>1. /\ looking' = looking \ {p} /\ rows' = [rows EXCEPT ![p] = R]
        /\ found' = [found EXCEPT ![p] = f]
    BY <1>2, <1>7
  <2>2. \A e \in {1, 2} : legs[e] # Pending
    BY <1>7, TwoDirections
  <2> HIDE DEF legs
  <2>3. best # 0 => best \in {1, 2} /\ legs[best] \in Quotes
    <3>1. \A e \in {1, 2} : Viable(legs[e]) => legs[e] \in Quotes
      BY <1>4 DEF Viable, Legs
    <3> QED
      BY <1>4, <3>1, BestIsBest
  <2>4. best # 0 => o \in Opportunity
    BY <1>1, <2>3, TwoDirections DEF Opportunity
  <2>5. R \in Seq(DecisionRow)
    <3>1. \A e \in 1 .. 2 : [dir |-> e, taken |-> e = best] \in DecisionRow
      BY DEF DecisionRow
    <3>2. R \in [1 .. 2 -> DecisionRow]
      BY <3>1, TwoDirections
    <3> QED
      BY <3>2, SeqOfLength
  <2>6. f \in Opportunity \cup {Nothing}
    BY <2>4
  <2>7. DecidedSound(legs, R, f)
    <3>1. best = 0 => f = Nothing
      OBVIOUS
    <3>2. best # 0 => f # Nothing /\ f.dir = best /\ f.quote = legs[best]
      BY <2>4
    <3> QED
      BY <1>4, <2>2, <3>1, <3>2, DecidedWell
  <2>8. f # Nothing => InTime(f)
    <3> SUFFICES ASSUME f # Nothing PROVE InTime(f)
      OBVIOUS
    <3>1. f.since = since[p] /\ f.until = dnow + Lifetime /\ f.pair = p
      OBVIOUS
    <3>2. /\ begun - Slack(p) <= since[p] /\ -BookAge <= since[p] /\ since[p] <= begun /\ begun <= dnow
          /\ dnow <= begun + LegBy /\ since[p] \in Int /\ Slack(p) \in Nat
      BY <1>1, <1>3, SlackFacts DEF ClockInv
    <3> HIDE DEF f
    <3> QED
      BY <1>1, <3>1, <3>2 DEF InTime
  <2> HIDE DEF f, R
  <2>9. /\ leg' \in [Pairs -> Legs] /\ leg'[p] = legs /\ \A u \in Pairs : u # p => leg'[u] = leg[u]
        /\ rows' \in [Pairs -> Seq(DecisionRow)] /\ rows'[p] = R
        /\ \A u \in Pairs : u # p => rows'[u] = rows[u]
        /\ found' \in [Pairs -> Opportunity \cup {Nothing}] /\ found'[p] = f
        /\ \A u \in Pairs : u # p => found'[u] = found[u]
    BY <1>1, <1>4, <1>5, <2>1, <2>5, <2>6
  <2>10. DetectorTypeOK'
    BY <1>1, <1>3, <2>1, <2>9, TwoDirections DEF DetectorTypeOK, Legs, DecisionRow
  <2>11. ClockInv'
    <3>1. \A u \in Pairs : found'[u] # Nothing => InTime(found'[u])
      BY <1>1, <2>8, <2>9 DEF ClockInv
    <3> QED
      BY <1>1, <1>3, <2>1, <3>1 DEF ClockInv, InTime, BasisBounded
  <2>12. DecideInv'
    <3>1. ~over
      BY <1>1, <1>3 DEF ClockInv
    <3>2. \A u \in Pairs \ looking' : DecidedSound(leg'[u], rows'[u], found'[u])
      BY <1>1, <2>1, <2>7, <2>9, <3>1 DEF DecideInv
    <3> QED
      BY <1>3, <3>1, <3>2 DEF DecideInv
  <2> QED
    BY <2>10, <2>11, <2>12 DEF DetectorInv
<1> QED
  BY <1>6, <1>7

\* What is handed over is what was found.
LEMMA OfferedAreFound ==
    ASSUME DetectorInv, DetectReturns
    PROVE  /\ offered' \in Seq(Opportunity)
           /\ \A i \in 1 .. Len(offered') :
                 \E p \in Pairs : found[p] # Nothing /\ offered'[i] = found[p]
<1> DEFINE T == {found[p] : p \in Pairs}
           S == T \ {Nothing}
<1>1. found \in [Pairs -> Opportunity \cup {Nothing}]
  BY DetectorTypes DEF DetectorInv
<1>2. offered' \in SetToSeqs(S)
  BY DEF DetectReturns
<1>3. S \subseteq Opportunity /\ \A s \in S : \E p \in Pairs : found[p] # Nothing /\ s = found[p]
  BY <1>1
<1>4. Cardinality(S) \in Nat
  <2>1. found \in [Pairs -> T] /\ \A t \in T : \E p \in Pairs : found[p] = t
    BY <1>1
  <2> HIDE DEF T
  <2>2. found \in Surjection(Pairs, T)
    BY <2>1 DEF Surjection
  <2>3. IsFiniteSet(T)
    BY <2>2, FS_Surjection, DetectorAssumption
  <2> QED
    BY <2>3, FS_Difference, FS_CardinalityType
<1> HIDE DEF S
<1>5. offered' \in [1 .. Cardinality(S) -> S]
  BY <1>2 DEF SetToSeqs
<1>6. offered' \in Seq(S) /\ Len(offered') = Cardinality(S)
  BY <1>4, <1>5
<1> QED
  BY <1>3, <1>5, <1>6

\* Handing over adds nothing to an age but the time that has passed.
LEMMA ReturnKeeps == ASSUME DetectorInv, DetectReturns PROVE DetectorInv'
<1> USE DetectorAssumption
<1>1. /\ dnow \in 0 .. LastLook /\ found \in [Pairs -> Opportunity \cup {Nothing}]
      /\ ClockInv /\ DecideInv /\ DetectorTypeOK
  BY DetectorTypes DEF DetectorInv
<1>2. /\ looking = {} /\ looking' = looking /\ over' = TRUE /\ begun' = 0
      /\ UNCHANGED <<dnow, rate, trade>>
      /\ since' = [p \in Pairs |-> 0] /\ leg' = [p \in Pairs |-> Unasked]
      /\ rows' = [p \in Pairs |-> <<>>] /\ found' = [p \in Pairs |-> Nothing]
  BY DEF DetectReturns
<1>3. DetectorTypeOK'
  <2>1. leg' \in [Pairs -> Legs]
    BY <1>2, UnaskedTyped
  <2>2. rows' \in [Pairs -> Seq(DecisionRow)]
    BY <1>2
  <2> QED
    BY <1>1, <1>2, <2>1, <2>2, OfferedAreFound, TwoDirections DEF DetectorTypeOK, Legs, DecisionRow
<1>4. ClockInv'
  <2>1. \A i \in 1 .. Len(offered') : InTime(offered'[i])
    BY <1>1, OfferedAreFound DEF ClockInv
  <2>2. \A p \in Pairs : found'[p] = Nothing
    BY <1>2
  <2> QED
    BY <1>1, <1>2, <2>1, <2>2 DEF ClockInv, InTime, BasisBounded
<1>5. DecideInv'
  BY <1>2 DEF DecideInv
<1> QED
  BY <1>3, <1>4, <1>5 DEF DetectorInv

\* What the deadline lets through is within the ages added up.
LEMMA HandleKeeps == ASSUME DetectorInv, Handle PROVE DetectorInv'
<1> USE DetectorAssumption
<1>1. /\ dnow \in 0 .. LastLook /\ offered \in Seq(Opportunity)
      /\ ClockInv /\ DecideInv /\ DetectorTypeOK
  BY DetectorTypes DEF DetectorInv
<1> DEFINE o == Head(offered)
<1>2. /\ offered # <<>> /\ offered' = Tail(offered)
      /\ UNCHANGED <<dnow, begun, over, looking, since, leg, rows, found, rate>>
  BY DEF Handle
<1>3. /\ o = offered[1] /\ Len(offered) >= 1 /\ o \in Opportunity
      /\ offered' \in Seq(Opportunity)
      /\ \A i \in 1 .. Len(offered') : offered'[i] = offered[i + 1] /\ i + 1 \in 1 .. Len(offered)
  BY <1>1, <1>2
<1>4. InTime(o)
  BY <1>1, <1>3 DEF ClockInv
<1>5. \/ trade' = trade
      \/ Alive(o) /\ trade' = [pair |-> o.pair, age |-> dnow - o.since]
  BY DEF Handle
<1> HIDE DEF o
<1>6. o.pair \in Pairs /\ o.since \in Int /\ o.until \in Nat
  BY <1>3 DEF Opportunity
<1>7. Slack(o.pair) \in Nat
  BY <1>6, SlackFacts
<1>8. BasisBounded'
  <2>1. CASE trade' = trade
    BY <1>1, <2>1 DEF ClockInv, BasisBounded
  <2>2. CASE Alive(o) /\ trade' = [pair |-> o.pair, age |-> dnow - o.since]
    <3>1. trade'.age = dnow - o.since /\ trade'.pair = o.pair
      BY <2>2
    <3>2. trade'.age <= Slack(o.pair) + LegBy + Lifetime - 1
      BY <1>1, <1>4, <1>6, <1>7, <2>2, <3>1 DEF Alive, InTime
    <3> QED
      BY <3>1, <3>2 DEF BasisBounded, Slack
  <2> QED
    BY <1>5, <2>1, <2>2
<1>9. DetectorTypeOK'
  <2>1. trade' \in [pair : Pairs, age : 0 .. LastLook + BookAge] \cup {Nothing}
    <3>1. CASE trade' = trade
      BY <1>1, <3>1 DEF DetectorTypeOK
    <3>2. CASE trade' = [pair |-> o.pair, age |-> dnow - o.since]
      BY <1>1, <1>4, <1>6, <3>2 DEF InTime
    <3> QED
      BY <1>5, <3>1, <3>2
  <2> QED
    BY <1>1, <1>2, <1>3, <2>1 DEF DetectorTypeOK
<1>10. ClockInv'
  <2>1. \A i \in 1 .. Len(offered') : InTime(offered'[i])
    BY <1>1, <1>3 DEF ClockInv
  <2> QED
    BY <1>1, <1>2, <1>8, <2>1 DEF ClockInv, InTime
<1>11. DecideInv'
  BY <1>1, <1>2 DEF DecideInv
<1> QED
  BY <1>9, <1>10, <1>11 DEF DetectorInv

\* Time passes only while no pair under way is out of time.
LEMMA TickKeeps == ASSUME DetectorInv, DetectorTick PROVE DetectorInv'
<1> USE DetectorAssumption
<1>1. /\ dnow \in 0 .. LastLook /\ begun \in 0 .. LastLook
      /\ ClockInv /\ DecideInv /\ DetectorTypeOK
      /\ rate \in [at : 0 .. LastLook, since : -BookAge .. LastLook] \cup {Nothing}
      /\ found \in [Pairs -> Opportunity \cup {Nothing}] /\ offered \in Seq(Opportunity)
  BY DetectorTypes DEF DetectorInv
<1>2. /\ dnow < LastLook /\ dnow' = dnow + 1
      /\ looking # {} => dnow < begun + LegBy
      /\ UNCHANGED <<begun, over, looking, since, leg, rows, found, rate, offered, trade>>
  BY DEF DetectorTick
<1>3. DetectorTypeOK'
  BY <1>1, <1>2 DEF DetectorTypeOK
<1>4. \A p \in Pairs : found'[p] # Nothing => InTime(found[p])'
  <2>1. ASSUME NEW p \in Pairs, found'[p] # Nothing PROVE InTime(found[p])'
    <3>1. found[p] \in Opportunity /\ InTime(found[p]) /\ found'[p] = found[p]
      BY <1>1, <1>2, <2>1 DEF ClockInv
    <3> QED
      BY <1>1, <1>2, <3>1 DEF InTime, Slack, Opportunity
  <2> QED
    BY <2>1
<1>5. \A i \in 1 .. Len(offered') : InTime(offered[i])'
  <2>1. ASSUME NEW i \in 1 .. Len(offered') PROVE InTime(offered[i])'
    <3>1. offered[i] \in Opportunity /\ InTime(offered[i]) /\ offered'[i] = offered[i]
      BY <1>1, <1>2 DEF ClockInv
    <3>2. offered[i].since \in Int /\ -BookAge <= offered[i].since /\ offered[i].since <= dnow + 1
      BY <1>1, <3>1 DEF InTime, Opportunity
    <3>3. offered[i].until - offered[i].since <= Slack(offered[i].pair) + LegBy + Lifetime
      BY <3>1 DEF InTime
    <3> QED
      BY <1>2, <3>1, <3>2, <3>3 DEF InTime, Slack
  <2> QED
    BY <2>1
<1>6. ClockInv'
  <2>1. begun' <= dnow' /\ (looking' # {} => ~over' /\ dnow' <= begun' + LegBy)
    BY <1>1, <1>2 DEF ClockInv
  <2>2. rate # Nothing => rate.at <= dnow'
    BY <1>1, <1>2 DEF ClockInv
  <2>3. BasisBounded'
    BY <1>1, <1>2 DEF ClockInv, BasisBounded
  <2> QED
    BY <1>1, <1>2, <1>4, <1>5, <2>1, <2>2, <2>3 DEF ClockInv
<1>7. DecideInv'
  BY <1>1, <1>2 DEF DecideInv
<1> QED
  BY <1>3, <1>6, <1>7 DEF DetectorInv

\* Every step of the detector keeps the invariant.
LEMMA DetectorStep == DetectorInv /\ [DetectorNext]_detectorVars => DetectorInv'
<1> SUFFICES ASSUME DetectorInv, [DetectorNext]_detectorVars PROVE DetectorInv'
  OBVIOUS
<1>1. CASE UNCHANGED detectorVars
  BY <1>1
  DEF detectorVars, DetectorInv, DetectorTypeOK, ClockInv, InTime, BasisBounded, DecideInv
<1> QED
  BY <1>1, DetectKeeps, LegKeeps, ReturnKeeps, HandleKeeps, TickKeeps DEF DetectorNext

\* The detector's state keeps its types, for any pairs, quotes and ages.
THEOREM DetectorTypeCorrect == DetectorSpec => []DetectorTypeOK
<1>1. DetectorInv => DetectorTypeOK
  BY DEF DetectorInv
<1> QED
  BY <1>1, DetectorStarts, DetectorStep, PTL DEF DetectorSpec

\* Whatever order directions and pairs answer in, and whichever fail, _decide takes the
\* best direction within the limits and every evaluation leaves its row.
THEOREM DecisionsAreSound == DetectorSpec => []DecisionSound
<1>1. DetectorInv => DecisionSound
  BY DEF DetectorInv, DecideInv, DecisionSound, Decided, DecidedSound
<1> QED
  BY <1>1, DetectorStarts, DetectorStep, PTL DEF DetectorSpec

\* A trade rests on no price older than the ages of the checks on its way, added up:
\* the book's, the wait for the other directions and pairs, the opportunity's lifetime.
THEOREM BasisIsBounded == DetectorSpec => []BasisBounded
<1>1. DetectorInv => BasisBounded
  BY DEF DetectorInv, ClockInv
<1> QED
  BY <1>1, DetectorStarts, DetectorStep, PTL DEF DetectorSpec

-----------------------------------------------------------------------------
(* FedDetector *)

\* How old a book of this connection may be, and the oldest price of a pair when its
\* evaluation begins.
Reach == MaxBookAge + NetDelay
Room(p) == Reach + (IF p \in Synthetic THEN IntermediateFor - 1 ELSE 0)

\* An opportunity was found before its prices were older than that by an answer.
Young(o) == o.until - o.since <= Room(o.pair) + LegBy + Lifetime

\* What is derived from vouched books only is within their age, whichever step of the
\* evaluation it has reached.
TradeInv ==
    /\ revived \subseteq Pairs /\ rateRevived \in BOOLEAN
    /\ \A p \in looking \ revived : begun - Room(p) <= since[p]
    /\ rate # Nothing /\ ~rateRevived => rate.at - Reach <= rate.since
    /\ \A p \in Pairs : found[p] # Nothing =>
          found[p].pair = p /\ (p \in revived \/ Young(found[p]))
    /\ \A i \in 1 .. Len(offered) : offered[i].pair \in revived \/ Young(offered[i])
    /\ TradeOnCurrentBooks

FedInv == FeedInv /\ DetectorInv /\ TradeInv

\* The reach is a number, and no pair is allowed less.
LEMMA ReachFacts == Reach \in Nat /\ \A p \in Pairs : Room(p) \in Nat /\ Room(p) >= Reach
  BY FeedAssumption, DetectorAssumption DEF Reach, Room

\* An age the detector takes is one the feed counts; that of a vouched book is within
\* the reach of the feed.
LEMMA AgeFacts ==
    ASSUME FeedInv, NEW s \in Symbols
    PROVE  AgeOf(s) \in -1 .. BookAge /\ (AgeOf(s) >= 0 /\ Vouched(s) => AgeOf(s) <= Reach)
<1>1. book[s].lag \in -1 .. BookAge
  BY FeedTypes, FedAssumption DEF FeedInv
<1>2. Usable(s) /\ Vouched(s) => book[s].lag <= Reach
  BY CurrentBooks DEF FeedCurrent, Vouched, Reach
<1>3. AgeOf(s) \in {-1, 0, book[s].lag} /\ (AgeOf(s) = book[s].lag \/ AgeOf(s) \in {-1, 0})
  BY DEF AgeOf
<1>4. AgeOf(s) >= 0 => Usable(s)
  BY DEF AgeOf
<1>5. AgeOf(s) \in -1 .. BookAge
  BY <1>1, <1>3, DetectorAssumption
<1>6. ASSUME AgeOf(s) >= 0, Vouched(s) PROVE AgeOf(s) <= Reach
  BY <1>2, <1>3, <1>4, <1>6, ReachFacts
<1> QED
  BY <1>5, <1>6

\* The ages a detection looks at are among those the detector alone could see.
LEMMA LookIsDetect ==
    ASSUME FeedInv, Look
    PROVE  /\ [p \in Pairs \ Denied |-> AgeOf(SymbolOf[p])] \in [Pairs \ Denied -> -1 .. BookAge]
           /\ AgeOf(MiddleSymbol) \in -1 .. BookAge
           /\ Detect
<1>1. \A p \in Pairs \ Denied : SymbolOf[p] \in Symbols
  BY FedAssumption
<1>2. \A p \in Pairs \ Denied : AgeOf(SymbolOf[p]) \in -1 .. BookAge
  BY <1>1, AgeFacts
<1>3. AgeOf(MiddleSymbol) \in -1 .. BookAge
  BY FedAssumption, AgeFacts
<1>4. [p \in Pairs \ Denied |-> AgeOf(SymbolOf[p])] \in [Pairs \ Denied -> -1 .. BookAge]
  BY <1>2
<1>5. DetectWith([p \in Pairs \ Denied |-> AgeOf(SymbolOf[p])], AgeOf(MiddleSymbol))
  BY DEF Look
<1> QED
  BY <1>3, <1>4, <1>5 DEF Detect

\* For the feed, whatever the detector does is nothing at all.
LEMMA FedIsFeed == [FedNext]_fedVars => [FeedNext]_feedVars
  BY DEF FedNext, fedVars, Look, Listen, Conclude, Clock, FeedNext

\* For the detector, whatever the feed does is nothing at all.
LEMMA FedIsDetector == FeedInv /\ [FedNext]_fedVars => [DetectorNext]_detectorVars
<1> SUFFICES ASSUME FeedInv, [FedNext]_fedVars PROVE [DetectorNext]_detectorVars
  OBVIOUS
<1>1. CASE Look
  BY <1>1, LookIsDetect DEF DetectorNext
<1>2. CASE Listen
  BY <1>2 DEF Listen
<1>3. CASE Conclude
  BY <1>3 DEF Conclude, DetectorNext
<1>4. CASE Clock
  BY <1>4 DEF Clock, DetectorNext
<1>5. CASE UNCHANGED fedVars
  BY <1>5 DEF fedVars
<1> QED
  BY <1>1, <1>2, <1>3, <1>4, <1>5 DEF FedNext

\* A detection begins with prices within reach, if it begins with vouched books.
LEMMA LookKeeps == ASSUME FedInv, Look PROVE TradeInv'
<1> USE DetectorAssumption
<1> DEFINE age == [p \in Pairs \ Denied |-> AgeOf(SymbolOf[p])]
           inter == AgeOf(MiddleSymbol)
<1>1. /\ dnow \in 0 .. LastLook /\ found \in [Pairs -> Opportunity \cup {Nothing}]
      /\ rate \in [at : 0 .. LastLook, since : -BookAge .. LastLook] \cup {Nothing}
      /\ FeedInv /\ ClockInv /\ DecideInv /\ TradeInv
  BY DetectorTypes DEF FedInv, DetectorInv
<1>2. /\ DetectWith(age, inter)
      /\ rateRevived' = IF rate' = rate THEN rateRevived ELSE ~Vouched(MiddleSymbol)
      /\ revived' = {p \in looking' : ~Vouched(SymbolOf[p]) \/ (p \in Synthetic /\ rateRevived')}
  BY DEF Look
<1>3. age \in [Pairs \ Denied -> -1 .. BookAge] /\ inter \in -1 .. BookAge
  BY <1>1, LookIsDetect
<1>4. ASSUME NEW p \in Pairs \ Denied, age[p] >= 0, Vouched(SymbolOf[p]) PROVE age[p] <= Reach
  BY <1>1, <1>4, AgeFacts, FedAssumption
<1>5. inter >= 0 /\ Vouched(MiddleSymbol) => inter <= Reach
  BY <1>1, AgeFacts, FedAssumption
<1> HIDE DEF age, inter
<1>6. /\ over /\ begun' = dnow /\ dnow' = dnow /\ trade' = Nothing
      /\ found' = found /\ offered' = offered /\ offered = <<>>
  BY <1>2 DEF DetectWith
<1>7. /\ rate' = rate \/ rate' = Rate(inter)
      /\ looking' = {p \in Pairs \ Denied :
                       age[p] >= 0 /\ (p \in Synthetic => RateUsable(rate'))}
      /\ since' = [p \in Pairs |->
            IF p \notin looking' THEN 0
            ELSE IF p \in Synthetic /\ rate'.since < dnow - age[p] THEN rate'.since
            ELSE dnow - age[p]]
  BY <1>2 DEF DetectWith
<1>8. rate' \in [at : 0 .. LastLook, since : -BookAge .. LastLook] \cup {Nothing}
  BY <1>1, <1>3, <1>7, RateFacts DEF FedInv
<1>9. rate' # Nothing /\ ~rateRevived' => rate'.at - Reach <= rate'.since
  <2>1. CASE rate' = rate
    BY <1>1, <1>2, <2>1 DEF TradeInv
  <2>2. CASE rate' # rate
    <3>1. rate' = [at |-> dnow, since |-> dnow - inter] /\ inter >= 0
      BY <1>7, <2>2 DEF Rate
    <3>2. ~rateRevived' => Vouched(MiddleSymbol)
      BY <1>2, <2>2
    <3> QED
      BY <1>1, <1>3, <1>5, <3>1, <3>2, ReachFacts
  <2> QED
    BY <2>1, <2>2
<1>10. ASSUME NEW p \in looking' \ revived' PROVE begun' - Room(p) <= since'[p]
  <2>1. p \in Pairs \ Denied /\ age[p] \in 0 .. BookAge /\ age[p] <= Reach
        /\ Vouched(SymbolOf[p]) /\ (p \in Synthetic => RateUsable(rate') /\ ~rateRevived')
    BY <1>2, <1>3, <1>4, <1>7
  <2>2. CASE p \in Synthetic /\ rate'.since < dnow - age[p]
    <3>1. /\ since'[p] = rate'.since /\ rate' # Nothing /\ dnow - rate'.at < IntermediateFor
          /\ rate'.at - Reach <= rate'.since
      BY <1>6, <1>7, <1>9, <2>1, <2>2 DEF RateUsable
    <3>2. rate'.at \in Int /\ rate'.since \in Int
      BY <1>8, <3>1
    <3> QED
      BY <1>1, <1>6, <2>2, <3>1, <3>2, ReachFacts DEF Room
  <2>3. CASE ~(p \in Synthetic /\ rate'.since < dnow - age[p])
    <3>1. since'[p] = dnow - age[p]
      BY <1>7, <2>1, <2>3
    <3> QED
      BY <1>1, <1>6, <2>1, <3>1, ReachFacts
  <2> QED
    BY <2>2, <2>3
<1>11. revived' \subseteq Pairs /\ rateRevived' \in BOOLEAN
  <2>1. rateRevived' \in BOOLEAN
    BY <1>1, <1>2 DEF TradeInv, Vouched
  <2> QED
    BY <1>2, <1>7, <2>1
<1>12. \A p \in Pairs : found'[p] = Nothing
  BY <1>1, <1>6 DEF DecideInv
<1>13. Len(offered') = 0
  BY <1>6
<1> QED
  BY <1>6, <1>9, <1>10, <1>11, <1>12, <1>13 DEF TradeInv, TradeOnCurrentBooks

\* The pair is found before its answers have taken longer than they may.
LEMMA LegStaysYoung ==
    ASSUME FedInv, NEW p \in Pairs, NEW d \in DOMAIN Directions, LegReturns(p, d),
           UNCHANGED <<revived, rateRevived>>
    PROVE  TradeInv'
<1> USE DetectorAssumption
<1>1. /\ dnow \in 0 .. LastLook /\ begun \in 0 .. LastLook /\ looking \subseteq Pairs
      /\ since \in [Pairs -> -BookAge .. LastLook]
      /\ found \in [Pairs -> Opportunity \cup {Nothing}]
      /\ ClockInv /\ TradeInv
  BY DetectorTypes DEF FedInv, DetectorInv
<1>2. /\ p \in looking
      /\ UNCHANGED <<dnow, begun, over, since, rate, offered, trade>>
  BY DEF LegReturns
<1>3. \/ UNCHANGED <<looking, found>>
      \/ /\ looking' = looking \ {p}
         /\ \E f : /\ found' = [found EXCEPT ![p] = f]
                   /\ f # Nothing =>
                         f.pair = p /\ f.since = since[p] /\ f.until = dnow + Lifetime
  BY DEF LegReturns
<1>4. CASE UNCHANGED <<looking, found>>
  BY <1>1, <1>2, <1>4 DEF TradeInv, Young, TradeOnCurrentBooks
<1>5. CASE /\ looking' = looking \ {p}
           /\ \E f : /\ found' = [found EXCEPT ![p] = f]
                     /\ f # Nothing =>
                           f.pair = p /\ f.since = since[p] /\ f.until = dnow + Lifetime
  <2>1. PICK f : /\ found' = [found EXCEPT ![p] = f]
                 /\ f # Nothing =>
                       f.pair = p /\ f.since = since[p] /\ f.until = dnow + Lifetime
    BY <1>5
  <2>2. ASSUME f # Nothing, p \notin revived PROVE Young(f)
    <3>1. begun - Room(p) <= since[p] /\ dnow <= begun + LegBy /\ since[p] \in Int
      BY <1>1, <1>2, <2>2 DEF ClockInv, TradeInv
    <3> QED
      BY <1>1, <2>1, <2>2, <3>1, ReachFacts DEF Young
  <2>3. found'[p] = f /\ \A u \in Pairs : u # p => found'[u] = found[u]
    BY <1>1, <2>1
  <2>4. ASSUME NEW u \in Pairs, found'[u] # Nothing
        PROVE  found'[u].pair = u /\ (u \in revived \/ Young(found'[u]))
    BY <1>1, <2>1, <2>2, <2>3, <2>4 DEF TradeInv
  <2>5. \A u \in looking' \ revived' : begun' - Room(u) <= since'[u]
    BY <1>1, <1>2, <1>5 DEF TradeInv
  <2> QED
    BY <1>1, <1>2, <2>4, <2>5 DEF TradeInv, Young, TradeOnCurrentBooks
<1> QED
  BY <1>3, <1>4, <1>5

\* Handing over adds nothing to an age.
LEMMA ReturnStaysYoung ==
    ASSUME FedInv, DetectReturns, UNCHANGED <<revived, rateRevived>>
    PROVE  TradeInv'
<1>1. DetectorInv /\ TradeInv
  BY DEF FedInv
<1>2. /\ looking' = {} /\ UNCHANGED <<dnow, rate, trade>>
      /\ \A p \in Pairs : found'[p] = Nothing
  BY DEF DetectReturns
<1>3. \A i \in 1 .. Len(offered') : offered'[i].pair \in revived' \/ Young(offered'[i])
  BY <1>1, OfferedAreFound DEF TradeInv
<1> QED
  BY <1>1, <1>2, <1>3 DEF TradeInv, Young, TradeOnCurrentBooks

\* Before its deadline an opportunity is older by its lifetime at most.
LEMMA HandleStaysYoung ==
    ASSUME FedInv, Handle, UNCHANGED <<revived, rateRevived>>
    PROVE  TradeInv'
<1> USE DetectorAssumption
<1> DEFINE o == Head(offered)
<1>1. /\ dnow \in 0 .. LastLook /\ offered \in Seq(Opportunity) /\ TradeInv
  BY DetectorTypes DEF FedInv, DetectorInv
<1>2. /\ offered # <<>> /\ offered' = Tail(offered)
      /\ UNCHANGED <<dnow, begun, over, looking, since, leg, rows, found, rate>>
      /\ \/ trade' = trade
         \/ Alive(o) /\ trade' = [pair |-> o.pair, age |-> dnow - o.since]
  BY DEF Handle
<1>3. /\ o = offered[1] /\ Len(offered) >= 1 /\ o \in Opportunity
      /\ \A i \in 1 .. Len(offered') : offered'[i] = offered[i + 1] /\ i + 1 \in 1 .. Len(offered)
  BY <1>1, <1>2
<1>4. o.pair \in revived \/ Young(o)
  BY <1>1, <1>3 DEF TradeInv
<1> HIDE DEF o
<1>5. o.pair \in Pairs /\ o.since \in Int /\ o.until \in Nat
  BY <1>3 DEF Opportunity
<1>6. TradeOnCurrentBooks'
  <2>1. CASE trade' = trade
    BY <1>1, <2>1 DEF TradeInv, TradeOnCurrentBooks
  <2>2. CASE Alive(o) /\ trade' = [pair |-> o.pair, age |-> dnow - o.since]
    <3>1. trade'.age = dnow - o.since /\ trade'.pair = o.pair
      BY <2>2
    <3>2. o.pair \notin revived => trade'.age <= Room(o.pair) + LegBy + Lifetime - 1
      BY <1>1, <1>4, <1>5, <2>2, <3>1, ReachFacts DEF Alive, Young
    <3> QED
      BY <3>1, <3>2, FeedAssumption DEF TradeOnCurrentBooks, Room, Reach
  <2> QED
    BY <1>2, <2>1, <2>2
<1>7. \A i \in 1 .. Len(offered') : offered'[i].pair \in revived' \/ Young(offered'[i])
  BY <1>1, <1>3 DEF TradeInv
<1> QED
  BY <1>1, <1>2, <1>6, <1>7 DEF TradeInv, Young

\* Neither the feed nor the clock touches what a detection has captured.
LEMMA AsideStaysYoung ==
    ASSUME TradeInv,
           UNCHANGED <<begun, looking, since, found, rate, offered, trade, revived, rateRevived>>
    PROVE  TradeInv'
  BY DEF TradeInv, Young, TradeOnCurrentBooks

\* Nothing has been looked at in the beginning.
LEMMA FedStarts == FedInit => FedInv
<1> SUFFICES ASSUME FedInit PROVE FedInv
  OBVIOUS
<1>1. FeedInv /\ DetectorInv
  BY FeedStarts, DetectorStarts DEF FedInit
<1>2. /\ looking = {} /\ rate = Nothing /\ trade = Nothing /\ offered = <<>>
      /\ \A p \in Pairs : found[p] = Nothing
      /\ revived = {} /\ rateRevived = FALSE
  BY DEF FedInit, DetectorInit
<1>3. Len(offered) = 0
  BY <1>2
<1>4. rateRevived \in BOOLEAN
  BY <1>2
<1>5. TradeInv
  BY <1>2, <1>3, <1>4, SMT DEF TradeInv, TradeOnCurrentBooks
<1> QED
  BY <1>1, <1>5 DEF FedInv

\* Every step of the feed, the detector and their clock keeps the invariant.
LEMMA FedStep == FedInv /\ [FedNext]_fedVars => FedInv'
<1> SUFFICES ASSUME FedInv, [FedNext]_fedVars PROVE FedInv'
  OBVIOUS
<1>1. FeedInv' /\ DetectorInv'
  BY FedIsFeed, FedIsDetector, FeedStep, DetectorStep DEF FedInv
<1>2. CASE Look
  BY <1>1, <1>2, LookKeeps DEF FedInv
<1>3. CASE Listen
  BY <1>1, <1>3, AsideStaysYoung DEF FedInv, Listen, detectorVars
<1>4. CASE Conclude
  BY <1>1, <1>4, LegStaysYoung, ReturnStaysYoung, HandleStaysYoung DEF FedInv, Conclude
<1>5. CASE Clock
  BY <1>1, <1>5, AsideStaysYoung DEF FedInv, Clock, DetectorTick, detectorVars
<1>6. CASE UNCHANGED fedVars
  BY <1>1, <1>6, AsideStaysYoung DEF FedInv, fedVars, detectorVars
<1> QED
  BY <1>2, <1>3, <1>4, <1>5, <1>6 DEF FedNext

\* On the books of a feed that reconnects, stalls and loses frames, detect() does what
\* it does on books of any ages: whatever holds of the detector alone holds here.
THEOREM FedDetectorDetects == FedSpec => DetectorSpec
<1>1. FedInv => FeedInv
  BY DEF FedInv
<1>2. FedInit => DetectorInit
  BY DEF FedInit
<1> QED
  BY <1>1, <1>2, FedStarts, FedStep, FedIsDetector, PTL DEF FedSpec, DetectorSpec

\* Under the detector the feed takes its own steps: it keeps what is proved of it.
THEOREM FeedGoesOn == FedSpec => FeedInit /\ [][FeedNext]_feedVars
<1>1. FedInit => FeedInit
  BY DEF FedInit
<1> QED
  BY <1>1, FedIsFeed, PTL DEF FedSpec

\* From the feed to the trade: what a trade of vouched books rests on is never older
\* than silence, delay, answers, conversion and lifetime add up to.
THEOREM TradesAreCurrent == FedSpec => []TradeOnCurrentBooks
<1>1. FedInv => TradeOnCurrentBooks
  BY DEF FedInv, TradeInv
<1> QED
  BY <1>1, FedStarts, FedStep, PTL DEF FedSpec

-----------------------------------------------------------------------------
(* Placebo *)

Sampled == [at : 0 .. LastSample, quote : 1 .. MaxPushes]

\* Entry i of the buffer is the quote pushed f pushes later.
KeptFrom(f) ==
    \A i \in 1 .. Len(series) :
        series[i].at = pushed[f + i] /\ series[i].quote = f + i

\* The buffer holds the last pushes, and what was dropped was older than an entry
\* that is itself old enough.
PlaceboInv ==
    /\ PlaceboTypeOK
    /\ \A i \in 1 .. Len(pushed) :
          pushed[i] <= sampled /\ \A j \in i .. Len(pushed) : pushed[i] <= pushed[j]
    /\ \E f \in Nat :
          /\ Len(series) + f = Len(pushed)
          /\ KeptFrom(f)
          /\ f > 0 => series # <<>> /\ pushed[f + 1] <= pushed[Len(pushed)] - Delay
    /\ PlaceboFromHistory

\* Served is the entry before the first young one.
LEMMA ServedFacts ==
    ASSUME NEW s \in Seq(Sampled), sampled \in Nat, NEW from \in 1 .. Len(s) + 1
    PROVE  /\ Served(s, from) \in from - 1 .. Len(s)
           /\ \A i \in from .. Served(s, from) : s[i].at <= sampled - Delay
           /\ Served(s, from) < Len(s) => s[Served(s, from) + 1].at > sampled - Delay
<1> DEFINE I == {i \in from .. Len(s) : s[i].at > sampled - Delay}
           young == SelectInSubSeq(s, from, Len(s), LAMBDA e : e.at > sampled - Delay)
<1>1. Len(s) \in Nat /\ from \in Nat /\ from >= 1 /\ from <= Len(s) + 1
  BY LenProperties
<1>2. \A i \in 1 .. Len(s) : s[i].at \in Nat
  <2>1. \A i \in 1 .. Len(s) : s[i] \in Sampled
    BY ElementOfSeq
  <2> QED
    BY <2>1 DEF Sampled
<1>3. young = IF I # {} THEN Min(I) ELSE 0
  BY DEF SelectInSubSeq
<1>4. Served(s, from) = IF young = 0 THEN Len(s) ELSE young - 1
  BY DEF Served
<1>5. sampled - Delay \in Int
  BY PlaceboAssumption
<1>6. I \subseteq from .. Len(s) /\ \A i \in from .. Len(s) : i \in I <=> s[i].at > sampled - Delay
  OBVIOUS
<1> HIDE DEF I, young
<1>7. CASE I = {}
  <2>1. Served(s, from) = Len(s)
    BY <1>3, <1>4, <1>7
  <2>2. ASSUME NEW i \in from .. Len(s) PROVE s[i].at <= sampled - Delay
    <3>1. i \in 1 .. Len(s)
      BY <1>1
    <3>2. ~(s[i].at > sampled - Delay)
      BY <1>6, <1>7
    <3> QED
      BY <1>2, <1>5, <3>1, <3>2
  <2> QED
    BY <1>1, <2>1, <2>2
<1>8. CASE I # {}
  <2>1. I \subseteq Nat
    BY <1>1, <1>6
  <2>2. \E m \in I : \A k \in I : m <= k
    BY <1>8, <2>1, LeastOf
  <2>3. young = Min(I) /\ Min(I) \in I /\ \A k \in I : Min(I) <= k
    BY <1>3, <1>8, <2>2 DEF Min
  <2>4. young \in from .. Len(s) /\ s[young].at > sampled - Delay /\ \A k \in I : young <= k
    BY <1>6, <2>3
  <2>5. Served(s, from) = young - 1
    BY <1>1, <1>4, <2>4
  <2>6. ASSUME NEW i \in from .. young - 1 PROVE s[i].at <= sampled - Delay
    <3>1. i \in from .. Len(s) /\ i \in 1 .. Len(s) /\ i < young
      BY <1>1, <2>4
    <3>2. ~(s[i].at > sampled - Delay)
      BY <1>1, <1>6, <2>4, <3>1
    <3> QED
      BY <1>2, <1>5, <3>1, <3>2
  <2>7. young - 1 + 1 = young /\ young - 1 \in from - 1 .. Len(s)
    BY <1>1, <2>4
  <2> QED
    BY <2>4, <2>5, <2>6, <2>7
<1> QED
  BY <1>7, <1>8

\* A live quote is pushed, the buffer is trimmed, and the answer is read back.
LEMMA SampleKeeps == ASSUME PlaceboInv, Sample PROVE PlaceboInv'
<1> DEFINE n == Len(pushed)
           m == Len(series)
           e == [at |-> sampled, quote |-> n + 1]
           s == Append(series, e)
           p == pushed'
           edge == sampled - Delay
<1>1. PICK f \in Nat :
          /\ m + f = n /\ KeptFrom(f)
          /\ f > 0 => series # <<>> /\ pushed[f + 1] <= pushed[n] - Delay
  BY DEF PlaceboInv
<1>2. /\ sampled \in 0 .. LastSample /\ sampled \in Nat /\ LastSample \in Nat
      /\ Delay \in Nat /\ MaxPushes \in Nat
      /\ series \in Seq(Sampled) /\ pushed \in Seq(0 .. LastSample) /\ stale \in 0 .. MaxPushes
      /\ n \in Nat /\ m \in Nat /\ n < MaxPushes /\ edge \in Int
  BY LenProperties, PlaceboAssumption DEF PlaceboInv, PlaceboTypeOK, Sampled, Sample
<1>3. p = Append(pushed, sampled) /\ series' = Trimmed(s) /\ stale' = Delayed(series') /\ sampled' = sampled
  BY DEF Sample
<1>4. /\ p \in Seq(0 .. LastSample) /\ Len(p) = n + 1 /\ p[n + 1] = sampled
      /\ \A i \in 1 .. n : p[i] = pushed[i]
  BY <1>2, <1>3, AppendProperties
<1>5. e \in Sampled /\ e.at = sampled /\ e.quote = n + 1
  BY <1>2 DEF Sampled
<1>6. s \in Seq(Sampled) /\ Len(s) = m + 1 /\ s[m + 1] = e /\ \A i \in 1 .. m : s[i] = series[i]
  BY <1>2, <1>5, AppendProperties
<1>7. \A i \in 1 .. n : pushed[i] \in Nat
  <2>1. \A i \in 1 .. n : pushed[i] \in 0 .. LastSample
    BY <1>2, ElementOfSeq
  <2> QED
    BY <1>2, <2>1
<1>8. \A i \in 1 .. n + 1 : p[i] \in Nat
  <2>1. \A i \in 1 .. n + 1 : p[i] \in 0 .. LastSample
    BY <1>4, ElementOfSeq
  <2> QED
    BY <1>2, <2>1
<1>9. \A i \in 1 .. n : pushed[i] <= sampled /\ \A j \in i .. n : pushed[i] <= pushed[j]
  BY DEF PlaceboInv
<1>10. \A i \in 1 .. m : series[i].at = pushed[f + i] /\ series[i].quote = f + i
  BY <1>1 DEF KeptFrom
<1> HIDE DEF n, m, e, s, p, edge
<1>11. ASSUME NEW i \in 1 .. n + 1
      PROVE  p[i] <= sampled /\ \A j \in i .. n + 1 : p[i] <= p[j]
  <2>1. CASE i = n + 1
    BY <1>2, <1>4, <2>1
  <2>2. CASE i \in 1 .. n
    <3>1. p[i] <= sampled
      BY <1>4, <1>9, <2>2
    <3>2. ASSUME NEW j \in i .. n + 1 PROVE p[i] <= p[j]
      <4>1. CASE j = n + 1
        BY <1>4, <3>1, <4>1
      <4>2. CASE j \in i .. n
        <5>1. j \in 1 .. n
          BY <1>2, <2>2, <4>2
        <5> QED
          BY <1>4, <1>9, <2>2, <4>2, <5>1
      <4> QED
        BY <1>2, <2>2, <4>1, <4>2
    <3> QED
      BY <3>1, <3>2
  <2> QED
    BY <1>2, <2>1, <2>2
<1>12. ASSUME NEW i \in 1 .. m + 1 PROVE s[i].at = p[f + i] /\ s[i].quote = f + i
  <2>1. CASE i \in 1 .. m
    <3>1. f + i \in 1 .. n
      BY <1>1, <1>2, <2>1
    <3> QED
      BY <1>4, <1>6, <1>10, <2>1, <3>1
  <2>2. CASE i = m + 1
    <3>1. f + i = n + 1
      BY <1>1, <1>2, <2>2
    <3> QED
      BY <1>4, <1>5, <1>6, <2>2, <3>1
  <2> QED
    BY <1>2, <2>1, <2>2
<1> DEFINE k == Served(s, 2)
           t == SubSeq(s, k, m + 1)
           g == f + k - 1
<1>13. /\ k \in 1 .. m + 1
       /\ \A i \in 2 .. k : s[i].at <= edge
  <2>1. 2 \in 1 .. Len(s) + 1
    BY <1>2, <1>6
  <2>2. k \in 2 - 1 .. Len(s) /\ \A i \in 2 .. k : s[i].at <= edge
    BY <1>2, <1>6, <2>1, ServedFacts DEF edge
  <2> QED
    BY <1>6, <2>2
<1>14. series' = t
  BY <1>3, <1>6 DEF Trimmed
<1> HIDE DEF k
<1>15. /\ t \in Seq(Sampled) /\ Len(t) = m + 2 - k
       /\ \A i \in 1 .. m + 2 - k : t[i] = s[k + i - 1]
  <2>1. /\ \A i \in k .. m + 1 : s[i] \in Sampled
        /\ k \in 1 .. Len(s) + 1 /\ m + 1 \in k - 1 .. Len(s)
    <3>1. \A i \in 1 .. m + 1 : s[i] \in Sampled
      BY <1>6, ElementOfSeq
    <3> QED
      BY <1>2, <1>6, <1>13, <3>1
  <2>2. /\ SubSeq(s, k, m + 1) \in Seq(Sampled)
        /\ Len(SubSeq(s, k, m + 1)) = IF k <= m + 1 THEN (m + 1) - k + 1 ELSE 0
        /\ \A i \in 1 .. (m + 1) - k + 1 : SubSeq(s, k, m + 1)[i] = s[k + i - 1]
    BY <1>2, <1>6, <1>13, <2>1, SubSeqProperties
  <2>3. (m + 1) - k + 1 = m + 2 - k /\ k <= m + 1
    BY <1>2, <1>13
  <2> QED
    BY <2>2, <2>3
<1>16. /\ g \in Nat /\ Len(t) + g = n + 1 /\ Len(t) \in Nat /\ Len(t) >= 1
  <2>1. f \in Nat /\ k \in 1 .. m + 1 /\ m \in Nat /\ n \in Nat /\ m + f = n
    BY <1>1, <1>2, <1>13
  <2>2. g \in Nat /\ (m + 2 - k) + g = n + 1 /\ m + 2 - k \in Nat /\ m + 2 - k >= 1
    BY <2>1
  <2> QED
    BY <1>15, <2>2
<1> HIDE DEF t
<1>17. \A i \in 1 .. Len(t) : t[i].at = p[g + i] /\ t[i].quote = g + i
  <2> TAKE i \in 1 .. Len(t)
  <2>1. k + i - 1 \in 1 .. m + 1 /\ f + (k + i - 1) = g + i /\ i \in 1 .. m + 2 - k
    BY <1>1, <1>2, <1>13, <1>15
  <2> QED
    BY <1>12, <1>15, <2>1
<1>18. g > 0 => p[g + 1] <= edge
  <2>1. CASE k \in 2 .. m + 1
    <3>1. k \in 2 .. k /\ g + 1 = f + k /\ k \in 1 .. m + 1
      BY <1>1, <1>2, <2>1
    <3> QED
      BY <1>12, <1>13, <3>1
  <2>2. CASE k = 1 /\ f > 0
    <3>1. m # 0
      BY <1>1, <1>2, <2>2, EmptySeq DEF m
    <3>2. f + 1 \in 1 .. n /\ n \in 1 .. n
      BY <1>1, <1>2, <2>2, <3>1
    <3>3. pushed[f + 1] <= pushed[n] - Delay /\ pushed[n] <= sampled /\ p[f + 1] = pushed[f + 1]
      BY <1>1, <1>4, <1>9, <2>2, <3>2
    <3>4. pushed[f + 1] \in Nat /\ pushed[n] \in Nat
      BY <1>7, <3>2
    <3>5. p[f + 1] <= edge
      BY <1>2, <3>3, <3>4 DEF edge
    <3>6. g + 1 = f + 1
      BY <1>1, <2>2
    <3> QED
      BY <3>5, <3>6
  <2> QED
    BY <1>1, <1>2, <1>13, <2>1, <2>2
<1> HIDE DEF g
<1> DEFINE q == Served(t, 1)
<1>19. /\ q \in 0 .. Len(t)
       /\ \A i \in 1 .. q : t[i].at <= edge
       /\ q < Len(t) => t[q + 1].at > edge
  <2>1. 1 \in 1 .. Len(t) + 1
    BY <1>16
  <2>2. /\ q \in 1 - 1 .. Len(t)
        /\ \A i \in 1 .. q : t[i].at <= edge
        /\ q < Len(t) => t[q + 1].at > edge
    BY <1>2, <1>15, <2>1, ServedFacts DEF edge
  <2> QED
    BY <2>2
<1>20. stale' = IF q = 0 THEN 0 ELSE t[q].quote
  BY <1>3, <1>14 DEF Delayed
<1> HIDE DEF q
<1> DEFINE old == {i \in 1 .. n + 1 : p[i] <= edge}
<1>21. q = 0 => stale' = 0 /\ old = {}
  <2> SUFFICES ASSUME q = 0 PROVE stale' = 0 /\ old = {}
    OBVIOUS
  <2>1. t[1].at > edge /\ 1 \in 1 .. Len(t)
    BY <1>16, <1>19
  <2>2. p[g + 1] > edge /\ g + 1 \in 1 .. n + 1
    BY <1>2, <1>16, <1>17, <2>1
  <2>3. p[g + 1] \in Nat
    BY <1>8, <2>2
  <2>4. g = 0
    <3>1. ~(p[g + 1] <= edge)
      BY <1>2, <2>2, <2>3
    <3> QED
      BY <1>16, <1>18, <3>1
  <2>5. ASSUME NEW i \in 1 .. n + 1 PROVE ~(p[i] <= edge)
    <3>1. p[1] <= p[i] /\ p[1] \in Nat /\ p[i] \in Nat /\ p[1] > edge
      BY <1>2, <1>8, <1>11, <2>2, <2>4
    <3> QED
      BY <1>2, <3>1
  <2> QED
    BY <1>20, <2>5
<1>22. q # 0 => stale' \in old /\ \A i \in old : i <= stale'
  <2> SUFFICES ASSUME q # 0 PROVE stale' \in old /\ \A i \in old : i <= stale'
    OBVIOUS
  <2>1. q \in 1 .. Len(t) /\ q \in 1 .. q
    BY <1>16, <1>19
  <2>2. stale' = g + q /\ p[g + q] <= edge
    BY <1>17, <1>19, <1>20, <2>1
  <2>3. g + q \in 1 .. n + 1
    BY <1>2, <1>16, <2>1
  <2>4. ASSUME NEW i \in 1 .. n + 1, i > g + q PROVE ~(p[i] <= edge)
    <3>1. q < Len(t) /\ q + 1 \in 1 .. Len(t)
      BY <1>2, <1>16, <2>1, <2>4
    <3>2. p[g + (q + 1)] > edge
      BY <1>17, <1>19, <3>1
    <3>3. g + (q + 1) \in 1 .. n + 1 /\ i \in g + (q + 1) .. n + 1
      BY <1>2, <1>16, <2>1, <2>4, <3>1
    <3>4. p[g + (q + 1)] <= p[i] /\ p[g + (q + 1)] \in Nat /\ p[i] \in Nat
      BY <1>8, <1>11, <3>3
    <3> QED
      BY <1>2, <3>2, <3>4
  <2>5. ASSUME NEW i \in old PROVE i <= g + q
    <3>1. i \in 1 .. n + 1 /\ p[i] <= edge
      OBVIOUS
    <3>2. ~(i > g + q)
      BY <2>4, <3>1
    <3> QED
      BY <1>2, <1>16, <2>1, <3>1, <3>2
  <2> QED
    BY <2>2, <2>3, <2>5
<1>23. PlaceboFromHistory'
  <2>1. Last(p) = sampled /\ DOMAIN p = 1 .. n + 1
    BY <1>4, LenProperties DEF Last
  <2>2. old = {i \in DOMAIN p : p[i] <= Last(p) - Delay}
    BY <2>1 DEF edge
  <2> HIDE DEF old
  <2>3. IF old = {} THEN stale' = 0 ELSE stale' \in old /\ \A i \in old : i <= stale'
    BY <1>21, <1>22
  <2>4. LET then == Last(p)
            older == {i \in DOMAIN p : p[i] <= then - Delay}
        IN  IF older = {} THEN stale' = 0 ELSE stale' \in older /\ \A i \in older : i <= stale'
    BY <2>2, <2>3
  <2> QED
    BY <2>4 DEF PlaceboFromHistory, p
<1>24. PlaceboTypeOK'
  <2>1. stale' \in 0 .. MaxPushes
    <3>1. CASE q = 0
      BY <1>2, <1>20, <3>1
    <3>2. CASE q # 0
      <4>1. q \in 1 .. Len(t)
        BY <1>16, <1>19, <3>2
      <4>2. t[q] \in Sampled
        BY <1>15, <4>1, ElementOfSeq
      <4>3. t[q].quote \in 1 .. MaxPushes
        BY <4>2 DEF Sampled
      <4> QED
        BY <1>2, <1>20, <3>2, <4>3
    <3> QED
      BY <3>1, <3>2
  <2>2. Len(p) <= MaxPushes
    BY <1>2, <1>4
  <2> QED
    BY <1>2, <1>3, <1>4, <1>14, <1>15, <2>1, <2>2 DEF PlaceboTypeOK, Sampled, p
<1>25. \E h \in Nat :
           /\ Len(series') + h = Len(p)
           /\ \A i \in 1 .. Len(series') : series'[i].at = p[h + i] /\ series'[i].quote = h + i
           /\ h > 0 => series' # <<>> /\ p[h + 1] <= p[Len(p)] - Delay
  <2>1. t # <<>>
    BY <1>16, EmptySeq
  <2>2. g > 0 => p[g + 1] <= p[Len(p)] - Delay
    BY <1>4, <1>18 DEF edge
  <2>3. g \in Nat /\ Len(t) + g = Len(p)
    BY <1>4, <1>16
  <2> QED
    BY <1>14, <1>17, <2>1, <2>2, <2>3
<1> QED
  BY <1>3, <1>4, <1>11, <1>23, <1>24, <1>25 DEF PlaceboInv, KeptFrom, p

\* Time passes.
LEMMA PlaceboTickKeeps == ASSUME PlaceboInv, PlaceboTick PROVE PlaceboInv'
<1>1. /\ sampled \in 0 .. LastSample /\ LastSample \in Nat /\ sampled' = sampled + 1
      /\ sampled < LastSample /\ UNCHANGED <<series, pushed, stale>>
  BY PlaceboAssumption DEF PlaceboInv, PlaceboTypeOK, PlaceboTick
<1>2. PlaceboTypeOK'
  <2>1. sampled' \in 0 .. LastSample
    BY <1>1
  <2> QED
    BY <1>1, <2>1 DEF PlaceboInv, PlaceboTypeOK
<1>3. \A i \in 1 .. Len(pushed) : pushed[i] <= sampled'
  <2> TAKE i \in 1 .. Len(pushed)
  <2>1. pushed \in Seq(0 .. LastSample)
    BY DEF PlaceboInv, PlaceboTypeOK
  <2>2. pushed[i] \in 0 .. LastSample /\ pushed[i] <= sampled
    BY <2>1, ElementOfSeq DEF PlaceboInv
  <2> QED
    BY <1>1, <2>2
<1> QED
  BY <1>1, <1>2, <1>3 DEF PlaceboInv, KeptFrom, PlaceboFromHistory

\* The inductive invariant of the buffer.
LEMMA PlaceboInvariance == PlaceboSpec => []PlaceboInv
<1>1. PlaceboInit => PlaceboInv
  <2> SUFFICES ASSUME PlaceboInit PROVE PlaceboInv
    OBVIOUS
  <2>1. PlaceboTypeOK
    BY PlaceboAssumption, EmptySeq DEF PlaceboInit, PlaceboTypeOK
  <2>2. Len(pushed) = 0 /\ Len(series) = 0 /\ pushed = <<>>
    BY EmptySeq DEF PlaceboInit
  <2>3. \E f \in Nat :
            /\ Len(series) + f = Len(pushed) /\ KeptFrom(f)
            /\ f > 0 => series # <<>> /\ pushed[f + 1] <= pushed[Len(pushed)] - Delay
    <3> WITNESS 0 \in Nat
    <3> QED
      BY <2>2 DEF KeptFrom
  <2> QED
    BY <2>1, <2>2, <2>3 DEF PlaceboInv, PlaceboFromHistory
<1>2. PlaceboInv /\ [PlaceboNext]_placeboVars => PlaceboInv'
  <2> SUFFICES ASSUME PlaceboInv, [PlaceboNext]_placeboVars PROVE PlaceboInv'
    OBVIOUS
  <2>1. CASE UNCHANGED placeboVars
    BY <2>1 DEF placeboVars, PlaceboInv, PlaceboTypeOK, KeptFrom, PlaceboFromHistory
  <2> QED
    BY <2>1, SampleKeeps, PlaceboTickKeeps DEF PlaceboNext
<1> QED
  BY <1>1, <1>2, PTL DEF PlaceboSpec

\* The buffer drops history as it goes (push) and still answers (delayed) from all of
\* it: the newest quote at least the delay old, none while there is none.
THEOREM PlaceboIsFaithful == PlaceboSpec => []PlaceboFromHistory
<1>1. PlaceboInv => PlaceboFromHistory
  BY DEF PlaceboInv
<1> QED
  BY <1>1, PlaceboInvariance, PTL

\* PlaceboTypeOK: the buffer and the history keep their types.
THEOREM PlaceboTypeCorrect == PlaceboSpec => []PlaceboTypeOK
<1>1. PlaceboInv => PlaceboTypeOK
  BY DEF PlaceboInv
<1> QED
  BY <1>1, PlaceboInvariance, PTL

=============================================================================
