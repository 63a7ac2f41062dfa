---------------------------- MODULE DataLemmas -----------------------------
(***************************************************************************)
(* Facts about sequences and sets of numbers that several proofs share:    *)
(* lists joined and shortened, the least and the greatest of some numbers, *)
(* induction over the numbers, and that a function defined by recursion    *)
(* exists.  Sets and functions stand for the predicates of the last two.   *)
(***************************************************************************)
EXTENDS Sequences, SequencesExt, Integers, SequenceTheorems, FiniteSetTheorems,
        WellFoundedInduction, TLAPS

\* Two lists of one.
LEMMA PairOf ==
    ASSUME NEW x, NEW y
    PROVE  <<x>> \o <<y>> = <<x, y>>
<1> DEFINE s == <<x>> \o <<y>>
           t == <<x, y>>
<1>1. <<x>> \in Seq({x, y}) /\ <<y>> \in Seq({x, y}) /\ t \in Seq({x, y})
  OBVIOUS
<1>2. Len(s) = 2 /\ s \in Seq({x, y}) /\ s[1] = x /\ s[2] = y
  BY <1>1, ConcatProperties
<1>3. Len(t) = 2 /\ t[1] = x /\ t[2] = y
  OBVIOUS
<1> HIDE DEF s, t
<1>4. \A i \in 1 .. Len(s) : s[i] = t[i]
  <2>1. \A i \in 1 .. 2 : i = 1 \/ i = 2
    OBVIOUS
  <2> QED
    BY <1>2, <1>3, <2>1
<1>5. s = t
  BY <1>1, <1>2, <1>3, <1>4, SeqEqual
<1> QED
  BY <1>5 DEF s, t

\* The elements of the first of two concatenated sequences stay in place.
LEMMA ConcatKeepsPrefix ==
    ASSUME NEW S, NEW a \in Seq(S), NEW b \in Seq(S)
    PROVE  /\ a \o b \in Seq(S)
           /\ Len(a \o b) = Len(a) + Len(b)
           /\ \A k \in 1 .. Len(a) : (a \o b)[k] = a[k]
<1>1. a \o b \in Seq(S) /\ Len(a \o b) = Len(a) + Len(b)
  BY ConcatProperties
<1>2. ASSUME NEW k \in 1 .. Len(a) PROVE (a \o b)[k] = a[k]
  <2>1. k \in 1 .. Len(a) + Len(b)
    BY LenProperties
  <2> QED
    BY <2>1, ConcatProperties
<1> QED
  BY <1>1, <1>2

\* Every place of two concatenated sequences is one of the first or one of the second.
LEMMA ConcatSplits ==
    ASSUME NEW S, NEW a \in Seq(S), NEW b \in Seq(S)
    PROVE  /\ a \o b \in Seq(S) /\ Len(a \o b) = Len(a) + Len(b)
           /\ \A i \in 1 .. Len(a) : i \in 1 .. Len(a \o b) /\ (a \o b)[i] = a[i]
           /\ \A j \in 1 .. Len(b) : Len(a) + j \in 1 .. Len(a \o b) /\ (a \o b)[Len(a) + j] = b[j]
           /\ \A i \in 1 .. Len(a \o b) : \/ i \in 1 .. Len(a)
                                          \/ \E j \in 1 .. Len(b) : i = Len(a) + j
<1> DEFINE c == a \o b
           m == Len(a)
           n == Len(b)
<1>1. c \in Seq(S) /\ Len(c) = m + n /\ \A i \in 1 .. m : c[i] = a[i]
  BY ConcatKeepsPrefix
<1>2. m \in Nat /\ n \in Nat
  BY LenProperties
<1>3. \A i \in 1 .. m + n : c[i] = IF i <= m THEN a[i] ELSE b[i - m]
  BY ConcatProperties
<1> HIDE DEF c, m, n
<1>4. ASSUME NEW j \in 1 .. n PROVE m + j \in 1 .. m + n /\ c[m + j] = b[j]
  <2>1. m + j \in 1 .. m + n /\ ~(m + j <= m) /\ m + j - m = j
    BY <1>2
  <2> DEFINE x == m + j
  <2>2. x \in 1 .. m + n /\ ~(x <= m) /\ x - m = j
    BY <1>2, <2>1
  <2> HIDE DEF x
  <2>3. c[x] = b[x - m]
    BY <1>3, <2>2
  <2> QED
    BY <2>1, <2>2, <2>3 DEF x
<1>5. ASSUME NEW i \in 1 .. m + n, i \notin 1 .. m PROVE \E j \in 1 .. n : i = m + j
  <2>1. i - m \in 1 .. n /\ i = m + (i - m)
    BY <1>2, <1>5
  <2> QED
    BY <2>1
<1>6. \A i \in 1 .. m : i \in 1 .. m + n
  BY <1>2
<1> QED
  BY <1>1, <1>4, <1>5, <1>6 DEF c, m, n

\* Removing an element other than the first one keeps the first one in place.
LEMMA RemoveAtKeepsHead ==
    ASSUME NEW S, NEW s \in Seq(S), NEW i \in 1 .. Len(s)
    PROVE  /\ RemoveAt(s, i) \in Seq(S)
           /\ i # 1 => RemoveAt(s, i) # <<>> /\ Head(RemoveAt(s, i)) = Head(s)
<1> DEFINE a == SubSeq(s, 1, i - 1)
           b == SubSeq(s, i + 1, Len(s))
<1>1. a \in Seq(S) /\ Len(a) = i - 1 /\ \A k \in 1 .. i - 1 : a[k] = s[k]
  BY SubSeqProperties, SMT
<1>2. b \in Seq(S)
  BY SubSeqProperties
<1> HIDE DEF a, b
<1>3. /\ a \o b \in Seq(S)
      /\ Len(a \o b) = Len(a) + Len(b)
      /\ \A k \in 1 .. Len(a) : (a \o b)[k] = a[k]
  BY <1>1, <1>2, ConcatKeepsPrefix
<1>4. RemoveAt(s, i) = a \o b
  BY DEF RemoveAt, a, b
<1>5. i # 1 => a \o b # <<>> /\ Head(a \o b) = Head(s)
  BY <1>1, <1>2, <1>3
<1> QED
  BY <1>3, <1>4, <1>5

\* Removing an element closes the gap and keeps the order.
LEMMA RemoveAtClosesGap ==
    ASSUME NEW S, NEW s \in Seq(S), NEW i \in 1 .. Len(s)
    PROVE  /\ RemoveAt(s, i) \in Seq(S) /\ Len(RemoveAt(s, i)) = Len(s) - 1
           /\ \A k \in 1 .. Len(s) - 1 : RemoveAt(s, i)[k] = IF k < i THEN s[k] ELSE s[k + 1]
<1> DEFINE a == SubSeq(s, 1, i - 1)
           b == SubSeq(s, i + 1, Len(s))
<1>1. a \in Seq(S) /\ Len(a) = i - 1 /\ \A k \in 1 .. i - 1 : a[k] = s[k]
  BY SubSeqProperties, SMT
<1>2. b \in Seq(S) /\ Len(b) = Len(s) - i /\ \A k \in 1 .. Len(s) - i : b[k] = s[i + k]
  <2>1. i + 1 \in 1 .. Len(s) + 1 /\ Len(s) \in i .. Len(s)
    BY LenProperties
  <2> QED
    BY <2>1, SubSeqProperties, SMT
<1> HIDE DEF a, b
<1>3. Len(s) \in Nat /\ Len(a) + Len(b) = Len(s) - 1
  BY <1>1, <1>2, LenProperties
<1>4. /\ a \o b \in Seq(S) /\ Len(a \o b) = Len(s) - 1
      /\ \A k \in 1 .. Len(s) - 1 :
            (a \o b)[k] = IF k <= Len(a) THEN a[k] ELSE b[k - Len(a)]
  <2>1. /\ a \o b \in Seq(S) /\ Len(a \o b) = Len(a) + Len(b)
        /\ \A k \in 1 .. Len(a) + Len(b) :
              (a \o b)[k] = IF k <= Len(a) THEN a[k] ELSE b[k - Len(a)]
    BY ONLY <1>1, <1>2, ConcatProperties
  <2> QED
    BY ONLY <1>3, <2>1
<1>5. RemoveAt(s, i) = a \o b
  BY DEF RemoveAt, a, b
<1>6. ASSUME NEW k \in 1 .. Len(s) - 1
      PROVE  (a \o b)[k] = IF k < i THEN s[k] ELSE s[k + 1]
  <2>1. CASE k < i
    BY <1>1, <1>4, <2>1
  <2>2. CASE k >= i
    <3>1. k - (i - 1) \in 1 .. Len(s) - i /\ i + (k - (i - 1)) = k + 1
      BY <2>2
    <3>2. b[k - (i - 1)] = s[k + 1]
      BY <1>2, <3>1
    <3>3. ~(k <= Len(a)) /\ k - Len(a) = k - (i - 1)
      BY <1>1, <2>2
    <3>4. (a \o b)[k] = b[k - (i - 1)]
      <4>1. (a \o b)[k] = IF k <= Len(a) THEN a[k] ELSE b[k - Len(a)]
        BY <1>4
      <4> QED
        BY ONLY <3>3, <4>1
    <3> QED
      BY <1>4, <2>2, <3>2, <3>4
  <2> QED
    BY <1>3, <2>1, <2>2
<1> QED
  BY <1>4, <1>5, <1>6

-----------------------------------------------------------------------------
(* Least and greatest *)

\* A set of numbers that is not empty has a least one.
LEMMA LeastOf ==
    ASSUME NEW T \in SUBSET Nat, T # {}
    PROVE  \E m \in T : \A k \in T : m <= k
<1> DEFINE R == {ss \in Nat \X Nat : ss[1] < ss[2]}
<1>1. IsWellFoundedOn(R, Nat)
  BY NatLessThanWellFounded DEF OpToRel
<1>2. \A x, y \in Nat : <<x, y>> \in R <=> x < y
  OBVIOUS
<1> HIDE DEF R
<1>3. PICK m \in T : \A k \in T : <<k, m>> \notin R
  BY <1>1, WFMin
<1>4. \A k \in T : ~(k < m)
  BY <1>2, <1>3
<1> QED
  BY <1>4

\* It is what Min yields.
LEMMA MinOf ==
    ASSUME NEW T \in SUBSET Nat, T # {}
    PROVE  Min(T) \in T /\ \A k \in T : Min(T) <= k
BY LeastOf DEF Min

\* And a greatest one, if it is bounded.
LEMMA GreatestOf ==
    ASSUME NEW n \in Nat, NEW T \in SUBSET (0 .. n), T # {}
    PROVE  \E m \in T : \A k \in T : k <= m
<1> DEFINE U == {k \in Nat : \E j \in T : k = n - j}
<1>1. U \in SUBSET Nat /\ U # {}
  <2>1. \A j \in T : n - j \in U
    BY DEF U
  <2> QED
    BY <2>1 DEF U
<1> HIDE DEF U
<1>2. PICK u \in U : \A k \in U : u <= k
  BY <1>1, LeastOf
<1>3. PICK j \in T : u = n - j
  BY <1>2 DEF U
<1>4. ASSUME NEW k \in T PROVE k <= j
  <2>1. n - k \in U
    BY <1>4 DEF U
  <2> QED
    BY <1>2, <1>3, <2>1
<1> QED
  BY <1>3, <1>4

-----------------------------------------------------------------------------
(* Induction and recursion.  The set of the numbers a statement holds for    *)
(* stands for the statement, a function of pairs for the step of a recursion.*)

\* A bounded set of numbers that is not empty has a greatest.
LEMMA MaxOf ==
    ASSUME NEW n \in Nat, NEW T \in SUBSET (0 .. n), T # {}
    PROVE  Max(T) \in T /\ \A k \in T : k <= Max(T)
<1>1. PICK m \in T : \A k \in T : k <= m
  BY GreatestOf
<1>2. \A k \in T : m >= k
  BY <1>1
<1>3. \E x \in T : \A y \in T : x >= y
  BY <1>2
<1>4. Max(T) \in T /\ \A y \in T : Max(T) >= y
  BY <1>3 DEF Max
<1>5. \A k \in T : k \in Nat
  OBVIOUS
<1> QED
  BY <1>4, <1>5

\* What holds for 0, and for n + 1 whenever for n, holds for every n.
LEMMA InductionOn ==
    ASSUME NEW T \in SUBSET Nat, 0 \in T, \A n \in T : n + 1 \in T
    PROVE  T = Nat
<1>1. CASE Nat \ T = {}
  BY <1>1
<1>2. CASE Nat \ T # {}
  <2>1. PICK m \in Nat \ T : \A k \in Nat \ T : m <= k
    BY <1>2, LeastOf
  <2>2. m \in Nat /\ m # 0
    BY <2>1
  <2>3. m - 1 \in Nat /\ m - 1 + 1 = m /\ ~(m <= m - 1)
    BY <2>2
  <2> QED
    BY <2>1, <2>3
<1> QED
  BY <1>1, <1>2

\* f starts with a and goes on step by step.
Iterates(f, N, V, a, step) ==
    /\ f \in [0 .. N -> V]
    /\ f[0] = a
    /\ \A n \in 1 .. N : f[n] = step[<<n, f[n - 1]>>]

\* A recursion along 0 .. N defines a function.
LEMMA RecursionExists ==
    ASSUME NEW V, NEW N \in Nat, NEW a \in V, NEW step \in [(1 .. N) \X V -> V]
    PROVE  \E f : Iterates(f, N, V, a, step)
<1> DEFINE Good(k, f) == f[0] = a /\ \A n \in 1 .. k : f[n] = step[<<n, f[n - 1]>>]
           T == {k \in Nat : k <= N => \E f \in [0 .. k -> V] : Good(k, f)}
<1>1. 0 \in T
  <2> DEFINE f == [i \in 0 .. 0 |-> a]
  <2>1. f \in [0 .. 0 -> V] /\ f[0] = a
    OBVIOUS
  <2> HIDE DEF f
  <2>2. Good(0, f)
    BY <2>1
  <2> QED
    BY <2>1, <2>2
<1>2. ASSUME NEW k \in T PROVE k + 1 \in T
  <2>1. k \in Nat /\ k + 1 \in Nat
    OBVIOUS
  <2> SUFFICES ASSUME k + 1 <= N PROVE \E f \in [0 .. k + 1 -> V] : Good(k + 1, f)
    BY <2>1
  <2>2. k <= N
    BY <2>1
  <2>3. PICK f \in [0 .. k -> V] : Good(k, f)
    BY <2>2
  <2> DEFINE x == step[<<k + 1, f[k]>>]
             g == [i \in 0 .. k + 1 |-> IF i = k + 1 THEN x ELSE f[i]]
  <2>4. x \in V
    <3>1. f[k] \in V /\ k + 1 \in 1 .. N
      BY <2>1
    <3> QED
      BY <3>1
  <2>5. \A i \in 0 .. k : i \in 0 .. k + 1 /\ i # k + 1
    BY <2>1
  <2>6. \A i \in 0 .. k + 1 : i = k + 1 \/ i \in 0 .. k
    BY <2>1
  <2>7. (\A i \in 0 .. k : g[i] = f[i]) /\ g[k + 1] = x /\ g \in [0 .. k + 1 -> V]
    <3>1. k + 1 \in 0 .. k + 1
      BY <2>1
    <3> HIDE DEF x
    <3> QED
      BY <2>4, <2>5, <2>6, <3>1
  <2> HIDE DEF g
  <2>8. ASSUME NEW n \in 1 .. k + 1 PROVE g[n] = step[<<n, g[n - 1]>>]
    <3>1. CASE n = k + 1
      <4>1. n - 1 = k /\ k \in 0 .. k
        BY <2>1, <3>1
      <4> QED
        BY <2>7, <3>1, <4>1
    <3>2. CASE n \in 1 .. k
      <4>1. n \in 0 .. k /\ n - 1 \in 0 .. k
        BY <2>1, <3>2
      <4> QED
        BY <2>3, <2>7, <3>2, <4>1
    <3> QED
      BY <2>1, <3>1, <3>2
  <2>9. 0 \in 0 .. k
    BY <2>1
  <2>10. Good(k + 1, g)
    BY <2>3, <2>7, <2>8, <2>9
  <2> QED
    BY <2>7, <2>10
<1>3. T \in SUBSET Nat
  OBVIOUS
<1> HIDE DEF T
<1>4. T = Nat
  BY <1>1, <1>2, <1>3, InductionOn
<1>5. N \in T
  BY <1>4
<1>6. \E f \in [0 .. N -> V] : Good(N, f)
  BY <1>5 DEF T
<1> QED
  BY <1>6 DEF Iterates

\* A number times another is at most the same number times a greater one, and back.
LEMMA TimesOrder ==
    ASSUME NEW y \in Nat \ {0}, NEW a \in Int, NEW b \in Int
    PROVE  /\ y * a \in Int /\ y * b \in Int
           /\ y * a <= y * b <=> a <= b
           /\ y * a < y * b <=> a < b
           /\ y * (a + b) = y * a + y * b
           /\ y * (a - b) = y * a - y * b
OBVIOUS

\* The quotient of a division by a positive number, and its remainder.
LEMMA QuotientOf ==
    ASSUME NEW a \in Int, NEW b \in Nat \ {0}
    PROVE  /\ a \div b \in Int
           /\ b * (a \div b) <= a /\ a < b * (a \div b) + b
           /\ a >= 0 => a \div b \in Nat
<1> DEFINE q == a \div b
<1>1. q \in Int
  OBVIOUS
<1>2. a = b * q + (a % b) /\ 0 <= a % b /\ a % b < b /\ a % b \in Int
  OBVIOUS
<1>3. b * q \in Int
  BY <1>1
<1>4. a >= 0 => q >= 0
  <2> SUFFICES ASSUME a >= 0, q <= -1 PROVE FALSE
    BY <1>1
  <2>1. b * q <= b * (-1)
    BY <1>1
  <2> QED
    BY <1>2, <1>3, <2>1
<1> HIDE DEF q
<1>5. b * q <= a /\ a < b * q + b
  BY <1>2, <1>3
<1> QED
  BY <1>1, <1>4, <1>5 DEF q

\* A bounded set of integers that is not empty has a greatest.
LEMMA MaxOfIntegers ==
    ASSUME NEW a \in Int, NEW b \in Int, NEW T \in SUBSET (a .. b), T # {}
    PROVE  Max(T) \in T /\ \A k \in T : k <= Max(T)
<1> DEFINE U == {j \in Nat : \E k \in T : j = b - k}
<1>1. U \in SUBSET Nat /\ U # {} /\ \A k \in T : b - k \in U
  <2>1. \A k \in T : b - k \in Nat
    OBVIOUS
  <2>2. \A k \in T : b - k \in U
    BY <2>1
  <2> QED
    BY <2>2
<1> HIDE DEF U
<1>2. PICK u \in U : \A j \in U : u <= j
  BY <1>1, LeastOf
<1>3. PICK m \in T : u = b - m
  BY <1>2 DEF U
<1>4. ASSUME NEW k \in T PROVE m >= k
  <2>1. u <= b - k
    BY <1>1, <1>2
  <2>2. m \in Int /\ k \in Int
    OBVIOUS
  <2> QED
    BY <1>3, <2>1, <2>2
<1>5. \E x \in T : \A y \in T : x >= y
  BY <1>4
<1>6. Max(T) \in T /\ \A y \in T : Max(T) >= y
  BY <1>5 DEF Max
<1>7. \A k \in T : k \in Int
  OBVIOUS
<1> QED
  BY <1>6, <1>7

\* And the least.
LEMMA MinOfIntegers ==
    ASSUME NEW a \in Int, NEW b \in Int, NEW T \in SUBSET (a .. b), T # {}
    PROVE  Min(T) \in T /\ \A k \in T : Min(T) <= k
<1> DEFINE U == {j \in Nat : \E k \in T : j = k - a}
<1>1. U \in SUBSET Nat /\ U # {} /\ \A k \in T : k - a \in U
  <2>1. \A k \in T : k - a \in Nat
    OBVIOUS
  <2>2. \A k \in T : k - a \in U
    BY <2>1
  <2> QED
    BY <2>2
<1> HIDE DEF U
<1>2. PICK u \in U : \A j \in U : u <= j
  BY <1>1, LeastOf
<1>3. PICK m \in T : u = m - a
  BY <1>2 DEF U
<1>4. ASSUME NEW k \in T PROVE m <= k
  <2>1. u <= k - a
    BY <1>1, <1>2
  <2>2. m \in Int /\ k \in Int
    OBVIOUS
  <2> QED
    BY <1>3, <2>1, <2>2
<1>5. \E x \in T : \A y \in T : x <= y
  BY <1>4
<1> QED
  BY <1>5 DEF Min

\* f joins the elements of a set one by one, in the order in which they are picked.
Gathers(f, S, V, base, pick, join) ==
    /\ f \in [SUBSET S -> V]
    /\ f = [s \in SUBSET S |-> IF s = {} THEN base ELSE join[<<pick[s], f[s \ {pick[s]}]>>]]

\* A recursion over the subsets of a finite set that takes one element away at a time
\* defines a function.
LEMMA RecursionOnSubsets ==
    ASSUME NEW S, IsFiniteSet(S), NEW V, NEW base \in V, NEW pick,
           \A s \in SUBSET S : s # {} => pick[s] \in s,
           NEW join \in [S \X V -> V]
    PROVE  \E f : Gathers(f, S, V, base, pick, join)
<1> DEFINE N == Cardinality(S)
           U == [SUBSET S -> V]
           Next(f) == [s \in SUBSET S |-> IF s = {} THEN base
                                          ELSE join[<<pick[s], f[s \ {pick[s]}]>>]]
           step == [p \in (1 .. N + 1) \X U |-> Next(p[2])]
           a == [s \in SUBSET S |-> base]
<1>1. N \in Nat
  BY FS_CardinalityType
<1>2. ASSUME NEW s \in SUBSET S, s # {} PROVE pick[s] \in S /\ s \ {pick[s]} \in SUBSET S
  BY <1>2
<1>3. ASSUME NEW f \in U PROVE Next(f) \in U
  <2>1. ASSUME NEW s \in SUBSET S, s # {} PROVE join[<<pick[s], f[s \ {pick[s]}]>>] \in V
    BY <1>2, <2>1
  <2> QED
    BY <2>1
<1>4. step \in [(1 .. N + 1) \X U -> U]
  <2> HIDE DEF Next, U
  <2> QED
    BY <1>3
<1>5. a \in U
  OBVIOUS
<1>6. N + 1 \in Nat
  BY <1>1
<1> HIDE DEF step, a, N
<1>7. PICK g : Iterates(g, N + 1, U, a, step)
  <2> HIDE DEF U
  <2> QED
    BY <1>4, <1>5, <1>6, RecursionExists
<1>8. /\ \A n \in 0 .. N + 1 : g[n] \in U
      /\ \A n \in 0 .. N : n \in 0 .. N + 1 /\ n + 1 \in 0 .. N + 1 /\ g[n + 1] = Next(g[n])
  <2>1. g \in [0 .. N + 1 -> U] /\ \A n \in 1 .. N + 1 : g[n] = step[<<n, g[n - 1]>>]
    BY <1>7 DEF Iterates
  <2>2. ASSUME NEW n \in 0 .. N
        PROVE  n \in 0 .. N + 1 /\ n + 1 \in 0 .. N + 1 /\ n + 1 \in 1 .. N + 1 /\ (n + 1) - 1 = n
    BY <1>1
  <2>3. ASSUME NEW n \in 0 .. N PROVE g[n + 1] = Next(g[n])
    <3>1. g[n + 1] = step[<<n + 1, g[n]>>] /\ n + 1 \in 1 .. N + 1 /\ g[n] \in U
      BY <2>1, <2>2
    <3> HIDE DEF Next, U
    <3> QED
      BY <3>1 DEF step
  <2> HIDE DEF Next, U
  <2> QED
    BY <2>1, <2>2, <2>3
<1>9. ASSUME NEW s \in SUBSET S
      PROVE  /\ IsFiniteSet(s) /\ Cardinality(s) \in Nat /\ Cardinality(s) <= N
             /\ s # {} => Cardinality(s) > 0 /\ Cardinality(s \ {pick[s]}) = Cardinality(s) - 1
  <2>1. IsFiniteSet(s) /\ Cardinality(s) <= N
    BY FS_Subset DEF N
  <2>2. Cardinality(s) \in Nat /\ (s # {} => Cardinality(s) # 0)
    BY <2>1, FS_CardinalityType, FS_EmptySet
  <2>3. s # {} => Cardinality(s \ {pick[s]}) = Cardinality(s) - 1
    <3>1. s # {} => pick[s] \in s
      OBVIOUS
    <3> QED
      BY <2>1, <3>1, FS_RemoveElement
  <2> QED
    BY <2>1, <2>2, <2>3
\* From its n-th iterate on, the function is settled on the sets of n elements.
<1> DEFINE T == {n \in Nat : n <= N =>
                    \A s \in SUBSET S : Cardinality(s) <= n => g[n + 1][s] = g[n][s]}
<1>10. 0 \in T
  <2>1. ASSUME NEW s \in SUBSET S, Cardinality(s) <= 0 PROVE s = {}
    <3>1. Cardinality(s) \in Nat /\ (s # {} => Cardinality(s) > 0)
      BY <1>9
    <3> QED
      BY ONLY <2>1, <3>1
  <2>2. 0 \in 0 .. N
    BY <1>1
  <2>3. g[0 + 1] = Next(g[0]) /\ g[0] = a
    BY <1>7, <1>8, <2>2 DEF Iterates
  <2>4. {} \in SUBSET S
    OBVIOUS
  <2>5. g[0 + 1][{}] = base /\ g[0][{}] = base
    BY <2>3, <2>4 DEF a
  <2> QED
    BY <2>1, <2>5
<1>11. ASSUME NEW n \in T PROVE n + 1 \in T
  <2>1. n \in Nat /\ n + 1 \in Nat
    OBVIOUS
  <2> SUFFICES ASSUME n + 1 <= N, NEW s \in SUBSET S, Cardinality(s) <= n + 1
               PROVE  g[n + 1 + 1][s] = g[n + 1][s]
    BY <2>1
  <2>2. n \in 0 .. N /\ n + 1 \in 0 .. N /\ n <= N
    BY <1>1, <2>1
  <2>3. g[n + 1 + 1] = Next(g[n + 1]) /\ g[n + 1] = Next(g[n])
    BY <1>8, <2>2
  <2>4. CASE s = {}
    BY <2>3, <2>4
  <2>5. CASE s # {}
    <3> DEFINE r == s \ {pick[s]}
    <3>1. r \in SUBSET S /\ Cardinality(r) <= n
      <4>1. Cardinality(r) = Cardinality(s) - 1 /\ Cardinality(s) \in Nat /\ r \in SUBSET S
        BY <1>2, <1>9, <2>5
      <4> HIDE DEF r
      <4> QED
        BY <2>1, <4>1
    <3>2. g[n + 1][r] = g[n][r]
      BY <2>2, <3>1
    <3>3. g[n + 1 + 1][s] = join[<<pick[s], g[n + 1][r]>>] /\ g[n + 1][s] = join[<<pick[s], g[n][r]>>]
      BY <2>3, <2>5
    <3> QED
      BY <3>2, <3>3
  <2> QED
    BY <2>4, <2>5
<1>12. N \in T
  <2>1. T \in SUBSET Nat
    OBVIOUS
  <2> HIDE DEF T
  <2>2. T = Nat
    BY <1>10, <1>11, <2>1, InductionOn
  <2> QED
    BY <1>1, <2>2
<1>13. \A s \in SUBSET S : g[N + 1][s] = g[N][s]
  <2>1. \A s \in SUBSET S : Cardinality(s) <= N
    BY <1>9
  <2> QED
    BY <1>1, <1>12, <2>1
<1>14. N \in 0 .. N /\ N \in 0 .. N + 1
  BY <1>1
<1> DEFINE f == g[N]
<1>15. f \in U /\ g[N + 1] = Next(f) /\ g[N + 1] \in U
  BY <1>8, <1>14
<1> HIDE DEF f
<1>16. f = Next(f)
  <2>1. \A s \in SUBSET S : Next(f)[s] = f[s]
    BY <1>13, <1>15 DEF f
  <2>2. Next(f) \in U
    BY <1>15
  <2> HIDE DEF Next
  <2> QED
    BY <1>15, <2>1, <2>2
<1>17. Gathers(f, S, V, base, pick, join)
  BY <1>15, <1>16 DEF Gathers
<1> QED
  BY <1>17

=============================================================================
