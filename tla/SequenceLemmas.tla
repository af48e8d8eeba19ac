--------------------------- MODULE SequenceLemmas ---------------------------
(***************************************************************************)
(* What the operators on lists return, for lists of any length: Pick of    *)
(* Subsequences, SetToSeq and SumFunctionOnSet; and induction and          *)
(* recursion over anything that has a rank.  Both are over sets, which     *)
(* need no operator as a parameter.                                        *)
(***************************************************************************)
EXTENDS Subsequences, SequencesExt, FiniteSetTheorems, TLAPS

\* A set of numbers that has one has a least one.
LEMMA Least ==
    ASSUME NEW S \in SUBSET Nat, S # {}
    PROVE  \E m \in S : \A n \in S : m <= n
<1> DEFINE R == {p \in Nat \X Nat : p[1] < p[2]}
<1>1. IsWellFoundedOn(R, Nat)
    BY NatLessThanWellFounded DEF OpToRel
<1>2. \E x \in S : \A y \in S : ~ (<<y, x>> \in R)
  <2> HIDE DEF R
  <2> QED BY <1>1, WFMin
<1>3. PICK x \in S : \A y \in S : ~ (<<y, x>> \in R)
    BY <1>2
<1>4. \A y \in S : ~ (y < x)
  <2>1. \A y \in S : y < x => <<y, x>> \in R
      OBVIOUS
  <2> HIDE DEF R
  <2> QED BY <1>3, <2>1
<1>5. \A y \in S : y \in Nat
    OBVIOUS
<1>6. \A y \in S : x <= y
  <2>1. x \in Nat
      BY <1>5
  <2> QED BY <1>4, <1>5, <2>1
<1> QED BY <1>6

\* A bounded set of numbers that has one has a greatest one.
LEMMA Greatest ==
    ASSUME NEW N \in Nat, NEW S \in SUBSET (0 .. N), S # {}
    PROVE  \E m \in S : \A n \in S : n <= m
<1> DEFINE T == {N - i : i \in S}
<1>0. \A i \in S : i \in Int /\ N - i \in Nat
    OBVIOUS
<1>1. T \in SUBSET Nat /\ T # {}
    BY <1>0
<1>2. PICK k \in T : \A n \in T : k <= n
  <2> HIDE DEF T
  <2> QED BY <1>1, Least
<1>3. PICK m \in S : k = N - m
    OBVIOUS
<1>4. ASSUME NEW n \in S PROVE n <= m
  <2>1. N - m <= N - n
      BY <1>2, <1>3
  <2>2. m \in Int /\ n \in Int
      BY <1>0
  <2> QED BY <2>1, <2>2
<1> QED BY <1>4

\* A set of numbers with 0 and with n + 1 for each n of its own has them all.
LEMMA Induction ==
    ASSUME NEW S \in SUBSET Nat, 0 \in S, \A n \in S : n + 1 \in S
    PROVE  \A n \in Nat : n \in S
<1> DEFINE T == Nat \ S
<1>1. SUFFICES ASSUME T # {} PROVE FALSE
    OBVIOUS
<1>2. PICK x \in T : \A y \in T : x <= y
  <2>1. T \in SUBSET Nat
      OBVIOUS
  <2> HIDE DEF T
  <2> QED BY <1>1, <2>1, Least
<1>3. x # 0 /\ x - 1 \in Nat /\ ~ (x <= x - 1)
    OBVIOUS
<1>4. x - 1 \in S
    BY <1>2, <1>3
<1> QED BY <1>3, <1>4

\* Two functions that take the same steps from the same start agree.
StepAlike(g, h, N) == g[0] = h[0] /\ \A n \in 1 .. N : g[n - 1] = h[n - 1] => g[n] = h[n]

LEMMA SameSteps ==
    ASSUME NEW N \in Nat, NEW g, NEW h, StepAlike(g, h, N)
    PROVE  \A n \in 0 .. N : g[n] = h[n]
<1> DEFINE T == {n \in Nat : n <= N => g[n] = h[n]}
<1>0. g[0] = h[0] /\ \A n \in 1 .. N : g[n - 1] = h[n - 1] => g[n] = h[n]
    BY DEF StepAlike
<1>1. 0 \in T
    BY <1>0
<1>2. ASSUME NEW n \in T
      PROVE  n + 1 \in T
  <2>1. n \in Nat /\ n + 1 \in Nat /\ (n + 1) - 1 = n
      OBVIOUS
  <2>2. n + 1 <= N => n <= N /\ n + 1 \in 1 .. N
      BY <2>1
  <2>3. n + 1 <= N => g[n + 1] = h[n + 1]
      BY <1>0, <2>1, <2>2
  <2> QED BY <2>1, <2>3
<1>3. \A n \in Nat : n \in T
  <2>1. T \in SUBSET Nat
      OBVIOUS
  <2> HIDE DEF T
  <2> QED BY <1>1, <1>2, <2>1, Induction
<1> QED BY <1>3

\* How many elements of a set of numbers are no larger than i.
Rank(is, i) == Cardinality({j \in is : j <= i})

LEMMA RankFacts ==
    ASSUME NEW is \in SUBSET Int, IsFiniteSet(is)
    PROVE  /\ \A i \in is : Rank(is, i) \in 1 .. Cardinality(is)
           /\ \A i, j \in is : i < j => Rank(is, i) < Rank(is, j)
<1>1. ASSUME NEW i \in is
      PROVE  Rank(is, i) \in 1 .. Cardinality(is)
  <2> DEFINE below == {j \in is : j <= i}
  <2>1. below \in SUBSET is /\ i \in below
      OBVIOUS
  <2>2. IsFiniteSet(below) /\ Cardinality(below) <= Cardinality(is)
      BY <2>1, FS_Subset
  <2>3. Cardinality(below) \in Nat /\ Cardinality(is) \in Nat /\ Cardinality(below) # 0
    <3> HIDE DEF below
    <3> QED BY <2>1, <2>2, FS_CardinalityType, FS_EmptySet
  <2> QED BY <2>2, <2>3 DEF Rank
<1>2. ASSUME NEW i \in is, NEW j \in is, i < j
      PROVE  Rank(is, i) < Rank(is, j)
  <2> DEFINE low == {k \in is : k <= i}
             high == {k \in is : k <= j}
  <2>0. j \in high /\ j \notin low /\ \A k \in is : k <= i => k <= j
      BY <1>2
  <2>1. low \in SUBSET high /\ low # high /\ high \in SUBSET is
      BY <2>0
  <2>2. IsFiniteSet(high)
      BY <2>1, FS_Subset
  <2>3. Cardinality(low) <= Cardinality(high) /\ Cardinality(low) # Cardinality(high)
      BY <2>1, <2>2, FS_Subset
  <2>4. Cardinality(low) \in Nat /\ Cardinality(high) \in Nat
      BY <2>1, <2>2, FS_Subset, FS_CardinalityType
  <2> QED BY <2>3, <2>4 DEF Rank
<1> QED BY <1>1, <1>2

\* Ascending is an enumeration of its set, in order.
LEMMA AscendingFacts ==
    ASSUME NEW is \in SUBSET Int, IsFiniteSet(is)
    PROVE  /\ Cardinality(is) \in Nat
           /\ Ascending(is) \in [1 .. Cardinality(is) -> is]
           /\ \A k \in 1 .. Cardinality(is) : Rank(is, Ascending(is)[k]) = k
           /\ \A k, l \in 1 .. Cardinality(is) : k < l => Ascending(is)[k] < Ascending(is)[l]
           /\ \A i \in is : Rank(is, i) \in 1 .. Cardinality(is) /\ Ascending(is)[Rank(is, i)] = i
<1> DEFINE n == Cardinality(is)
           r == [i \in is |-> Rank(is, i)]
<1>1. n \in Nat
    BY FS_CardinalityType
<1>2. r \in [is -> 1 .. n]
    BY RankFacts
<1>3. ASSUME NEW i \in is, NEW j \in is, Rank(is, i) = Rank(is, j)
      PROVE  i = j
    BY <1>3, RankFacts
<1>4. r \in Injection(is, 1 .. n)
    BY <1>2, <1>3 DEF Injection, IsInjective
<1>5. IsFiniteSet(1 .. n) /\ Cardinality(1 .. n) = n
    BY <1>1, FS_Interval
<1>6. r \in Surjection(is, 1 .. n)
  <2> HIDE DEF r
  <2> QED BY <1>4, <1>5, FS_Injection
<1>7. \A k \in 1 .. n : \E i \in is : Rank(is, i) = k
    BY <1>6 DEF Surjection
<1>8. \A k \in 1 .. n : Ascending(is)[k] \in is /\ Rank(is, Ascending(is)[k]) = k
    BY <1>7 DEF Ascending, Rank
<1>9. Ascending(is) \in [1 .. n -> is]
    BY <1>8 DEF Ascending
<1>10. ASSUME NEW k \in 1 .. n, NEW l \in 1 .. n, k < l
       PROVE  Ascending(is)[k] < Ascending(is)[l]
  <2> DEFINE a == Ascending(is)[k]
             b == Ascending(is)[l]
  <2>1. a \in is /\ b \in is /\ Rank(is, a) = k /\ Rank(is, b) = l
      BY <1>8
  <2>2. a \in Int /\ b \in Int /\ k \in Int /\ l \in Int
    <3> HIDE DEF a, b, n, r
    <3>1. \A i \in is : i \in Int
        OBVIOUS
    <3> QED BY <1>1, <2>1, <3>1
  <2>3. CASE b < a
    <3>1. Rank(is, b) < Rank(is, a)
        BY <2>1, <2>3, RankFacts
    <3> QED BY <1>10, <2>1, <2>2, <3>1
  <2>4. CASE b = a
      BY <1>10, <2>1, <2>4
  <2> QED BY <2>2, <2>3, <2>4
<1>11. \A i \in is : Rank(is, i) \in 1 .. n /\ Ascending(is)[Rank(is, i)] = i
    BY <1>3, <1>8, RankFacts
<1> QED BY <1>1, <1>8, <1>9, <1>10, <1>11

\* There is only one enumeration in order.
LEMMA AscendingUnique ==
    ASSUME NEW is \in SUBSET Int, NEW n \in Nat, NEW e \in [1 .. n -> is],
           \A k, l \in 1 .. n : k < l => e[k] < e[l],
           \A i \in is : \E k \in 1 .. n : e[k] = i
    PROVE  IsFiniteSet(is) /\ Cardinality(is) = n /\ Ascending(is) = e
<1>1. \A k, l \in 1 .. n : e[k] = e[l] => k = l
  <2>1. SUFFICES ASSUME NEW k \in 1 .. n, NEW l \in 1 .. n, e[k] = e[l], k # l PROVE FALSE
      OBVIOUS
  <2>2. e[k] \in Int /\ e[l] \in Int
      OBVIOUS
  <2>3. CASE k < l
      BY <2>1, <2>2, <2>3
  <2>4. CASE l < k
      BY <2>1, <2>2, <2>4
  <2> QED BY <2>1, <2>3, <2>4
<1>2. IsFiniteSet(1 .. n) /\ Cardinality(1 .. n) = n
    BY FS_Interval
<1>3. e \in Bijection(1 .. n, is)
    BY <1>1 DEF Bijection, Injection, Surjection, IsInjective
<1>4. IsFiniteSet(is) /\ Cardinality(is) = n
    BY <1>2, <1>3, FS_Bijection DEF ExistsBijection
<1>5. ASSUME NEW k \in 1 .. n
      PROVE  Rank(is, e[k]) = k
  <2> DEFINE below == {j \in is : j <= e[k]}
             d == [m \in 1 .. k |-> e[m]]
  <2>1. \A m \in 1 .. n : e[m] <= e[k] <=> m \in 1 .. k
    <3>1. SUFFICES ASSUME NEW m \in 1 .. n PROVE e[m] <= e[k] <=> m \in 1 .. k
        OBVIOUS
    <3> HIDE DEF below, d
    <3>2. e[m] \in Int /\ e[k] \in Int /\ m \in Int /\ k \in Int
      <4>1. e[m] \in is /\ e[k] \in is /\ m \in Int /\ k \in Int
          OBVIOUS
      <4>2. \A i \in is : i \in Int
          OBVIOUS
      <4> QED BY <4>1, <4>2
    <3>3. CASE m < k
        BY <3>2, <3>3
    <3>4. CASE m = k
        BY <3>2, <3>4
    <3>5. CASE k < m
        BY <3>2, <3>5
    <3> QED BY <3>2, <3>3, <3>4, <3>5
  <2>2. 1 .. k \subseteq 1 .. n
      OBVIOUS
  <2>3. d \in [1 .. k -> below]
      BY <2>1, <2>2
  <2>4. \A i \in below : \E m \in 1 .. k : d[m] = i
      BY <2>1
  <2>5. \A m, l \in 1 .. k : d[m] = d[l] => m = l
      BY <1>1, <2>2
  <2>6. d \in Bijection(1 .. k, below)
    <3> HIDE DEF d, below
    <3> QED BY <2>3, <2>4, <2>5 DEF Bijection, Injection, Surjection, IsInjective
  <2>7. IsFiniteSet(1 .. k) /\ Cardinality(1 .. k) = k
      BY FS_Interval
  <2>8. Cardinality(below) = k
    <3> HIDE DEF d, below
    <3> QED BY <2>6, <2>7, FS_Bijection DEF ExistsBijection
  <2> QED BY <2>8 DEF Rank
<1>6. \A k \in 1 .. n : e[k] = Ascending(is)[k]
    BY <1>4, <1>5, AscendingFacts
<1>7. Ascending(is) \in [1 .. n -> is]
    BY <1>4, AscendingFacts
<1> QED BY <1>4, <1>6, <1>7

\* What Pick takes out of a list.
LEMMA PickFacts ==
    ASSUME NEW S, NEW s \in Seq(S), NEW is \in SUBSET (1 .. Len(s))
    PROVE  /\ IsFiniteSet(is) /\ Cardinality(is) \in 0 .. Len(s)
           /\ Pick(s, is) \in Seq(S) /\ Len(Pick(s, is)) = Cardinality(is)
           /\ Range(Pick(s, is)) = {s[i] : i \in is}
           /\ IsInjective(s) => IsInjective(Pick(s, is))
<1> DEFINE n == Cardinality(is)
           e == Ascending(is)
<1>0. Len(s) \in Nat /\ DOMAIN s = 1 .. Len(s) /\ \A i \in 1 .. Len(s) : s[i] \in S
    OBVIOUS
<1>1. IsFiniteSet(1 .. Len(s)) /\ Cardinality(1 .. Len(s)) = Len(s)
    BY <1>0, FS_Interval
<1>2. IsFiniteSet(is) /\ n <= Len(s) /\ n \in Nat
  <2>1. IsFiniteSet(is) /\ Cardinality(is) <= Cardinality(1 .. Len(s))
      BY <1>1, FS_Subset
  <2> QED BY <1>1, <2>1, FS_CardinalityType
<1>3. /\ is \in SUBSET Int
      /\ e \in [1 .. n -> is]
      /\ \A i \in is : \E k \in 1 .. n : e[k] = i
      /\ \A k, l \in 1 .. n : k < l => e[k] < e[l]
    BY <1>2, AscendingFacts
<1> HIDE DEF n, e
<1>4. Pick(s, is) = [k \in 1 .. n |-> s[e[k]]]
    BY <1>3 DEF Pick, e
<1>5. \A k \in 1 .. n : e[k] \in is /\ e[k] \in 1 .. Len(s) /\ s[e[k]] \in S
  <2>1. SUFFICES ASSUME NEW k \in 1 .. n PROVE e[k] \in is /\ e[k] \in 1 .. Len(s) /\ s[e[k]] \in S
      OBVIOUS
  <2>2. e[k] \in is
      BY <1>3
  <2> QED BY <1>0, <2>2
<1>6. Pick(s, is) \in Seq(S) /\ Len(Pick(s, is)) = n
    BY <1>2, <1>4, <1>5
<1>7. Range(Pick(s, is)) = {s[i] : i \in is}
  <2>1. Range(Pick(s, is)) = {s[e[k]] : k \in 1 .. n}
      BY <1>4 DEF Range
  <2>2. \A k \in 1 .. n : s[e[k]] \in {s[i] : i \in is}
      BY <1>5
  <2>3. \A i \in is : s[i] \in {s[e[k]] : k \in 1 .. n}
      BY <1>3
  <2> QED BY <2>1, <2>2, <2>3
<1>8. ASSUME IsInjective(s), NEW k \in 1 .. n, NEW l \in 1 .. n, s[e[k]] = s[e[l]]
      PROVE  k = l
  <2>1. e[k] = e[l]
      BY <1>5, <1>8 DEF IsInjective
  <2>2. e[k] \in Int /\ e[l] \in Int /\ k \in Int /\ l \in Int
      BY <1>3, <1>5, <1>2
  <2>3. ~ (k < l) /\ ~ (l < k)
      BY <1>3, <2>1, <2>2
  <2> QED BY <2>2, <2>3
<1>9. IsInjective(s) => IsInjective(Pick(s, is))
    BY <1>4, <1>8 DEF IsInjective
<1> QED BY <1>2, <1>6, <1>7, <1>9 DEF n

\* The first positions are the first part of the list.
LEMMA PickPrefix ==
    ASSUME NEW S, NEW s \in Seq(S), NEW n \in 0 .. Len(s)
    PROVE  Pick(s, 1 .. n) = SubSeq(s, 1, n)
<1> DEFINE e == [k \in 1 .. n |-> k]
<1>1. n \in Nat /\ 1 .. n \in SUBSET Int /\ e \in [1 .. n -> 1 .. n]
    OBVIOUS
<1>2. \A k, l \in 1 .. n : k < l => e[k] < e[l]
    OBVIOUS
<1>3. \A i \in 1 .. n : \E k \in 1 .. n : e[k] = i
    OBVIOUS
<1>4. Ascending(1 .. n) = e
  <2> HIDE DEF e
  <2> QED BY <1>1, <1>2, <1>3, AscendingUnique
<1>5. Pick(s, 1 .. n) = [k \in 1 .. n |-> s[k]]
    BY <1>4 DEF Pick
<1> QED BY <1>1, <1>5

\* Positions that come after others bring their elements after theirs.
LEMMA PickConcat ==
    ASSUME NEW S, NEW s \in Seq(S),
           NEW is \in SUBSET (1 .. Len(s)), NEW js \in SUBSET (1 .. Len(s)),
           \A i \in is, j \in js : i < j
    PROVE  Pick(s, is \cup js) = Pick(s, is) \o Pick(s, js)
<1> DEFINE m == Cardinality(is)
           n == Cardinality(js)
           d == Ascending(is)
           b == Ascending(js)
           e == [k \in 1 .. m + n |-> IF k <= m THEN d[k] ELSE b[k - m]]
<1>1. IsFiniteSet(is) /\ IsFiniteSet(js)
    BY PickFacts
<1>2. /\ is \in SUBSET Int /\ js \in SUBSET Int
      /\ m \in Nat /\ n \in Nat
      /\ d \in [1 .. m -> is] /\ b \in [1 .. n -> js]
      /\ \A k, l \in 1 .. m : k < l => d[k] < d[l]
      /\ \A k, l \in 1 .. n : k < l => b[k] < b[l]
      /\ \A i \in is : \E k \in 1 .. m : d[k] = i
      /\ \A i \in js : \E k \in 1 .. n : b[k] = i
    BY <1>1, AscendingFacts
<1>3. Pick(s, is) = [k \in 1 .. m |-> s[d[k]]] /\ Pick(s, js) = [k \in 1 .. n |-> s[b[k]]]
    BY <1>2 DEF Pick
<1> HIDE DEF m, n, d, b
<1>4. /\ m + n \in Nat /\ is \cup js \in SUBSET Int
      /\ \A k \in 1 .. m + n : \/ k \in 1 .. m /\ e[k] = d[k]
                               \/ k > m /\ k - m \in 1 .. n /\ e[k] = b[k - m]
    BY <1>2
<1>5. e \in [1 .. m + n -> is \cup js]
  <2>1. \A k \in 1 .. m + n : e[k] \in is \cup js
      BY <1>2, <1>4
  <2> QED BY <2>1
<1>6. \A k, l \in 1 .. m + n : k < l => e[k] < e[l]
  <2>1. SUFFICES ASSUME NEW k \in 1 .. m + n, NEW l \in 1 .. m + n, k < l PROVE e[k] < e[l]
      OBVIOUS
  <2> HIDE DEF e
  <2>2. CASE k \in 1 .. m /\ l \in 1 .. m
    <3>1. e[k] = d[k] /\ e[l] = d[l]
        BY <1>2, <1>4, <2>2
    <3> QED BY <1>2, <2>1, <2>2, <3>1
  <2>3. CASE k \in 1 .. m /\ l > m
    <3>1. e[k] = d[k] /\ l - m \in 1 .. n /\ e[l] = b[l - m]
        BY <1>2, <1>4, <2>3
    <3> QED BY <1>2, <2>3, <3>1
  <2>4. CASE k > m /\ l > m
    <3>1. /\ e[k] = b[k - m] /\ k - m \in 1 .. n
          /\ e[l] = b[l - m] /\ l - m \in 1 .. n /\ k - m < l - m
        BY <1>2, <1>4, <2>1, <2>4
    <3> QED BY <1>2, <3>1
  <2> QED BY <1>2, <2>1, <2>2, <2>3, <2>4
<1>7. \A i \in is \cup js : \E k \in 1 .. m + n : e[k] = i
  <2>1. ASSUME NEW i \in is
        PROVE  \E k \in 1 .. m + n : e[k] = i
    <3>1. PICK k \in 1 .. m : d[k] = i
        BY <1>2
    <3> QED BY <1>2, <3>1
  <2>2. ASSUME NEW i \in js
        PROVE  \E k \in 1 .. m + n : e[k] = i
    <3>1. PICK k \in 1 .. n : b[k] = i
        BY <1>2
    <3>2. k + m \in 1 .. m + n /\ e[k + m] = b[k]
        BY <1>2
    <3> QED BY <3>1, <3>2
  <2> QED BY <2>1, <2>2
<1>8. Ascending(is \cup js) = e
  <2> HIDE DEF e
  <2> QED BY <1>4, <1>5, <1>6, <1>7, AscendingUnique
<1>9. Pick(s, is) \in Seq(S) /\ Pick(s, js) \in Seq(S) /\ Len(Pick(s, is)) = m /\ Len(Pick(s, js)) = n
    BY <1>2, PickFacts DEF m, n
<1>10. DOMAIN e = 1 .. m + n
    OBVIOUS
<1> DEFINE whole == Pick(s, is \cup js)
           parts == Pick(s, is) \o Pick(s, js)
<1>11. whole = [k \in 1 .. m + n |-> s[e[k]]]
  <2> HIDE DEF e
  <2> QED BY <1>8, <1>10 DEF Pick
<1>12. parts \in Seq(S) /\ Len(parts) = m + n
  <2>1. \A a, b2 \in Seq(S) : a \o b2 \in Seq(S) /\ Len(a \o b2) = Len(a) + Len(b2)
      OBVIOUS
  <2> QED BY <1>9, <2>1
<1>13. \A k \in 1 .. m + n : parts[k] = s[e[k]]
  <2>1. SUFFICES ASSUME NEW k \in 1 .. m + n PROVE parts[k] = s[e[k]]
      OBVIOUS
  <2>2. parts[k] = IF k <= m THEN Pick(s, is)[k] ELSE Pick(s, js)[k - m]
    <3>1. \A a, b2 \in Seq(S) : \A j \in 1 .. Len(a) + Len(b2) :
              (a \o b2)[j] = IF j <= Len(a) THEN a[j] ELSE b2[j - Len(a)]
        OBVIOUS
    <3> QED BY <1>9, <3>1
  <2>3. CASE k \in 1 .. m
      BY <1>2, <1>3, <1>4, <2>2, <2>3
  <2>4. CASE k > m
      BY <1>2, <1>3, <1>4, <2>2, <2>4
  <2>5. k \in 1 .. m \/ k > m
    <3> HIDE DEF e, parts, whole
    <3> QED BY <1>2
  <2> QED BY <2>3, <2>4, <2>5
<1> HIDE DEF parts, whole
<1>14. parts = [k \in 1 .. m + n |-> parts[k]]
    BY <1>12
<1>15. [k \in 1 .. m + n |-> parts[k]] = [k \in 1 .. m + n |-> s[e[k]]]
    BY <1>13
<1> QED BY <1>11, <1>14, <1>15 DEF parts, whole

\* A list of which nothing or one element is taken.
LEMMA PickOne ==
    ASSUME NEW S, NEW s \in Seq(S), NEW i \in 1 .. Len(s)
    PROVE  Pick(s, {}) = <<>> /\ Pick(s, {i}) = <<s[i]>>
<1> DEFINE e == [k \in 1 .. 1 |-> i]
<1>1. Pick(s, {}) \in Seq(S) /\ Len(Pick(s, {})) = 0
    BY PickFacts, FS_EmptySet
<1>2. Ascending({i}) = e
  <2>1. 1 \in Nat /\ e \in [1 .. 1 -> {i}] /\ {i} \in SUBSET Int /\ e[1] = i
      OBVIOUS
  <2>2. /\ \A k, l \in 1 .. 1 : k < l => e[k] < e[l]
        /\ \A j \in {i} : \E k \in 1 .. 1 : e[k] = j
    <3>1. \A k, l \in 1 .. 1 : ~ (k < l)
        OBVIOUS
    <3>2. 1 \in 1 .. 1
        OBVIOUS
    <3> QED BY <2>1, <3>1, <3>2
  <2> HIDE DEF e
  <2> QED BY <2>1, <2>2, AscendingUnique
<1>3. Pick(s, {i}) = [k \in 1 .. 1 |-> s[i]]
    BY <1>2 DEF Pick
<1>4. <<s[i]>> = [k \in 1 .. 1 |-> s[i]]
    OBVIOUS
<1> QED BY <1>1, <1>3, <1>4

\* What is picked from a list that falls falls.
LEMMA PickFalls ==
    ASSUME NEW S, NEW s \in Seq(S), NEW is \in SUBSET (1 .. Len(s)),
           \A k, l \in 1 .. Len(s) : k < l => s[k] > s[l],
           NEW p, p = Pick(s, is)
    PROVE  \A k, l \in 1 .. Len(p) : k < l => p[k] > p[l]
<1> DEFINE n == Cardinality(is)
           e == Ascending(is)
<1>1. IsFiniteSet(is) /\ Len(Pick(s, is)) = n
    BY PickFacts
<1>2. /\ is \in SUBSET Int
      /\ e \in [1 .. n -> is]
      /\ \A a, b \in 1 .. n : a < b => e[a] < e[b]
    BY <1>1, AscendingFacts
<1>3. Pick(s, is) = [a \in 1 .. n |-> s[e[a]]]
    BY <1>2 DEF Pick
<1> HIDE DEF n, e
<1>4. \A a, b \in 1 .. n : a < b => s[e[a]] > s[e[b]]
    BY <1>2
<1> QED BY <1>1, <1>3, <1>4

---------------------------------------------------------------------------
(* Parts of lists, and lists put together.                                 *)

\* The part of a list between two positions.
LEMMA PartFacts ==
    ASSUME NEW S, NEW s \in Seq(S), NEW m \in Nat \ {0}, NEW n \in 0 .. Len(s)
    PROVE  LET part == SubSeq(s, m, n)
           IN  /\ part \in Seq(S)
               /\ Len(part) = IF m <= n THEN n - m + 1 ELSE 0
               /\ \A k \in 1 .. Len(part) : m + k - 1 \in m .. n /\ part[k] = s[m + k - 1]
               /\ Range(part) = {s[i] : i \in m .. n}
               /\ Range(part) \subseteq Range(s)
               /\ IsInjective(s) => IsInjective(part)
<1> DEFINE part == SubSeq(s, m, n)
<1>0. Len(s) \in Nat /\ DOMAIN s = 1 .. Len(s) /\ \A i \in 1 .. Len(s) : s[i] \in S
    OBVIOUS
<1>1. /\ part \in Seq(S)
      /\ Len(part) = IF m <= n THEN n - m + 1 ELSE 0
      /\ \A k \in 1 .. Len(part) : part[k] = s[m + k - 1]
    OBVIOUS
<1>2. DOMAIN part = 1 .. Len(part) /\ Len(part) \in Nat
    BY <1>1
<1> HIDE DEF part
<1>3. \A k \in 1 .. Len(part) : m + k - 1 \in m .. n /\ m + k - 1 \in 1 .. Len(s)
    BY <1>0, <1>1
<1>4. Range(part) = {s[i] : i \in m .. n}
  <2>1. \A k \in 1 .. Len(part) : part[k] \in {s[i] : i \in m .. n}
      BY <1>1, <1>3
  <2>2. \A i \in m .. n : \E k \in 1 .. Len(part) : part[k] = s[i]
    <3>1. SUFFICES ASSUME NEW i \in m .. n PROVE \E k \in 1 .. Len(part) : part[k] = s[i]
        OBVIOUS
    <3>2. i - m + 1 \in 1 .. Len(part) /\ m + (i - m + 1) - 1 = i
        BY <1>0, <1>1
    <3> QED BY <1>1, <3>2
  <2> QED BY <1>2, <2>1, <2>2 DEF Range
<1>5. Range(part) \subseteq Range(s)
    BY <1>0, <1>4 DEF Range
<1>6. IsInjective(s) => IsInjective(part)
  <2>1. SUFFICES ASSUME IsInjective(s), NEW k \in 1 .. Len(part), NEW l \in 1 .. Len(part), part[k] = part[l]
                 PROVE  k = l
      BY <1>2 DEF IsInjective
  <2>2. m + k - 1 = m + l - 1
      BY <1>0, <1>1, <1>3, <2>1 DEF IsInjective
  <2> QED BY <1>2, <2>2
<1> QED BY <1>1, <1>3, <1>4, <1>5, <1>6 DEF part

\* One list after another.
LEMMA JoinFacts ==
    ASSUME NEW S, NEW s \in Seq(S), NEW t \in Seq(S)
    PROVE  /\ s \o t \in Seq(S) /\ Len(s \o t) = Len(s) + Len(t)
           /\ \A k \in 1 .. Len(s) : (s \o t)[k] = s[k]
           /\ \A k \in 1 .. Len(t) : (s \o t)[Len(s) + k] = t[k]
           /\ Range(s \o t) = Range(s) \cup Range(t)
           /\ IsInjective(s) /\ IsInjective(t) /\ Range(s) \cap Range(t) = {} => IsInjective(s \o t)
<1> DEFINE u == s \o t
           m == Len(s)
           n == Len(t)
<1>1. /\ m \in Nat /\ n \in Nat /\ u \in Seq(S) /\ Len(u) = m + n
      /\ DOMAIN s = 1 .. m /\ DOMAIN t = 1 .. n /\ DOMAIN u = 1 .. m + n
    OBVIOUS
<1>2. \A k \in 1 .. m + n : u[k] = IF k <= m THEN s[k] ELSE t[k - m]
    OBVIOUS
<1> HIDE DEF u, m, n
<1>3. \A k \in 1 .. m : k \in 1 .. m + n /\ u[k] = s[k]
    BY <1>1, <1>2
<1>4. \A k \in 1 .. n : m + k \in 1 .. m + n /\ u[m + k] = t[k]
    BY <1>1, <1>2
<1>5. \A k \in 1 .. m + n : k \in 1 .. m \/ (k - m \in 1 .. n /\ u[k] = t[k - m])
    BY <1>1, <1>2
<1>6. Range(u) = Range(s) \cup Range(t)
  <2>1. \A k \in 1 .. m + n : u[k] \in Range(s) \cup Range(t)
      BY <1>1, <1>3, <1>5 DEF Range
  <2>2. \A k \in 1 .. m : s[k] \in Range(u)
      BY <1>1, <1>3 DEF Range
  <2>3. \A k \in 1 .. n : t[k] \in Range(u)
      BY <1>1, <1>4 DEF Range
  <2> QED BY <1>1, <2>1, <2>2, <2>3 DEF Range
<1>7. ASSUME IsInjective(s), IsInjective(t), Range(s) \cap Range(t) = {},
             NEW k \in 1 .. m + n, NEW l \in 1 .. m + n, u[k] = u[l]
      PROVE  k = l
  <2>0. k \in Int /\ l \in Int
      OBVIOUS
  <2>1. CASE k \in 1 .. m /\ l \in 1 .. m
      BY <1>1, <1>3, <1>7, <2>1 DEF IsInjective
  <2>2. CASE k \notin 1 .. m /\ l \notin 1 .. m
    <3>1. k - m = l - m
        BY <1>1, <1>5, <1>7, <2>2 DEF IsInjective
    <3> QED BY <1>1, <2>0, <3>1
  <2>3. CASE k \in 1 .. m /\ l \notin 1 .. m
    <3>1. u[k] \in Range(s) /\ u[l] \in Range(t)
        BY <1>1, <1>3, <1>5, <2>3 DEF Range
    <3> QED BY <1>7, <3>1
  <2>4. CASE k \notin 1 .. m /\ l \in 1 .. m
    <3>1. u[l] \in Range(s) /\ u[k] \in Range(t)
        BY <1>1, <1>3, <1>5, <2>4 DEF Range
    <3> QED BY <1>7, <3>1
  <2> QED BY <2>1, <2>2, <2>3, <2>4
<1>8. IsInjective(s) /\ IsInjective(t) /\ Range(s) \cap Range(t) = {} => IsInjective(u)
    BY <1>1, <1>7 DEF IsInjective
<1> QED BY <1>1, <1>3, <1>4, <1>6, <1>8 DEF u, m, n

\* An element before a list.
LEMMA PrependFacts ==
    ASSUME NEW S, NEW s \in Seq(S), NEW x \in S
    PROVE  LET t == <<x>> \o s
           IN  /\ t \in Seq(S) /\ Len(t) = Len(s) + 1
               /\ t[1] = x
               /\ \A k \in 1 .. Len(s) : t[k + 1] = s[k]
               /\ Range(t) = {x} \cup Range(s)
<1> DEFINE one == <<x>>
           t == one \o s
<1>1. one \in Seq(S) /\ Len(one) = 1 /\ one[1] = x /\ Len(s) \in Nat /\ DOMAIN one = 1 .. 1
    OBVIOUS
<1>2. Range(one) = {x}
    BY DEF Range
<1> HIDE DEF one
<1>3. t \in Seq(S) /\ Len(t) = Len(s) + 1
    BY <1>1, JoinFacts
<1>4. t[1] = x
    BY <1>1, JoinFacts
<1>5. \A k \in 1 .. Len(s) : t[k + 1] = s[k]
  <2>0. one \in Seq(S)
      BY <1>1
  <2>1. \A k \in 1 .. Len(s) : t[Len(one) + k] = s[k]
    <3>1. t = one \o s
        OBVIOUS
    <3> HIDE DEF t
    <3> QED BY <2>0, <3>1, JoinFacts
  <2>2. \A k \in 1 .. Len(s) : Len(one) + k = k + 1
      BY <1>1
  <2> QED BY <2>1, <2>2
<1>6. Range(t) = {x} \cup Range(s)
    BY <1>1, <1>2, JoinFacts
<1> QED BY <1>3, <1>4, <1>5, <1>6 DEF one

\* A list has no more elements than positions, and as many when none repeats.
LEMMA RangeFacts ==
    ASSUME NEW S, NEW s \in Seq(S)
    PROVE  /\ IsFiniteSet(Range(s)) /\ Cardinality(Range(s)) \in 0 .. Len(s)
           /\ IsInjective(s) => Cardinality(Range(s)) = Len(s)
<1>1. Len(s) \in Nat /\ DOMAIN s = 1 .. Len(s)
    OBVIOUS
<1>2. IsFiniteSet(1 .. Len(s)) /\ Cardinality(1 .. Len(s)) = Len(s)
    BY <1>1, FS_Interval
<1>3. s \in Surjection(1 .. Len(s), Range(s))
    BY <1>1 DEF Surjection, Range
<1>4. IsFiniteSet(Range(s)) /\ Cardinality(Range(s)) <= Len(s)
      /\ (Cardinality(Range(s)) = Len(s) <=> s \in Injection(1 .. Len(s), Range(s)))
    BY <1>2, <1>3, FS_Surjection
<1>5. IsInjective(s) => s \in Injection(1 .. Len(s), Range(s))
    BY <1>1 DEF IsInjective, Injection, Range
<1> QED BY <1>1, <1>4, <1>5, FS_CardinalityType

\* A finite set has a list of its elements without repetitions.
LEMMA Enumeration ==
    ASSUME NEW S, IsFiniteSet(S)
    PROVE  /\ SetToSeq(S) \in Seq(S) /\ Len(SetToSeq(S)) = Cardinality(S)
           /\ IsInjective(SetToSeq(S)) /\ Range(SetToSeq(S)) = S
<1> DEFINE n == Cardinality(S)
           f == SetToSeq(S)
           P(g) == g \in [1 .. n -> S] /\ IsInjective(g)
<1>1. n \in Nat /\ ExistsBijection(1 .. n, S)
    BY FS_CardinalityType
<1>2. \E g : P(g)
    BY <1>1 DEF ExistsBijection, Bijection, Injection
<1>3. f \in [1 .. n -> S] /\ IsInjective(f)
    BY <1>2 DEF SetToSeq
<1> HIDE DEF f
<1>4. f \in Seq(S) /\ Len(f) = n
    BY <1>1, <1>3
<1>5. IsFiniteSet(1 .. n) /\ Cardinality(1 .. n) = n
    BY <1>1, FS_Interval
<1>6. f \in Injection(1 .. n, S)
    BY <1>3 DEF Injection
<1>7. f \in Surjection(1 .. n, S)
    BY <1>5, <1>6, FS_Injection
<1>8. Range(f) = S
    BY <1>3, <1>7 DEF Surjection, Range
<1> QED BY <1>3, <1>4, <1>8 DEF f

\* The first positions of its elements give a list without repetitions.
LEMMA FirstsFacts ==
    ASSUME NEW S, NEW s \in Seq(S)
    PROVE  LET firsts == {i \in DOMAIN s : \A j \in 1 .. i - 1 : s[j] # s[i]}
           IN  /\ firsts \in SUBSET (1 .. Len(s))
               /\ {s[i] : i \in firsts} = {s[i] : i \in 1 .. Len(s)}
               /\ \A i, j \in firsts : s[i] = s[j] => i = j
<1> DEFINE firsts == {i \in DOMAIN s : \A j \in 1 .. i - 1 : s[j] # s[i]}
<1>1. Len(s) \in Nat /\ DOMAIN s = 1 .. Len(s)
    OBVIOUS
<1>2. firsts \in SUBSET (1 .. Len(s))
    BY <1>1
<1>3. ASSUME NEW i \in 1 .. Len(s)
      PROVE  \E j \in firsts : s[j] = s[i]
  <2> DEFINE same == {j \in 1 .. Len(s) : s[j] = s[i]}
  <2>1. same \in SUBSET Nat /\ same # {}
      OBVIOUS
  <2>2. PICK m \in same : \A j \in same : m <= j
    <3> HIDE DEF same
    <3> QED BY <2>1, Least
  <2>3. \A j \in 1 .. m - 1 : j \in 1 .. Len(s) /\ ~ (m <= j)
      BY <1>1
  <2>4. m \in firsts
      BY <1>1, <2>2, <2>3
  <2> QED BY <2>4
<1>4. ASSUME NEW i \in firsts, NEW j \in firsts, s[i] = s[j]
      PROVE  i = j
  <2>1. i \in 1 .. Len(s) /\ j \in 1 .. Len(s)
      BY <1>1
  <2>2. ~ (i < j)
    <3>1. i < j => i \in 1 .. j - 1
        BY <1>1, <2>1
    <3> QED BY <1>4, <3>1
  <2>3. ~ (j < i)
    <3>1. j < i => j \in 1 .. i - 1
        BY <1>1, <2>1
    <3> QED BY <1>4, <3>1
  <2> QED BY <1>1, <2>1, <2>2, <2>3
<1>5. {s[i] : i \in firsts} = {s[i] : i \in 1 .. Len(s)}
  <2> HIDE DEF firsts
  <2> QED BY <1>2, <1>3
<1> QED BY <1>2, <1>4, <1>5

---------------------------------------------------------------------------
(* Sums.  SumFunctionOnSet takes the elements out of the set one by one,   *)
(* in an order nobody knows.                                               *)

Some(s) == CHOOSE x \in s : TRUE

Summed(f, g, s) == IF s = {} THEN 0 ELSE f[Some(s)] + g[s \ {Some(s)}]

Sums(f, S, g) == g = [s \in SUBSET S |-> Summed(f, g, s)]

LEMMA SumDef ==
    ASSUME NEW f, NEW S
    PROVE  SumFunctionOnSet(f, S) = (CHOOSE g : Sums(f, S, g))[S]
BY DEF SumFunctionOnSet, FoldFunctionOnSet, MapThenFoldSet, Sums, Summed, Some

\* What is left of a set when one element is taken.
LEMMA Less ==
    ASSUME NEW S, IsFiniteSet(S), NEW x \in S
    PROVE  /\ IsFiniteSet(S \ {x})
           /\ Cardinality(S) \in Nat \ {0}
           /\ Cardinality(S \ {x}) = Cardinality(S) - 1
<1>1. IsFiniteSet(S \ {x}) /\ Cardinality(S \ {x}) = Cardinality(S) - 1
    BY FS_RemoveElement
<1>2. Cardinality(S \ {x}) \in Nat /\ Cardinality(S) \in Nat
    BY <1>1, FS_CardinalityType
<1> QED BY <1>1, <1>2

\* The definition by recursion has a solution.
LEMMA SumsExist ==
    ASSUME NEW f, NEW S, IsFiniteSet(S)
    PROVE  \E g : Sums(f, S, g)
<1> DEFINE Small(n) == {s \in SUBSET S : Cardinality(s) <= n}
           Part(n, g) == g = [s \in Small(n) |-> Summed(f, g, s)]
           T == {n \in Nat : \E g : Part(n, g)}
<1>1. \A s \in SUBSET S : IsFiniteSet(s) /\ Cardinality(s) \in Nat /\ Cardinality(s) <= Cardinality(S)
    BY FS_Subset, FS_CardinalityType
<1>2. 0 \in T
  <2>1. \A s \in Small(0) : s = {}
      BY <1>1, FS_EmptySet
  <2>2. Part(0, [s \in Small(0) |-> 0])
      BY <2>1 DEF Summed
  <2> QED BY <2>2
<1>3. ASSUME NEW n \in T
      PROVE  n + 1 \in T
  <2>1. PICK g : Part(n, g)
      BY <1>3
  <2> DEFINE h == [s \in Small(n + 1) |-> Summed(f, g, s)]
  <2>2. \A s \in Small(n) : s \in Small(n + 1) /\ h[s] = g[s]
      BY <1>1, <2>1
  <2>3. ASSUME NEW s \in Small(n + 1)
        PROVE  Summed(f, g, s) = Summed(f, h, s)
    <3>1. CASE s = {}
        BY <3>1 DEF Summed
    <3>2. CASE s # {}
      <4>1. Some(s) \in s
          BY <3>2 DEF Some
      <4>2. s \in SUBSET S /\ Cardinality(s) <= n + 1
          OBVIOUS
      <4>3. IsFiniteSet(s) /\ Cardinality(s \ {Some(s)}) = Cardinality(s) - 1 /\ Cardinality(s) \in Nat
          BY <1>1, <4>1, <4>2, Less
      <4>4. s \ {Some(s)} \in Small(n)
          BY <4>2, <4>3
      <4>5. h[s \ {Some(s)}] = g[s \ {Some(s)}]
          BY <2>2, <4>4
      <4> QED BY <3>2, <4>5 DEF Summed
    <3> QED BY <3>1, <3>2
  <2>4. Part(n + 1, h)
      BY <2>3
  <2>5. n + 1 \in Nat
      OBVIOUS
  <2>6. \E k : Part(n + 1, k)
    <3> HIDE DEF Part, h
    <3> QED BY <2>4
  <2> QED BY <2>5, <2>6
<1>4. Cardinality(S) \in T
  <2>1. T \in SUBSET Nat
      OBVIOUS
  <2> HIDE DEF T
  <2> QED BY <1>2, <1>3, <2>1, Induction, FS_CardinalityType
<1>5. Small(Cardinality(S)) = SUBSET S
    BY <1>1
<1> QED BY <1>4, <1>5 DEF Sums

\* It has one solution, also when it is the part of another for a larger set.
LEMMA SumsUnique ==
    ASSUME NEW f, NEW S, IsFiniteSet(S), NEW S2 \in SUBSET S, NEW g, NEW h,
           Sums(f, S, g), Sums(f, S2, h)
    PROVE  g[S2] = h[S2]
<1> DEFINE T == {n \in Nat : \A s \in SUBSET S2 : Cardinality(s) = n => g[s] = h[s]}
<1>1. \A s \in SUBSET S2 : IsFiniteSet(s) /\ Cardinality(s) \in Nat
    BY FS_Subset, FS_CardinalityType
<1>2. \A s \in SUBSET S2 : g[s] = Summed(f, g, s) /\ h[s] = Summed(f, h, s)
    BY DEF Sums
<1>3. 0 \in T
    BY <1>1, <1>2, FS_EmptySet DEF Summed
<1>4. ASSUME NEW n \in T
      PROVE  n + 1 \in T
  <2>1. SUFFICES ASSUME NEW s \in SUBSET S2, Cardinality(s) = n + 1 PROVE g[s] = h[s]
      OBVIOUS
  <2>2. s # {}
    <3>1. n \in Nat /\ Cardinality(s) # 0
        BY <2>1
    <3> HIDE DEF T
    <3> QED BY <3>1, FS_EmptySet
  <2>3. Some(s) \in s
      BY <2>2 DEF Some
  <2>4. Cardinality(s \ {Some(s)}) = n
      BY <1>1, <2>1, <2>3, Less
  <2>5. g[s \ {Some(s)}] = h[s \ {Some(s)}]
      BY <2>4
  <2> QED BY <1>2, <2>2, <2>5 DEF Summed
<1>5. \A n \in Nat : n \in T
  <2>1. T \in SUBSET Nat
      OBVIOUS
  <2> HIDE DEF T
  <2> QED BY <1>3, <1>4, <2>1, Induction
<1> QED BY <1>1, <1>5

LEMMA SumStep ==
    ASSUME NEW f, NEW S, IsFiniteSet(S)
    PROVE  SumFunctionOnSet(f, S) =
               IF S = {} THEN 0
               ELSE f[Some(S)] + SumFunctionOnSet(f, S \ {Some(S)})
<1> DEFINE G(s) == CHOOSE g : Sums(f, s, g)
           rest == S \ {Some(S)}
<1>1. rest \in SUBSET S /\ IsFiniteSet(rest)
    BY FS_Subset
<1>2. Sums(f, S, G(S)) /\ Sums(f, rest, G(rest))
  <2> HIDE DEF rest
  <2> QED BY <1>1, SumsExist
<1>3. G(S)[S] = Summed(f, G(S), S)
    BY <1>2 DEF Sums
<1>4. G(S)[rest] = G(rest)[rest]
  <2> HIDE DEF G, rest
  <2> QED BY <1>1, <1>2, SumsUnique
<1>5. SumFunctionOnSet(f, S) = G(S)[S] /\ SumFunctionOnSet(f, rest) = G(rest)[rest]
    BY SumDef
<1> HIDE DEF G
<1> QED BY <1>3, <1>4, <1>5 DEF Summed

\* Sums of functions that agree on the set agree.
LEMMA SumSame ==
    ASSUME NEW S, IsFiniteSet(S), NEW f, NEW g, \A x \in S : f[x] = g[x]
    PROVE  SumFunctionOnSet(f, S) = SumFunctionOnSet(g, S)
<1> DEFINE Sum(h, s) == SumFunctionOnSet(h, s)
           T == {n \in Nat : \A s \in SUBSET S : Cardinality(s) = n => Sum(f, s) = Sum(g, s)}
<1>1. \A s \in SUBSET S : IsFiniteSet(s) /\ Cardinality(s) \in Nat
    BY FS_Subset, FS_CardinalityType
<1>2. 0 \in T
    BY <1>1, FS_EmptySet, SumStep
<1>3. ASSUME NEW n \in T
      PROVE  n + 1 \in T
  <2>1. SUFFICES ASSUME NEW s \in SUBSET S, Cardinality(s) = n + 1 PROVE Sum(f, s) = Sum(g, s)
      OBVIOUS
  <2>2. n \in Nat /\ IsFiniteSet(s)
      BY <1>1
  <2>3. s # {}
    <3>1. Cardinality(s) # 0
        BY <2>1, <2>2
    <3> HIDE DEF T
    <3> QED BY <3>1, FS_EmptySet
  <2>4. Some(s) \in s
      BY <2>3 DEF Some
  <2>5. Cardinality(s \ {Some(s)}) = n
      BY <2>1, <2>2, <2>4, Less
  <2>6. Sum(f, s \ {Some(s)}) = Sum(g, s \ {Some(s)}) /\ f[Some(s)] = g[Some(s)]
      BY <2>4, <2>5
  <2> HIDE DEF T
  <2> QED BY <2>2, <2>3, <2>6, SumStep
<1>4. \A n \in Nat : n \in T
  <2>1. T \in SUBSET Nat
      OBVIOUS
  <2> HIDE DEF T
  <2> QED BY <1>2, <1>3, <2>1, Induction
<1> QED BY <1>1, <1>4

\* A sum of numbers is a number, and it does not matter which is taken first.
LEMMA SumRemove ==
    ASSUME NEW S, IsFiniteSet(S), NEW f, \A x \in S : f[x] \in Nat
    PROVE  /\ SumFunctionOnSet(f, S) \in Nat
           /\ \A x \in S : SumFunctionOnSet(f, S) = f[x] + SumFunctionOnSet(f, S \ {x})
<1> DEFINE Sum(s) == SumFunctionOnSet(f, s)
           Holds(s) == Sum(s) \in Nat /\ \A x \in s : Sum(s) = f[x] + Sum(s \ {x})
           T == {n \in Nat : \A s \in SUBSET S : Cardinality(s) <= n => Holds(s)}
<1>1. \A s \in SUBSET S : IsFiniteSet(s) /\ Cardinality(s) \in Nat
    BY FS_Subset, FS_CardinalityType
<1>2. Holds({})
  <2>1. Sum({}) = 0
      BY FS_EmptySet, SumStep
  <2> QED BY <2>1
<1>3. ASSUME NEW n \in T
      PROVE  n + 1 \in T
  <2>1. SUFFICES ASSUME NEW s \in SUBSET S, Cardinality(s) <= n + 1 PROVE Holds(s)
      OBVIOUS
  <2>2. n \in Nat /\ IsFiniteSet(s) /\ Cardinality(s) \in Nat
      BY <1>1
  <2>3. CASE s = {}
    <3> HIDE DEF Holds
    <3> QED BY <1>2, <2>3
  <2>4. CASE s # {}
    <3> DEFINE y == Some(s)
    <3>1. y \in s
        BY <2>4 DEF Some
    <3> HIDE DEF y
    <3>2. Sum(s) = f[y] + Sum(s \ {y})
        BY <2>2, <2>4, SumStep DEF y
    <3>3. \A x \in s : s \ {x} \in SUBSET S /\ Cardinality(s \ {x}) <= n
      <4>1. \A x \in s : Cardinality(s \ {x}) = Cardinality(s) - 1
          BY <2>2, Less
      <4> QED BY <2>1, <2>2, <4>1
    <3>4. \A x \in s : Holds(s \ {x})
        BY <3>3
    <3>5. Sum(s) \in Nat
        BY <3>1, <3>2, <3>4
    <3>6. ASSUME NEW x \in s, x # y
          PROVE  Sum(s) = f[x] + Sum(s \ {x})
      <4> DEFINE both == (s \ {x}) \ {y}
      <4>1. both = (s \ {y}) \ {x}
          OBVIOUS
      <4>2. Sum(s \ {x}) = f[y] + Sum(both) /\ Sum(s \ {y}) = f[x] + Sum(both)
          BY <3>1, <3>4, <3>6, <4>1
      <4>3. Holds(both)
        <5>1. both \in SUBSET S
            OBVIOUS
        <5>2. IsFiniteSet(s \ {x}) /\ y \in s \ {x}
            BY <1>1, <3>1, <3>3, <3>6
        <5>3. Cardinality(both) = Cardinality(s \ {x}) - 1 /\ Cardinality(s \ {x}) \in Nat
            BY <5>2, Less
        <5>4. Cardinality(both) <= n
            BY <2>2, <3>3, <5>3
        <5> HIDE DEF both, Holds
        <5> QED BY <5>1, <5>4
      <4>4. Sum(both) \in Nat /\ f[x] \in Nat /\ f[y] \in Nat
          BY <3>1, <4>3
      <4> HIDE DEF both
      <4> QED BY <3>2, <4>2, <4>4
    <3> QED BY <3>2, <3>5, <3>6
  <2> QED BY <2>3, <2>4
<1>4. \A n \in Nat : n \in T
  <2>1. T \in SUBSET Nat
      OBVIOUS
  <2>2. 0 \in T
    <3>1. \A s \in SUBSET S : Cardinality(s) <= 0 => s = {}
        BY <1>1, FS_EmptySet
    <3> HIDE DEF Holds
    <3> QED BY <1>2, <3>1
  <2> HIDE DEF T
  <2> QED BY <1>3, <2>1, <2>2, Induction
<1> QED BY <1>1, <1>4

---------------------------------------------------------------------------
(* Recursion and induction over anything that has a rank.                  *)

\* What holds of x once it holds of all that ranks lower holds of everything.
LEMMA RankInduction ==
    ASSUME NEW X, NEW N \in Nat, NEW r \in [X -> 0 .. N], NEW P,
           \A x \in X : (\A y \in X : r[y] < r[x] => y \in P) => x \in P
    PROVE  X \subseteq P
<1> DEFINE S == {n \in Nat : \A x \in X : r[x] < n => x \in P}
<1>1. 0 \in S
  OBVIOUS
<1>2. ASSUME NEW n \in S
      PROVE  n + 1 \in S
  <2>1. ASSUME NEW x \in X, r[x] < n + 1
        PROVE  x \in P
    <3>1. \A y \in X : r[y] < r[x] => r[y] < n
      <4>1. r[x] \in Nat /\ n \in Nat /\ \A y \in X : r[y] \in Nat
        OBVIOUS
      <4> QED BY <2>1, <4>1
    <3> QED BY <3>1
  <2> QED BY <2>1
<1>3. N + 1 \in S
  <2>1. S \in SUBSET Nat
    OBVIOUS
  <2>2. \A n \in Nat : n \in S
    <3> HIDE DEF S
    <3> QED BY <1>1, <1>2, <2>1, Induction
  <2> QED BY <2>2
<1> QED
  BY <1>3

\* The functions on X with values of the right types.
Typed(X, T) == {f \in [X -> UNION {T[x] : x \in X}] : \A x \in X : f[x] \in T[x]}

\* G says what a function is at x, from what it is at all that ranks lower.
Recursive(X, r, T, G) ==
    /\ \A x \in X, g \in Typed(X, T) : G[x][g] \in T[x]
    /\ \A x \in X, g, h \in Typed(X, T) :
           (\A y \in X : r[y] < r[x] => g[y] = h[y]) => G[x][g] = G[x][h]

LEMMA Recursion ==
    ASSUME NEW X, NEW N \in Nat, NEW r \in [X -> 0 .. N], NEW T, NEW G,
           Typed(X, T) # {}, Recursive(X, r, T, G)
    PROVE  \E f \in Typed(X, T) : \A x \in X : f[x] = G[x][f]
<1> DEFINE Upto(n, f) == \A x \in X : r[x] < n => f[x] = G[x][f]
           S == {n \in Nat : \E f \in Typed(X, T) : Upto(n, f)}
<1>0. \A x \in X : r[x] \in 0 .. N /\ r[x] \in Nat
  OBVIOUS
<1>1. 0 \in S
  <2>1. PICK f \in Typed(X, T) : TRUE
    OBVIOUS
  <2>2. Upto(0, f)
    BY <1>0
  <2> QED BY <2>2
<1>2. ASSUME NEW n \in S
      PROVE  n + 1 \in S
  <2>1. n \in Nat
    OBVIOUS
  <2>2. PICK f \in Typed(X, T) : Upto(n, f)
    OBVIOUS
  <2> DEFINE h == [x \in X |-> IF r[x] = n THEN G[x][f] ELSE f[x]]
  <2>3. \A x \in X : h[x] \in T[x] /\ (r[x] = n => h[x] = G[x][f]) /\ (r[x] # n => h[x] = f[x])
    BY DEF Recursive, Typed
  <2>4. h \in Typed(X, T)
    BY <2>3 DEF Typed
  <2>5. ASSUME NEW x \in X, r[x] < n + 1
        PROVE  h[x] = G[x][h]
    <3>1. \A y \in X : r[y] < r[x] => h[y] = f[y]
      <4> HIDE DEF h
      <4>1. \A y \in X : r[y] < r[x] => r[y] # n
        BY <1>0, <2>1, <2>5
      <4> QED BY <2>3, <4>1
    <3>2. G[x][h] = G[x][f]
      <4> HIDE DEF h
      <4> QED BY <2>4, <3>1 DEF Recursive
    <3>3. r[x] < n \/ r[x] = n
      BY <1>0, <2>1, <2>5
    <3>4. f[x] = G[x][f] \/ r[x] = n
      BY <2>2, <3>3
    <3> HIDE DEF h
    <3> QED BY <2>3, <3>2, <3>4
  <2>6. Upto(n + 1, h)
    BY <2>5
  <2> HIDE DEF h
  <2> QED BY <2>1, <2>4, <2>6
<1>3. N + 1 \in S
  <2>1. S \in SUBSET Nat
    OBVIOUS
  <2>2. \A n \in Nat : n \in S
    <3> HIDE DEF S
    <3> QED BY <1>1, <1>2, <2>1, Induction
  <2> QED BY <2>2
<1>4. PICK f \in Typed(X, T) : Upto(N + 1, f)
  BY <1>3
<1>5. \A x \in X : r[x] < N + 1
  BY <1>0
<1> QED
  BY <1>4, <1>5

---------------------------------------------------------------------------
(* Lists made of others.                                                   *)

\* An appended list stays in its type.
LEMMA AppendedTyped ==
    ASSUME NEW S, NEW x \in Seq(S), NEW y \in S
    PROVE  Append(x, y) \in Seq(S)
  OBVIOUS
=============================================================================
