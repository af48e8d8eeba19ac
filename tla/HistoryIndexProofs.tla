-------------------------- MODULE HistoryIndexProofs --------------------------
(***************************************************************************)
(* Theorems about the historical bug index, for any bugs, products and     *)
(* thresholds: what a build puts into it and what the build state says of  *)
(* it, from an invariant that relates the scans of a running build to the  *)
(* bugs that have been there since it began; and what a lookup shows and   *)
(* counts, from where it is among its candidates.                          *)
(***************************************************************************)
EXTENDS HistoryIndex, SequenceLemmas

ScanResult == [status : {"none", "ok", "truncated", "failed"}, docs : SUBSET Bugs]

IndexTypes ==
    /\ snap \in [docs : SUBSET Bugs, gaps : BOOLEAN, steady : SUBSET Bugs]
    /\ buildState \in [done : BOOLEAN, err : BOOLEAN, partial : BOOLEAN]
    /\ builder \in {"idle", "listing", "scanning", "storing", "stopped"}
    /\ scans \in [Products -> ScanResult]
    /\ listing \in [products : SUBSET Products, truncated : BOOLEAN]
    /\ stored \subseteq Bugs /\ steady \subseteq Bugs /\ touched \subseteq Bugs

\* A scan that claims to be complete holds what has been there all along.
ScansKeep == \A p \in Products : scans[p].status = "ok" => In(p, steady) \subseteq scans[p].docs

IndexInv ==
    /\ IndexTypes
    /\ builder = "idle" => \A p \in Products : scans[p] = NoScan
    /\ ScansKeep
    /\ builder = "storing" => snap.gaps = Gaps
    /\ StatusFollowsIndex
    /\ CompleteUnlessPartial

LEMMA IndexInit == Init => IndexInv
  BY DEF Init, IndexInv, IndexTypes, ScanResult, ScansKeep, NoScan, NoSnap, NoState,
         StatusFollowsIndex, CompleteUnlessPartial

\* What only happens outside the builder.
Unbuilt == UNCHANGED <<indexVars, builder, scans, listing>>

LEMMA UnbuiltKeeps ==
    ASSUME IndexInv, Unbuilt, stored' \subseteq Bugs, touched' \subseteq Bugs, steady' \subseteq steady
    PROVE  IndexInv'
<1>1. IndexTypes'
  BY DEF IndexInv, IndexTypes, Unbuilt, indexVars
<1>2. ScansKeep'
  BY DEF IndexInv, ScansKeep, Unbuilt, In
<1>3. Gaps' = Gaps
  BY DEF Unbuilt, Gaps, With
<1> QED
  BY <1>1, <1>2, <1>3 DEF IndexInv, Unbuilt, indexVars, StatusFollowsIndex, CompleteUnlessPartial

LEMMA EndBuildFacts ==
    ASSUME EndBuild
    PROVE  /\ builder' = "idle" /\ scans' \in [Products -> ScanResult]
           /\ \A p \in Products : scans'[p] = NoScan
           /\ ScansKeep'
           /\ listing' \in [products : SUBSET Products, truncated : BOOLEAN]
           /\ steady' \subseteq Bugs /\ touched' \subseteq Bugs
<1>1. /\ NoScan \in ScanResult /\ NoScan.status = "none"
  BY DEF NoScan, ScanResult
<1>2. \A p \in Products : scans'[p] = NoScan
  BY DEF EndBuild
<1>3. ScansKeep'
  BY <1>1, <1>2 DEF ScansKeep
<1> QED
  BY <1>1, <1>2, <1>3 DEF EndBuild

\* A build that failed, or one that stores its state.
LEMMA EndBuildKeeps ==
    ASSUME IndexInv, EndBuild, UNCHANGED <<snap, stored>>,
           buildState' \in [done : BOOLEAN, err : BOOLEAN, partial : BOOLEAN],
           buildState'.partial = snap.gaps
    PROVE  IndexInv'
<1>1. IndexTypes'
  BY EndBuildFacts DEF IndexInv, IndexTypes
<1> QED
  BY <1>1, EndBuildFacts DEF IndexInv, StatusFollowsIndex, CompleteUnlessPartial

LEMMA FailureKeepsPartial ==
    ASSUME IndexInv, builder # "storing", recordBuildFailure
    PROVE  /\ buildState' \in [done : BOOLEAN, err : BOOLEAN, partial : BOOLEAN]
           /\ buildState'.partial = snap.gaps
  BY DEF IndexInv, IndexTypes, StatusFollowsIndex, recordBuildFailure

\* No scan failed or was cut: the corpus has all of the steady bugs.
LEMMA CorpusComplete ==
    ASSUME IndexInv, Scanned, ~Gaps, NEW b \in steady, ProductOf[b] \in listing.products
    PROVE  b \in Corpus
<1> DEFINE p == ProductOf[b]
<1>1. p \in Products /\ scans[p] \in ScanResult
  BY DEF IndexInv, IndexTypes
<1>2. scans[p].status = "ok"
  BY <1>1 DEF Scanned, Gaps, With, ScanResult
<1>3. b \in In(p, steady) /\ In(p, steady) \subseteq scans[p].docs
  BY <1>1, <1>2 DEF IndexInv, ScansKeep, In
<1> QED
  BY <1>3 DEF Corpus

LEMMA CorpusType == ASSUME IndexInv PROVE Corpus \subseteq Bugs /\ Gaps \in BOOLEAN
<1>1. \A p \in listing.products : scans[p].docs \subseteq Bugs
  BY DEF IndexInv, IndexTypes, ScanResult
<1> QED
  BY <1>1 DEF Corpus, Gaps, IndexInv, IndexTypes

LEMMA BuildKeeps == ASSUME IndexInv, Build PROVE IndexInv'
<1> USE DEF indexVars, ghostVars, worldVars
<1>1. CASE StartBuild
  <2>1. IndexTypes'
    BY <1>1 DEF StartBuild, IndexInv, IndexTypes
  <2>2. ScansKeep'
    BY <1>1 DEF StartBuild, IndexInv, ScansKeep, NoScan
  <2> QED
    BY <1>1, <2>1, <2>2 DEF StartBuild, IndexInv, StatusFollowsIndex, CompleteUnlessPartial
<1>2. CASE StopBuilder
  <2>1. IndexTypes' /\ ScansKeep'
    BY <1>2 DEF StopBuilder, IndexInv, IndexTypes, ScansKeep
  <2> QED
    BY <1>2, <2>1 DEF StopBuilder, IndexInv, StatusFollowsIndex, CompleteUnlessPartial
<1>3. CASE ListProducts
  <2>1. IndexTypes' /\ ScansKeep'
    BY <1>3 DEF ListProducts, IndexInv, IndexTypes, ScansKeep
  <2> QED
    BY <1>3, <2>1 DEF ListProducts, IndexInv, StatusFollowsIndex, CompleteUnlessPartial
<1>4. CASE ListFails
  BY <1>4, FailureKeepsPartial, EndBuildKeeps DEF ListFails
<1>5. ASSUME NEW p \in Products, ScanProduct(p) PROVE IndexInv'
  <2>1. PICK r \in ScanResult :
            /\ scans' = [scans EXCEPT ![p] = r]
            /\ r.status = "ok" => In(p, steady) \subseteq r.docs
    <3>1. CASE scans' = [scans EXCEPT ![p] = [status |-> "failed", docs |-> {}]]
      <4> DEFINE r == [status |-> "failed", docs |-> {}]
      <4>1. r \in ScanResult /\ r.status # "ok"
        BY DEF ScanResult
      <4> QED BY <3>1, <4>1
    <3>2. ASSUME NEW docs \in SUBSET In(p, touched), NEW status \in {"ok", "truncated"},
                 status = "ok" => In(p, steady) \subseteq docs,
                 scans' = [scans EXCEPT ![p] = [status |-> status, docs |-> docs]]
          PROVE  \E r \in ScanResult :
                     /\ scans' = [scans EXCEPT ![p] = r]
                     /\ r.status = "ok" => In(p, steady) \subseteq r.docs
      <4> DEFINE r == [status |-> status, docs |-> docs]
      <4>1. r \in ScanResult /\ r.status = status /\ r.docs = docs
        BY <3>2 DEF ScanResult, IndexInv, IndexTypes, In
      <4> QED BY <3>2, <4>1
    <3> QED BY <1>5, <3>1, <3>2 DEF ScanProduct
  <2>2. /\ builder = "scanning" /\ UNCHANGED <<indexVars, builder, listing, ghostVars, worldVars>>
    BY <1>5 DEF ScanProduct
  <2>3. IndexTypes'
    BY <2>1, <2>2 DEF IndexInv, IndexTypes
  <2>4. ScansKeep'
    BY <2>1, <2>2 DEF IndexInv, IndexTypes, ScansKeep, In
  <2> QED
    BY <2>2, <2>3, <2>4 DEF IndexInv, StatusFollowsIndex, CompleteUnlessPartial
<1>6. CASE Abandon
  BY <1>6, FailureKeepsPartial, EndBuildKeeps DEF Abandon, Scanned
<1>7. CASE Replace
  <2> DEFINE kept == {b \in steady : ProductOf[b] \in listing.products}
  <2>1. /\ Scanned /\ builder' = "storing"
        /\ snap' = [docs |-> Corpus, gaps |-> Gaps, steady |-> kept]
        /\ UNCHANGED <<buildState, scans, listing, steady, touched, stored>>
    BY <1>7 DEF Replace
  <2>2. snap'.docs = Corpus /\ snap'.gaps = Gaps /\ snap'.steady = kept /\ Gaps' = Gaps
    BY <2>1 DEF Gaps, With
  <2>3. IndexTypes'
    BY <2>1, CorpusType DEF IndexInv, IndexTypes
  <2>4. CompleteUnlessPartial'
    BY <2>1, <2>2, CorpusComplete DEF CompleteUnlessPartial
  <2>5. ScansKeep'
    BY <2>1 DEF IndexInv, ScansKeep, In
  <2> QED
    BY <2>1, <2>2, <2>3, <2>4, <2>5 DEF IndexInv, StatusFollowsIndex
<1>8. CASE StoreState
  <2>1. buildState' = [done |-> TRUE, err |-> FALSE, partial |-> Gaps] /\ Gaps = snap.gaps
    BY <1>8 DEF StoreState, IndexInv
  <2>2. /\ buildState' \in [done : BOOLEAN, err : BOOLEAN, partial : BOOLEAN]
        /\ buildState'.partial = snap.gaps
    BY <2>1, CorpusType
  <2> QED
    BY <1>8, <2>2, EndBuildKeeps DEF StoreState
<1> QED
  BY <1>1, <1>2, <1>3, <1>4, <1>5, <1>6, <1>7, <1>8 DEF Build

LEMMA IndexStep == IndexInv /\ [Next]_vars => IndexInv'
<1> SUFFICES ASSUME IndexInv, [Next]_vars PROVE IndexInv'
  OBVIOUS
<1> USE DEF indexVars, buildVars, ghostVars, worldVars
<1>1. IndexTypes
  BY DEF IndexInv
<1>2. ASSUME NEW b \in Bugs, Create(b) \/ Delete(b) PROVE IndexInv'
  BY <1>1, <1>2, UnbuiltKeeps DEF Create, Delete, Change, Unbuilt, IndexTypes
<1>3. ASSUME NEW c \in Callers, NEW b \in Bugs, Grant(c, b) \/ Revoke(c, b) PROVE IndexInv'
  BY <1>1, <1>3, UnbuiltKeeps DEF Grant, Revoke, Change, Unbuilt, IndexTypes
<1>4. ASSUME NEW c \in Callers, Ask(c) \/ Proceed(c) PROVE IndexInv'
  <2>1. UNCHANGED <<indexVars, buildVars, worldVars>>
    BY <1>4 DEF Ask, Proceed, CheckReady, Explain, Search, ReadStatus, FoldBatch, ReadHit, LookupStep
  <2> QED
    BY <1>1, <2>1, UnbuiltKeeps DEF Unbuilt, IndexTypes
<1>5. CASE UNCHANGED vars
  BY <1>1, <1>5, UnbuiltKeeps DEF vars, Unbuilt, IndexTypes
<1> QED
  BY <1>2, <1>3, <1>4, <1>5, BuildKeeps DEF Next

LEMMA IndexInvariant == Spec => []IndexInv
  BY IndexInit, IndexStep, PTL DEF Spec

(* An index that reports no gap has every bug that the service account     *)
(* could read all through its build, of the products it was shown,         *)
(* whatever failed, came and went meanwhile.                               *)
THEOREM IndexComplete == Spec => []CompleteUnlessPartial
<1>1. IndexInv => CompleteUnlessPartial
  BY DEF IndexInv
<1> QED
  BY <1>1, IndexInvariant, PTL

(* Between builds the reported coverage is that of the index in use, after *)
(* any number of refreshes that failed or were abandoned.                  *)
THEOREM StatusTrue == Spec => []StatusFollowsIndex
<1>1. IndexInv => StatusFollowsIndex
  BY DEF IndexInv
<1> QED
  BY <1>1, IndexInvariant, PTL

---------------------------------------------------------------------------
(* The fold of a batch, as a matter of sequences: r is what was read of    *)
(* it, and k is how many bugs were taken before.                           *)

ReadAs(r, i, v) == {j \in 1 .. i : r[j] = v}

LEMMA OkFacts ==
    ASSUME NEW r, NEW i \in Nat
    PROVE  /\ IsFiniteSet(ReadAs(r, i, "ok")) /\ Cardinality(ReadAs(r, i, "ok")) \in 0 .. i
           /\ \A j \in 0 .. i : Cardinality(ReadAs(r, j, "ok")) <= Cardinality(ReadAs(r, i, "ok"))
           /\ i > 0 => Cardinality(ReadAs(r, i, "ok")) =
                  Cardinality(ReadAs(r, i - 1, "ok")) + IF r[i] = "ok" THEN 1 ELSE 0
           /\ Cardinality(ReadAs(r, 0, "ok")) = 0
<1>1. \A j \in Nat : /\ IsFiniteSet(ReadAs(r, j, "ok")) /\ Cardinality(ReadAs(r, j, "ok")) \in 0 .. j
  <2> SUFFICES ASSUME NEW j \in Nat
               PROVE  IsFiniteSet(ReadAs(r, j, "ok")) /\ Cardinality(ReadAs(r, j, "ok")) \in 0 .. j
    OBVIOUS
  <2>1. j \in Int /\ 1 \in Int
    OBVIOUS
  <2>2. IsFiniteSet(1 .. j) /\ Cardinality(1 .. j) = j
    BY <2>1, FS_Interval
  <2>3. ReadAs(r, j, "ok") \in SUBSET (1 .. j)
    BY DEF ReadAs
  <2> QED BY <2>2, <2>3, FS_Subset, FS_CardinalityType
<1>2. ASSUME NEW j \in 0 .. i PROVE Cardinality(ReadAs(r, j, "ok")) <= Cardinality(ReadAs(r, i, "ok"))
  <2>1. ReadAs(r, j, "ok") \in SUBSET ReadAs(r, i, "ok")
    BY DEF ReadAs
  <2> QED BY <1>1, <2>1, FS_Subset
<1>3. ASSUME i > 0
      PROVE  Cardinality(ReadAs(r, i, "ok")) = Cardinality(ReadAs(r, i - 1, "ok")) + IF r[i] = "ok" THEN 1 ELSE 0
  <2> DEFINE before == ReadAs(r, i - 1, "ok")
  <2>1. IsFiniteSet(before) /\ Cardinality(before) \in Nat /\ i \notin before
    BY <1>1, <1>3 DEF ReadAs
  <2>2. CASE r[i] = "ok"
    <3>1. ReadAs(r, i, "ok") = before \cup {i}
      BY <1>3, <2>2 DEF ReadAs
    <3> HIDE DEF before
    <3>2. Cardinality(before \cup {i}) = Cardinality(before) + 1
      BY <2>1, FS_AddElement
    <3> QED BY <2>2, <3>1, <3>2 DEF before
  <2>3. CASE r[i] # "ok"
    <3>1. ReadAs(r, i, "ok") = before
      BY <1>3, <2>3 DEF ReadAs
    <3> QED BY <2>1, <2>3, <3>1
  <2> QED BY <2>2, <2>3
<1>4. Cardinality(ReadAs(r, 0, "ok")) = 0
  BY <1>1
<1> QED BY <1>1, <1>2, <1>3, <1>4

\* What the loop looks at is a prefix of the batch: all of it, or as much
\* as it takes to reach the limit with the last one looked at.
LEMMA PrefixExamined ==
    ASSUME NEW l \in Lookup, Len(l.bugs) < Limit, l.reads # <<>>
    PROVE  \E e \in 1 .. Len(l.reads) :
               LET n == Len(l.bugs) + Cardinality(ReadAs(l.reads, e, "ok")) IN
               /\ Examined(l) = 1 .. e
               /\ n <= Limit
               /\ n = Limit => l.reads[e] = "ok"
               /\ n < Limit => e = Len(l.reads)
<1> DEFINE r == l.reads
           k == Len(l.bugs)
           b == Len(r)
           ok == [i \in Nat |-> Cardinality(ReadAs(r, i, "ok"))]
           full == {i \in 1 .. b : k + ok[i] >= Limit}
<1>1. /\ r \in Seq(Reads) /\ k \in Nat /\ b \in Nat \ {0} /\ DOMAIN r = 1 .. b
      /\ Limit \in Nat \ {0} /\ k < Limit
  BY IndexAssumption DEF Lookup
<1>2. \A i \in Nat : ok[i] \in Nat
  BY OkFacts
<1>3. \A i, j \in Nat : i <= j => ok[i] <= ok[j]
  BY OkFacts
<1>4. \A i \in Nat \ {0} : ok[i] = ok[i - 1] + IF r[i] = "ok" THEN 1 ELSE 0
  <2>1. \A i \in Nat \ {0} : i \in Nat /\ i - 1 \in Nat /\ i > 0
    OBVIOUS
  <2> QED BY <2>1, OkFacts
<1>5. ok[0] = 0
  BY OkFacts
<1>6. Examined(l) = {i \in 1 .. b : k + ok[i - 1] < Limit}
  BY <1>1 DEF Examined, ReadAs
<1> HIDE DEF r, k, b, ok
<1>7. CASE full = {}
  <2>1. \A i \in 0 .. b : k + ok[i] < Limit
    BY <1>1, <1>2, <1>5, <1>7
  <2>2. Examined(l) = 1 .. b
    BY <1>1, <1>6, <2>1
  <2>3. b \in 1 .. b /\ b \in Nat /\ k + ok[b] < Limit /\ ok[b] \in Nat
    BY <1>1, <1>2, <2>1
  <2>4. ok[b] = Cardinality(ReadAs(r, b, "ok"))
    BY <2>3 DEF ok
  <2> HIDE DEF full
  <2> QED BY <1>1, <2>2, <2>3, <2>4 DEF r, k, b
<1>8. CASE full # {}
  <2>1. full \in SUBSET Nat
    OBVIOUS
  <2>2. PICK e \in full : \A n \in full : e <= n
    BY <1>8, <2>1, Least
  <2>3. e \in 1 .. b /\ k + ok[e] >= Limit
    BY <2>2
  <2>4. \A i \in 0 .. e - 1 : k + ok[i] < Limit
    BY <1>1, <1>2, <1>5, <2>2, <2>3
  <2>5. Examined(l) = 1 .. e
    <3>1. \A i \in 1 .. e : k + ok[i - 1] < Limit
      BY <2>3, <2>4
    <3>2. \A i \in 1 .. b : i > e => ~(k + ok[i - 1] < Limit)
      BY <1>1, <1>2, <1>3, <2>3
    <3> QED BY <1>1, <1>6, <2>3, <3>1, <3>2
  <2>6. k + ok[e - 1] < Limit /\ ok[e - 1] \in Nat /\ ok[e] \in Nat /\ e \in Nat \ {0}
    BY <1>1, <1>2, <2>3, <2>4
  <2>7. ok[e] = ok[e - 1] + IF r[e] = "ok" THEN 1 ELSE 0
    BY <1>4, <2>6
  <2>8. k + ok[e] <= Limit /\ r[e] = "ok"
    BY <1>1, <2>3, <2>6, <2>7
  <2> QED BY <1>1, <2>3, <2>5, <2>6, <2>8 DEF r, k, b, ok
<1> QED BY <1>7, <1>8

LEMMA DisjointUnion ==
    ASSUME NEW S, IsFiniteSet(S), NEW T, IsFiniteSet(T), S \cap T = {}
    PROVE  /\ IsFiniteSet(S \cup T)
           /\ Cardinality(S) \in Nat /\ Cardinality(T) \in Nat
           /\ Cardinality(S \cup T) = Cardinality(S) + Cardinality(T)
<1>1. Cardinality(S) \in Nat /\ Cardinality(T) \in Nat
  BY FS_CardinalityType
<1>2. Cardinality(S \cap T) = 0
  BY FS_EmptySet
<1>3. /\ IsFiniteSet(S \cup T)
      /\ Cardinality(S \cup T) = Cardinality(S) + Cardinality(T) - Cardinality(S \cap T)
  BY FS_Union
<1> QED BY <1>1, <1>2, <1>3

\* Every read that was looked at is in one tally.
LEMMA EveryReadTallied ==
    ASSUME NEW r, NEW e \in Nat, \A i \in 1 .. e : r[i] \in Reads \ {"none"}
    PROVE  /\ \A v : Cardinality(ReadAs(r, e, v)) \in Nat
           /\ e = Cardinality(ReadAs(r, e, "ok")) + Cardinality(ReadAs(r, e, "denied"))
                  + Cardinality(ReadAs(r, e, "unavailable")) + Cardinality(ReadAs(r, e, "auth"))
<1> DEFINE a == ReadAs(r, e, "ok")
           b == ReadAs(r, e, "denied")
           c == ReadAs(r, e, "unavailable")
           d == ReadAs(r, e, "auth")
           p == a \cup b
           q == c \cup d
<1>1. e \in Int /\ 1 \in Int
  OBVIOUS
<1>2. IsFiniteSet(1 .. e) /\ Cardinality(1 .. e) = e
  BY <1>1, FS_Interval
<1>3. \A v : IsFiniteSet(ReadAs(r, e, v)) /\ Cardinality(ReadAs(r, e, v)) \in Nat
  BY <1>2, FS_Subset, FS_CardinalityType DEF ReadAs
<1>4. 1 .. e = p \cup q
  BY DEF Reads, ReadAs
<1>5. a \cap b = {} /\ c \cap d = {} /\ p \cap q = {}
  BY DEF ReadAs
<1>6. IsFiniteSet(a) /\ IsFiniteSet(b) /\ IsFiniteSet(c) /\ IsFiniteSet(d)
  BY <1>3
<1> HIDE DEF a, b, c, d
<1>7. /\ IsFiniteSet(p)
      /\ Cardinality(a) \in Nat /\ Cardinality(b) \in Nat
      /\ Cardinality(p) = Cardinality(a) + Cardinality(b)
  BY <1>5, <1>6, DisjointUnion
<1>8. /\ IsFiniteSet(q)
      /\ Cardinality(c) \in Nat /\ Cardinality(d) \in Nat
      /\ Cardinality(q) = Cardinality(c) + Cardinality(d)
  BY <1>5, <1>6, DisjointUnion
<1> HIDE DEF p, q
<1>9. Cardinality(p \cup q) = Cardinality(p) + Cardinality(q)
  BY <1>5, <1>7, <1>8, DisjointUnion
<1>10. e = Cardinality(p) + Cardinality(q)
  BY <1>2, <1>4, <1>9, Zenon
<1>11. e = Cardinality(a) + Cardinality(b) + Cardinality(c) + Cardinality(d)
  BY <1>7, <1>8, <1>10
<1> QED BY <1>3, <1>11 DEF a, b, c, d

\* Moving positions does not change how many they are.
LEMMA ShiftFacts ==
    ASSUME NEW n \in Nat, NEW is \in SUBSET Nat, IsFiniteSet(is)
    PROVE  Cardinality({n + i : i \in is}) = Cardinality(is)
<1> DEFINE js == {n + i : i \in is}
           f == [i \in is |-> n + i]
<1>1. f \in Bijection(is, js)
  BY DEF Bijection, Injection, Surjection, IsInjective
<1>2. ExistsBijection(is, js)
  BY <1>1 DEF ExistsBijection
<1> HIDE DEF js, f
<1>3. Cardinality(js) = Cardinality(is)
  BY <1>2, FS_Bijection
<1> QED BY <1>3 DEF js

\* The hits at K were taken before; of the next e, those at js = start + T are.
Batch(hits, start, e, K, T, before, js, bugs) ==
    /\ hits \in Seq(Bugs) /\ start \in Nat /\ e \in Nat /\ start + e <= Len(hits)
    /\ K \in SUBSET (1 .. start) /\ T \in SUBSET (1 .. e)
    /\ js = {start + i : i \in T}
    /\ before = Pick(hits, K) /\ bugs = before \o Pick(hits, js)

\* What they make together.
Together(hits, start, e, K, T, before, js, bugs) ==
    /\ before \in Seq(Bugs) /\ bugs \in Seq(Bugs)
    /\ Len(bugs) = Len(before) + Cardinality(T) /\ Cardinality(T) \in Nat
    /\ K \cup js \in SUBSET (1 .. start + e) /\ bugs = Pick(hits, K \cup js)
    /\ Range(bugs) = Range(before) \cup {hits[start + i] : i \in T}
    /\ e \in T => bugs[Len(bugs)] = hits[start + e]

LEMMA BatchPicked ==
    ASSUME NEW hits, NEW start, NEW e, NEW K, NEW T, NEW before, NEW js, NEW bugs,
           Batch(hits, start, e, K, T, before, js, bugs)
    PROVE  Together(hits, start, e, K, T, before, js, bugs)
<1> DEFINE added == Pick(hits, js)
<1>1. /\ hits \in Seq(Bugs) /\ start \in Nat /\ e \in Nat /\ start + e <= Len(hits)
      /\ K \in SUBSET (1 .. start) /\ T \in SUBSET (1 .. e)
      /\ js = {start + i : i \in T}
      /\ before = Pick(hits, K) /\ bugs = before \o added
  BY DEF Batch
<1>2. /\ js \in SUBSET (1 .. Len(hits)) /\ K \in SUBSET (1 .. Len(hits))
      /\ K \cup js \in SUBSET (1 .. start + e)
      /\ Len(hits) \in Nat /\ T \in SUBSET Nat
  <2>1. Len(hits) \in Nat
    BY <1>1
  <2>2. \A i \in T : i \in Nat /\ start + i \in 1 .. start + e
    BY <1>1
  <2>3. \A i \in K : i \in 1 .. start + e
    BY <1>1
  <2>4. 1 .. start + e \subseteq 1 .. Len(hits)
    BY <1>1, <2>1
  <2> QED BY <1>1, <2>1, <2>2, <2>3, <2>4
<1>3. before \in Seq(Bugs)
  BY <1>1, <1>2, PickFacts
<1>4. /\ added \in Seq(Bugs) /\ Len(added) = Cardinality(js)
      /\ Range(added) = {hits[j] : j \in js}
  BY <1>1, <1>2, PickFacts
<1>5. IsFiniteSet(T) /\ Cardinality(T) \in Nat
  <2>1. e \in Int /\ 1 \in Int
    BY <1>1
  <2> QED BY <1>1, <2>1, FS_Interval, FS_Subset, FS_CardinalityType
<1>6. Cardinality(js) = Cardinality(T)
  BY <1>1, <1>2, <1>5, ShiftFacts
<1>7. {hits[j] : j \in js} = {hits[start + i] : i \in T}
  BY <1>1
<1>8. \A k \in K, j \in js : k < j
  BY <1>1
<1>9. bugs = Pick(hits, K \cup js)
  BY <1>1, <1>2, <1>8, PickConcat
<1>10. ASSUME e \in T PROVE bugs[Len(bugs)] = hits[start + e]
  <2> DEFINE first == (K \cup js) \ {start + e}
             m == start + e
             f == Pick(hits, first)
  <2>1. m \in 1 .. Len(hits) /\ first \in SUBSET (1 .. Len(hits)) /\ {m} \in SUBSET (1 .. Len(hits))
    BY <1>1, <1>2, <1>10
  <2>2. \A k \in first, j \in {m} : k < j
    BY <1>1, <1>2
  <2>3. K \cup js = first \cup {m}
    BY <1>1, <1>10
  <2> HIDE DEF first, m
  <2>4. Pick(hits, first \cup {m}) = f \o Pick(hits, {m})
    BY <1>1, <2>1, <2>2, PickConcat
  <2>5. Pick(hits, {m}) = <<hits[m]>>
    BY <1>1, <2>1, PickOne
  <2>6. f \in Seq(Bugs)
    BY <1>1, <2>1, PickFacts
  <2>7. bugs = f \o <<hits[m]>>
    BY <1>9, <2>3, <2>4, <2>5
  <2>8. hits[m] \in Bugs
    BY <1>1, <2>1
  <2> HIDE DEF f
  <2>9. \A x \in Bugs : (f \o <<x>>)[Len(f \o <<x>>)] = x
    BY <2>6
  <2> QED BY <2>7, <2>8, <2>9 DEF m
<1> HIDE DEF added
<1>11. before \o added \in Seq(Bugs)
  BY <1>3, <1>4, JoinFacts
<1>12. Len(before \o added) = Len(before) + Len(added)
  BY <1>3, <1>4, JoinFacts
<1>13. Range(before \o added) = Range(before) \cup Range(added)
  BY <1>3, <1>4, JoinFacts
<1>14. Range(bugs) = Range(before) \cup {hits[start + i] : i \in T}
  BY <1>1, <1>4, <1>7, <1>13
<1> QED BY <1>1, <1>2, <1>3, <1>4, <1>5, <1>6, <1>9, <1>10, <1>11, <1>12, <1>14
   DEF Together

---------------------------------------------------------------------------
(* The invariant of a lookup l whose caller can read the bugs in now, and  *)
(* could read those in can at some moment of it.                           *)

Accounted(l) ==
    LET n == Len(l.bugs) + l.hidden + l.unavailable + l.auth IN
    /\ Len(l.bugs) <= Limit
    /\ n <= Len(l.hits)
    /\ Len(l.bugs) < Limit => n = Len(l.hits)
    /\ Len(l.bugs) = Limit => l.bugs[Limit] = l.hits[n]
    /\ l.bugs = <<>> /\ l.answer = "found" => l.auth = 0
    /\ \E is \in SUBSET (1 .. Len(l.hits)) : l.bugs = Pick(l.hits, is)

Fresh(l) == l.bugs = <<>> /\ l.hidden = 0 /\ l.unavailable = 0 /\ l.auth = 0 /\ l.start = 0

\* All batches before start are accounted for, and the next is being read.
Verifying(l, can) ==
    /\ l.start < Len(l.hits) /\ Len(l.bugs) < Limit
    /\ Len(l.reads) = Smaller(Limit, Len(l.hits) - l.start)
    /\ Len(l.bugs) + l.hidden + l.unavailable + l.auth = l.start
    /\ \E is \in SUBSET (1 .. l.start) : l.bugs = Pick(l.hits, is)
    /\ \A i \in DOMAIN l.reads : l.reads[i] = "ok" => l.hits[l.start + i] \in can

CallerOK(l, now, can) ==
    /\ l \in Lookup
    /\ IsInjective(l.hits)
    /\ Range(l.bugs) \subseteq can
    /\ l.pc # "idle" => now \subseteq can /\ l.answer = "none"
    /\ l.pc \in {"ready", "explain", "search", "status"} => Fresh(l)
    /\ l.pc = "verify" => Verifying(l, can)
    /\ l.answer \in {"found", "noauth"} => Accounted(l)

\* What a fold leaves: every hit up to n is in one of the counts.
LEMMA FoldFacts ==
    ASSUME NEW l \in Lookup, NEW can, Verifying(l, can), IsInjective(l.hits),
           Range(l.bugs) \subseteq can, "none" \notin Range(l.reads),
           NEW m, m = Folded(l)
    PROVE  LET n == Len(m.bugs) + m.hidden + m.unavailable + m.auth IN
           /\ m \in Lookup /\ m.pc = l.pc /\ m.hits = l.hits /\ m.answer = l.answer
           /\ m.start = l.start + Limit
           /\ Range(m.bugs) \subseteq can
           /\ Len(m.bugs) <= Limit /\ n <= Len(m.hits)
           /\ Len(m.bugs) < Limit => n = Smaller(m.start, Len(m.hits))
           /\ Len(m.bugs) = Limit => m.bugs[Limit] = m.hits[n]
           /\ \E is \in SUBSET (1 .. n) : m.bugs = Pick(m.hits, is)
<1> DEFINE r == l.reads
           h == l.hits
           s == l.start
           b == Len(r)
           T == Taken(l)
           js == {s + i : i \in T}
           new == l.bugs \o Pick(h, js)
<1>1. /\ h \in Seq(Bugs) /\ s \in Nat /\ r \in Seq(Reads) /\ DOMAIN r = 1 .. b
      /\ l.bugs \in Seq(Bugs) /\ l.hidden \in Nat /\ l.unavailable \in Nat /\ l.auth \in Nat
      /\ Len(h) \in Nat /\ Len(l.bugs) \in Nat /\ b \in Nat /\ Limit \in Nat \ {0}
  BY IndexAssumption DEF Lookup
<1>2. s < Len(h) /\ b = Smaller(Limit, Len(h) - s) /\ Len(l.bugs) < Limit
  BY DEF Verifying
<1>3. b > 0 /\ b <= Limit /\ s + b <= Len(h) /\ s + b = Smaller(s + Limit, Len(h))
  BY <1>1, <1>2 DEF Smaller
<1>4. l.reads # <<>>
  BY <1>3
<1>5. PICK e \in 1 .. b :
          /\ Examined(l) = 1 .. e
          /\ Len(l.bugs) + Cardinality(ReadAs(r, e, "ok")) <= Limit
          /\ Len(l.bugs) + Cardinality(ReadAs(r, e, "ok")) = Limit => r[e] = "ok"
          /\ Len(l.bugs) + Cardinality(ReadAs(r, e, "ok")) < Limit => e = b
  BY <1>2, <1>4, PrefixExamined
<1>6. e \in Nat /\ s + e <= Len(h) /\ e \in 1 .. e
  BY <1>1, <1>3
<1>7. T = ReadAs(r, e, "ok") /\ T \in SUBSET (1 .. e)
  BY <1>5 DEF Taken, ReadAs
<1>8. \A i \in 1 .. e : r[i] \in Reads \ {"none"}
  BY <1>1, <1>5 DEF Range
<1>9. \A v : Tally(l, v) = Cardinality(ReadAs(r, e, v))
  BY <1>5 DEF Tally, ReadAs
<1> DEFINE ok == Cardinality(T)
           denied == Tally(l, "denied")
           unavailable == Tally(l, "unavailable")
           auth == Tally(l, "auth")
<1>10. /\ ok \in Nat /\ denied \in Nat /\ unavailable \in Nat /\ auth \in Nat
       /\ e = ok + denied + unavailable + auth
  BY <1>6, <1>7, <1>8, <1>9, EveryReadTallied
<1>11. PICK K \in SUBSET (1 .. s) : l.bugs = Pick(h, K)
  BY DEF Verifying
<1>12. Batch(h, s, e, K, T, l.bugs, js, new)
  BY <1>1, <1>6, <1>7, <1>11 DEF Batch
<1>13. \A i \in T : h[s + i] \in can
  <2>1. \A i \in 1 .. b : r[i] = "ok" => h[s + i] \in can
    BY <1>1 DEF Verifying
  <2> QED BY <1>5, <1>7, <2>1 DEF ReadAs
<1>14. m = [l EXCEPT !.bugs = new, !.hidden = @ + denied, !.unavailable = @ + unavailable,
                     !.auth = @ + auth, !.start = s + Limit, !.reads = <<>>]
  BY DEF Folded, InRankOrder
<1>15. Len(l.bugs) + l.hidden + l.unavailable + l.auth = s
  BY DEF Verifying
<1> HIDE DEF T, js, new, r, h, s, b, ok, denied, unavailable, auth
<1>16. /\ new \in Seq(Bugs) /\ Len(new) = Len(l.bugs) + ok
       /\ K \cup js \in SUBSET (1 .. s + e) /\ new = Pick(h, K \cup js)
       /\ Range(new) = Range(l.bugs) \cup {h[s + i] : i \in T}
       /\ e \in T => new[Len(new)] = h[s + e]
  <2>1. Together(h, s, e, K, T, l.bugs, js, new)
    BY <1>12, BatchPicked
  <2> QED BY <2>1 DEF Together, ok
<1>17. Range(new) \subseteq can
  BY <1>13, <1>16
<1>18. /\ m.pc = l.pc /\ m.hits = h /\ m.answer = l.answer
       /\ m.start = s + Limit /\ m.bugs = new
       /\ m.hidden = l.hidden + denied
       /\ m.unavailable = l.unavailable + unavailable
       /\ m.auth = l.auth + auth
  BY <1>14 DEF Lookup, h
<1>19. m \in Lookup
  <2>1. /\ s \in Nat /\ Limit \in Nat
        /\ l.hidden \in Nat /\ l.unavailable \in Nat /\ l.auth \in Nat
        /\ denied \in Nat /\ unavailable \in Nat /\ auth \in Nat
    BY <1>1, <1>10, Zenon
  <2>2. s + Limit \in Nat
    BY <2>1
  <2>3. l.hidden + denied \in Nat
    BY <2>1
  <2>4. l.unavailable + unavailable \in Nat
    BY <2>1
  <2>5. l.auth + auth \in Nat
    BY <2>1
  <2>6. <<>> \in Seq(Reads)
    OBVIOUS
  <2>7. new \in Seq(Bugs)
    BY <1>16
  <2> QED BY <1>14, <2>2, <2>3, <2>4, <2>5, <2>6, <2>7 DEF Lookup
<1>20. Len(m.bugs) + m.hidden + m.unavailable + m.auth = s + e
  <2> DEFINE x == Len(l.bugs)
             y == l.hidden
             z == l.unavailable
             w == l.auth
             n == Len(m.bugs) + m.hidden + m.unavailable + m.auth
  <2>1. /\ x \in Nat /\ y \in Nat /\ z \in Nat /\ w \in Nat
        /\ ok \in Nat /\ denied \in Nat /\ unavailable \in Nat /\ auth \in Nat
    BY <1>1, <1>10, Zenon
  <2>2. n = (x + ok) + (y + denied) + (z + unavailable) + (w + auth)
    BY <1>16, <1>18, Zenon
  <2>3. x + y + z + w = s /\ e = ok + denied + unavailable + auth
    BY <1>10, <1>15, Zenon
  <2> HIDE DEF x, y, z, w, n
  <2>4. n = s + e
    BY <2>1, <2>2, <2>3
  <2> QED BY <2>4 DEF n
<1>21. /\ Len(new) <= Limit
       /\ Len(new) = Limit => e \in T
       /\ Len(new) < Limit => e = b
  BY <1>5, <1>6, <1>7, <1>16 DEF ReadAs, ok
<1> QED BY <1>3, <1>6, <1>16, <1>17, <1>18, <1>19, <1>20, <1>21 DEF h, s

LEMMA UnreadFacts ==
    ASSUME NEW hits \in Seq(Bugs), NEW start \in Nat, start < Len(hits)
    PROVE  /\ Unread(hits, start) \in Seq(Reads)
           /\ Len(Unread(hits, start)) = Smaller(Limit, Len(hits) - start)
           /\ \A i \in DOMAIN Unread(hits, start) : Unread(hits, start)[i] = "none"
<1>1. Len(hits) \in Nat /\ Smaller(Limit, Len(hits) - start) \in Nat
  BY IndexAssumption DEF Smaller
<1> QED BY <1>1 DEF Unread, Reads

\* Every phase may lose sight of some bugs, and a lookup under way may gain some.
LEMMA CallerKept ==
    ASSUME NEW l, NEW now, NEW can, CallerOK(l, now, can),
           NEW later, NEW more, can \subseteq more, l.pc # "idle" => later \subseteq more
    PROVE  CallerOK(l, later, more)
  BY DEF CallerOK, Verifying

LEMMA NoLookupFacts == NoLookup \in Lookup
  BY DEF NoLookup, Lookup, Phases, Reads, Answers

LEMMA AskOK == ASSUME NEW now PROVE CallerOK([NoLookup EXCEPT !.pc = "ready"], now, now)
<1> DEFINE l == [NoLookup EXCEPT !.pc = "ready"]
<1>1. /\ l.pc = "ready" /\ l.hits = <<>> /\ l.bugs = <<>> /\ l.answer = "none" /\ Fresh(l)
  BY DEF NoLookup, Fresh
<1>2. l \in Lookup
  BY NoLookupFacts DEF Lookup, Phases
<1>3. IsInjective(<<>>) /\ Range(<<>>) = {}
  BY DEF IsInjective, Range
<1> QED BY <1>1, <1>2, <1>3 DEF CallerOK

LEMMA IdleOK == ASSUME NEW now PROVE CallerOK(NoLookup, now, {})
<1>1. /\ NoLookup.pc = "idle" /\ NoLookup.hits = <<>> /\ NoLookup.bugs = <<>>
      /\ NoLookup.answer = "none"
  BY DEF NoLookup
<1>2. IsInjective(<<>>) /\ Range(<<>>) = {}
  BY DEF IsInjective, Range
<1> QED BY <1>1, <1>2, NoLookupFacts DEF CallerOK

LEMMA CheckReadyOK ==
    ASSUME NEW l, NEW now, NEW can, CallerOK(l, now, can), l.pc = "ready",
           NEW pc \in {"explain", "search"}
    PROVE  CallerOK([l EXCEPT !.pc = pc], now, can)
  BY DEF CallerOK, Lookup, Phases, Fresh

LEMMA ExplainOK ==
    ASSUME NEW l, NEW now, NEW can, CallerOK(l, now, can), l.pc = "explain",
           NEW a \in {"building", "failed", "empty"}
    PROVE  CallerOK([l EXCEPT !.pc = "idle", !.answer = a], now, can)
  BY DEF CallerOK, Lookup, Phases, Answers

LEMMA RankingsFacts ==
    ASSUME NEW docs \in SUBSET Bugs, NEW hits \in Rankings(docs)
    PROVE  hits \in Seq(Bugs) /\ IsInjective(hits)
<1>1. PICK n \in 0 .. hitCount(docs) :
          hits \in [1 .. n -> docs] /\ IsInjective(hits)
  BY DEF Rankings
<1>2. n \in Nat
  OBVIOUS
<1>3. hits \in [1 .. n -> Bugs]
  BY <1>1
<1> QED BY <1>1, <1>2, <1>3

LEMMA SearchOK ==
    ASSUME NEW l, NEW now, NEW can, CallerOK(l, now, can), l.pc = "search",
           NEW docs \in SUBSET Bugs, NEW hits \in Rankings(docs), NEW gaps \in BOOLEAN
    PROVE  CallerOK([l EXCEPT !.pc = "status", !.hits = hits, !.gaps = gaps], now, can)
  BY RankingsFacts DEF CallerOK, Lookup, Phases, Fresh

LEMMA ReadStatusOK ==
    ASSUME NEW k, NEW now, NEW can, CallerOK(k, now, can), k.pc = "status",
           NEW partial \in BOOLEAN, NEW l, l = [k EXCEPT !.partial = partial]
    PROVE  CallerOK(IF l.hits = <<>> THEN [l EXCEPT !.pc = "idle", !.answer = "nohits"]
                    ELSE [l EXCEPT !.pc = "verify", !.reads = Unread(l.hits, 0)], now, can)
<1>1. /\ CallerOK(l, now, can) /\ l.pc = "status"
  BY DEF CallerOK, Lookup, Fresh
<1>2. /\ l \in Lookup /\ Fresh(l) /\ l.answer = "none" /\ IsInjective(l.hits)
      /\ Range(l.bugs) \subseteq can /\ now \subseteq can
  BY <1>1 DEF CallerOK
<1>3. CASE l.hits = <<>>
  <2> DEFINE m == [l EXCEPT !.pc = "idle", !.answer = "nohits"]
  <2>1. /\ m \in Lookup /\ m.pc = "idle" /\ m.answer = "nohits" /\ m.hits = l.hits
        /\ m.bugs = l.bugs
    BY <1>2 DEF Lookup, Phases, Answers
  <2> HIDE DEF m
  <2>2. CallerOK(m, now, can)
    BY <1>2, <2>1 DEF CallerOK
  <2> QED BY <1>3, <2>2 DEF m
<1>4. CASE l.hits # <<>>
  <2> DEFINE u == Unread(l.hits, 0)
             m == [l EXCEPT !.pc = "verify", !.reads = u]
  <2>1. l.hits \in Seq(Bugs) /\ Len(l.hits) \in Nat /\ 0 < Len(l.hits) /\ 0 \in Nat
    BY <1>2, <1>4 DEF Lookup
  <2>2. /\ u \in Seq(Reads) /\ Len(u) = Smaller(Limit, Len(l.hits) - 0)
        /\ \A i \in DOMAIN u : u[i] = "none"
    BY <2>1, UnreadFacts
  <2> HIDE DEF u
  <2>3. /\ m \in Lookup /\ m.pc = "verify" /\ m.answer = "none" /\ m.hits = l.hits
        /\ m.bugs = <<>> /\ m.reads = u /\ m.start = 0
        /\ m.hidden = 0 /\ m.unavailable = 0 /\ m.auth = 0
    BY <1>2, <2>2 DEF Lookup, Phases, Fresh
  <2> HIDE DEF m
  <2>4. Pick(l.hits, {}) = <<>>
    <3>1. 1 \in 1 .. Len(l.hits)
      BY <2>1
    <3> QED BY <2>1, <3>1, PickOne
  <2>5. Verifying(m, can)
    <3>1. m.start < Len(m.hits) /\ Len(m.bugs) < Limit
      BY <2>1, <2>3, IndexAssumption
    <3>2. Len(m.reads) = Smaller(Limit, Len(m.hits) - m.start)
      BY <2>2, <2>3
    <3>3. Len(m.bugs) + m.hidden + m.unavailable + m.auth = m.start
      BY <2>3
    <3>4. {} \in SUBSET (1 .. m.start) /\ m.bugs = Pick(m.hits, {})
      BY <2>3, <2>4
    <3> QED BY <2>2, <2>3, <3>1, <3>2, <3>3, <3>4 DEF Verifying
  <2>6. CallerOK(m, now, can)
    BY <1>2, <2>3, <2>5 DEF CallerOK, Fresh
  <2> QED BY <1>4, <2>6 DEF m, u
<1> QED BY <1>3, <1>4

LEMMA ReadHitOK ==
    ASSUME NEW l, NEW now, NEW can, CallerOK(l, now, can), l.pc = "verify",
           NEW i \in DOMAIN l.reads, NEW r \in Reads,
           r = "ok" => l.hits[l.start + i] \in now
    PROVE  CallerOK([l EXCEPT !.reads[i] = r], now, can)
<1> DEFINE reads == [l.reads EXCEPT ![i] = r]
           m == [l EXCEPT !.reads = reads]
<1>1. l \in Lookup /\ Verifying(l, can) /\ now \subseteq can /\ l.answer = "none"
  BY DEF CallerOK
<1>2. [l EXCEPT !.reads[i] = r] = m
  BY <1>1 DEF Lookup
<1>3. l.reads \in Seq(Reads)
  BY <1>1 DEF Lookup
<1>4. /\ reads \in Seq(Reads) /\ DOMAIN reads = DOMAIN l.reads /\ Len(reads) = Len(l.reads)
      /\ \A j \in DOMAIN reads : reads[j] = IF j = i THEN r ELSE l.reads[j]
  BY <1>3
<1> HIDE DEF reads
<1>5. /\ m \in Lookup /\ m.pc = "verify" /\ m.answer = "none" /\ m.hits = l.hits
      /\ m.bugs = l.bugs /\ m.reads = reads /\ m.start = l.start
      /\ m.hidden = l.hidden /\ m.unavailable = l.unavailable /\ m.auth = l.auth
  BY <1>1, <1>4 DEF Lookup
<1> HIDE DEF m
<1>6. Verifying(m, can)
  BY <1>1, <1>4, <1>5 DEF Verifying
<1>7. CallerOK(m, now, can)
  BY <1>1, <1>5, <1>6 DEF CallerOK
<1> QED BY <1>2, <1>7

LEMMA FoldBatchOK ==
    ASSUME NEW k, NEW now, NEW can, CallerOK(k, now, can), k.pc = "verify",
           "none" \notin Range(k.reads), NEW l, l = Folded(k)
    PROVE  CallerOK(IF MoreToVerify(l) THEN [l EXCEPT !.reads = Unread(l.hits, l.start)]
                    ELSE Answered(l), now, can)
<1> DEFINE n == Len(l.bugs) + l.hidden + l.unavailable + l.auth
<1>1. k \in Lookup /\ Verifying(k, can) /\ IsInjective(k.hits) /\ Range(k.bugs) \subseteq can
      /\ now \subseteq can /\ k.answer = "none"
  BY DEF CallerOK
<1>2. /\ l \in Lookup /\ l.pc = k.pc /\ l.hits = k.hits /\ l.answer = k.answer
      /\ l.start = k.start + Limit
      /\ Range(l.bugs) \subseteq can
      /\ Len(l.bugs) <= Limit /\ n <= Len(l.hits)
      /\ Len(l.bugs) < Limit => n = Smaller(l.start, Len(l.hits))
      /\ Len(l.bugs) = Limit => l.bugs[Limit] = l.hits[n]
      /\ \E is \in SUBSET (1 .. n) : l.bugs = Pick(l.hits, is)
  BY <1>1, FoldFacts
<1>3. /\ l.hits \in Seq(Bugs) /\ l.bugs \in Seq(Bugs) /\ l.start \in Nat /\ l.auth \in Nat
      /\ l.hidden \in Nat /\ l.unavailable \in Nat
      /\ Len(l.hits) \in Nat /\ Len(l.bugs) \in Nat /\ Limit \in Nat
  BY <1>2, IndexAssumption DEF Lookup
<1>4. CASE MoreToVerify(l)
  <2> DEFINE u == Unread(l.hits, l.start)
             m == [l EXCEPT !.reads = u]
  <2>1. l.start < Len(l.hits) /\ Len(l.bugs) < Limit
    BY <1>4 DEF MoreToVerify
  <2>2. /\ u \in Seq(Reads) /\ Len(u) = Smaller(Limit, Len(l.hits) - l.start)
        /\ \A i \in DOMAIN u : u[i] = "none"
    BY <1>3, <2>1, UnreadFacts
  <2>3. n = l.start
    BY <1>2, <1>3, <2>1 DEF Smaller
  <2> HIDE DEF u
  <2>4. /\ m \in Lookup /\ m.pc = "verify" /\ m.answer = "none" /\ m.hits = l.hits
        /\ m.bugs = l.bugs /\ m.reads = u /\ m.start = l.start
        /\ m.hidden = l.hidden /\ m.unavailable = l.unavailable /\ m.auth = l.auth
    BY <1>1, <1>2, <2>2 DEF Lookup
  <2> HIDE DEF m
  <2>5. Verifying(m, can)
    <3>1. m.start < Len(m.hits) /\ Len(m.bugs) < Limit
      BY <2>1, <2>4
    <3>2. Len(m.reads) = Smaller(Limit, Len(m.hits) - m.start)
      BY <2>2, <2>4
    <3>3. Len(m.bugs) + m.hidden + m.unavailable + m.auth = m.start
      BY <2>3, <2>4
    <3>4. \E is \in SUBSET (1 .. m.start) : m.bugs = Pick(m.hits, is)
      BY <1>2, <2>3, <2>4
    <3> QED BY <2>2, <2>4, <3>1, <3>2, <3>3, <3>4 DEF Verifying
  <2>6. CallerOK(m, now, can)
    BY <1>1, <1>2, <2>4, <2>5 DEF CallerOK
  <2> QED BY <1>4, <2>6 DEF m, u
<1>5. CASE ~MoreToVerify(l)
  <2> DEFINE m == Answered(l)
  <2>1. /\ m \in Lookup /\ m.pc = "idle" /\ m.hits = l.hits /\ m.bugs = l.bugs
        /\ m.hidden = l.hidden /\ m.unavailable = l.unavailable /\ m.auth = l.auth
        /\ m.answer = IF l.auth > 0 /\ l.bugs = <<>> THEN "noauth" ELSE "found"
    BY <1>2 DEF Answered, Lookup, Phases, Answers
  <2> HIDE DEF m
  <2>2. l.start >= Len(l.hits) \/ Len(l.bugs) = Limit
    BY <1>2, <1>3, <1>5 DEF MoreToVerify
  <2>3. Len(l.bugs) < Limit => n = Len(l.hits)
    BY <1>2, <1>3, <2>2 DEF Smaller
  <2>4. \E is \in SUBSET (1 .. Len(l.hits)) : l.bugs = Pick(l.hits, is)
    <3>1. n \in Nat
      BY <1>3
    <3>2. 1 .. n \subseteq 1 .. Len(l.hits)
      BY <1>2, <1>3, <3>1
    <3> HIDE DEF n
    <3> QED BY <1>2, <3>2
  <2>5. l.bugs = <<>> /\ m.answer = "found" => l.auth = 0
    BY <1>3, <2>1
  <2>6. Accounted(m)
    <3> HIDE DEF n
    <3>1. n = Len(m.bugs) + m.hidden + m.unavailable + m.auth
      BY <2>1 DEF n
    <3>2. /\ Len(m.bugs) <= Limit /\ n <= Len(m.hits)
          /\ Len(m.bugs) < Limit => n = Len(m.hits)
          /\ Len(m.bugs) = Limit => m.bugs[Limit] = m.hits[n]
          /\ m.bugs = <<>> /\ m.answer = "found" => m.auth = 0
          /\ \E is \in SUBSET (1 .. Len(m.hits)) : m.bugs = Pick(m.hits, is)
      BY <1>2, <2>1, <2>3, <2>4, <2>5
    <3> QED BY <3>1, <3>2, Zenon DEF Accounted
  <2>7. CallerOK(m, now, can)
    BY <1>1, <1>2, <2>1, <2>6 DEF CallerOK
  <2> QED BY <1>5, <2>7 DEF m
<1> QED BY <1>4, <1>5

---------------------------------------------------------------------------
(* Every step keeps the invariant of every lookup.                         *)

LookupInv ==
    /\ builds \in Nat /\ changes \in Nat
    /\ visible \in [Callers -> SUBSET Bugs]
    /\ readable \in [Callers -> SUBSET Bugs]
    /\ lookup \in [Callers -> Lookup]
    /\ \A c \in Callers : CallerOK(lookup[c], visible[c], readable[c])

LEMMA LookupInit == Init => LookupInv
<1> SUFFICES ASSUME Init PROVE LookupInv
  OBVIOUS
<1>1. /\ builds = 0 /\ changes = 0 /\ stored \subseteq Bugs
      /\ visible \in [Callers -> SUBSET stored]
      /\ readable = [c \in Callers |-> {}] /\ lookup = [c \in Callers |-> NoLookup]
  BY DEF Init
<1> QED BY <1>1, NoLookupFacts, IdleOK DEF LookupInv

\* What only happens outside the lookups.
LEMMA UnaskedKeeps ==
    ASSUME LookupInv, UNCHANGED lookup, builds' \in Nat, changes' \in Nat,
           visible' \in [Callers -> SUBSET Bugs], readable' \in [Callers -> SUBSET Bugs],
           \A c \in Callers : readable[c] \subseteq readable'[c],
           \A c \in Callers : lookup[c].pc # "idle" => visible'[c] \subseteq readable'[c]
    PROVE  LookupInv'
<1>1. ASSUME NEW c \in Callers PROVE CallerOK(lookup[c], visible'[c], readable'[c])
  <2>1. CallerOK(lookup[c], visible[c], readable[c])
    BY DEF LookupInv
  <2> QED BY <2>1, CallerKept
<1> QED BY <1>1 DEF LookupInv

LEMMA WorldKeeps ==
    ASSUME LookupInv, stored \subseteq Bugs,
           \/ \E b \in Bugs : Create(b) \/ Delete(b)
           \/ \E c \in Callers, b \in Bugs : Grant(c, b) \/ Revoke(c, b)
    PROVE  LookupInv'
<1>1. /\ builds \in Nat /\ changes \in Nat
      /\ visible \in [Callers -> SUBSET Bugs] /\ readable \in [Callers -> SUBSET Bugs]
      /\ \A c \in Callers : lookup[c].pc # "idle" => visible[c] \subseteq readable[c]
  BY DEF LookupInv, CallerOK
<1>2. ASSUME Change PROVE UNCHANGED <<lookup, builds>> /\ changes' \in Nat
  BY <1>1, <1>2 DEF Change
<1>3. ASSUME NEW b \in Bugs, Create(b) PROVE LookupInv'
  BY <1>1, <1>2, <1>3, UnaskedKeeps DEF Create
<1>4. ASSUME NEW b \in Bugs, Delete(b) PROVE LookupInv'
  <2>1. /\ Change /\ readable' = readable
        /\ visible' = [c \in Callers |-> visible[c] \ {b}]
    BY <1>4 DEF Delete
  <2> QED BY <1>1, <1>2, <2>1, UnaskedKeeps
<1>5. ASSUME NEW a \in Callers, NEW b \in Bugs, Grant(a, b) PROVE LookupInv'
  <2>1. /\ Change
        /\ visible' = [visible EXCEPT ![a] = @ \cup {b}]
        /\ readable' = [readable EXCEPT ![a] = IF lookup[a].pc = "idle" THEN @ ELSE @ \cup {b}]
    BY <1>5 DEF Grant
  <2>2. /\ visible' \in [Callers -> SUBSET Bugs] /\ readable' \in [Callers -> SUBSET Bugs]
    BY <1>1, <2>1
  <2>3. \A c \in Callers : readable[c] \subseteq readable'[c]
    BY <1>1, <2>1
  <2>4. \A c \in Callers : lookup[c].pc # "idle" => visible'[c] \subseteq readable'[c]
    BY <1>1, <2>1
  <2> QED BY <1>1, <1>2, <2>1, <2>2, <2>3, <2>4, UnaskedKeeps
<1>6. ASSUME NEW a \in Callers, NEW b \in Bugs, Revoke(a, b) PROVE LookupInv'
  <2>1. /\ Change /\ readable' = readable
        /\ visible' = [visible EXCEPT ![a] = @ \ {b}]
    BY <1>6 DEF Revoke
  <2>2. visible' \in [Callers -> SUBSET Bugs]
    BY <1>1, <2>1
  <2>3. \A c \in Callers : lookup[c].pc # "idle" => visible'[c] \subseteq readable'[c]
    BY <1>1, <2>1
  <2> QED BY <1>1, <1>2, <2>1, <2>2, <2>3, UnaskedKeeps
<1> QED BY <1>3, <1>4, <1>5, <1>6

\* One lookup moves on, and the others stay.
LEMMA OneMoves ==
    ASSUME LookupInv, NEW c \in Callers, NEW l, LookupStep(c, l),
           readable' \in [Callers -> SUBSET Bugs],
           \A d \in Callers \ {c} : readable'[d] = readable[d],
           CallerOK(l, visible[c], readable'[c])
    PROVE  LookupInv'
<1>1. /\ lookup' = [lookup EXCEPT ![c] = l] /\ builds' = builds /\ changes' = changes
      /\ visible' = visible
  BY DEF LookupStep, buildVars, worldVars
<1>2. l \in Lookup
  BY DEF CallerOK
<1>3. \A d \in Callers : lookup'[d] = IF d = c THEN l ELSE lookup[d]
  BY <1>1 DEF LookupInv
<1>4. lookup' \in [Callers -> Lookup]
  BY <1>1, <1>2 DEF LookupInv
<1>5. \A d \in Callers : CallerOK(lookup'[d], visible'[d], readable'[d])
  BY <1>1, <1>3 DEF LookupInv
<1> QED BY <1>1, <1>4, <1>5 DEF LookupInv

LEMMA ProceedKeeps ==
    ASSUME LookupInv, IndexInv, NEW c \in Callers, Proceed(c)
    PROVE  LookupInv'
<1> DEFINE l == lookup[c]
           now == visible[c]
           can == readable[c]
<1>1. CallerOK(l, now, can) /\ l \in Lookup
  BY DEF LookupInv
<1>2. readable' = readable /\ readable \in [Callers -> SUBSET Bugs]
  BY DEF LookupInv, Proceed, CheckReady, Explain, Search, ReadStatus, FoldBatch, ReadHit
<1>3. ASSUME NEW m, LookupStep(c, m), CallerOK(m, now, can) PROVE LookupInv'
  BY <1>2, <1>3, OneMoves
<1>4. snap.docs \in SUBSET Bugs /\ snap.gaps \in BOOLEAN /\ buildState.partial \in BOOLEAN
  BY DEF IndexInv, IndexTypes
<1> HIDE DEF l, now, can
<1>5. CASE CheckReady(c)
  <2> DEFINE pc == IF snap.docs = {} THEN "explain" ELSE "search"
  <2>1. l.pc = "ready" /\ LookupStep(c, [l EXCEPT !.pc = pc]) /\ pc \in {"explain", "search"}
    BY <1>5 DEF CheckReady, l
  <2> HIDE DEF pc
  <2> QED BY <1>1, <1>3, <2>1, CheckReadyOK
<1>6. CASE Explain(c)
  <2> DEFINE a == IF ~buildState.done THEN "building"
                  ELSE IF buildState.err THEN "failed" ELSE "empty"
  <2>1. /\ l.pc = "explain" /\ LookupStep(c, [l EXCEPT !.pc = "idle", !.answer = a])
        /\ a \in {"building", "failed", "empty"}
    BY <1>6 DEF Explain, l
  <2> HIDE DEF a
  <2> QED BY <1>1, <1>3, <2>1, ExplainOK
<1>7. CASE Search(c)
  <2>1. PICK hits \in Rankings(snap.docs) :
            LookupStep(c, [l EXCEPT !.pc = "status", !.hits = hits, !.gaps = snap.gaps])
    BY <1>7 DEF Search, l
  <2>2. l.pc = "search"
    BY <1>7 DEF Search, l
  <2> QED BY <1>1, <1>3, <1>4, <2>1, <2>2, SearchOK
<1>8. CASE ReadStatus(c)
  <2> DEFINE m == [l EXCEPT !.partial = buildState.partial]
             next == IF m.hits = <<>> THEN [m EXCEPT !.pc = "idle", !.answer = "nohits"]
                     ELSE [m EXCEPT !.pc = "verify", !.reads = Unread(m.hits, 0)]
  <2>1. l.pc = "status" /\ LookupStep(c, next)
    BY <1>8 DEF ReadStatus, l
  <2>2. CallerOK(next, now, can)
    BY <1>1, <1>4, <2>1, ReadStatusOK
  <2> HIDE DEF next
  <2> QED BY <1>3, <2>1, <2>2
<1>9. CASE FoldBatch(c)
  <2> DEFINE m == Folded(l)
             next == IF MoreToVerify(m) THEN [m EXCEPT !.reads = Unread(m.hits, m.start)]
                     ELSE Answered(m)
  <2>1. l.pc = "verify" /\ "none" \notin Range(l.reads) /\ LookupStep(c, next)
    BY <1>9 DEF FoldBatch, l
  <2>2. CallerOK(next, now, can)
    BY <1>1, <2>1, FoldBatchOK
  <2> HIDE DEF next
  <2> QED BY <1>3, <2>1, <2>2
<1>10. ASSUME NEW i \in 1 .. Limit, ReadHit(c, i) PROVE LookupInv'
  <2>1. l.pc = "verify" /\ i \in DOMAIN l.reads
    BY <1>10 DEF ReadHit, l
  <2>2. PICK r \in ReadsOf(c, l.hits[l.start + i]) : LookupStep(c, [l EXCEPT !.reads[i] = r])
    BY <1>10 DEF ReadHit, l
  <2>3. r \in Reads /\ (r = "ok" => l.hits[l.start + i] \in now)
    BY <2>2 DEF ReadsOf, Reads, now
  <2>4. CallerOK([l EXCEPT !.reads[i] = r], now, can)
    BY <1>1, <2>1, <2>3, ReadHitOK
  <2> QED BY <1>3, <2>2, <2>4
<1> QED BY <1>5, <1>6, <1>7, <1>8, <1>9, <1>10 DEF Proceed

LEMMA LookupNext == IndexInv /\ LookupInv /\ [Next]_vars => LookupInv'
<1> SUFFICES ASSUME IndexInv, LookupInv, [Next]_vars PROVE LookupInv'
  OBVIOUS
<1>1. stored \subseteq Bugs
  BY DEF IndexInv, IndexTypes
<1>2. ASSUME UNCHANGED <<lookup, changes, visible, readable>>, builds' \in Nat PROVE LookupInv'
  BY <1>2, UnaskedKeeps DEF LookupInv, CallerOK
<1>3. CASE Build
  <2>1. UNCHANGED <<lookup, changes, visible, readable>> /\ builds' \in Nat
    BY <1>3 DEF Build, StartBuild, StopBuilder, ListProducts, ListFails, ScanProduct, Abandon,
               Replace, StoreState, worldVars, LookupInv
  <2> QED BY <1>2, <2>1
<1>4. ASSUME NEW c \in Callers, Ask(c) PROVE LookupInv'
  <2> DEFINE l == [NoLookup EXCEPT !.pc = "ready"]
  <2>1. /\ LookupStep(c, l) /\ readable' = [readable EXCEPT ![c] = visible[c]]
    BY <1>4 DEF Ask
  <2>2. /\ readable' \in [Callers -> SUBSET Bugs] /\ readable'[c] = visible[c]
        /\ \A d \in Callers \ {c} : readable'[d] = readable[d]
    BY <2>1 DEF LookupInv
  <2>3. CallerOK(l, visible[c], readable'[c])
    BY <2>2, AskOK
  <2> HIDE DEF l
  <2> QED BY <2>1, <2>2, <2>3, OneMoves
<1>5. CASE UNCHANGED vars
  BY <1>2, <1>5 DEF vars, buildVars, worldVars, LookupInv
<1> QED BY <1>1, <1>3, <1>4, <1>5, WorldKeeps, ProceedKeeps DEF Next

LEMMA LookupInvariant == Spec => [](IndexInv /\ LookupInv)
  BY IndexInit, IndexStep, LookupInit, LookupNext, PTL DEF Spec

(* Every variable keeps its type, in any state of a build and of any       *)
(* number of lookups (history.go, bugindex).                               *)
THEOREM HistoryTypeCorrect == Spec => []TypeOK
<1>1. IndexInv /\ LookupInv => TypeOK
  BY DEF IndexInv, IndexTypes, ScanResult, LookupInv, TypeOK
<1> QED BY <1>1, LookupInvariant, PTL

(* No bug is returned that the caller could not read itself during its     *)
(* lookup, however stale the index is and whoever built it                 *)
(* (history.go:400-476, 523-585).                                          *)
THEOREM ReadAsCallerAlways == Spec => []ReadAsCaller
<1>1. LookupInv => ReadAsCaller
  BY DEF LookupInv, CallerOK, ReadAsCaller
<1> QED BY <1>1, LookupInvariant, PTL

(* No candidate is lost between the ranking and the answer, over any       *)
(* number of batches and whatever their reads return: the answer is the    *)
(* best readable candidates in rank order, and the rest is counted         *)
(* (history.go:523-585).                                                   *)
THEOREM CandidatesAccounted == Spec => []EveryCandidateAccounted
<1>1. ASSUME LookupInv, NEW c \in Callers, lookup[c].answer \in {"found", "noauth"}
      PROVE  LET l == lookup[c]
                 n == Len(l.bugs) + l.hidden + l.unavailable + l.auth IN
             /\ Len(l.bugs) <= Limit
             /\ n <= Len(l.hits)
             /\ Len(l.bugs) < Limit => n = Len(l.hits)
             /\ Len(l.bugs) = Limit => l.bugs[Limit] = l.hits[n]
             /\ l.bugs = <<>> /\ l.answer = "found" => l.auth = 0
             /\ l.bugs = Pick(l.hits, {i \in DOMAIN l.hits : l.hits[i] \in Range(l.bugs)})
  <2> DEFINE l == lookup[c]
             h == l.hits
  <2>1. h \in Seq(Bugs) /\ IsInjective(h) /\ Accounted(l)
    BY <1>1 DEF LookupInv, CallerOK, Lookup
  <2>2. PICK is \in SUBSET (1 .. Len(h)) : l.bugs = Pick(h, is)
    BY <2>1 DEF Accounted
  <2>3. DOMAIN h = 1 .. Len(h)
    BY <2>1
  <2>4. Range(Pick(h, is)) = {h[i] : i \in is}
    BY <2>1, PickFacts
  <2>5. {i \in DOMAIN h : h[i] \in Range(l.bugs)} = is
    BY <2>1, <2>2, <2>3, <2>4 DEF IsInjective
  <2>6. l.bugs = Pick(h, {i \in DOMAIN h : h[i] \in Range(l.bugs)})
    BY <2>2, <2>5
  <2> QED BY <2>1, <2>6 DEF Accounted
<1>2. LookupInv => EveryCandidateAccounted
  BY <1>1, Zenon DEF EveryCandidateAccounted
<1> QED BY <1>2, LookupInvariant, PTL

=============================================================================
