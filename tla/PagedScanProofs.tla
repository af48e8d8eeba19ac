-------------------------- MODULE PagedScanProofs ---------------------------
(***************************************************************************)
(* Proofs about PagedScan: the scan neither repeats records nor outgrows   *)
(* its budget, ends within it, is exact when nothing changes, and never    *)
(* misses a record in silence while people create and delete others.       *)
(***************************************************************************)
EXTENDS PagedScan, SequenceLemmas

(* The records ZenTao puts on a page.                                      *)
Size == Smaller(pageSize, server.cap)

(* ZenTao lists the records newest first.                                  *)
NewestFirst ==
    /\ \A i, j \in 1 .. Len(collection) : i < j => collection[i] > collection[j]
    /\ \A i \in 1 .. Len(collection) : collection[i] <= created
    /\ steady \subseteq Range(collection)

(* What was read fits the pages read so far.                               *)
PagesHold == pc = "fetch" => Len(records) <= (page - 1) * Size

Older(r) == {x \in Range(collection) : x < r}

(* The heart of the matter: the total tells of a record that was skipped   *)
(* and of every older one still to come, so reading those cannot hide it.  *)
SkippedAreCounted ==
    pc = "fetch" /\ server.totals /\ ~server.repeats /\ page > 1 =>
        \A r \in steady \ Range(records) :
            total >= Len(records) + 1 + Cardinality(Older(r) \ Range(records))

(* Without changes the scan has read the pages before this one.            *)
ExactSoFar ==
    pc = "fetch" /\ quiet /\ ~server.repeats /\ pageSize <= server.cap =>
        /\ (page - 1) * pageSize <= Len(collection)
        /\ records = SubSeq(collection, 1, (page - 1) * pageSize)
        /\ total = IF server.totals /\ page > 1 THEN Len(collection) ELSE 0

---------------------------------------------------------------------------
(* What a page brings.                                                     *)

LEMMA SizeFacts ==
    ASSUME TypeOK
    PROVE  /\ pageSize \in Nat \ {0} /\ Size \in Nat \ {0} /\ Size <= pageSize
           /\ pageSize <= server.cap => Size = pageSize
BY ScanAssumption DEF TypeOK, Servers, pageSize, Size, Smaller

LEMMA CollectionTyped ==
    ASSUME TypeOK
    PROVE  /\ collection \in Seq(Ids)
           /\ DOMAIN collection = 1 .. Len(collection) /\ Len(collection) \in Nat
           /\ \A i \in 1 .. Len(collection) : collection[i] \in Int
<1>1. collection \in Seq(Ids)
    BY DEF TypeOK
<1>2. /\ DOMAIN collection = 1 .. Len(collection) /\ Len(collection) \in Nat
      /\ \A i \in 1 .. Len(collection) : collection[i] \in Ids
    BY <1>1
<1>3. \A x \in Ids : x \in Int
    BY DEF Ids
<1> QED BY <1>1, <1>2, <1>3

LEMMA CollectionDistinct ==
    ASSUME TypeOK, NewestFirst
    PROVE  IsInjective(collection)
<1>1. DOMAIN collection = 1 .. Len(collection) /\ Len(collection) \in Nat
      /\ \A i \in 1 .. Len(collection) : collection[i] \in Int
    BY CollectionTyped
<1>2. ASSUME NEW i \in 1 .. Len(collection), NEW j \in 1 .. Len(collection), collection[i] = collection[j]
      PROVE  i = j
  <2>1. ~ (i < j) /\ ~ (j < i)
      BY <1>1, <1>2 DEF NewestFirst
  <2> QED BY <2>1
<1> QED BY <1>1, <1>2 DEF IsInjective

\* The first position of a page.
First == IF server.repeats THEN 1 ELSE (page - 1) * Size + 1

LEMMA FirstFacts ==
    ASSUME TypeOK
    PROVE  /\ First \in Nat \ {0} /\ (page - 1) * Size \in Nat
           /\ page * Size = (page - 1) * Size + Size
           /\ items = SubSeq(collection, First, Smaller(First + Size - 1, Len(collection)))
<1>1. page \in Nat \ {0} /\ Size \in Nat \ {0}
    BY SizeFacts DEF TypeOK
<1>2. \A p \in Nat \ {0}, z \in Nat \ {0} : (p - 1) * z \in Nat /\ p * z = (p - 1) * z + z
    OBVIOUS
<1>3. (page - 1) * Size \in Nat /\ page * Size = (page - 1) * Size + Size
    BY <1>1, <1>2
<1> QED BY <1>3 DEF First, items, Items, Size

LEMMA ItemsFacts ==
    ASSUME TypeOK, NewestFirst
    PROVE  /\ items \in Seq(Ids) /\ Len(items) <= Size /\ IsInjective(items)
           /\ Range(items) \subseteq Range(collection)
           /\ Range(items) = {collection[i] : i \in First .. Smaller(First + Size - 1, Len(collection))}
           /\ Len(items) = IF First + Size - 1 <= Len(collection) THEN Size
                           ELSE IF First <= Len(collection) THEN Len(collection) - First + 1
                           ELSE 0
<1> DEFINE last == Smaller(First + Size - 1, Len(collection))
<1>1. /\ collection \in Seq(Ids) /\ Len(collection) \in Nat
      /\ First \in Nat \ {0} /\ Size \in Nat \ {0}
    BY FirstFacts, SizeFacts DEF TypeOK
<1>2. last \in 0 .. Len(collection)
    BY <1>1 DEF Smaller
<1>3. items = SubSeq(collection, First, last)
    BY FirstFacts
<1>4. last = IF First + Size - 1 <= Len(collection) THEN First + Size - 1 ELSE Len(collection)
    BY <1>1 DEF Smaller
<1> HIDE DEF last
<1>5. /\ items \in Seq(Ids)
      /\ Len(items) = IF First <= last THEN last - First + 1 ELSE 0
      /\ Range(items) = {collection[i] : i \in First .. last}
      /\ Range(items) \subseteq Range(collection)
      /\ IsInjective(items)
    BY <1>1, <1>2, <1>3, PartFacts, CollectionDistinct
<1>6. Len(items) = IF First + Size - 1 <= Len(collection) THEN Size
                   ELSE IF First <= Len(collection) THEN Len(collection) - First + 1
                   ELSE 0
    BY <1>1, <1>4, <1>5
<1>7. Len(items) <= Size
    BY <1>1, <1>6
<1> QED BY <1>5, <1>6, <1>7 DEF last

LEMMA FreshFacts ==
    ASSUME TypeOK, NewestFirst
    PROVE  /\ Fresh \in Seq(Ids) /\ IsInjective(Fresh) /\ Len(Fresh) <= Len(items)
           /\ Range(Fresh) = Range(items) \ Range(records)
           /\ Range(items) \cap Range(records) = {} => Fresh = items
<1> DEFINE new == {i \in DOMAIN items : items[i] \notin Range(records)}
<1>1. items \in Seq(Ids) /\ IsInjective(items) /\ DOMAIN items = 1 .. Len(items) /\ Len(items) \in Nat
    BY ItemsFacts
<1>2. new \in SUBSET (1 .. Len(items))
    BY <1>1
<1>3. {items[i] : i \in new} = Range(items) \ Range(records)
    BY DEF Range
<1>4. Range(items) \cap Range(records) = {} => new = 1 .. Len(items)
    BY <1>1 DEF Range
<1>5. Fresh = Pick(items, new)
    BY DEF Fresh
<1> HIDE DEF new
<1>6. /\ Fresh \in Seq(Ids) /\ IsInjective(Fresh) /\ Len(Fresh) <= Len(items)
      /\ Range(Fresh) = {items[i] : i \in new}
  <2>1. Len(Fresh) = Cardinality(new) /\ Cardinality(new) \in 0 .. Len(items)
      BY <1>1, <1>2, <1>5, PickFacts
  <2> QED BY <1>1, <1>2, <1>5, <2>1, PickFacts
<1>7. Pick(items, 1 .. Len(items)) = items
  <2>1. Pick(items, 1 .. Len(items)) = SubSeq(items, 1, Len(items))
      BY <1>1, PickPrefix
  <2>2. SubSeq(items, 1, Len(items)) = items
      BY <1>1
  <2> QED BY <2>1, <2>2
<1> QED BY <1>3, <1>4, <1>5, <1>6, <1>7

LEMMA KeptFacts ==
    ASSUME TypeOK, NewestFirst, DistinctWithinBudget
    PROVE  /\ Kept \in Seq(Ids) /\ IsInjective(Kept)
           /\ Len(Kept) = Len(records) + Smaller(Len(Fresh), maxScan - Len(records))
           /\ Len(Kept) <= maxScan /\ Len(records) <= Len(Kept)
           /\ Range(Kept) \subseteq Range(records) \cup Range(items)
           /\ Overflow => Len(Kept) = maxScan
           /\ ~Overflow => /\ Len(Kept) = Len(records) + Len(Fresh)
                           /\ Kept = records \o Fresh
                           /\ Range(Kept) = Range(records) \cup Range(items)
<1> DEFINE n == Smaller(Len(Fresh), maxScan - Len(records))
           part == SubSeq(Fresh, 1, n)
<1>1. /\ records \in Seq(Ids) /\ IsInjective(records) /\ Len(records) \in Nat
      /\ maxScan \in Nat /\ Len(records) <= maxScan
    BY ScanAssumption DEF TypeOK, DistinctWithinBudget
<1>2. /\ Fresh \in Seq(Ids) /\ Len(Fresh) \in Nat /\ IsInjective(Fresh)
      /\ Range(Fresh) = Range(items) \ Range(records)
    BY FreshFacts
<1>3. n \in 0 .. Len(Fresh) /\ n <= maxScan - Len(records)
    BY <1>1, <1>2 DEF Smaller
<1>4. Kept = records \o part
    BY DEF Kept
<1> HIDE DEF n
<1>5. part \in Seq(Ids) /\ Len(part) = n /\ IsInjective(part) /\ Range(part) \subseteq Range(Fresh)
    BY <1>2, <1>3, PartFacts
<1>6. n = Len(Fresh) => part = Fresh
    BY <1>2
<1> HIDE DEF part
<1>7. /\ Kept \in Seq(Ids) /\ IsInjective(Kept) /\ Len(Kept) = Len(records) + n
      /\ Range(Kept) = Range(records) \cup Range(part)
  <2>1. Range(records) \cap Range(part) = {}
      BY <1>2, <1>5
  <2>2. records \o part \in Seq(Ids) /\ Len(records \o part) = Len(records) + Len(part)
      BY <1>1, <1>5, JoinFacts
  <2>3. Range(records \o part) = Range(records) \cup Range(part)
      BY <1>1, <1>5, JoinFacts
  <2>4. IsInjective(records \o part)
      BY <1>1, <1>5, <2>1, JoinFacts
  <2> QED BY <1>4, <1>5, <2>2, <2>3, <2>4
<1>8. ASSUME ~Overflow
      PROVE  part = Fresh /\ Len(Kept) = Len(records) + Len(Fresh)
  <2>1. n = Len(Fresh)
      BY <1>1, <1>2, <1>3, <1>7, <1>8 DEF Overflow
  <2> QED BY <1>6, <1>7, <2>1
<1>9. ~Overflow => /\ Len(Kept) = Len(records) + Len(Fresh)
                   /\ Kept = records \o Fresh
                   /\ Range(Kept) = Range(records) \cup Range(items)
    BY <1>2, <1>4, <1>7, <1>8
<1>10. Len(Kept) <= maxScan /\ Len(records) <= Len(Kept)
    BY <1>1, <1>3, <1>7
<1>11. Range(Kept) \subseteq Range(records) \cup Range(items)
    BY <1>2, <1>5, <1>7
<1>12. Overflow => Len(Kept) = maxScan
  <2>1. n = Len(Fresh) \/ n = maxScan - Len(records)
      BY DEF n, Smaller
  <2> QED BY <1>1, <1>2, <1>7, <2>1 DEF Overflow
<1> QED BY <1>7, <1>9, <1>10, <1>11, <1>12 DEF n

LEMMA ToldFacts ==
    ASSUME TypeOK
    PROVE  /\ Told \in Nat /\ Told >= total
           /\ server.totals => Told >= Len(collection)
           /\ ~server.totals => Told = total
BY DEF TypeOK, Told, Larger

---------------------------------------------------------------------------
(* Type correctness, and the order in which ZenTao lists.                  *)

LEMMA BasicInit == Init => TypeOK /\ NewestFirst /\ DistinctWithinBudget /\ PagesHold
<1> SUFFICES ASSUME Init PROVE TypeOK /\ NewestFirst /\ DistinctWithinBudget /\ PagesHold
    OBVIOUS
<1>1. created \in 0 .. MaxRecords /\ created \in Nat
    BY ScanAssumption DEF Init, Ids
<1>2. collection \in Seq(Ids) /\ Len(collection) = created
  <2>1. \A i \in 1 .. created : created + 1 - i \in Ids
      BY <1>1, ScanAssumption DEF Ids
  <2> QED BY <1>1, <2>1 DEF Init
<1>3. \A i \in 1 .. created : collection[i] = created + 1 - i
    BY DEF Init
<1>4. TypeOK
  <2>1. steady \subseteq Ids
    <3>1. \A r \in 1 .. created : r \in 1 .. MaxRecords
        BY <1>1, ScanAssumption
    <3> QED BY <3>1 DEF Init, Ids
  <2>2. records \in Seq(Ids) /\ page \in Nat \ {0} /\ total \in Nat /\ deleted \in Nat
      BY DEF Init
  <2>3. /\ quiet \in BOOLEAN /\ truncated \in BOOLEAN /\ maxScan \in 1 .. MaxBudget
        /\ server \in Servers /\ pc \in {"fetch", "done", "failed"}
      BY DEF Init
  <2> QED BY <1>1, <1>2, <2>1, <2>2, <2>3 DEF TypeOK
<1>5. NewestFirst
  <2>1. /\ \A i, j \in 1 .. Len(collection) : i < j => collection[i] > collection[j]
        /\ \A i \in 1 .. Len(collection) : collection[i] <= created
      BY <1>1, <1>2, <1>3
  <2>2. \A r \in 1 .. created : created + 1 - r \in 1 .. created /\ collection[created + 1 - r] = r
      BY <1>1, <1>3
  <2>3. steady \subseteq Range(collection)
    <3>1. steady = 1 .. created /\ DOMAIN collection = 1 .. created
        BY DEF Init
    <3> QED BY <2>2, <3>1 DEF Range
  <2> QED BY <2>1, <2>3 DEF NewestFirst
<1>6. DistinctWithinBudget
    BY ScanAssumption DEF Init, DistinctWithinBudget, IsInjective
<1>7. PagesHold
  <2>1. (page - 1) * Size = 0
    <3>1. \A z \in Nat : (1 - 1) * z = 0
        OBVIOUS
    <3> QED BY <1>4, <3>1, SizeFacts DEF Init
  <2> QED BY <2>1 DEF Init, PagesHold
<1> QED BY <1>4, <1>5, <1>6, <1>7

\* ZenTao puts a new record first.
LEMMA Created ==
    ASSUME TypeOK, NewestFirst, Create
    PROVE  /\ collection' \in Seq(Ids) /\ NewestFirst'
           /\ Range(collection') = {created + 1} \cup Range(collection)
<1>1. /\ created \in Nat /\ created + 1 \in Ids /\ collection \in Seq(Ids)
      /\ created' = created + 1 /\ collection' = <<created + 1>> \o collection /\ steady' = steady
    BY ScanAssumption DEF TypeOK, Create, Ids
<1>2. \A x \in Ids : LET t == <<x>> \o collection
                     IN  /\ t \in Seq(Ids) /\ Len(t) = Len(collection) + 1
                         /\ t[1] = x
                         /\ \A k \in 1 .. Len(collection) : t[k + 1] = collection[k]
                         /\ Range(t) = {x} \cup Range(collection)
    BY <1>1, PrependFacts
<1>3. /\ collection' \in Seq(Ids) /\ Len(collection') = Len(collection) + 1
      /\ Range(collection') = {created + 1} \cup Range(collection)
      /\ collection'[1] = created + 1
      /\ \A k \in 1 .. Len(collection) : collection'[k + 1] = collection[k]
    BY <1>1, <1>2
<1>4. Len(collection) \in Nat /\ \A k \in 1 .. Len(collection) : collection[k] \in Int
    BY CollectionTyped
<1>5. \A i \in 1 .. Len(collection') : i = 1 \/ (i - 1 \in 1 .. Len(collection) /\ collection'[i] = collection[i - 1])
  <2>1. SUFFICES ASSUME NEW i \in 1 .. Len(collection'), i # 1
                 PROVE  i - 1 \in 1 .. Len(collection) /\ collection'[i] = collection[i - 1]
      OBVIOUS
  <2>2. i - 1 \in 1 .. Len(collection) /\ (i - 1) + 1 = i
      BY <1>3, <1>4, <2>1
  <2> QED BY <1>3, <2>2
<1>6. \A i \in 1 .. Len(collection') : collection'[i] <= created'
  <2>1. SUFFICES ASSUME NEW i \in 1 .. Len(collection') PROVE collection'[i] <= created'
      OBVIOUS
  <2>2. CASE i = 1
      BY <1>1, <1>3, <2>2
  <2>3. CASE i # 1
    <3>1. i - 1 \in 1 .. Len(collection) /\ collection'[i] = collection[i - 1]
        BY <1>5, <2>3
    <3>2. collection[i - 1] <= created /\ collection[i - 1] \in Int
        BY <1>4, <3>1 DEF NewestFirst
    <3> QED BY <1>1, <3>1, <3>2
  <2> QED BY <2>2, <2>3
<1>7. \A i, j \in 1 .. Len(collection') : i < j => collection'[i] > collection'[j]
  <2>1. SUFFICES ASSUME NEW i \in 1 .. Len(collection'), NEW j \in 1 .. Len(collection'), i < j
                 PROVE  collection'[i] > collection'[j]
      OBVIOUS
  <2>2. j - 1 \in 1 .. Len(collection) /\ collection'[j] = collection[j - 1]
      BY <1>3, <1>4, <1>5, <2>1
  <2>3. CASE i = 1
    <3>1. collection[j - 1] <= created /\ collection[j - 1] \in Int
        BY <1>4, <2>2 DEF NewestFirst
    <3> QED BY <1>1, <1>3, <2>2, <2>3, <3>1
  <2>4. CASE i # 1
    <3>1. i - 1 \in 1 .. Len(collection) /\ collection'[i] = collection[i - 1] /\ i - 1 < j - 1
        BY <1>5, <2>1, <2>4
    <3> QED BY <2>2, <3>1 DEF NewestFirst
  <2> QED BY <2>3, <2>4
<1>8. steady' \subseteq Range(collection')
    BY <1>1, <1>3 DEF NewestFirst
<1> QED BY <1>3, <1>6, <1>7, <1>8 DEF NewestFirst

\* Without one record the others keep their order.
LEMMA Deleted ==
    ASSUME TypeOK, NewestFirst, NEW id, Delete(id)
    PROVE  /\ collection' \in Seq(Ids) /\ NewestFirst'
           /\ Range(collection') = Range(collection) \ {id}
<1> DEFINE left == {i \in DOMAIN collection : collection[i] # id}
<1>1. /\ collection \in Seq(Ids) /\ DOMAIN collection = 1 .. Len(collection)
      /\ collection' = Pick(collection, left)
      /\ created' = created /\ steady' = steady \ {id}
    BY DEF TypeOK, Delete
<1>2. left \in SUBSET (1 .. Len(collection))
    BY <1>1
<1>3. {collection[i] : i \in left} = Range(collection) \ {id}
    BY DEF Range
<1> HIDE DEF left
<1>4. collection' \in Seq(Ids) /\ Range(collection') = Range(collection) \ {id}
    BY <1>1, <1>2, <1>3, PickFacts
<1>5. \A i, j \in 1 .. Len(collection') : i < j => collection'[i] > collection'[j]
  <2>1. \A i, j \in 1 .. Len(collection) : i < j => collection[i] > collection[j]
      BY DEF NewestFirst
  <2> QED BY <1>1, <1>2, <2>1, PickFalls
<1>6. \A i \in 1 .. Len(collection') : collection'[i] <= created'
  <2>1. SUFFICES ASSUME NEW i \in 1 .. Len(collection') PROVE collection'[i] <= created'
      OBVIOUS
  <2>2. collection'[i] \in Range(collection)
    <3>1. i \in DOMAIN collection'
        BY <1>4
    <3>2. collection'[i] \in Range(collection')
        BY <3>1 DEF Range
    <3> QED BY <1>4, <3>2
  <2> QED BY <1>1, <2>2 DEF NewestFirst, Range
<1>7. steady' \subseteq Range(collection')
    BY <1>1, <1>4 DEF NewestFirst
<1> QED BY <1>4, <1>5, <1>6, <1>7 DEF NewestFirst

Basic == TypeOK /\ NewestFirst /\ DistinctWithinBudget /\ PagesHold

LEMMA BasicStep == Basic /\ [Next]_vars => Basic'
<1> SUFFICES ASSUME Basic, [Next]_vars PROVE Basic'
    OBVIOUS
<1> USE DEF Basic
<1>1. CASE FetchPage
  <2>1. /\ records' = Kept /\ total' = Told
        /\ UNCHANGED <<collection, created, deleted, steady, quiet, maxScan, server>>
      BY <1>1 DEF FetchPage, zentao, given
  <2>2. /\ pc' \in {"fetch", "done"} /\ page' \in Nat \ {0} /\ truncated' \in BOOLEAN
        /\ (pc' = "fetch" => page' = page + 1 /\ pc = "fetch" /\ ~Overflow)
    <3>1. CASE ~LastPage
        BY <1>1, <3>1 DEF FetchPage, TypeOK, LastPage, Cut
    <3>2. CASE LastPage
      <4>1. truncated' = (Cut \/ Told > Len(Kept)) /\ pc' = "done" /\ page' = page
          BY <1>1, <3>2 DEF FetchPage
      <4>2. truncated' \in BOOLEAN
        <5> HIDE DEF Basic
        <5> QED BY <4>1, Zenon
      <4> QED BY <4>1, <4>2 DEF TypeOK
    <3> QED BY <3>1, <3>2
  <2>3. TypeOK'
      BY <2>1, <2>2, KeptFacts, ToldFacts DEF TypeOK
  <2>4. NewestFirst' /\ DistinctWithinBudget'
      BY <2>1, KeptFacts DEF NewestFirst, DistinctWithinBudget
  <2>5. ASSUME pc' = "fetch"
        PROVE  Len(records') <= (page' - 1) * Size'
    <3>1. Len(Kept) = Len(records) + Len(Fresh) /\ Len(Fresh) <= Size
      <4>1. Len(Fresh) <= Len(items) /\ Len(items) <= Size /\ items \in Seq(Ids) /\ Fresh \in Seq(Ids)
          BY FreshFacts, ItemsFacts
      <4>2. Len(items) \in Nat /\ Len(Fresh) \in Nat /\ Size \in Nat
          BY <4>1, SizeFacts
      <4> QED BY <2>2, <2>5, <4>1, <4>2, KeptFacts
    <3>2. Size' = Size
        BY <2>1 DEF Size, pageSize
    <3>3. Len(records) <= (page - 1) * Size /\ (page' - 1) * Size = (page - 1) * Size + Size
      <4>1. page' - 1 = page
          BY <2>2, <2>5 DEF TypeOK
      <4> QED BY <2>2, <2>5, <4>1, FirstFacts DEF PagesHold
    <3>4. Len(records) \in Nat /\ Len(Fresh) \in Nat /\ Size \in Nat /\ (page - 1) * Size \in Nat
        BY SizeFacts, FirstFacts, FreshFacts DEF TypeOK
    <3> HIDE DEF Basic
    <3> QED BY <2>1, <3>1, <3>2, <3>3, <3>4
  <2> QED BY <2>3, <2>4, <2>5 DEF PagesHold
<1>2. CASE FetchFails
  <2>1. /\ UNCHANGED <<collection, created, deleted, steady, quiet, maxScan, server, page, records, total, truncated>>
        /\ pc' = "failed"
      BY <1>2 DEF FetchFails, zentao, given
  <2> QED BY <2>1 DEF TypeOK, NewestFirst, DistinctWithinBudget, PagesHold
<1>3. CASE Create
  <2>1. /\ UNCHANGED <<deleted, steady, maxScan, server, pc, page, records, total, truncated>>
        /\ created' = created + 1 /\ created < MaxRecords /\ quiet' = FALSE
      BY <1>3 DEF Create, given, scanVars
  <2>2. TypeOK'
    <3>1. collection' \in Seq(Ids)
        BY <1>3, Created
    <3>2. created' \in 0 .. MaxRecords
        BY <2>1, ScanAssumption DEF TypeOK
    <3> QED BY <2>1, <3>1, <3>2 DEF TypeOK
  <2>3. PagesHold' /\ DistinctWithinBudget'
      BY <2>1 DEF PagesHold, DistinctWithinBudget, Size, pageSize
  <2> QED BY <1>3, <2>2, <2>3, Created
<1>4. ASSUME NEW id \in Ids, Delete(id)
      PROVE  Basic'
  <2>1. /\ UNCHANGED <<created, maxScan, server, pc, page, records, total, truncated>>
        /\ deleted' = deleted + 1 /\ steady' = steady \ {id} /\ quiet' = FALSE
      BY <1>4 DEF Delete, given, scanVars
  <2>2. TypeOK'
    <3>1. collection' \in Seq(Ids)
        BY <1>4, Deleted
    <3>2. /\ created \in 0 .. MaxRecords /\ deleted + 1 \in Nat /\ steady \ {id} \subseteq Ids
          /\ maxScan \in 1 .. MaxBudget /\ server \in Servers /\ pc \in {"fetch", "done", "failed"}
          /\ page \in Nat \ {0} /\ records \in Seq(Ids) /\ total \in Nat /\ truncated \in BOOLEAN
        BY DEF TypeOK
    <3> HIDE DEF Basic
    <3> QED BY <2>1, <3>1, <3>2 DEF TypeOK
  <2>3. PagesHold' /\ DistinctWithinBudget'
      BY <2>1 DEF PagesHold, DistinctWithinBudget, Size, pageSize
  <2> QED BY <1>4, <2>2, <2>3, Deleted
<1>5. CASE UNCHANGED vars
  <2>1. UNCHANGED <<collection, created, deleted, steady, quiet, maxScan, server, pc, page, records, total, truncated>>
      BY <1>5 DEF vars, zentao, given, scanVars
  <2> QED BY <2>1 DEF TypeOK, NewestFirst, DistinctWithinBudget, PagesHold, Size, pageSize
<1> QED BY <1>1, <1>2, <1>3, <1>4, <1>5 DEF Next

LEMMA BasicAlways == Spec => []Basic
<1>1. Init => Basic
    BY BasicInit DEF Basic
<1> QED BY <1>1, BasicStep, PTL DEF Spec

(* The state of the scan keeps its types (listAll, client.go:151-207).     *)
THEOREM ScanTypeCorrect == Spec => []TypeOK
<1>1. Basic => TypeOK
    BY DEF Basic
<1> QED BY <1>1, BasicAlways, PTL

(* Overlapping pages never put a record into the result twice, and the     *)
(* result never outgrows the budget of the caller (client.go:154-190).     *)
THEOREM ScanDistinctWithinBudget == Spec => []DistinctWithinBudget
<1>1. Basic => DistinctWithinBudget
    BY DEF Basic
<1> QED BY <1>1, BasicAlways, PTL

---------------------------------------------------------------------------
(* Every page but the last brings a record.                                *)

\* A page after which the scan goes on brought something new.
LEMMA Progress ==
    ASSUME Basic, ~LastPage
    PROVE  Len(Kept) >= Len(records) + 1
<1>1. ~Overflow /\ (~NoProgress \/ Exhausted) /\ ~Exhausted
    BY DEF LastPage, Cut
<1>2. Kept # records /\ Kept = records \o Fresh /\ Len(Kept) = Len(records) + Len(Fresh)
    BY <1>1, KeptFacts DEF NoProgress, Basic
<1>3. Fresh \in Seq(Ids) /\ records \in Seq(Ids)
    BY FreshFacts DEF Basic, TypeOK
<1>4. Len(Fresh) # 0
  <2>1. Len(Fresh) = 0 => records \o Fresh = records
      BY <1>3
  <2> QED BY <1>2, <2>1
<1> QED BY <1>2, <1>3, <1>4

(* The scan ends within one page per record of its budget, whatever ZenTao *)
(* answers: the loop needs no ceiling of pages (client.go:197-203).        *)
THEOREM ScanEnds == Spec => []EveryPageCounts
<1>1. Init => EveryPageCounts
    BY DEF Init, EveryPageCounts
<1>2. Basic /\ EveryPageCounts /\ [Next]_vars => EveryPageCounts'
  <2> SUFFICES ASSUME Basic, EveryPageCounts, [Next]_vars PROVE EveryPageCounts'
      OBVIOUS
  <2>0. page \in Nat /\ Len(records) \in Nat /\ page <= Len(records) + 1
      BY DEF Basic, TypeOK, EveryPageCounts
  <2>1. CASE FetchPage
    <3>1. records' = Kept /\ (page' = page \/ (page' = page + 1 /\ ~LastPage))
        BY <2>1 DEF FetchPage
    <3>2. Len(Kept) \in Nat /\ Len(records) <= Len(Kept)
        BY KeptFacts DEF Basic
    <3> QED BY <2>0, <3>1, <3>2, Progress DEF EveryPageCounts
  <2>2. CASE FetchFails
      BY <2>0, <2>2 DEF FetchFails, EveryPageCounts
  <2>3. CASE Create
      BY <2>0, <2>3 DEF Create, scanVars, EveryPageCounts
  <2>4. ASSUME NEW id \in Ids, Delete(id)
        PROVE  EveryPageCounts'
      BY <2>0, <2>4 DEF Delete, scanVars, EveryPageCounts
  <2>5. CASE UNCHANGED vars
      BY <2>0, <2>5 DEF vars, scanVars, EveryPageCounts
  <2> QED BY <2>1, <2>2, <2>3, <2>4, <2>5 DEF Next
<1> QED BY <1>1, <1>2, BasicAlways, PTL DEF Spec

---------------------------------------------------------------------------
(* No record is missed in silence.                                         *)

\* The records after a position of the collection are no more than its rest.
LEMMA OlderFacts ==
    ASSUME TypeOK, NewestFirst, NEW p \in 1 .. Len(collection)
    PROVE  /\ IsFiniteSet(Older(collection[p]))
           /\ Cardinality(Older(collection[p])) <= Len(collection) - p
           /\ \A i \in p + 1 .. Len(collection) : collection[i] \in Older(collection[p])
<1> DEFINE n == Len(collection)
           rest == SubSeq(collection, p + 1, n)
<1>1. /\ collection \in Seq(Ids) /\ n \in Nat /\ DOMAIN collection = 1 .. n
      /\ \A i \in 1 .. n : collection[i] \in Int
    BY CollectionTyped
<1>2. n \in 0 .. Len(collection) /\ p + 1 \in Nat \ {0} /\ p \in 1 .. n
    BY <1>1
<1>3. /\ rest \in Seq(Ids) /\ Len(rest) = IF p + 1 <= n THEN n - (p + 1) + 1 ELSE 0
      /\ Range(rest) = {collection[i] : i \in p + 1 .. n}
    BY <1>1, <1>2, PartFacts
<1> HIDE DEF rest
<1>4. Len(rest) = n - p
  <2>1. n \in Nat /\ p \in 1 .. n /\ Len(rest) = IF p + 1 <= n THEN n - (p + 1) + 1 ELSE 0
      BY <1>1, <1>2, <1>3
  <2> HIDE DEF n
  <2>2. CASE p < n
      BY <2>1, <2>2
  <2>3. CASE p = n
      BY <2>1, <2>3
  <2> QED BY <2>1, <2>2, <2>3
<1>5. IsFiniteSet(Range(rest)) /\ Cardinality(Range(rest)) <= n - p
  <2>1. Cardinality(Range(rest)) \in 0 .. Len(rest) /\ IsFiniteSet(Range(rest))
      BY <1>3, RangeFacts
  <2> QED BY <1>1, <1>2, <1>4, <2>1
<1>6. \A i \in p + 1 .. n : i \in 1 .. n /\ p < i
    BY <1>1, <1>2
<1>7. \A i \in p + 1 .. n : collection[i] \in Older(collection[p])
    BY <1>1, <1>2, <1>6 DEF Older, NewestFirst, Range
<1>8. \A x \in Older(collection[p]) : x \in Range(rest)
  <2>1. SUFFICES ASSUME NEW i \in 1 .. n, collection[i] < collection[p] PROVE collection[i] \in Range(rest)
      BY <1>1 DEF Older, Range
  <2>2. ~ (i < p) /\ i # p
      BY <1>1, <1>2, <2>1 DEF NewestFirst
  <2>3. i \in p + 1 .. n
      BY <1>1, <1>2, <2>2
  <2> QED BY <1>3, <2>3
<1>9. IsFiniteSet(Older(collection[p])) /\ Cardinality(Older(collection[p])) <= Cardinality(Range(rest))
    BY <1>5, <1>8, FS_Subset
<1>10. Cardinality(Older(collection[p])) \in Nat /\ Cardinality(Range(rest)) \in Nat
    BY <1>5, <1>9, FS_CardinalityType
<1> QED BY <1>1, <1>2, <1>5, <1>7, <1>9, <1>10

\* A page that lacks a record leaves it counted by the total: the record
\* comes later, or it moved to a page already read and all of this page is
\* older than it.
LEMMA PageCounts ==
    ASSUME Basic, SkippedAreCounted, pc = "fetch", server.totals, ~server.repeats, ~Overflow,
           NEW r \in steady \ Range(Kept)
    PROVE  Told >= Len(Kept) + 1 + Cardinality(Older(r) \ Range(Kept))
<1> DEFINE n == Len(collection)
           before == (page - 1) * Size
           left == Older(r) \ Range(records)
           after == Older(r) \ Range(Kept)
<1>1. /\ n \in Nat /\ Size \in Nat \ {0} /\ before \in Nat /\ First = before + 1 /\ page \in Nat \ {0}
      /\ Len(records) \in Nat /\ Len(records) <= before
      /\ total \in Nat /\ Told \in Nat /\ total <= Told /\ n <= Told
  <2>1. TypeOK /\ Len(records) <= before
      BY DEF Basic, PagesHold
  <2>2. n \in Nat /\ Size \in Nat \ {0} /\ before \in Nat
      BY <2>1, CollectionTyped, SizeFacts, FirstFacts
  <2>3. First = before + 1
      BY DEF First
  <2>4. page \in Nat \ {0} /\ Len(records) \in Nat /\ total \in Nat
      BY <2>1 DEF TypeOK
  <2>5. Told \in Nat /\ total <= Told /\ n <= Told
      BY <2>1, <2>2, <2>4, ToldFacts
  <2> QED BY <2>1, <2>2, <2>3, <2>4, <2>5
<1>2. /\ Len(Kept) = Len(records) + Len(Fresh) /\ Range(Kept) = Range(records) \cup Range(items)
      /\ Kept \in Seq(Ids)
    BY KeptFacts DEF Basic
<1>3. /\ Fresh \in Seq(Ids) /\ Len(Fresh) \in Nat /\ IsInjective(Fresh) /\ Len(Fresh) <= Size
      /\ Range(Fresh) = Range(items) \ Range(records)
      /\ IsFiniteSet(Range(Fresh)) /\ Cardinality(Range(Fresh)) = Len(Fresh)
  <2>1. Fresh \in Seq(Ids) /\ IsInjective(Fresh) /\ Len(Fresh) <= Len(items)
        /\ Range(Fresh) = Range(items) \ Range(records)
      BY FreshFacts DEF Basic
  <2>2. items \in Seq(Ids) /\ Len(items) <= Size
      BY ItemsFacts DEF Basic
  <2>3. Len(Fresh) \in Nat /\ Len(items) \in Nat
      BY <2>1, <2>2
  <2>4. Len(Fresh) <= Size
      BY <1>1, <2>1, <2>2, <2>3
  <2>5. IsFiniteSet(Range(Fresh)) /\ Cardinality(Range(Fresh)) = Len(Fresh)
      BY <2>1, RangeFacts
  <2> QED BY <2>1, <2>3, <2>4, <2>5
<1>4. PICK p \in 1 .. n : collection[p] = r
    BY CollectionTyped DEF Basic, NewestFirst, Range
<1>5. /\ IsFiniteSet(Older(r)) /\ Cardinality(Older(r)) <= n - p
      /\ \A i \in p + 1 .. n : collection[i] \in Older(r)
    BY <1>4, OlderFacts DEF Basic
<1>6. /\ IsFiniteSet(left) /\ IsFiniteSet(after) /\ Cardinality(left) \in Nat /\ Cardinality(after) \in Nat
      /\ Cardinality(after) <= Cardinality(Older(r)) /\ Cardinality(Older(r)) \in Nat
    BY <1>5, FS_Subset, FS_CardinalityType
<1>7. Range(items) = {collection[i] : i \in First .. Smaller(First + Size - 1, n)}
    BY ItemsFacts DEF Basic
<1>8. p \notin First .. Smaller(First + Size - 1, n)
    BY <1>2, <1>4, <1>7
<1> HIDE DEF n, before, left, after
<1>9. CASE p > before
  <2>1. p > before + Size
      BY <1>1, <1>4, <1>8, <1>9 DEF Smaller
  <2>2. Len(Kept) <= before + Size
      BY <1>1, <1>2, <1>3
  <2>3. Len(Kept) \in Nat /\ p \in Nat
      BY <1>1, <1>2, <1>4
  <2> QED BY <1>1, <1>5, <1>6, <2>1, <2>2, <2>3 DEF after
<1>10. CASE p <= before
  <2>1. page > 1
    <3>1. \A z \in Nat : (1 - 1) * z = 0
        OBVIOUS
    <3>2. before # 0
        BY <1>1, <1>4, <1>10
    <3> QED BY <1>1, <3>1, <3>2 DEF before
  <2>2. total >= Len(records) + 1 + Cardinality(left)
      BY <1>2, <2>1 DEF SkippedAreCounted, left
  <2>3. Range(items) \subseteq Older(r)
    <3>1. \A i \in First .. Smaller(First + Size - 1, n) : i \in p + 1 .. n
        BY <1>1, <1>4, <1>10 DEF Smaller
    <3> QED BY <1>5, <1>7, <3>1
  <2>4. after = left \ Range(Fresh) /\ Range(Fresh) \subseteq left
      BY <1>2, <1>3, <2>3 DEF after, left
  <2>5. Cardinality(after) = Cardinality(left) - Len(Fresh)
    <3>1. left \cap Range(Fresh) = Range(Fresh)
        BY <2>4
    <3>2. Cardinality(left \ Range(Fresh)) = Cardinality(left) - Cardinality(left \cap Range(Fresh))
        BY <1>6, FS_Difference
    <3> QED BY <1>3, <2>4, <3>1, <3>2
  <2> QED BY <1>1, <1>2, <1>3, <1>6, <2>2, <2>5 DEF after
<1> QED BY <1>1, <1>4, <1>9, <1>10

Complete == SkippedAreCounted /\ CompleteUnlessTruncated

LEMMA CompleteInit == Init => Complete
<1> SUFFICES ASSUME Init PROVE Complete
    OBVIOUS
<1>1. page = 1 /\ pc = "fetch"
    BY DEF Init
<1> QED BY <1>1 DEF Complete, SkippedAreCounted, CompleteUnlessTruncated

LEMMA CompleteFetch ==
    ASSUME Basic, Complete, FetchPage
    PROVE  Complete'
<1>1. /\ pc = "fetch" /\ records' = Kept /\ total' = Told
      /\ collection' = collection /\ steady' = steady /\ server' = server
    BY DEF FetchPage, zentao, given
<1>2. ASSUME pc' = "fetch", server.totals, ~server.repeats, NEW r \in steady \ Range(Kept)
      PROVE  Told >= Len(Kept) + 1 + Cardinality(Older(r) \ Range(Kept))
  <2>1. ~Overflow
      BY <1>2 DEF FetchPage, LastPage, Cut
  <2> QED BY <1>1, <1>2, <2>1, PageCounts DEF Complete
<1>3. SkippedAreCounted'
    BY <1>1, <1>2 DEF SkippedAreCounted, Older
<1>4. ASSUME pc' = "done", ~truncated', server.totals, ~server.repeats, NEW r \in steady \ Range(Kept)
      PROVE  FALSE
  <2>1. truncated' = (Cut \/ Told > Len(Kept))
      BY <1>1, <1>4 DEF FetchPage
  <2>2. ~Cut /\ ~ (Told > Len(Kept))
      BY <1>4, <2>1, Zenon
  <2>3. ~Overflow
      BY <2>2 DEF Cut
  <2>4. Told >= Len(Kept) + 1 + Cardinality(Older(r) \ Range(Kept))
      BY <1>1, <1>4, <2>3, PageCounts DEF Complete
  <2>5. Cardinality(Older(r) \ Range(Kept)) \in Nat
    <3>1. PICK p \in 1 .. Len(collection) : collection[p] = r
        BY CollectionTyped DEF Basic, NewestFirst, Range
    <3>2. IsFiniteSet(Older(r))
        BY <3>1, OlderFacts DEF Basic
    <3> QED BY <3>2, FS_Subset, FS_CardinalityType
  <2>6. Told \in Nat /\ Len(Kept) \in Nat
      BY ToldFacts, KeptFacts DEF Basic
  <2> QED BY <2>2, <2>4, <2>5, <2>6
<1>5. CompleteUnlessTruncated'
    BY <1>1, <1>4 DEF CompleteUnlessTruncated
<1> QED BY <1>3, <1>5 DEF Complete

\* Records that come and go between two pages cannot make the total fall
\* behind: a new record is newer than all, and one that went is not waited for.
LEMMA CompleteChanges ==
    ASSUME Basic, Complete, Create \/ \E id \in Ids : Delete(id)
    PROVE  Complete'
<1>1. /\ pc = "fetch" /\ pc' = pc /\ records' = records /\ total' = total /\ page' = page
      /\ server' = server /\ total \in Nat /\ Len(records) \in Nat
  <2>1. total \in Nat /\ Len(records) \in Nat
      BY DEF Basic, TypeOK
  <2>2. CASE Create
      BY <2>1, <2>2 DEF Create, scanVars, given
  <2>3. CASE \E id \in Ids : Delete(id)
      BY <2>1, <2>3 DEF Delete, scanVars, given
  <2> QED BY <2>2, <2>3
<1>2. ASSUME NEW r \in steady', r \notin Range(records)
      PROVE  r \in steady /\ Older(r)' \subseteq Older(r)
  <2>1. CASE Create
    <3>1. steady' = steady /\ Range(collection') = {created + 1} \cup Range(collection)
        BY <2>1, Created DEF Create, Basic
    <3>2. r <= created /\ r \in Int /\ created \in Int
      <4>1. PICK p \in 1 .. Len(collection) : collection[p] = r
          BY <1>2, <3>1, CollectionTyped DEF Basic, NewestFirst, Range
      <4> QED BY <4>1, CollectionTyped DEF Basic, NewestFirst, TypeOK
    <3>3. ~ (created + 1 < r)
        BY <3>2
    <3> QED BY <1>2, <3>1, <3>3 DEF Older
  <2>2. ASSUME NEW id \in Ids, Delete(id)
        PROVE  r \in steady /\ Older(r)' \subseteq Older(r)
    <3>1. steady' = steady \ {id} /\ Range(collection') = Range(collection) \ {id}
        BY <2>2, Deleted DEF Delete, Basic
    <3> QED BY <1>2, <3>1 DEF Older
  <2> QED BY <2>1, <2>2
<1>3. ASSUME server.totals, ~server.repeats, page > 1, NEW r \in steady', r \notin Range(records)
      PROVE  total >= Len(records) + 1 + Cardinality(Older(r)' \ Range(records))
  <2>1. r \in steady /\ Older(r)' \subseteq Older(r)
      BY <1>2, <1>3
  <2>2. total >= Len(records) + 1 + Cardinality(Older(r) \ Range(records))
      BY <1>1, <1>3, <2>1 DEF Complete, SkippedAreCounted
  <2>3. IsFiniteSet(Older(r) \ Range(records))
    <3>1. PICK p \in 1 .. Len(collection) : collection[p] = r
        BY <2>1, CollectionTyped DEF Basic, NewestFirst, Range
    <3>2. IsFiniteSet(Older(r))
        BY <3>1, OlderFacts DEF Basic
    <3> QED BY <3>2, FS_Subset
  <2>4. Older(r)' \ Range(records) \subseteq Older(r) \ Range(records)
      BY <2>1
  <2>5. /\ Cardinality(Older(r)' \ Range(records)) <= Cardinality(Older(r) \ Range(records))
        /\ Cardinality(Older(r)' \ Range(records)) \in Nat /\ Cardinality(Older(r) \ Range(records)) \in Nat
      BY <2>3, <2>4, FS_Subset, FS_CardinalityType
  <2> QED BY <1>1, <2>2, <2>5
<1>4. SkippedAreCounted'
    BY <1>1, <1>3 DEF SkippedAreCounted, Older
<1>5. CompleteUnlessTruncated'
    BY <1>1 DEF CompleteUnlessTruncated
<1> QED BY <1>4, <1>5 DEF Complete

LEMMA CompleteStep == Basic /\ Complete /\ [Next]_vars => Complete'
<1> SUFFICES ASSUME Basic, Complete, [Next]_vars PROVE Complete'
    OBVIOUS
<1>1. CASE FetchPage
    BY <1>1, CompleteFetch
<1>2. CASE FetchFails
    BY <1>2 DEF FetchFails, Complete, SkippedAreCounted, CompleteUnlessTruncated
<1>3. CASE Create \/ \E id \in Ids : Delete(id)
    BY <1>3, CompleteChanges
<1>4. CASE UNCHANGED vars
  <2>1. UNCHANGED <<collection, steady, server, pc, page, records, total, truncated>>
      BY <1>4 DEF vars, zentao, given, scanVars
  <2> QED BY <2>1 DEF Complete, SkippedAreCounted, CompleteUnlessTruncated, Older
<1> QED BY <1>1, <1>2, <1>3, <1>4 DEF Next

(* A scan that does not say "truncated" has every record that was there    *)
(* all the time, when ZenTao sends totals and honours page numbers: for    *)
(* collections, pages and budgets of any size and any changes in between.  *)
THEOREM ScanComplete == Spec => []CompleteUnlessTruncated
<1>1. Complete => CompleteUnlessTruncated
    BY DEF Complete
<1> QED BY <1>1, CompleteInit, CompleteStep, BasicAlways, PTL DEF Spec

---------------------------------------------------------------------------
(* Without changes the answer is exact.                                    *)

Exact == ExactSoFar /\ ExactWhenQuiet

LEMMA ExactInit == Init => Exact
<1> SUFFICES ASSUME Init PROVE Exact
    OBVIOUS
<1>1. TypeOK
    BY BasicInit
<1>2. page = 1 /\ pc = "fetch" /\ records = <<>> /\ total = 0
    BY DEF Init
<1>3. (page - 1) * pageSize = 0
  <2>1. \A z \in Nat : (1 - 1) * z = 0
      OBVIOUS
  <2> QED BY <1>1, <1>2, <2>1, SizeFacts
<1>4. SubSeq(collection, 1, 0) = <<>>
    BY <1>1, CollectionTyped
<1> QED BY <1>1, <1>2, <1>3, <1>4, CollectionTyped DEF Exact, ExactSoFar, ExactWhenQuiet

\* What a page adds when nothing changed: the next part of the collection.
LEMMA QuietPage ==
    ASSUME Basic, ExactSoFar, pc = "fetch", quiet, ~server.repeats, pageSize <= server.cap
    PROVE  LET before == (page - 1) * pageSize
               n == Len(collection)
           IN  /\ n \in Nat /\ before \in 0 .. n /\ pageSize \in Nat \ {0}
               /\ page * pageSize = before + pageSize
               /\ Len(records) = before
               /\ Len(items) = Smaller(pageSize, n - before)
               /\ Fresh = items
               /\ Len(Kept) <= n
               /\ Kept = SubSeq(collection, 1, Len(Kept))
               /\ Told = IF server.totals THEN n ELSE 0
<1> DEFINE before == (page - 1) * pageSize
           n == Len(collection)
<1>1. TypeOK /\ NewestFirst /\ DistinctWithinBudget
    BY DEF Basic
<1>2. /\ Size = pageSize /\ pageSize \in Nat \ {0} /\ n \in Nat /\ before \in Nat
      /\ page * pageSize = before + pageSize /\ First = before + 1
  <2>1. Size = pageSize /\ pageSize \in Nat \ {0} /\ n \in Nat
      BY <1>1, SizeFacts, CollectionTyped
  <2> QED BY <1>1, <2>1, FirstFacts DEF First
<1>3. /\ before <= n /\ records = SubSeq(collection, 1, before)
      /\ total = IF server.totals /\ page > 1 THEN n ELSE 0
    BY DEF ExactSoFar
<1>4. collection \in Seq(Ids) /\ IsInjective(collection) /\ DOMAIN collection = 1 .. n
    BY <1>1, CollectionTyped, CollectionDistinct
<1> HIDE DEF before, n
<1>5. before \in 0 .. n
    BY <1>2, <1>3
<1>6. Len(records) = before /\ Range(records) = {collection[i] : i \in 1 .. before}
  <2>1. before \in 0 .. Len(collection)
      BY <1>5 DEF n
  <2>3. Len(SubSeq(collection, 1, before)) = before
      BY <1>2, <1>4, <2>1
  <2>4. DOMAIN records = 1 .. before /\ \A i \in 1 .. before : records[i] = collection[i]
      BY <1>2, <1>3, <1>4, <2>1
  <2>5. Range(records) = {collection[i] : i \in 1 .. before}
      BY <2>4 DEF Range
  <2> QED BY <1>3, <2>3, <2>5
<1>7. Smaller(First + Size - 1, n) = IF before + pageSize <= n THEN before + pageSize ELSE n
    BY <1>2 DEF Smaller
<1> DEFINE last == IF before + pageSize <= n THEN before + pageSize ELSE n
<1>8. last \in before .. n /\ last \in 0 .. n
    BY <1>2, <1>5
<1>9. /\ items = SubSeq(collection, before + 1, last)
      /\ Range(items) = {collection[i] : i \in before + 1 .. last}
  <2>1. items = SubSeq(collection, First, Smaller(First + Size - 1, n))
      BY <1>1, FirstFacts DEF n
  <2>2. Range(items) = {collection[i] : i \in First .. Smaller(First + Size - 1, n)}
      BY <1>1, ItemsFacts DEF n
  <2> QED BY <1>2, <1>7, <2>1, <2>2
<1>10. Len(items) = last - before /\ Len(items) = Smaller(pageSize, n - before)
  <2>1. Len(items) = IF First + Size - 1 <= n THEN Size ELSE IF First <= n THEN n - First + 1 ELSE 0
      BY <1>1, ItemsFacts DEF n
  <2> QED BY <1>2, <1>5, <2>1 DEF Smaller
<1> HIDE DEF last
<1>11. Fresh = items
  <2>1. ASSUME NEW i \in before + 1 .. last, NEW j \in 1 .. before, collection[i] = collection[j]
        PROVE  FALSE
    <3>1. i \in 1 .. n /\ j \in 1 .. n /\ i # j
        BY <1>2, <1>5, <1>8
    <3> QED BY <1>4, <2>1, <3>1 DEF IsInjective
  <2>2. Range(items) \cap Range(records) = {}
      BY <1>6, <1>9, <2>1
  <2> QED BY <1>1, <2>2, FreshFacts
<1> DEFINE kept == Smaller(Len(items), maxScan - before)
           part == SubSeq(items, 1, kept)
<1>12. /\ maxScan \in Nat /\ before <= maxScan /\ Kept = records \o part
       /\ items \in Seq(Ids) /\ kept \in 0 .. Len(items)
  <2>1. maxScan \in Nat /\ Len(records) <= maxScan
      BY <1>1, ScanAssumption DEF TypeOK, DistinctWithinBudget
  <2>2. items \in Seq(Ids) /\ Len(items) \in Nat
      BY <1>1, ItemsFacts
  <2>3. Kept = records \o part
      BY <1>6, <1>11 DEF Kept
  <2>4. kept \in 0 .. Len(items)
      BY <1>2, <1>6, <2>1, <2>2 DEF Smaller
  <2> QED BY <1>6, <2>1, <2>2, <2>3, <2>4
<1>13. Kept = SubSeq(collection, 1, before + kept) /\ Len(Kept) = before + kept /\ before + kept <= n
  <2> HIDE DEF kept
  <2>1. before + kept <= last /\ kept \in Nat /\ before + kept \in 0 .. n
      BY <1>2, <1>8, <1>10, <1>12
  <2>2. records \o part = SubSeq(collection, 1, before + kept)
    <3>1. part = SubSeq(collection, before + 1, before + kept)
      <4>1. \A s \in Seq(Ids) : \A a, b, c \in Nat :
                a <= b /\ b <= Len(s) /\ c <= b - a =>
                    SubSeq(SubSeq(s, a + 1, b), 1, c) = SubSeq(s, a + 1, a + c)
          OBVIOUS
      <4> QED BY <1>2, <1>4, <1>8, <1>9, <1>10, <1>12, <4>1 DEF n
    <3>2. \A s \in Seq(Ids) : \A a, b \in Nat :
              a <= b /\ b <= Len(s) => SubSeq(s, 1, a) \o SubSeq(s, a + 1, b) = SubSeq(s, 1, b)
        OBVIOUS
    <3> HIDE DEF part
    <3> QED BY <1>2, <1>3, <1>4, <2>1, <3>1, <3>2 DEF n
  <2>3. Len(SubSeq(collection, 1, before + kept)) = before + kept
      BY <1>2, <1>4, <2>1 DEF n
  <2>4. Kept = SubSeq(collection, 1, before + kept) /\ before + kept <= n
    <3> HIDE DEF part
    <3> QED BY <1>2, <1>12, <2>1, <2>2
  <2> QED BY <2>3, <2>4
<1>14. Told = IF server.totals THEN n ELSE 0
    BY <1>2, <1>3 DEF Told, Larger, n
<1> QED BY <1>2, <1>5, <1>6, <1>10, <1>11, <1>13, <1>14 DEF before, n

LEMMA ExactFetch ==
    ASSUME Basic, Exact, FetchPage
    PROVE  Exact'
<1> DEFINE before == (page - 1) * pageSize
           n == Len(collection)
<1>1. /\ pc = "fetch" /\ records' = Kept /\ total' = Told
      /\ collection' = collection /\ quiet' = quiet /\ server' = server /\ pageSize' = pageSize
    BY DEF FetchPage, zentao, given, pageSize
<1>2. ASSUME quiet, ~server.repeats, pageSize <= server.cap
      PROVE  /\ n \in Nat /\ before \in 0 .. n /\ pageSize \in Nat \ {0}
             /\ page * pageSize = before + pageSize
             /\ Len(records) = before
             /\ Len(items) = IF pageSize <= n - before THEN pageSize ELSE n - before
             /\ Fresh = items
             /\ Len(Kept) <= n
             /\ Kept = SubSeq(collection, 1, Len(Kept))
             /\ Told = IF server.totals THEN n ELSE 0
  <2>1. /\ n \in Nat /\ before \in 0 .. n /\ pageSize \in Nat \ {0}
        /\ page * pageSize = before + pageSize
        /\ Len(records) = before
        /\ Len(items) = Smaller(pageSize, n - before)
        /\ Fresh = items
        /\ Len(Kept) <= n
        /\ Kept = SubSeq(collection, 1, Len(Kept))
        /\ Told = IF server.totals THEN n ELSE 0
      BY <1>1, <1>2, QuietPage DEF Exact
  <2>2. pageSize < n - before \/ pageSize = n - before \/ pageSize > n - before
      BY <2>1
  <2> HIDE DEF before, n
  <2> QED BY <2>1, <2>2 DEF Smaller
<1>3. Len(Kept) \in Nat /\ Kept \in Seq(Ids) /\ (~Overflow => Len(Kept) = Len(records) + Len(Fresh))
    BY KeptFacts DEF Basic
<1> HIDE DEF before, n
<1>4. ASSUME pc' = "fetch", quiet, ~server.repeats, pageSize <= server.cap
      PROVE  /\ (page' - 1) * pageSize <= n
             /\ Kept = SubSeq(collection, 1, (page' - 1) * pageSize)
             /\ Told = IF server.totals /\ page' > 1 THEN n ELSE 0
  <2>1. ~Overflow /\ ~Exhausted /\ page' = page + 1
      BY <1>4 DEF FetchPage, LastPage, Cut
  <2>2. page \in Nat \ {0} /\ page' - 1 = page /\ page' > 1
      BY <2>1 DEF Basic, TypeOK
  <2>3. Len(items) = pageSize
      BY <1>2, <1>4, <2>1 DEF Exhausted
  <2>4. Len(Kept) = page * pageSize
      BY <1>2, <1>3, <1>4, <2>1, <2>3
  <2> QED BY <1>2, <1>4, <2>2, <2>4
<1>5. ExactSoFar'
    BY <1>1, <1>4 DEF ExactSoFar, n
<1>6. ASSUME pc' = "done", quiet, ~server.repeats, pageSize <= server.cap
      PROVE  IsPrefix(Kept, collection) /\ (truncated' <=> Len(Kept) < n)
  <2>1. /\ LastPage /\ truncated' = (Cut \/ Told > Len(Kept))
      BY <1>1, <1>6 DEF FetchPage
  <2>2. IsPrefix(Kept, collection)
    <3>1. SubSeq(Kept, 1, Len(Kept)) = Kept
        BY <1>3
    <3>2. Len(Kept) <= Len(collection) /\ Kept = SubSeq(collection, 1, Len(Kept))
        BY <1>2, <1>6 DEF n
    <3> QED BY <3>1, <3>2 DEF IsPrefix
  <2>3. CASE Overflow
    <3>1. Cut /\ Len(Kept) < Len(records) + Len(Fresh)
        BY <2>3 DEF Cut, Overflow
    <3>2. Len(Kept) < n
        BY <1>2, <1>3, <1>6, <3>1
    <3>3. truncated'
        BY <2>1, <3>1, Zenon
    <3> QED BY <2>2, <3>2, <3>3
  <2>4. CASE ~Overflow /\ Exhausted
    <3>1. ~Cut
        BY <2>4 DEF Cut
    <3>2. Len(Kept) = before + Len(items)
        BY <1>2, <1>3, <1>6, <2>4
    <3>3. Len(Kept) = n
        BY <1>2, <1>3, <1>6, <2>4, <3>2 DEF Exhausted
    <3>4. ~ (Told > Len(Kept))
        BY <1>2, <1>3, <1>6, <3>3
    <3>5. ~truncated'
        BY <2>1, <3>1, <3>4, Zenon
    <3> QED BY <1>2, <1>6, <2>2, <3>3, <3>5
  <2>5. CASE ~Overflow /\ ~Exhausted
    <3>1. Cut /\ (NoProgress \/ OutOfBudget)
        BY <2>1, <2>5 DEF LastPage, Cut
    <3>2. ~NoProgress
      <4>1. Len(Kept) = Len(records) + Len(items)
          BY <1>2, <1>3, <1>6, <2>5
      <4>2. Len(items) = pageSize
          BY <1>2, <1>6, <2>5 DEF Exhausted
      <4>3. Len(Kept) # Len(records)
          BY <1>2, <1>6, <4>1, <4>2
      <4> QED BY <4>3 DEF NoProgress
    <3>3. Told > 0 /\ ~ (Told <= Len(Kept))
        BY <2>5, <3>1, <3>2 DEF OutOfBudget, Exhausted
    <3>4. Len(Kept) < n
        BY <1>2, <1>3, <1>6, <3>3
    <3>5. truncated'
        BY <2>1, <3>1, Zenon
    <3> QED BY <2>2, <3>4, <3>5
  <2> QED BY <2>3, <2>4, <2>5
<1>7. ExactWhenQuiet'
    BY <1>1, <1>6 DEF ExactWhenQuiet, n
<1> QED BY <1>5, <1>7 DEF Exact

LEMMA ExactStep == Basic /\ Exact /\ [Next]_vars => Exact'
<1> SUFFICES ASSUME Basic, Exact, [Next]_vars PROVE Exact'
    OBVIOUS
<1>1. CASE FetchPage
    BY <1>1, ExactFetch
<1>2. CASE FetchFails
    BY <1>2 DEF FetchFails, Exact, ExactSoFar, ExactWhenQuiet
<1>3. CASE Create
    BY <1>3 DEF Create, Exact, ExactSoFar, ExactWhenQuiet
<1>4. CASE \E id \in Ids : Delete(id)
    BY <1>4 DEF Delete, Exact, ExactSoFar, ExactWhenQuiet
<1>5. CASE UNCHANGED vars
  <2>1. UNCHANGED <<collection, quiet, server, pc, page, records, total, truncated, pageSize>>
      BY <1>5 DEF vars, zentao, given, scanVars, pageSize
  <2> QED BY <2>1 DEF Exact, ExactSoFar, ExactWhenQuiet
<1> QED BY <1>1, <1>2, <1>3, <1>4, <1>5 DEF Next

(* Without changes, and when ZenTao honours pages and page numbers, the    *)
(* scan returns the newest records exactly, and "truncated" says exactly   *)
(* whether there are more, with totals or without (client.go:197-206).     *)
THEOREM ScanExact == Spec => []ExactWhenQuiet
<1>1. Exact => ExactWhenQuiet
    BY DEF Exact
<1> QED BY <1>1, ExactInit, ExactStep, BasicAlways, PTL DEF Spec

---------------------------------------------------------------------------
(* The scan in one step.  HistoryIndex!ScanProduct and ScopeScan!ScanScope *)
(* take a whole scan for one action; what they let it return is what the   *)
(* last page of a scan brings about.                                       *)

(* Every record that was there at some moment since the scan began.        *)
Touched == 1 .. created

ReadTouched == Range(records) \subseteq Touched

(* HistoryIndex!ScanProduct: what a product scan may leave behind.         *)
ProductScanned(docs, status) ==
    /\ docs \in SUBSET Touched /\ status \in {"ok", "truncated"}
    /\ status = "ok" => steady \subseteq docs

(* res.Truncated and res.TruncationReason, as ScopeScan tells them apart.  *)
MaxScanHit == Overflow \/ (~Exhausted /\ ~NoProgress /\ OutOfBudget)

Result ==
    IF MaxScanHit THEN "max_scan"
    ELSE IF Cut \/ Told > Len(Kept) THEN "incomplete" ELSE "complete"

(* ScopeScan!Listed, with the collection for the records of the scope and  *)
(* maxScan for what is left of the budget.                                 *)
ScopeListed(rs, result) ==
    /\ rs \in SUBSET Range(collection) /\ result \in {"complete", "max_scan", "incomplete"}
    /\ Cardinality(rs) <= maxScan
    /\ result = "complete" => rs = Range(collection)
    /\ result = "max_scan" => Cardinality(rs) = maxScan /\ rs # Range(collection)

LEMMA CollectionTouched ==
    ASSUME Basic
    PROVE  created \in Nat /\ Range(collection) \subseteq Touched
<1>1. DOMAIN collection = 1 .. Len(collection) /\ collection \in Seq(Ids)
    BY CollectionTyped DEF Basic
<1>2. \A i \in 1 .. Len(collection) : collection[i] \in Ids /\ collection[i] <= created
    BY <1>1 DEF Basic, NewestFirst
<1> QED BY <1>1, <1>2, ScanAssumption DEF Basic, TypeOK, Ids, Touched, Range

\* Nothing but ids that were given out is ever read.
LEMMA ReadTouchedStep == Basic /\ ReadTouched /\ [Next]_vars => ReadTouched'
<1> SUFFICES ASSUME Basic, ReadTouched, [Next]_vars PROVE ReadTouched'
    OBVIOUS
<1>1. created \in Nat /\ Range(collection) \subseteq Touched
    BY CollectionTouched
<1>2. CASE FetchPage
  <2>1. records' = Kept /\ created' = created
      BY <1>2 DEF FetchPage, zentao
  <2>2. Range(Kept) \subseteq Range(records) \cup Range(items)
      BY KeptFacts DEF Basic
  <2>3. Range(items) \subseteq Range(collection)
      BY ItemsFacts DEF Basic
  <2>4. Range(Kept) \subseteq Touched
      BY <1>1, <2>2, <2>3 DEF ReadTouched
  <2> QED BY <2>1, <2>4 DEF ReadTouched, Touched
<1>3. CASE Create
  <2>1. records' = records /\ created' = created + 1
      BY <1>3 DEF Create, scanVars
  <2> QED BY <1>1, <2>1 DEF ReadTouched, Touched
<1>4. CASE FetchFails \/ (\E id \in Ids : Delete(id)) \/ UNCHANGED vars
  <2>1. records' = records /\ created' = created
      BY <1>4 DEF FetchFails, Delete, vars, zentao, scanVars
  <2> QED BY <2>1 DEF ReadTouched, Touched
<1> QED BY <1>2, <1>3, <1>4 DEF Next

\* A last page that is not a failure of the client is a turn of the loop.
LEMMA LastTurn ==
    ASSUME pc = "fetch", pc' = "done", [Next]_vars
    PROVE  /\ FetchPage /\ LastPage
           /\ records' = Kept /\ truncated' = (Cut \/ Told > Len(Kept))
           /\ UNCHANGED <<zentao, given>>
<1>1. ~FetchFails /\ ~Create /\ ~(\E id \in Ids : Delete(id)) /\ ~UNCHANGED vars
    BY DEF FetchFails, Create, Delete, vars, scanVars
<1>2. FetchPage
    BY <1>1 DEF Next
<1> QED BY <1>2 DEF FetchPage

(* The builder's product scan in one step (HistoryIndex!ScanProduct) is    *)
(* what a scan page by page amounts to, when ZenTao sends totals and       *)
(* honours page numbers: whatever changed between the pages, it leaves     *)
(* records that were there at some moment, and all that were there         *)
(* throughout unless it says "truncated" (listAll, client.go:151-214).     *)
THEOREM ScanIsOneStep ==
    Spec => [][pc = "fetch" /\ pc' = "done" /\ server.totals /\ ~server.repeats =>
                   ProductScanned(Range(records'), IF truncated' THEN "truncated" ELSE "ok")]_vars
<1> DEFINE A == pc = "fetch" /\ pc' = "done" /\ server.totals /\ ~server.repeats =>
                   ProductScanned(Range(records'), IF truncated' THEN "truncated" ELSE "ok")
<1>1. Init => ReadTouched
    BY DEF Init, ReadTouched, Range
<1>2. Basic /\ Complete /\ ReadTouched /\ [Next]_vars => A
  <2> SUFFICES ASSUME Basic, Complete, ReadTouched, [Next]_vars,
                      pc = "fetch", pc' = "done", server.totals, ~server.repeats
               PROVE  ProductScanned(Range(records'), IF truncated' THEN "truncated" ELSE "ok")
      OBVIOUS
  <2>1. created' = created /\ steady' = steady /\ server' = server
      BY LastTurn DEF zentao, given
  <2>2. Range(records') \subseteq Touched
      BY <2>1, ReadTouchedStep DEF ReadTouched, Touched
  <2>3. ~truncated' => steady \subseteq Range(records')
      BY <2>1, CompleteStep DEF Complete, CompleteUnlessTruncated
  <2> QED BY <2>2, <2>3 DEF ProductScanned
<1>3. Basic /\ Complete /\ ReadTouched /\ [Next]_vars => [A]_vars
    BY <1>2
<1> HIDE DEF A
<1>4. Spec => [][A]_vars
    BY <1>1, <1>3, CompleteInit, CompleteStep, ReadTouchedStep, BasicAlways, PTL DEF Spec
<1> QED BY <1>4 DEF A

\* Without changes nothing read is gone and no total is out of date.
QuietRead ==
    /\ quiet => Range(records) \subseteq Range(collection) /\ total <= Len(collection)
    /\ ~server.totals => total = 0

LEMMA QuietTurn ==
    ASSUME Basic, QuietRead, quiet
    PROVE  Range(Kept) \subseteq Range(collection) /\ Told <= Len(collection)
<1>1. Range(Kept) \subseteq Range(records) \cup Range(items) /\ Range(items) \subseteq Range(collection)
    BY KeptFacts, ItemsFacts DEF Basic
<1>2. Told <= Len(collection)
  <2>1. Len(collection) \in Nat /\ total \in Nat /\ total <= Len(collection)
      BY CollectionTyped DEF Basic, QuietRead, TypeOK
  <2> QED BY <2>1 DEF Told, Larger
<1> QED BY <1>1, <1>2 DEF QuietRead

LEMMA QuietReadStep == Basic /\ QuietRead /\ [Next]_vars => QuietRead'
<1> SUFFICES ASSUME Basic, QuietRead, [Next]_vars PROVE QuietRead'
    OBVIOUS
<1>1. CASE FetchPage
  <2>1. /\ records' = Kept /\ total' = Told /\ collection' = collection /\ quiet' = quiet
        /\ server' = server
      BY <1>1 DEF FetchPage, zentao, given
  <2>2. ~server.totals => Told = total
      BY ToldFacts DEF Basic
  <2> QED BY <2>1, <2>2, QuietTurn DEF QuietRead
<1>2. CASE Create \/ \E id \in Ids : Delete(id)
  <2>1. ~quiet' /\ total' = total /\ server' = server
      BY <1>2 DEF Create, Delete, given, scanVars
  <2> QED BY <2>1 DEF QuietRead
<1>3. CASE FetchFails \/ UNCHANGED vars
  <2>1. UNCHANGED <<records, total, collection, quiet, server>>
      BY <1>3 DEF FetchFails, vars, zentao, given, scanVars
  <2> QED BY <2>1 DEF QuietRead
<1> QED BY <1>1, <1>2, <1>3 DEF Next

\* Distinct records of the collection, as many as it has, are the collection.
LEMMA AllOfThem ==
    ASSUME Basic, Range(Kept) \subseteq Range(collection), Len(Kept) >= Len(collection)
    PROVE  Range(Kept) = Range(collection)
<1>1. /\ IsFiniteSet(Range(collection)) /\ Cardinality(Range(collection)) = Len(collection)
      /\ Len(collection) \in Nat
    BY CollectionTyped, CollectionDistinct, RangeFacts DEF Basic
<1>2. Cardinality(Range(Kept)) = Len(Kept)
    BY KeptFacts, RangeFacts DEF Basic
<1>3. Cardinality(Range(Kept)) <= Cardinality(Range(collection))
      /\ (Cardinality(Range(Kept)) = Cardinality(Range(collection)) => Range(Kept) = Range(collection))
    BY <1>1, FS_Subset
<1> QED BY <1>1, <1>2, <1>3

(* The scan of a scope in one step (ScopeScan!Listed) is what a scan page  *)
(* by page amounts to while the scope does not change: "max_scan" means a  *)
(* full budget and at least one record more, "complete" every record,      *)
(* unless ZenTao cuts pages short and sends no total, when nothing could   *)
(* tell (listAll, client.go:174-214).                                      *)
THEOREM ScanIsListed ==
    Spec => [][pc = "fetch" /\ pc' = "done" /\ quiet /\ (server.totals \/ pageSize <= server.cap) =>
                   ScopeListed(Range(records'), Result) /\ (truncated' <=> Result # "complete")]_vars
<1> DEFINE A == pc = "fetch" /\ pc' = "done" /\ quiet /\ (server.totals \/ pageSize <= server.cap) =>
                   ScopeListed(Range(records'), Result) /\ (truncated' <=> Result # "complete")
<1>1. Init => QuietRead
  <2>1. Init => records = <<>> /\ total = 0 /\ Len(collection) \in Nat
    <3>1. Init => TypeOK
        BY BasicInit
    <3> QED BY <3>1, CollectionTyped DEF Init
  <2> QED BY <2>1 DEF QuietRead, Range
<1>2. Basic /\ Exact /\ QuietRead /\ [Next]_vars => A
  <2> SUFFICES ASSUME Basic, Exact, QuietRead, [Next]_vars,
                      pc = "fetch", pc' = "done", quiet, server.totals \/ pageSize <= server.cap
               PROVE  ScopeListed(Range(records'), Result) /\ (truncated' <=> Result # "complete")
      OBVIOUS
  <2> DEFINE n == Len(collection)
             k == Len(Kept)
  <2>1. /\ FetchPage /\ LastPage /\ records' = Kept /\ truncated' = (Cut \/ Told > k)
        /\ collection' = collection /\ quiet' = quiet /\ server' = server /\ maxScan' = maxScan
      BY LastTurn DEF zentao, given
  <2>2. /\ Kept \in Seq(Ids) /\ k \in Nat /\ k <= maxScan
        /\ maxScan \in Nat /\ Len(records) \in Nat /\ Cardinality(Range(Kept)) = k
        /\ Overflow => k = maxScan
        /\ ~Overflow => Range(Kept) = Range(records) \cup Range(items)
      BY KeptFacts, RangeFacts, ScanAssumption DEF Basic, TypeOK
  <2>3. n \in Nat /\ Cardinality(Range(collection)) = n /\ IsFiniteSet(Range(collection))
      BY CollectionTyped, CollectionDistinct, RangeFacts DEF Basic
  <2>4. Range(Kept) \subseteq Range(collection) /\ Told \in Nat /\ Told <= n
        /\ (server.totals => Told = n)
      BY QuietTurn, ToldFacts, <2>3 DEF Basic
  <2>5. k < n => Range(Kept) # Range(collection)
    <3>1. Cardinality(Range(Kept)) = k /\ Cardinality(Range(collection)) = n /\ k \in Nat
        BY <2>2, <2>3
    <3> HIDE DEF k, n
    <3> QED BY <3>1
  <2>6. ASSUME MaxScanHit
        PROVE  k = maxScan /\ Range(Kept) # Range(collection)
    <3>1. k = maxScan
        BY <2>2, <2>6 DEF MaxScanHit, OutOfBudget
    <3>2. CASE Overflow
      <4>1. Fresh \in Seq(Ids) /\ IsInjective(Fresh) /\ Range(Fresh) = Range(items) \ Range(records)
          BY FreshFacts DEF Basic
      <4>2. Cardinality(Range(Fresh)) = Len(Fresh) /\ IsFiniteSet(Range(Fresh)) /\ Len(Fresh) \in Nat
        <5>1. Len(Fresh) \in Nat
            BY <4>1
        <5> QED BY <4>1, <5>1, RangeFacts
      <4>3. records \in Seq(Ids) /\ IsInjective(records)
          BY DEF Basic, TypeOK, DistinctWithinBudget
      <4>4. Cardinality(Range(records)) = Len(records) /\ IsFiniteSet(Range(records))
          BY <4>3, RangeFacts
      <4>5. Cardinality(Range(records) \cup Range(Fresh)) = Len(records) + Len(Fresh)
        <5>1. Range(records) \cap Range(Fresh) = {}
            BY <4>1
        <5>2. Cardinality(Range(records) \cap Range(Fresh)) = 0
            BY <5>1, FS_EmptySet
        <5>3. Cardinality(Range(records) \cup Range(Fresh)) =
                  Cardinality(Range(records)) + Cardinality(Range(Fresh))
                  - Cardinality(Range(records) \cap Range(Fresh))
            BY <4>2, <4>4, FS_Union
        <5>4. Len(records) \in Nat /\ Len(Fresh) \in Nat
            BY <2>2, <4>2
        <5> QED BY <4>2, <4>4, <5>2, <5>3, <5>4
      <4>6. Range(records) \cup Range(Fresh) \subseteq Range(collection)
          BY <4>1, ItemsFacts DEF Basic, QuietRead
      <4>7. Len(records) + Len(Fresh) <= n
          BY <2>3, <4>5, <4>6, FS_Subset
      <4>8. k < Len(records) + Len(Fresh)
          BY <3>2 DEF Overflow
      <4>9. k < n
          BY <2>2, <2>3, <4>2, <4>7, <4>8
      <4> QED BY <2>5, <3>1, <4>9
    <3>3. CASE ~Overflow
      <4>1. Told > 0 /\ ~ (Told <= k)
          BY <2>6, <3>3 DEF MaxScanHit, OutOfBudget, Exhausted
      <4>2. k < n
        <5>1. k \in Nat /\ n \in Nat /\ Told \in Nat /\ Told <= n
            BY <2>2, <2>3, <2>4
        <5> HIDE DEF k, n
        <5> QED BY <4>1, <5>1
      <4> QED BY <2>5, <3>1, <4>2
    <3> QED BY <3>1, <3>2, <3>3
  <2>7. ASSUME ~Cut, ~ (Told > k)
        PROVE  Range(Kept) = Range(collection)
    <3>1. CASE server.totals
      <4>1. k >= n
          BY <2>2, <2>3, <2>4, <2>7, <3>1
      <4> QED BY <2>4, <4>1, AllOfThem
    <3>2. CASE ~server.totals /\ pageSize <= server.cap /\ ~server.repeats
      <4>1. ~truncated' /\ pageSize' = pageSize
          BY <2>1, <2>7 DEF pageSize
      <4>2. ExactWhenQuiet'
          BY ExactStep DEF Exact
      <4>3. k >= n
          BY <2>1, <2>2, <2>3, <3>2, <4>1, <4>2 DEF ExactWhenQuiet
      <4> QED BY <2>4, <4>3, AllOfThem
    <3>3. CASE ~server.totals /\ pageSize <= server.cap /\ server.repeats
      <4>1. Exhausted /\ ~Overflow
          BY <2>1, <2>7 DEF LastPage, Cut
      <4>2. total = 0
          BY <3>3 DEF QuietRead
      <4>3. Len(items) < pageSize
          BY <2>2, <3>3, <4>1, <4>2, ToldFacts DEF Exhausted, Basic
      <4>4. Size = pageSize /\ Size \in Nat \ {0} /\ First = 1
          BY <3>3, SizeFacts DEF Basic, First
      <4>5. Range(items) = {collection[i] : i \in 1 .. Smaller(Size, n)} /\ n < Size
        <5>1. /\ Range(items) = {collection[i] : i \in 1 .. Smaller(Size, n)}
              /\ Len(items) = IF Size <= n THEN Size ELSE IF 1 <= n THEN n ELSE 0
            BY <2>3, <4>4, ItemsFacts DEF Basic
        <5>2. n < Size
            BY <2>3, <4>3, <4>4, <5>1
        <5> QED BY <5>1, <5>2
      <4>6. Range(items) = Range(collection)
        <5>1. Smaller(Size, n) = n
            BY <2>3, <4>4, <4>5 DEF Smaller
        <5>2. DOMAIN collection = 1 .. n
            BY CollectionTyped DEF Basic
        <5> QED BY <4>5, <5>1, <5>2 DEF Range
      <4> QED BY <2>2, <2>4, <4>1, <4>6
    <3> QED BY <3>1, <3>2, <3>3
  <2>8. MaxScanHit => Cut
      BY DEF MaxScanHit, Cut
  <2>9. truncated' <=> Result # "complete"
      BY <2>1, <2>8 DEF Result
  <2>10. Cardinality(Range(Kept)) <= maxScan /\ (MaxScanHit => Cardinality(Range(Kept)) = maxScan)
      BY <2>2, <2>6
  <2>11. Result \in {"complete", "max_scan", "incomplete"}
         /\ (Result = "max_scan" => MaxScanHit)
         /\ (Result = "complete" => ~Cut /\ ~ (Told > k))
      BY <2>8 DEF Result
  <2> HIDE DEF k, n
  <2>12. ScopeListed(Range(Kept), Result)
      BY <2>4, <2>6, <2>7, <2>10, <2>11 DEF ScopeListed
  <2> QED BY <2>1, <2>9, <2>12
<1>3. Basic /\ Exact /\ QuietRead /\ [Next]_vars => [A]_vars
    BY <1>2
<1> HIDE DEF A
<1>4. Spec => [][A]_vars
    BY <1>1, <1>3, ExactInit, ExactStep, QuietReadStep, BasicAlways, PTL DEF Spec
<1> QED BY <1>4 DEF A

=============================================================================
