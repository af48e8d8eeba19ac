--------------------------- MODULE ScopeScanProofs ---------------------------
(***************************************************************************)
(* Theorems about the tools that scan several scopes: for any scopes and   *)
(* records, whatever overlaps, fails or moves between two scans, a record  *)
(* is counted once, none is missed in silence, and the books of records    *)
(* read are in order.                                                      *)
(***************************************************************************)
EXTENDS ScopeScan, SequenceLemmas

(* Before the scopes are chosen nothing has been read.                     *)
Started ==
    pc = "start" => next = 1 /\ budget = MaxScan /\ stats = <<>> /\ matched = <<>>

(* While the answer admits to nothing, the scopes scanned so far are in it *)
(* as far as the request wants them, and all that was asked for is due.    *)
Covered ==
    /\ \A s \in Scopes : steady[s] \subseteq stored[s]
    /\ pc \in {"scan", "done"} /\ ~Told =>
           /\ Asked \subseteq Range(targets)
           /\ \A i \in 1 .. next - 1 : steady[targets[i]] \cap wanted \subseteq Range(matched)
    /\ pc = "done" => next = Len(targets) + 1

(* What was read and what is left make the budget; a search does not count *)
(* the scans that failed, a worklog does.                                  *)
Books ==
    /\ tool = "worklog" => Read(DOMAIN stats) + budget = MaxScan
    /\ tool = "search" =>
           /\ Read(Counted) + budget = MaxScan
           /\ (\E i \in DOMAIN stats : stats[i].result = "max_scan") => budget = 0
           /\ Len(stats) # next - 1 => budget = 0

Inv == TypeOK /\ Started /\ CountedOnce /\ Covered /\ Books

---------------------------------------------------------------------------
(* The scopes of a request.                                                *)

LEMMA DistinctFacts ==
    ASSUME NEW s \in Seq(Scopes)
    PROVE  Distinct(s) \in Seq(Scopes) /\ Range(Distinct(s)) = Range(s)
<1> DEFINE firsts == {i \in DOMAIN s : \A j \in 1 .. i - 1 : s[j] # s[i]}
<1>1. firsts \in SUBSET (1 .. Len(s)) /\ {s[i] : i \in firsts} = {s[i] : i \in 1 .. Len(s)}
    BY FirstsFacts
<1>2. Distinct(s) = Pick(s, firsts)
    BY DEF Distinct
<1> HIDE DEF firsts
<1>3. Pick(s, firsts) \in Seq(Scopes) /\ Range(Pick(s, firsts)) = {s[i] : i \in firsts}
    BY <1>1, PickFacts
<1>4. Range(s) = {s[i] : i \in 1 .. Len(s)}
    BY DEF Range
<1> QED BY <1>1, <1>2, <1>3, <1>4

LEMMA ScopesListed ==
    ASSUME NEW some \in SUBSET Scopes
    PROVE  SetToSeq(some) \in Seq(Scopes) /\ Range(SetToSeq(some)) = some
<1>1. IsFiniteSet(some)
    BY ScopeScanAssumption, FS_Subset
<1> QED BY <1>1, Enumeration

\* The request is refused, or its scopes are all to be scanned unless it says so.
LEMMA Choice ==
    ASSUME TypeOK, NamedScopes \/ ListProducts \/ AllKinds \/ NoScope
    PROVE  \/ Refuse
           \/ \E ts \in Seq(Scopes), more \in BOOLEAN :
                  Scan(ts, more) /\ (~more => Asked \subseteq Range(ts))
<1> DEFINE Chosen == \E ts \in Seq(Scopes), more \in BOOLEAN :
                         Scan(ts, more) /\ (~more => Asked \subseteq Range(ts))
<1>0. ids \in Seq(Scopes)
    BY DEF TypeOK
<1>1. CASE NamedScopes
  <2> DEFINE ts == IF tool = "search" THEN Distinct(ids) ELSE ids
  <2>1. ts \in Seq(Scopes) /\ Range(ts) = Range(ids)
      BY <1>0, DistinctFacts
  <2>2. Scan(ts, FALSE) /\ Asked = Range(ids)
      BY <1>1 DEF NamedScopes, Asked
  <2> HIDE DEF ts
  <2> QED BY <2>1, <2>2
<1>2. CASE ListProducts
  <2>1. CASE Scan(SetToSeq(Scopes), FALSE)
    <3>1. Asked = Scopes
        BY <1>2 DEF ListProducts, Asked
    <3> QED BY <2>1, <3>1, ScopesListed
  <2>2. CASE \E some \in SUBSET Scopes : Scan(SetToSeq(some), TRUE)
      BY <2>2, ScopesListed
  <2> QED BY <1>2, <2>1, <2>2 DEF ListProducts
<1>3. CASE AllKinds
  <2>1. Asked = Scopes /\ Scan(SetToSeq(Scopes), FALSE)
      BY <1>3 DEF AllKinds, Asked
  <2> QED BY <2>1, ScopesListed
<1>4. CASE NoScope
    BY <1>4 DEF NoScope
<1> QED BY <1>1, <1>2, <1>3, <1>4

---------------------------------------------------------------------------
(* One scan.                                                               *)

LEMMA RecordsFinite ==
    ASSUME NEW rs \in SUBSET Records
    PROVE  IsFiniteSet(rs) /\ Cardinality(rs) \in Nat
BY ScopeScanAssumption, FS_Subset, FS_CardinalityType

LEMMA ListedFacts ==
    ASSUME TypeOK, Due, NEW list \in Listed
    PROVE  /\ target \in Scopes /\ list.records \subseteq stored[target] /\ list.records \subseteq Records
           /\ Cardinality(list.records) \in 0 .. budget
           /\ list.result \in {"complete", "max_scan", "incomplete"}
           /\ list.result = "complete" => list.records = stored[target]
           /\ list.result = "max_scan" => Cardinality(list.records) = budget
<1>1. target \in Scopes
    BY DEF TypeOK, Due, target
<1>2. /\ list.records \subseteq stored[target] /\ Cardinality(list.records) <= budget
      /\ list.result \in {"complete", "max_scan", "incomplete"}
      /\ list.result = "complete" => list.records = stored[target]
      /\ list.result = "max_scan" => Cardinality(list.records) = budget
    BY DEF Listed
<1>3. list.records \subseteq Records
    BY <1>1, <1>2 DEF TypeOK
<1>4. Cardinality(list.records) \in Nat
    BY <1>3, RecordsFinite
<1> QED BY <1>1, <1>2, <1>3, <1>4 DEF TypeOK

\* What a scan adds to the answer.
LEMMA TakenFacts ==
    ASSUME TypeOK, NEW rs \in SUBSET Records
    PROVE  /\ matched \o Taken(rs) \in Seq(Records)
           /\ Range(matched \o Taken(rs)) = Range(matched) \cup (rs \cap wanted)
           /\ CountedOnce => (tool # "resolve" => IsInjective(matched \o Taken(rs)))
<1> DEFINE T == IF tool = "resolve" THEN Matching(rs) ELSE Matching(rs) \ Range(matched)
<1>1. /\ T \subseteq Records /\ Range(matched) \cup T = Range(matched) \cup (rs \cap wanted)
      /\ tool # "resolve" => T \cap Range(matched) = {}
    BY DEF Matching
<1>2. Taken(rs) = SetToSeq(T)
    BY DEF Taken
<1> HIDE DEF T
<1>3. IsFiniteSet(T)
    BY <1>1, RecordsFinite
<1>4. Taken(rs) \in Seq(T) /\ IsInjective(Taken(rs)) /\ Range(Taken(rs)) = T
    BY <1>2, <1>3, Enumeration
<1>5. Taken(rs) \in Seq(Records)
    BY <1>1, <1>4
<1>6. matched \in Seq(Records)
    BY DEF TypeOK
<1>7. matched \o Taken(rs) \in Seq(Records)
    BY <1>5, <1>6, JoinFacts
<1>8. Range(matched \o Taken(rs)) = Range(matched) \cup Range(Taken(rs))
    BY <1>5, <1>6, JoinFacts
<1>9. ASSUME CountedOnce, tool # "resolve"
      PROVE  IsInjective(matched \o Taken(rs))
  <2>1. IsInjective(matched)
      BY <1>9 DEF CountedOnce
  <2>2. Range(matched) \cap Range(Taken(rs)) = {}
      BY <1>1, <1>4, <1>9
  <2> QED BY <1>4, <1>5, <1>6, <2>1, <2>2, JoinFacts
<1> QED BY <1>1, <1>4, <1>7, <1>8, <1>9

\* What was read is a number.
LEMMA CountedRead ==
    ASSUME TypeOK
    PROVE  Read(DOMAIN stats) \in Nat /\ Read(Counted) \in Nat
<1> DEFINE f == [i \in DOMAIN stats |-> stats[i].scanned]
<1>1. stats \in Seq(ScopeStat) /\ \A y \in ScopeStat : y.scanned \in Nat
    BY DEF TypeOK, ScopeStat
<1>2. DOMAIN stats = 1 .. Len(stats) /\ Len(stats) \in Nat /\ Counted \subseteq DOMAIN stats
    BY <1>1 DEF Counted
<1>3. \A i \in DOMAIN stats : f[i] \in Nat
    BY <1>1
<1>4. IsFiniteSet(DOMAIN stats) /\ IsFiniteSet(Counted)
  <2>1. IsFiniteSet(1 .. Len(stats))
      BY <1>2, FS_Interval
  <2> QED BY <1>2, <2>1, FS_Subset
<1> HIDE DEF f
<1>5. SumFunctionOnSet(f, DOMAIN stats) \in Nat
    BY <1>3, <1>4, SumRemove
<1>6. SumFunctionOnSet(f, Counted) \in Nat
    BY <1>2, <1>3, <1>4, SumRemove
<1> QED BY <1>5, <1>6 DEF Read, f

\* What was read, after one scan more.
LEMMA ReadMore ==
    ASSUME TypeOK, NEW x \in ScopeStat, stats' = Append(stats, x)
    PROVE  /\ stats' \in Seq(ScopeStat) /\ Len(stats') = Len(stats) + 1
           /\ DOMAIN stats' = DOMAIN stats \cup {Len(stats) + 1}
           /\ \A i \in DOMAIN stats : stats'[i] = stats[i]
           /\ stats'[Len(stats) + 1] = x
           /\ Read(DOMAIN stats)' = Read(DOMAIN stats) + x.scanned
           /\ Read(Counted)' = Read(Counted) + (IF x.result = "error" THEN 0 ELSE x.scanned)
           /\ Read(DOMAIN stats) \in Nat /\ Read(Counted) \in Nat /\ x.scanned \in Nat
<1> DEFINE n == Len(stats)
           f == [i \in DOMAIN stats |-> stats[i].scanned]
           g == [i \in DOMAIN stats' |-> stats'[i].scanned]
<1>1. /\ stats \in Seq(ScopeStat) /\ n \in Nat /\ DOMAIN stats = 1 .. n
      /\ stats' \in Seq(ScopeStat) /\ Len(stats') = n + 1 /\ DOMAIN stats' = 1 .. n + 1
      /\ \A i \in 1 .. n : stats[i] \in ScopeStat /\ stats'[i] = stats[i]
      /\ stats'[n + 1] = x
    BY DEF TypeOK
<1>2. \A y \in ScopeStat : y.scanned \in Nat
    BY DEF ScopeStat
<1>3. 1 .. n + 1 = (1 .. n) \cup {n + 1} /\ 1 .. n \in SUBSET (1 .. n) /\ n + 1 \notin 1 .. n
    BY <1>1
<1>4. \A i \in 1 .. n : f[i] \in Nat /\ g[i] = f[i]
    BY <1>1, <1>2, <1>3
<1>5. g[n + 1] = x.scanned /\ g[n + 1] \in Nat
    BY <1>1, <1>2, <1>3
<1>6. Counted \in SUBSET (1 .. n)
    BY <1>1 DEF Counted
<1>7. Counted' = IF x.result = "error" THEN Counted ELSE Counted \cup {n + 1}
    BY <1>1, <1>3 DEF Counted
<1>8. /\ Read(DOMAIN stats) = SumFunctionOnSet(f, 1 .. n) /\ Read(Counted) = SumFunctionOnSet(f, Counted)
      /\ Read(DOMAIN stats)' = SumFunctionOnSet(g, (1 .. n) \cup {n + 1})
      /\ Read(Counted)' = SumFunctionOnSet(g, Counted')
    BY <1>1, <1>3 DEF Read
<1> HIDE DEF f, g, n
<1>9. ASSUME NEW is \in SUBSET (1 .. n)
      PROVE  /\ SumFunctionOnSet(f, is) \in Nat
             /\ SumFunctionOnSet(g, is) = SumFunctionOnSet(f, is)
             /\ SumFunctionOnSet(g, is \cup {n + 1}) = SumFunctionOnSet(f, is) + g[n + 1]
  <2> DEFINE more == is \cup {n + 1}
  <2>1. IsFiniteSet(is)
    <3>1. n \in Int
        BY <1>1
    <3>2. IsFiniteSet(1 .. n)
        BY <3>1, FS_Interval
    <3> QED BY <3>2, FS_Subset
  <2>2. IsFiniteSet(more)
      BY <2>1, FS_AddElement
  <2>3. \A i \in is : f[i] \in Nat /\ f[i] = g[i]
      BY <1>4
  <2>4. n + 1 \in more /\ more \ {n + 1} = is /\ \A i \in more : g[i] \in Nat
      BY <1>3, <1>5, <2>3
  <2> HIDE DEF more
  <2>5. SumFunctionOnSet(f, is) \in Nat
      BY <2>1, <2>3, SumRemove
  <2>6. SumFunctionOnSet(f, is) = SumFunctionOnSet(g, is)
      BY <2>1, <2>3, SumSame
  <2>7. SumFunctionOnSet(g, more) = g[n + 1] + SumFunctionOnSet(g, is)
      BY <2>2, <2>4, SumRemove
  <2> QED BY <1>5, <2>5, <2>6, <2>7 DEF more
<1>10. /\ SumFunctionOnSet(f, Counted) \in Nat
       /\ SumFunctionOnSet(g, Counted) = SumFunctionOnSet(f, Counted)
       /\ SumFunctionOnSet(g, Counted \cup {n + 1}) = SumFunctionOnSet(f, Counted) + g[n + 1]
    BY <1>6, <1>9
<1>11. Read(DOMAIN stats)' = Read(DOMAIN stats) + x.scanned /\ Read(DOMAIN stats) \in Nat
    BY <1>3, <1>5, <1>8, <1>9
<1>12. Read(Counted)' = Read(Counted) + (IF x.result = "error" THEN 0 ELSE x.scanned) /\ Read(Counted) \in Nat
    BY <1>5, <1>7, <1>8, <1>10
<1> QED BY <1>1, <1>2, <1>3, <1>11, <1>12 DEF n

---------------------------------------------------------------------------
(* The invariant.                                                          *)

LEMMA InvInit == Init => Inv
<1> SUFFICES ASSUME Init PROVE Inv
    OBVIOUS
<1>1. /\ stats = <<>> /\ matched = <<>> /\ next = 1 /\ budget = MaxScan /\ pc = "start"
      /\ steady = stored /\ targets = <<>>
    BY DEF Init
<1>2. ids \in Seq(Scopes)
  <2>1. \A n \in Nat : \A q \in BoundedSeq(Scopes, n) : q \in Seq(Scopes)
      BY DEF BoundedSeq, SeqOf
  <2> QED BY <2>1, ScopeScanAssumption DEF Init
<1>3. TypeOK
  <2>1. budget \in 0 .. MaxScan /\ changes \in 0 .. MaxChanges
      BY ScopeScanAssumption DEF Init
  <2>2. targets \in Seq(Scopes) /\ next \in 1 .. Len(targets) + 1
      BY <1>1
  <2>3. stats \in Seq(ScopeStat) /\ matched \in Seq(Records)
      BY <1>1
  <2>4. /\ tool \in Tools /\ wanted \subseteq Records
        /\ stored \in [Scopes -> SUBSET Records] /\ steady \in [Scopes -> SUBSET Records]
        /\ pc \in {"start", "scan", "done", "refused"}
        /\ truncated \in BOOLEAN /\ moreProducts \in BOOLEAN
      BY DEF Init
  <2> QED BY <1>2, <2>1, <2>2, <2>3, <2>4 DEF TypeOK
<1>4. Started /\ CountedOnce
    BY <1>1 DEF Started, CountedOnce, IsInjective
<1>5. Covered
    BY <1>1 DEF Covered
<1>6. Read(DOMAIN stats) = 0 /\ Read(Counted) = 0
  <2>1. DOMAIN stats = {} /\ Counted = {}
      BY <1>1 DEF Counted
  <2> QED BY <2>1, SumStep, FS_EmptySet DEF Read
<1>7. Books
    BY <1>1, <1>6, ScopeScanAssumption DEF Books
<1> QED BY <1>3, <1>4, <1>5, <1>7 DEF Inv

\* Changes in ZenTao.
LEMMA ChangeKeeps ==
    ASSUME Inv, NEW s \in Scopes, NEW r \in Records, Create(s, r) \/ Delete(s, r)
    PROVE  Inv'
<1>1. /\ stored \in [Scopes -> SUBSET Records] /\ steady \in [Scopes -> SUBSET Records]
      /\ \A q \in Scopes : steady[q] \subseteq stored[q]
    BY DEF Inv, TypeOK, Covered
<1>2. PICK rs \in SUBSET Records : Change(s, rs)
    BY <1>1 DEF Create, Delete
<1>3. /\ UNCHANGED <<tool, ids, wanted, pc, targets, next, budget, stats, matched, truncated, moreProducts>>
      /\ changes' = changes + 1 /\ changes < MaxChanges
      /\ stored' = [stored EXCEPT ![s] = rs]
      /\ steady' = [steady EXCEPT ![s] = @ \cap rs]
    BY <1>2 DEF Change, request, answer
<1>4. /\ stored' \in [Scopes -> SUBSET Records] /\ steady' \in [Scopes -> SUBSET Records]
      /\ \A q \in Scopes : steady'[q] \subseteq stored'[q] /\ steady'[q] \subseteq steady[q]
    BY <1>1, <1>3
<1>5. TypeOK'
  <2>1. changes' \in 0 .. MaxChanges
      BY <1>3, ScopeScanAssumption DEF Inv, TypeOK
  <2> QED BY <1>3, <1>4, <2>1 DEF Inv, TypeOK
<1>6. (Started /\ CountedOnce /\ Books)'
    BY <1>3 DEF Inv, Started, CountedOnce, Books, Read, Counted
<1>7. Covered'
  <2>1. Told' = Told /\ Asked' = Asked
      BY <1>3 DEF Told, Asked
  <2>2. \A i \in 1 .. next - 1 : targets[i] \in Scopes
      BY DEF Inv, TypeOK
  <2> QED BY <1>3, <1>4, <2>1, <2>2 DEF Inv, Covered
<1> QED BY <1>5, <1>6, <1>7 DEF Inv

\* The scopes are chosen.
LEMMA ChoiceKeeps ==
    ASSUME Inv, NamedScopes \/ ListProducts \/ AllKinds \/ NoScope
    PROVE  Inv'
<1>0. TypeOK
    BY DEF Inv
<1>1. CASE Refuse
  <2>1. /\ UNCHANGED <<tool, ids, wanted, stored, changes, steady, targets, next, budget, stats, matched, truncated, moreProducts>>
        /\ pc' = "refused"
      BY <1>1 DEF Refuse, request, zentao, answer
  <2> QED BY <2>1 DEF Inv, TypeOK, Started, CountedOnce, Covered, Books, Read, Counted
<1>2. ASSUME NEW ts \in Seq(Scopes), NEW more \in BOOLEAN, Scan(ts, more), ~more => Asked \subseteq Range(ts)
      PROVE  Inv'
  <2>1. /\ UNCHANGED <<tool, ids, wanted, stored, changes, steady, next, budget, stats, matched, truncated>>
        /\ pc = "start" /\ pc' = "scan" /\ targets' = ts /\ moreProducts' = more
      BY <1>2 DEF Scan, request, zentao
  <2>2. next = 1 /\ budget = MaxScan /\ stats = <<>> /\ matched = <<>>
      BY <2>1 DEF Inv, Started
  <2>3. TypeOK'
    <3>1. next' \in 1 .. Len(targets') + 1
        BY <2>1, <2>2
    <3> QED BY <1>0, <2>1, <3>1 DEF TypeOK
  <2>4. (Started /\ CountedOnce)'
      BY <2>1 DEF Inv, Started, CountedOnce
  <2>5. Covered'
    <3>1. ~Told' => ~more
        BY <2>1 DEF Told
    <3>2. Asked' = Asked
        BY <2>1 DEF Asked
    <3> QED BY <1>2, <2>1, <2>2, <3>1, <3>2 DEF Inv, Covered
  <2>6. Books'
    <3>1. Read(DOMAIN stats)' = Read(DOMAIN stats) /\ Read(Counted)' = Read(Counted)
        BY <2>1 DEF Read, Counted
    <3> QED BY <2>1, <2>2, <3>1 DEF Inv, Books
  <2> QED BY <2>3, <2>4, <2>5, <2>6 DEF Inv
<1> QED BY <1>0, <1>1, <1>2, Choice

\* A scan that comes to an end.
LEMMA ScanKeeps ==
    ASSUME Inv, ScanScope
    PROVE  Inv'
<1>0. TypeOK /\ Due /\ budget > 0
    BY DEF Inv, ScanScope
<1>1. PICK list \in Listed :
          /\ budget' = Remaining(Cardinality(list.records))
          /\ stats' = Append(stats, [scope |-> target, scanned |-> Cardinality(list.records), result |-> list.result])
          /\ matched' = matched \o Taken(list.records)
          /\ truncated' = (truncated \/ (tool # "worklog" /\ list.result # "complete"))
    BY DEF ScanScope
<1>2. /\ UNCHANGED <<tool, ids, wanted, stored, changes, steady, pc, targets, moreProducts>>
      /\ next' = next + 1 /\ pc = "scan" /\ next <= Len(targets)
    BY DEF ScanScope, request, zentao, Due
<1> DEFINE n == Cardinality(list.records)
           x == [scope |-> target, scanned |-> n, result |-> list.result]
<1>3. /\ target \in Scopes /\ list.records \in SUBSET Records /\ n \in 0 .. budget
      /\ list.result \in {"complete", "max_scan", "incomplete"}
      /\ list.result = "complete" => list.records = stored[target]
      /\ list.result = "max_scan" => n = budget
    BY <1>0, ListedFacts
<1>4. budget \in 0 .. MaxScan /\ MaxScan \in Nat
    BY <1>0, ScopeScanAssumption DEF TypeOK
<1>5. x \in ScopeStat /\ x.scanned = n /\ x.result = list.result /\ x.result # "error"
    BY <1>3, <1>4 DEF ScopeStat
<1>6. stats' = Append(stats, x)
    BY <1>1
<1> HIDE DEF x
<1>7. /\ stats' \in Seq(ScopeStat) /\ Len(stats') = Len(stats) + 1
      /\ DOMAIN stats' = DOMAIN stats \cup {Len(stats) + 1}
      /\ \A i \in DOMAIN stats : stats'[i] = stats[i]
      /\ stats'[Len(stats) + 1] = x
      /\ Read(DOMAIN stats)' = Read(DOMAIN stats) + n
      /\ Read(Counted)' = Read(Counted) + n
      /\ Read(DOMAIN stats) \in Nat /\ Read(Counted) \in Nat
    BY <1>0, <1>5, <1>6, ReadMore
<1> HIDE DEF n
<1>8. /\ matched' \in Seq(Records)
      /\ Range(matched') = Range(matched) \cup (list.records \cap wanted)
      /\ tool # "resolve" => IsInjective(matched')
    BY <1>0, <1>1, <1>3, TakenFacts DEF Inv
<1>9. budget' = IF tool = "resolve" THEN budget ELSE budget - n
    BY <1>1 DEF Remaining, n
<1>10. TypeOK'
  <2>1. budget' \in 0 .. MaxScan
      BY <1>3, <1>4, <1>9
  <2>2. next' \in 1 .. Len(targets') + 1
      BY <1>0, <1>2 DEF TypeOK
  <2>3. truncated' \in BOOLEAN
    <3>1. truncated' = (truncated \/ (tool # "worklog" /\ list.result # "complete"))
        BY <1>1
    <3> QED BY <3>1, Zenon
  <2> QED BY <1>0, <1>2, <1>7, <1>8, <2>1, <2>2, <2>3 DEF TypeOK
<1>11. (Started /\ CountedOnce)'
    BY <1>2, <1>8 DEF Started, CountedOnce
<1>12. Covered'
  <2>1. ASSUME ~Told'
        PROVE  ~Told /\ list.result = "complete"
    <3>1. ~truncated' /\ ~moreProducts' /\ \A i \in DOMAIN stats' : stats'[i].result = "complete"
        BY <2>1 DEF Told
    <3>2. ~truncated
        BY <1>1, <3>1
    <3>3. \A i \in DOMAIN stats : stats[i].result = "complete"
        BY <1>7, <3>1
    <3>4. x.result = "complete"
        BY <1>7, <3>1
    <3> QED BY <1>2, <1>5, <3>1, <3>2, <3>3, <3>4 DEF Told
  <2>2. ASSUME ~Told', NEW i \in 1 .. next
        PROVE  steady[targets[i]] \cap wanted \subseteq Range(matched')
    <3>1. CASE i \in 1 .. next - 1
        BY <1>2, <1>8, <2>1, <2>2, <3>1 DEF Inv, Covered
    <3>2. CASE i = next
      <4>1. targets[i] = target /\ list.records = stored[target] /\ steady[target] \subseteq stored[target]
          BY <1>3, <2>1, <2>2, <3>2 DEF target, Inv, Covered
      <4> QED BY <1>8, <4>1
    <3>3. next \in Nat
        BY <1>0 DEF TypeOK
    <3> QED BY <3>1, <3>2, <3>3
  <2>3. next' - 1 = next
      BY <1>0, <1>2 DEF TypeOK
  <2>4. Asked' = Asked
      BY <1>2 DEF Asked
  <2> QED BY <1>2, <2>1, <2>2, <2>3, <2>4 DEF Inv, Covered
<1>13. Books'
  <2>1. tool = "worklog" => Read(DOMAIN stats)' + budget' = MaxScan
      BY <1>3, <1>4, <1>7, <1>9 DEF Inv, Books
  <2>2. ASSUME tool = "search"
        PROVE  /\ Read(Counted)' + budget' = MaxScan
               /\ (\E i \in DOMAIN stats' : stats'[i].result = "max_scan") => budget' = 0
               /\ Len(stats') # next' - 1 => budget' = 0
    <3>1. /\ Read(Counted) + budget = MaxScan
          /\ (\E i \in DOMAIN stats : stats[i].result = "max_scan") => budget = 0
          /\ Len(stats) # next - 1 => budget = 0
        BY <2>2 DEF Inv, Books
    <3>2. budget' = budget - n /\ budget # 0
        BY <1>0, <1>9, <2>2
    <3>3. Read(Counted)' + budget' = MaxScan
        BY <1>3, <1>4, <1>7, <3>1, <3>2
    <3>4. ASSUME NEW i \in DOMAIN stats', stats'[i].result = "max_scan"
          PROVE  budget' = 0
      <4>1. i = Len(stats) + 1
          BY <1>7, <3>1, <3>2, <3>4
      <4>2. n = budget
          BY <1>3, <1>5, <1>7, <3>4, <4>1
      <4> QED BY <1>4, <3>2, <4>2
    <3>5. Len(stats') = next' - 1
      <4>1. Len(stats) = next - 1 /\ next \in Nat /\ Len(stats) \in Nat
          BY <1>0, <3>1, <3>2 DEF TypeOK
      <4> QED BY <1>2, <1>7, <4>1
    <3> QED BY <3>3, <3>4, <3>5
  <2> QED BY <1>2, <2>1, <2>2 DEF Books
<1> QED BY <1>10, <1>11, <1>12, <1>13 DEF Inv

\* A scan that fails.
LEMMA FailureKeeps ==
    ASSUME Inv, ScanFails
    PROVE  Inv'
<1>0. TypeOK /\ Due /\ budget > 0 /\ tool # "report"
    BY DEF Inv, ScanFails
<1>1. PICK n \in 0 .. budget :
          /\ budget' = budget - Cost(n)
          /\ stats' = Append(stats, [scope |-> target, scanned |-> n, result |-> "error"])
    BY DEF ScanFails
<1>2. /\ UNCHANGED <<tool, ids, wanted, stored, changes, steady, pc, targets, matched, truncated, moreProducts>>
      /\ next' = next + 1 /\ pc = "scan" /\ next <= Len(targets)
    BY DEF ScanFails, request, zentao, Due
<1> DEFINE x == [scope |-> target, scanned |-> n, result |-> "error"]
<1>3. budget \in 0 .. MaxScan /\ MaxScan \in Nat /\ n \in 0 .. budget /\ target \in Scopes
    BY <1>0, ScopeScanAssumption DEF TypeOK, Due, target
<1>4. x \in ScopeStat /\ x.scanned = n /\ x.result = "error"
    BY <1>3 DEF ScopeStat
<1>5. stats' = Append(stats, x)
    BY <1>1
<1> HIDE DEF x
<1>6. /\ stats' \in Seq(ScopeStat) /\ Len(stats') = Len(stats) + 1
      /\ DOMAIN stats' = DOMAIN stats \cup {Len(stats) + 1}
      /\ \A i \in DOMAIN stats : stats'[i] = stats[i]
      /\ stats'[Len(stats) + 1] = x
      /\ Read(DOMAIN stats)' = Read(DOMAIN stats) + n
      /\ Read(Counted)' = Read(Counted)
      /\ Read(DOMAIN stats) \in Nat /\ Read(Counted) \in Nat
    BY <1>0, <1>4, <1>5, ReadMore
<1>7. budget' = IF tool = "worklog" THEN budget - n ELSE budget
    BY <1>1, <1>3 DEF Cost
<1>8. TypeOK'
  <2>1. budget' \in 0 .. MaxScan
      BY <1>3, <1>7
  <2>2. next' \in 1 .. Len(targets') + 1
      BY <1>0, <1>2 DEF TypeOK
  <2> QED BY <1>0, <1>2, <1>6, <2>1, <2>2 DEF TypeOK
<1>9. (Started /\ CountedOnce)'
    BY <1>2 DEF Inv, Started, CountedOnce
<1>10. Covered'
  <2>1. Told'
      BY <1>4, <1>6 DEF Told
  <2> QED BY <1>2, <2>1 DEF Inv, Covered
<1>11. Books'
  <2>1. tool = "worklog" => Read(DOMAIN stats)' + budget' = MaxScan
      BY <1>3, <1>6, <1>7 DEF Inv, Books
  <2>2. ASSUME tool = "search"
        PROVE  /\ Read(Counted)' + budget' = MaxScan
               /\ (\E i \in DOMAIN stats' : stats'[i].result = "max_scan") => budget' = 0
               /\ Len(stats') # next' - 1 => budget' = 0
    <3>1. /\ Read(Counted) + budget = MaxScan
          /\ (\E i \in DOMAIN stats : stats[i].result = "max_scan") => budget = 0
          /\ Len(stats) # next - 1 => budget = 0
        BY <2>2 DEF Inv, Books
    <3>2. budget' = budget /\ budget # 0
        BY <1>0, <1>7, <2>2
    <3>3. \A i \in DOMAIN stats' : stats'[i].result # "max_scan"
        BY <1>4, <1>6, <3>1, <3>2
    <3>4. Len(stats') = next' - 1
      <4>1. Len(stats) = next - 1 /\ next \in Nat /\ Len(stats) \in Nat
          BY <1>0, <3>1, <3>2 DEF TypeOK
      <4> QED BY <1>2, <1>6, <4>1
    <3> QED BY <1>6, <3>1, <3>2, <3>3, <3>4
  <2> QED BY <1>2, <2>1, <2>2 DEF Books
<1> QED BY <1>8, <1>9, <1>10, <1>11 DEF Inv

\* The budget is spent, or all scopes are done.
LEMMA EndKeeps ==
    ASSUME Inv, ReportFails \/ OutOfBudget \/ Finish
    PROVE  Inv'
<1>0. TypeOK
    BY DEF Inv
<1>1. UNCHANGED <<tool, ids, wanted, stored, changes, steady, targets, budget, stats, matched, moreProducts>>
    BY DEF ReportFails, OutOfBudget, Finish, request, zentao, answer
<1>2. Read(DOMAIN stats)' = Read(DOMAIN stats) /\ Read(Counted)' = Read(Counted) /\ CountedOnce'
    BY <1>1 DEF Read, Counted, Inv, CountedOnce
<1>3. CASE ReportFails
  <2>1. pc' = "refused" /\ next' = next /\ truncated' = truncated
      BY <1>3 DEF ReportFails, answer
  <2> QED BY <1>0, <1>1, <1>2, <2>1 DEF Inv, TypeOK, Started, Covered, Books
<1>4. CASE OutOfBudget
  <2>1. /\ Due /\ budget = 0 /\ truncated' = TRUE /\ pc' = pc /\ pc = "scan"
        /\ next' = IF tool = "search" THEN Len(targets) + 1 ELSE next + 1
      BY <1>4 DEF OutOfBudget, Due
  <2>2. TypeOK'
    <3>1. next' \in 1 .. Len(targets') + 1
        BY <1>0, <1>1, <2>1 DEF TypeOK, Due
    <3> QED BY <1>0, <1>1, <2>1, <3>1 DEF TypeOK
  <2>3. Told'
      BY <2>1 DEF Told
  <2> QED BY <1>1, <1>2, <2>1, <2>2, <2>3 DEF Inv, Started, Covered, Books
<1>5. CASE Finish
  <2>1. /\ pc = "scan" /\ pc' = "done" /\ next' = next /\ truncated' = truncated
        /\ next > Len(targets)
      BY <1>5 DEF Finish, answer
  <2>2. next = Len(targets) + 1
      BY <1>0, <2>1 DEF TypeOK
  <2>3. TypeOK'
      BY <1>0, <1>1, <2>1 DEF TypeOK
  <2>4. Covered'
    <3>1. Told' = Told /\ Asked' = Asked
        BY <1>1, <2>1 DEF Told, Asked
    <3> QED BY <1>1, <2>1, <2>2, <3>1 DEF Inv, Covered
  <2> QED BY <1>1, <1>2, <2>1, <2>3, <2>4 DEF Inv, Started, Books
<1> QED BY <1>3, <1>4, <1>5

LEMMA InvStep == Inv /\ [Next]_vars => Inv'
<1> SUFFICES ASSUME Inv, [Next]_vars PROVE Inv'
    OBVIOUS
<1>1. CASE UNCHANGED vars
  <2>1. UNCHANGED <<tool, ids, wanted, stored, changes, steady, pc, targets, next, budget, stats, matched, truncated, moreProducts>>
      BY <1>1 DEF vars, request, zentao, answer
  <2> QED BY <2>1 DEF Inv, TypeOK, Started, CountedOnce, Covered, Told, Asked, Books, Read, Counted
<1>2. CASE Next
    BY <1>2, ChangeKeeps, ChoiceKeeps, ScanKeeps, FailureKeeps, EndKeeps DEF Next
<1> QED BY <1>1, <1>2

LEMMA InvAlways == Spec => []Inv
BY InvInit, InvStep, PTL DEF Spec

---------------------------------------------------------------------------
(* What it shows.                                                          *)

(* The books of the four tools keep their types.                           *)
THEOREM ScopeTypeCorrect == Spec => []TypeOK
<1>1. Inv => TypeOK
    BY DEF Inv
<1> QED BY <1>1, InvAlways, PTL

(* A record that several scopes hold is counted once (CountedOnce), for    *)
(* any number of scopes and records: the scans of SearchBugs, UserWorklog  *)
(* and QualityReportFor skip what an earlier scan has delivered, and one   *)
(* scan delivers nothing twice.                                            *)
THEOREM RecordsCountedOnce == Spec => []CountedOnce
<1>1. Inv => CountedOnce
    BY DEF Inv
<1> QED BY <1>1, InvAlways, PTL

(* An answer that admits to nothing has every matching record that was in  *)
(* a requested scope all along, for any scopes, named in any order and     *)
(* however often (bugs.go:239-273, worklog.go:170-178).                    *)
THEOREM AnswersComplete == Spec => []CompleteUnlessTold
<1>1. Inv => CompleteUnlessTold
  <2> SUFFICES ASSUME Inv, pc = "done", ~Told, NEW s \in Asked
               PROVE  steady[s] \cap wanted \subseteq Range(matched)
      BY DEF CompleteUnlessTold
  <2>1. /\ Asked \subseteq Range(targets) /\ next = Len(targets) + 1
        /\ \A i \in 1 .. next - 1 : steady[targets[i]] \cap wanted \subseteq Range(matched)
      BY DEF Inv, Covered
  <2>2. targets \in Seq(Scopes)
      BY DEF Inv, TypeOK
  <2>3. PICK i \in 1 .. Len(targets) : targets[i] = s
      BY <2>1, <2>2 DEF Range
  <2>4. next - 1 = Len(targets)
      BY <2>1, <2>2
  <2> QED BY <2>1, <2>3, <2>4
<1> QED BY <1>1, InvAlways, PTL

(* A scope of a search that fails takes nothing from the others: when the  *)
(* budget leaves something out, records that count have used all of it     *)
(* (bugs.go:220-262).                                                      *)
THEOREM FailuresCostNothing == Spec => []FailuresAreLocal
<1>1. Inv => FailuresAreLocal
  <2> SUFFICES ASSUME Inv, pc = "done", tool = "search",
                      Len(stats) < Len(targets) \/ \E i \in DOMAIN stats : stats[i].result = "max_scan"
               PROVE  Read(Counted) = MaxScan
      BY DEF FailuresAreLocal
  <2>1. /\ Read(Counted) + budget = MaxScan /\ next = Len(targets) + 1
        /\ (\E i \in DOMAIN stats : stats[i].result = "max_scan") => budget = 0
        /\ Len(stats) # next - 1 => budget = 0
      BY DEF Inv, Books, Covered
  <2>2. Len(stats) \in Nat /\ Len(targets) \in Nat
      BY DEF Inv, TypeOK
  <2>3. budget = 0
      BY <2>1, <2>2
  <2>4. Read(Counted) \in Nat
      BY CountedRead DEF Inv
  <2> QED BY <2>1, <2>3, <2>4
<1> QED BY <1>1, InvAlways, PTL

(* A worklog never reads more records than its budget, failed scans and    *)
(* all scopes together (worklog.go:150-206).                               *)
THEOREM WorklogKeepsBudget == Spec => []WorklogWithinMaxScan
<1>1. Inv => WorklogWithinMaxScan
  <2> SUFFICES ASSUME Inv, tool = "worklog" PROVE Read(DOMAIN stats) <= MaxScan
      BY DEF WorklogWithinMaxScan
  <2>1. Read(DOMAIN stats) + budget = MaxScan
      BY DEF Inv, Books
  <2>2. Read(DOMAIN stats) \in Nat /\ budget \in 0 .. MaxScan /\ MaxScan \in Nat
      BY CountedRead, ScopeScanAssumption DEF Inv, TypeOK
  <2> QED BY <2>1, <2>2
<1> QED BY <1>1, InvAlways, PTL

=============================================================================
