----------------------------- MODULE PagedScan -----------------------------
(***************************************************************************)
(* listAll (internal/service/zentao/client.go): every scan of the server   *)
(* pages through a ZenTao collection by page number while people go on     *)
(* creating and deleting records, so pages overlap and skip.  The scan     *)
(* drops repeated ids, keeps the largest total it is told, and says        *)
(* whether it may have missed records.                                     *)
(***************************************************************************)
EXTENDS Subsequences, SequencesExt

CONSTANTS
    DefaultPageSize,
    MaxBudget,        \* bound on the record budgets of the callers
    MaxRecords,       \* bound on the records ever created
    MaxDeletes        \* bound on the records deleted during the scan

ASSUME ScanAssumption ==
    /\ DefaultPageSize \in Nat \ {0} /\ MaxBudget \in Nat \ {0}
    /\ MaxRecords \in Nat /\ MaxDeletes \in Nat

VARIABLES
    collection,   \* ZenTao: the ids of the collection, newest first
    created,      \* ZenTao: the largest id so far
    deleted,      \* ZenTao: records deleted since the scan began
    steady,       \* ghost: records that were there all through the scan
    quiet,        \* ghost: nothing has changed since the scan began
    maxScan,      \* the record budget of the caller
    server,       \* how ZenTao pages: its own page limit, whether it sends totals,
                  \* whether it sends the first page whatever the page number
    pc,           \* "fetch" or how the scan ended
    page,         \* the page to fetch
    records,      \* res.Records (seen is the set of them)
    total,        \* res.Total, 0 while ZenTao has told none
    truncated     \* res.Truncated

zentao   == <<collection, created, deleted, steady, quiet>>
given    == <<maxScan, server>>
scanVars == <<pc, page, records, total, truncated>>
vars     == <<zentao, given, scanVars>>

Ids == 1 .. MaxRecords
Servers == [cap : {1, DefaultPageSize}, totals : BOOLEAN, repeats : BOOLEAN]

TypeOK ==
    /\ collection \in Seq(Ids) /\ created \in 0 .. MaxRecords /\ deleted \in Nat
    /\ steady \subseteq Ids /\ quiet \in BOOLEAN
    /\ maxScan \in 1 .. MaxBudget /\ server \in Servers
    /\ pc \in {"fetch", "done", "failed"}
    /\ page \in Nat \ {0}
    /\ records \in Seq(Ids)
    /\ total \in Nat /\ truncated \in BOOLEAN

Init ==
    /\ created \in Ids \cup {0}
    /\ collection = [i \in 1 .. created |-> created + 1 - i]
    /\ deleted = 0 /\ steady = 1 .. created /\ quiet = TRUE
    /\ maxScan \in 1 .. MaxBudget /\ server \in Servers
    /\ pc = "fetch" /\ page = 1
    /\ records = <<>> /\ total = 0 /\ truncated = FALSE

---------------------------------------------------------------------------
(* ZenTao (external), between two pages.                                   *)

Create ==
    /\ pc = "fetch" /\ created < MaxRecords
    /\ created' = created + 1
    /\ collection' = <<created + 1>> \o collection
    /\ quiet' = FALSE
    /\ UNCHANGED <<deleted, steady, given, scanVars>>

Delete(id) ==
    /\ pc = "fetch" /\ deleted < MaxDeletes
    /\ id \in Range(collection)
    /\ collection' = Pick(collection, {i \in DOMAIN collection : collection[i] # id})
    /\ deleted' = deleted + 1
    /\ steady' = steady \ {id}
    /\ quiet' = FALSE
    /\ UNCHANGED <<created, given, scanVars>>

Smaller(m, n) == IF m < n THEN m ELSE n
Larger(m, n)  == IF m < n THEN n ELSE m

pageSize == Smaller(maxScan, DefaultPageSize)

(* The records of a page, as ZenTao counts pages.                          *)
Items(n) ==
    LET size  == Smaller(pageSize, server.cap)
        first == IF server.repeats THEN 1 ELSE (n - 1) * size + 1
    IN  SubSeq(collection, first, Smaller(first + size - 1, Len(collection)))

---------------------------------------------------------------------------
(* One round of the loop.                                                  *)

items == Items(page)

\* Mutant: overlapping pages repeat records.
Fresh_KeepsDuplicates == items
\* Mutants: a missing total is -1; the last total wins.
Told_Sentinel == IF server.totals THEN Len(collection) ELSE -1
Told_Last == IF server.totals /\ collection # <<>> THEN Len(collection) ELSE total
\* Mutant: a page that brings nothing new does not end the scan.
NoProgress_Never == FALSE
\* Mutant: a full budget ends the scan even when no total was told.
OutOfBudget_Always == Len(records) + Cardinality(Range(items) \ Range(records)) >= maxScan

(* The records of the page that are new, and those the budget holds.       *)
Fresh == Pick(items, {i \in DOMAIN items : items[i] \notin Range(records)})
Kept  == records \o SubSeq(Fresh, 1, Smaller(Len(Fresh), maxScan - Len(records)))

(* A total of 0 is no total.                                               *)
Told == Larger(total, IF server.totals THEN Len(collection) ELSE 0)

Overflow    == Len(Kept) < Len(records) + Len(Fresh)
Exhausted   == Len(items) < pageSize \/ (Told > 0 /\ Told <= Len(Kept))
NoProgress  == Kept = records
OutOfBudget == Told > 0 /\ Len(Kept) >= maxScan

Cut      == Overflow \/ (~Exhausted /\ (NoProgress \/ OutOfBudget))
LastPage == Cut \/ Exhausted

FetchPage ==
    /\ pc = "fetch"
    /\ records' = Kept
    /\ total' = Told
    /\ \/ ~LastPage /\ page' = page + 1 /\ UNCHANGED <<pc, truncated>>
       \/ /\ LastPage
          /\ pc' = "done"
          /\ truncated' = (Cut \/ Told > Len(Kept))
          /\ UNCHANGED page
    /\ UNCHANGED <<zentao, given>>

(* The error is returned with the records so far; callers only count them. *)
FetchFails ==
    /\ pc = "fetch"
    /\ pc' = "failed"
    /\ UNCHANGED <<zentao, given, page, records, total, truncated>>

Next ==
    \/ FetchPage \/ FetchFails
    \/ Create \/ \E id \in Ids : Delete(id)

Spec == Init /\ [][Next]_vars

---------------------------------------------------------------------------
(* Properties.                                                             *)

(* Pages that overlap never put a record into the result twice, and the    *)
(* result never outgrows the budget (client.go:154-190).                   *)
DistinctWithinBudget ==
    IsInjective(records) /\ Len(records) <= maxScan

(* A scan that does not say "truncated" has every record that was there    *)
(* all the time, however pages shifted under it: when a record was         *)
(* skipped, the largest total ZenTao sent exceeds the records.             *)
CompleteUnlessTruncated ==
    pc = "done" /\ ~truncated /\ server.totals /\ ~server.repeats =>
        steady \subseteq Range(records)

(* Without changes the answer is exact, with totals or without: the        *)
(* newest records, and "truncated" says whether there are more ("one extra *)
(* page confirms whether an exact full last page really exhausted the      *)
(* collection", client.go:202).                                            *)
ExactWhenQuiet ==
    pc = "done" /\ quiet /\ ~server.repeats /\ pageSize <= server.cap =>
        /\ IsPrefix(records, collection)
        /\ truncated <=> Len(records) < Len(collection)

(* Every page but the last brings a record: the scan ends within its       *)
(* budget of pages, whatever ZenTao answers (the 50-page ceiling it        *)
(* replaces is not needed, client.go:197-203).                             *)
EveryPageCounts == page <= Len(records) + 1

=============================================================================
