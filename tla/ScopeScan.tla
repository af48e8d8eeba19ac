----------------------------- MODULE ScopeScan -----------------------------
(***************************************************************************)
(* Four tools that put an answer together from scans: SearchBugs           *)
(* (internal/service/zentao/bugs.go) and UserWorklog (worklog.go) scan     *)
(* several scopes one after the other, with one budget of records for all; *)
(* ResolveScope (scope.go) scans one list per kind of entry, each with the *)
(* whole budget; QualityReportFor (report.go) scans one scope.  Scopes     *)
(* overlap, scans fail or are cut, and records come and go between two     *)
(* scans.  The tools keep the same books in different ways: a scan that    *)
(* fails costs UserWorklog the records it had read, SearchBugs nothing,    *)
(* and a report everything.                                                *)
(*                                                                         *)
(* A scope stands for one collection of one scope.  Its scan is one step,  *)
(* with a result of listAll (see PagedScan).  What the filters let through *)
(* is a set; the order of the answer and its layout are left out.          *)
(***************************************************************************)
EXTENDS Subsequences, SequencesExt

CONSTANTS
    Scopes, Records,
    MaxScan,          \* req.MaxScan
    MaxTargets,       \* bound on the scopes of a request
    MaxChanges        \* bound on what happens in ZenTao meanwhile

ASSUME ScopeScanAssumption ==
    /\ IsFiniteSet(Scopes) /\ IsFiniteSet(Records)
    /\ MaxScan \in Nat \ {0} /\ MaxTargets \in Nat /\ MaxChanges \in Nat

VARIABLES
    tool,         \* "search", "worklog", "resolve" or "report"
    ids,          \* the scopes the request names
    wanted,       \* the records its filters let through
    stored,       \* ZenTao: the records of each scope
    changes,      \* ZenTao: changes so far
    steady,       \* ghost: records of a scope that have been there all along
    pc,
    targets,      \* the scopes to scan
    next,         \* the index of the next one
    budget,
    stats,        \* res.Scopes: what the answer says of each scan
    matched,      \* the records of the answer
    truncated,    \* res.Truncated of SearchBugs, budgetNoted of UserWorklog, a note of the others
    moreProducts  \* the note that products were left out

request == <<tool, ids, wanted>>
zentao  == <<stored, changes, steady>>
answer  == <<targets, next, budget, stats, matched, truncated, moreProducts>>
vars    == <<request, zentao, pc, answer>>

Tools == {"search", "worklog", "resolve", "report"}
ScopeStat == [scope : Scopes, scanned : Nat,
              result : {"complete", "max_scan", "incomplete", "error"}]

TypeOK ==
    /\ tool \in Tools
    /\ ids \in Seq(Scopes) /\ wanted \subseteq Records
    /\ stored \in [Scopes -> SUBSET Records] /\ steady \in [Scopes -> SUBSET Records]
    /\ changes \in 0 .. MaxChanges
    /\ pc \in {"start", "scan", "done", "refused"}
    /\ targets \in Seq(Scopes) /\ next \in 1 .. Len(targets) + 1
    /\ budget \in 0 .. MaxScan
    /\ stats \in Seq(ScopeStat) /\ matched \in Seq(Records)
    /\ truncated \in BOOLEAN /\ moreProducts \in BOOLEAN

Init ==
    /\ tool \in Tools
    /\ ids \in BoundedSeq(Scopes, IF tool = "report" THEN 1 ELSE MaxTargets)
    /\ wanted \in SUBSET Records
    /\ stored \in [Scopes -> SUBSET Records] /\ steady = stored /\ changes = 0
    /\ pc = "start" /\ targets = <<>> /\ next = 1
    /\ budget = MaxScan
    /\ stats = <<>> /\ matched = <<>>
    /\ truncated = FALSE /\ moreProducts = FALSE

---------------------------------------------------------------------------
(* ZenTao (external), between two scans.                                   *)

Change(s, rs) ==
    /\ pc \in {"start", "scan"} /\ changes < MaxChanges
    /\ changes' = changes + 1
    /\ stored' = [stored EXCEPT ![s] = rs]
    /\ steady' = [steady EXCEPT ![s] = @ \cap rs]
    /\ UNCHANGED <<request, pc, answer>>

Create(s, r) == r \notin stored[s] /\ Change(s, stored[s] \cup {r})
Delete(s, r) == r \in stored[s] /\ Change(s, stored[s] \ {r})

---------------------------------------------------------------------------
(* The scopes to scan.                                                     *)

Scan(ts, more) ==
    /\ pc = "start"
    /\ pc' = "scan"
    /\ targets' = ts /\ moreProducts' = more
    /\ UNCHANGED <<request, zentao, next, budget, stats, matched, truncated>>

Refuse ==
    /\ pc = "start"
    /\ pc' = "refused"
    /\ UNCHANGED <<request, zentao, answer>>

\* bugScopes drops repeated ids, UserWorklog and ResolveScope do not.
Distinct(s) == Pick(s, {i \in DOMAIN s : \A j \in 1 .. i - 1 : s[j] # s[i]})

NamedScopes ==
    ids # <<>> /\ Scan(IF tool = "search" THEN Distinct(ids) ELSE ids, FALSE)

\* Without ids a search takes the readable products, as far as their list goes.
ListProducts ==
    /\ ids = <<>> /\ tool = "search"
    /\ \/ Scan(SetToSeq(Scopes), FALSE)
       \/ \E some \in SUBSET Scopes : Scan(SetToSeq(some), TRUE)
       \/ Refuse

AllKinds == ids = <<>> /\ tool = "resolve" /\ Scan(SetToSeq(Scopes), FALSE)

NoScope == ids = <<>> /\ tool \in {"worklog", "report"} /\ Refuse

---------------------------------------------------------------------------
(* One turn of the loop over the scopes.                                   *)

target == targets[next]
Due    == pc = "scan" /\ next <= Len(targets)

\* Mutant: listAll does not keep to the budget.
Listed_NoCap == {[records |-> stored[target], result |-> "complete"]}

(* What listAll can return within the budget: all of it; a full budget of  *)
(* more; less than all, because ZenTao's pages did not deliver what they   *)
(* announced.                                                              *)
Listed ==
    {list \in [records : SUBSET stored[target], result : {"complete", "max_scan", "incomplete"}] :
        /\ Cardinality(list.records) <= budget
        /\ list.result = "complete" => list.records = stored[target]
        /\ list.result = "max_scan" =>
               Cardinality(list.records) = budget /\ list.records # stored[target]}

\* matches, worklogItem and scopeMatch: the filters of the request.
Matching(rs) == rs \cap wanted

\* Mutant: a record is listed for each scope that holds it.
Taken_Repeats(rs) == SetToSeq(Matching(rs))

(* The records that match, and those seen before once only where the tool  *)
(* looks out for them.                                                     *)
Taken(rs) == SetToSeq(IF tool = "resolve" THEN Matching(rs)
                      ELSE Matching(rs) \ Range(matched))

\* ResolveScope scans every kind with the whole budget.
Remaining(n) == IF tool = "resolve" THEN budget ELSE budget - n

ScanScope ==
    /\ Due /\ budget > 0
    /\ \E list \in Listed :
           LET n == Cardinality(list.records) IN
           /\ budget' = Remaining(n)
           /\ stats' = Append(stats, [scope |-> target, scanned |-> n, result |-> list.result])
           /\ matched' = matched \o Taken(list.records)
           /\ truncated' = (truncated \/ (tool # "worklog" /\ list.result # "complete"))
    /\ next' = next + 1
    /\ UNCHANGED <<request, zentao, pc, targets, moreProducts>>

\* Mutants: both tools pay for a failed scan, or neither does.
Cost_Both(n)    == n
Cost_Neither(n) == 0

Cost(n) == IF tool = "worklog" THEN n ELSE 0

(* A scan that fails after n records: the answer names the scope, and the  *)
(* records are dropped.                                                    *)
ScanFails ==
    /\ Due /\ budget > 0 /\ tool # "report"
    /\ \E n \in 0 .. budget :
           /\ n <= Cardinality(stored[target])
           /\ budget' = budget - Cost(n)
           /\ stats' = Append(stats, [scope |-> target, scanned |-> n, result |-> "error"])
    /\ next' = next + 1
    /\ UNCHANGED <<request, zentao, pc, targets, matched, truncated, moreProducts>>

\* There is no report without its scope.
ReportFails ==
    /\ Due /\ tool = "report"
    /\ pc' = "refused"
    /\ UNCHANGED <<request, zentao, answer>>

\* Mutant: the loop ends without a word.
OutOfBudget_Silent ==
    /\ Due /\ budget = 0
    /\ next' = IF tool = "search" THEN Len(targets) + 1 ELSE next + 1
    /\ UNCHANGED <<request, zentao, pc, targets, budget, stats, matched, truncated, moreProducts>>

(* SearchBugs stops here, UserWorklog passes over one scope after another; *)
(* both say so.                                                            *)
OutOfBudget ==
    /\ Due /\ budget = 0
    /\ truncated' = TRUE
    /\ next' = IF tool = "search" THEN Len(targets) + 1 ELSE next + 1
    /\ UNCHANGED <<request, zentao, pc, targets, budget, stats, matched, moreProducts>>

Finish ==
    /\ pc = "scan" /\ next > Len(targets)
    /\ pc' = "done"
    /\ UNCHANGED <<request, zentao, answer>>

Next ==
    \/ \E s \in Scopes, r \in Records : Create(s, r) \/ Delete(s, r)
    \/ NamedScopes \/ ListProducts \/ AllKinds \/ NoScope
    \/ ScanScope \/ ScanFails \/ ReportFails \/ OutOfBudget \/ Finish

Spec == Init /\ [][Next]_vars

---------------------------------------------------------------------------
(* Properties.                                                             *)

Asked   == IF ids = <<>> THEN Scopes ELSE Range(ids)
Counted == {i \in DOMAIN stats : stats[i].result # "error"}
Read(is) == SumFunctionOnSet([i \in DOMAIN stats |-> stats[i].scanned], is)

(* What tells the reader that records may be missing.                      *)
Told == truncated \/ moreProducts \/ \E i \in DOMAIN stats : stats[i].result # "complete"

(* An answer that admits to nothing has every matching record that was in  *)
(* a requested scope all along, however often scopes overlap or repeat     *)
(* (SearchBugs 239-243, 263-273, UserWorklog 170-178, worklogScope 241-253).*)
CompleteUnlessTold ==
    pc = "done" /\ ~Told => \A s \in Asked : steady[s] \cap wanted \subseteq Range(matched)

(* A scope of a search that fails takes nothing from the others: what the  *)
(* budget leaves out is left out because of records that count ("a scope   *)
(* that fails does not affect the others", docs/zentao-mcp-extensions.md:84).*)
FailuresAreLocal ==
    /\ pc = "done" /\ tool = "search"
    /\ Len(stats) < Len(targets) \/ \E i \in DOMAIN stats : stats[i].result = "max_scan"
    => Read(Counted) = MaxScan

(* A worklog never reads more records than its budget, all scopes together *)
(* and failed scans included (zentao_schemas.go:133).                      *)
WorklogWithinMaxScan == tool = "worklog" => Read(DOMAIN stats) <= MaxScan

(* The same of a search: "at most maxScan bugs are scanned"                *)
(* (zentao_schemas.go:54, docs/zentao-mcp-extensions.md:78).               *)
SearchWithinMaxScan == tool = "search" => Read(DOMAIN stats) <= MaxScan

(* A record that several scopes hold is counted once, whatever the scopes  *)
(* and however often they are named (bugs.go:263-273, worklog.go:184-190). *)
(* A lookup of names has no such guard: a kind named twice counts twice.   *)
CountedOnce == tool # "resolve" => IsInjective(matched)

=============================================================================
