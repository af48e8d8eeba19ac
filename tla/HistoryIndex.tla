---------------------------- MODULE HistoryIndex ----------------------------
(***************************************************************************)
(* The historical bug index (internal/service/zentao/history.go over       *)
(* internal/service/bugindex).  One goroutine rebuilds the index from what *)
(* a service account can read; lookups rank candidates with it and re-read *)
(* every candidate with the caller's own credentials.  Builds and lookups  *)
(* share two things, index.snap and buildState, and no lock covers both.   *)
(*                                                                         *)
(* The ranking (BM25 and the filters) is any order of any matching bugs.   *)
(* One paged product scan is one step, with the result PagedScan allows;   *)
(* forEachBounded only limits how many reads are open at once.             *)
(***************************************************************************)
EXTENDS Subsequences, SequencesExt

CONSTANTS
    Bugs, Products,
    ProductOf,           \* [Bugs -> Products]
    Callers,             \* concurrent lookups
    Limit,               \* req.Limit
    OverFetch, MaxVerifyCandidate, MaxFailedScanPercent,
    MaxHits,             \* maxLimit, what one search of the index returns at most
    MaxBuilds,           \* bound on the refreshes
    MaxChanges           \* bound on what happens in ZenTao meanwhile

ASSUME IndexAssumption ==
    /\ IsFiniteSet(Bugs) /\ IsFiniteSet(Products)
    /\ ProductOf \in [Bugs -> Products]
    /\ Limit \in Nat \ {0} /\ OverFetch \in Nat \ {0} /\ MaxVerifyCandidate \in Nat \ {0}
    /\ MaxHits \in Nat \ {0}
    /\ MaxFailedScanPercent \in 1 .. 100
    /\ MaxBuilds \in Nat /\ MaxChanges \in Nat

VARIABLES
    snap,         \* index.snap: docs, and (ghost) the gaps and the steady bugs of its build
    buildState,   \* s.buildState
    builder,      \* where the builder goroutine is
    scans,        \* scans[p]: one product scan of the running build
    listing,      \* the product list of the running build
    builds,       \* builds begun so far
    stored,       \* ZenTao: the bugs the service account can read
    visible,      \* ZenTao: the bugs each caller can read
    changes,      \* changes of ZenTao so far
    steady,       \* ghost: bugs stored ever since the running build began
    touched,      \* ghost: bugs stored at some moment since then
    readable,     \* ghost: bugs the caller could read at some moment of its lookup
    lookup        \* each lookup: where it is, and its variables

indexVars == <<snap, buildState>>
ghostVars == <<steady, touched>>
buildVars == <<builder, scans, listing, builds, ghostVars>>
worldVars == <<stored, visible, changes>>
vars == <<indexVars, buildVars, worldVars, readable, lookup>>

---------------------------------------------------------------------------
(* Data.                                                                   *)

NoScan   == [status |-> "none", docs |-> {}]
NoState  == [done |-> FALSE, err |-> FALSE, partial |-> FALSE]
NoSnap   == [docs |-> {}, gaps |-> FALSE, steady |-> {}]
NoLookup == [pc |-> "idle", hits |-> <<>>, start |-> 0, reads |-> <<>>,
             bugs |-> <<>>, hidden |-> 0, unavailable |-> 0, auth |-> 0,
             partial |-> FALSE, gaps |-> FALSE, answer |-> "none"]

Reads   == {"none", "ok", "denied", "unavailable", "auth"}
Answers == {"none", "found", "nohits", "noauth", "building", "failed", "empty"}
Phases  == {"idle", "ready", "explain", "search", "status", "verify"}

Lookup == [pc : Phases, hits : Seq(Bugs), start : Nat, reads : Seq(Reads),
           bugs : Seq(Bugs), hidden : Nat, unavailable : Nat, auth : Nat,
           partial : BOOLEAN, gaps : BOOLEAN, answer : Answers]

TypeOK ==
    /\ snap \in [docs : SUBSET Bugs, gaps : BOOLEAN, steady : SUBSET Bugs]
    /\ buildState \in [done : BOOLEAN, err : BOOLEAN, partial : BOOLEAN]
    /\ builder \in {"idle", "listing", "scanning", "storing", "stopped"}
    /\ scans \in [Products -> [status : {"none", "ok", "truncated", "failed"}, docs : SUBSET Bugs]]
    /\ listing \in [products : SUBSET Products, truncated : BOOLEAN]
    /\ builds \in Nat /\ changes \in Nat
    /\ stored \subseteq Bugs /\ steady \subseteq Bugs /\ touched \subseteq Bugs
    /\ visible \in [Callers -> SUBSET Bugs]
    /\ readable \in [Callers -> SUBSET Bugs]
    /\ lookup \in [Callers -> Lookup]

Init ==
    /\ snap = NoSnap /\ buildState = NoState
    /\ builder = "idle" /\ builds = 0
    /\ scans = [p \in Products |-> NoScan]
    /\ listing = [products |-> {}, truncated |-> FALSE]
    /\ stored \in SUBSET Bugs /\ steady = {} /\ touched = {}
    /\ visible \in [Callers -> SUBSET stored]
    /\ readable = [c \in Callers |-> {}]
    /\ changes = 0
    /\ lookup = [c \in Callers |-> NoLookup]

---------------------------------------------------------------------------
(* The builder: refreshIndex and buildCorpus.                              *)

(* The first build, and then one for each tick; ticks that fall into a     *)
(* running build are dropped.                                              *)
StartBuild ==
    /\ builder = "idle" /\ builds < MaxBuilds
    /\ builder' = "listing"
    /\ builds' = builds + 1
    /\ steady' = stored /\ touched' = stored
    /\ UNCHANGED <<indexVars, scans, listing, worldVars, readable, lookup>>

StopBuilder ==
    /\ builder = "idle" /\ builds > 0
    /\ builder' = "stopped"
    /\ UNCHANGED <<indexVars, scans, listing, builds, ghostVars, worldVars, readable, lookup>>

\* Mutant: a failure forgets what the index in use does not cover.
recordBuildFailure_DropsCoverage ==
    buildState' = [done |-> TRUE, err |-> TRUE, partial |-> FALSE]

(* The index in use stays, and so does what is known of its gaps.          *)
recordBuildFailure ==
    buildState' = [done |-> TRUE, err |-> TRUE, partial |-> buildState.partial]

EndBuild ==
    /\ builder' = "idle"
    /\ scans' = [p \in Products |-> NoScan]
    /\ listing' = [products |-> {}, truncated |-> FALSE]
    /\ steady' = {} /\ touched' = {}

ListProducts ==
    /\ builder = "listing"
    /\ \E ps \in SUBSET Products, truncated \in BOOLEAN :
           listing' = [products |-> ps, truncated |-> truncated]
    /\ builder' = "scanning"
    /\ UNCHANGED <<indexVars, scans, builds, ghostVars, worldVars, readable, lookup>>

ListFails ==
    /\ builder = "listing"
    /\ recordBuildFailure
    /\ EndBuild
    /\ UNCHANGED <<snap, builds, worldVars, readable, lookup>>

In(p, bs) == {b \in bs : ProductOf[b] = p}

(* A scan that is not truncated holds what was there all the time, and     *)
(* maybe what came or went meanwhile: PagedScan!CompleteUnlessTruncated,   *)
(* of a ZenTao that sends totals and honours page numbers, as it does for  *)
(* the listing the builder asks for.                                       *)
ScanProduct(p) ==
    /\ builder = "scanning" /\ p \in listing.products /\ scans[p].status = "none"
    /\ \/ \E docs \in SUBSET In(p, touched), status \in {"ok", "truncated"} :
              /\ status = "ok" => In(p, steady) \subseteq docs
              /\ scans' = [scans EXCEPT ![p] = [status |-> status, docs |-> docs]]
       \/ scans' = [scans EXCEPT ![p] = [status |-> "failed", docs |-> {}]]
    /\ UNCHANGED <<indexVars, builder, listing, builds, ghostVars, worldVars, readable, lookup>>

Scanned     == builder = "scanning" /\ \A p \in listing.products : scans[p].status # "none"
With(s)     == {p \in listing.products : scans[p].status = s}
Failed      == Cardinality(With("failed"))

\* Mutant: a document gets the id of its product.
Corpus_ProductIds == {p \in listing.products : scans[p].docs # {}}

Corpus      == UNION {scans[p].docs : p \in listing.products}

\* Mutant: a failed product scan is not a gap.
Gaps_IgnoresFailures == listing.truncated \/ With("truncated") # {}

(* corpusCoverage, as indexStatus sums it up.                              *)
Gaps == listing.truncated \/ With("truncated") # {} \/ With("failed") # {}

TooManyFailed ==
    Failed > 0 /\ Failed * 100 >= Cardinality(listing.products) * MaxFailedScanPercent

Abandon ==
    /\ Scanned /\ TooManyFailed
    /\ recordBuildFailure
    /\ EndBuild
    /\ UNCHANGED <<snap, builds, worldVars, readable, lookup>>

(* index.Replace: the new generation is visible from here on, and its      *)
(* coverage only after StoreState.                                         *)
Replace ==
    /\ Scanned /\ ~TooManyFailed
    /\ snap' = [docs |-> Corpus, gaps |-> Gaps,
                steady |-> {b \in steady : ProductOf[b] \in listing.products}]
    /\ builder' = "storing"
    /\ UNCHANGED <<buildState, scans, listing, builds, ghostVars, worldVars, readable, lookup>>

StoreState ==
    /\ builder = "storing"
    /\ buildState' = [done |-> TRUE, err |-> FALSE, partial |-> Gaps]
    /\ EndBuild
    /\ UNCHANGED <<snap, builds, worldVars, readable, lookup>>

Build ==
    \/ StartBuild \/ StopBuilder
    \/ ListProducts \/ ListFails \/ (\E p \in Products : ScanProduct(p))
    \/ Abandon \/ Replace \/ StoreState

---------------------------------------------------------------------------
(* ZenTao (external): bugs and permissions come and go.                    *)

Change ==
    /\ changes < MaxChanges
    /\ changes' = changes + 1
    /\ UNCHANGED <<indexVars, builder, scans, listing, builds, lookup>>

Create(b) ==
    /\ Change
    /\ b \notin stored
    /\ stored' = stored \cup {b}
    /\ touched' = IF builder = "idle" THEN touched ELSE touched \cup {b}
    /\ UNCHANGED <<steady, visible, readable>>

Delete(b) ==
    /\ Change
    /\ b \in stored
    /\ stored' = stored \ {b}
    /\ steady' = steady \ {b}
    /\ visible' = [c \in Callers |-> visible[c] \ {b}]
    /\ UNCHANGED <<touched, readable>>

Grant(c, b) ==
    /\ Change
    /\ b \in stored \ visible[c]
    /\ visible' = [visible EXCEPT ![c] = @ \cup {b}]
    /\ readable' = [readable EXCEPT ![c] = IF lookup[c].pc = "idle" THEN @ ELSE @ \cup {b}]
    /\ UNCHANGED <<stored, ghostVars>>

Revoke(c, b) ==
    /\ Change
    /\ b \in visible[c]
    /\ visible' = [visible EXCEPT ![c] = @ \ {b}]
    /\ UNCHANGED <<stored, ghostVars, readable>>

---------------------------------------------------------------------------
(* A lookup: FindSimilarBugs, indexStatus and verifyHits.                  *)

LookupStep(c, l) ==
    /\ lookup' = [lookup EXCEPT ![c] = l]
    /\ UNCHANGED <<indexVars, buildVars, worldVars>>

Ask(c) ==
    /\ lookup[c].pc = "idle"
    /\ LookupStep(c, [NoLookup EXCEPT !.pc = "ready"])
    /\ readable' = [readable EXCEPT ![c] = visible[c]]

CheckReady(c) ==
    /\ lookup[c].pc = "ready"
    /\ LookupStep(c, [lookup[c] EXCEPT !.pc = IF snap.docs = {} THEN "explain" ELSE "search"])
    /\ UNCHANGED readable

Explain(c) ==
    /\ lookup[c].pc = "explain"
    /\ LookupStep(c, [lookup[c] EXCEPT !.pc = "idle",
           !.answer = IF ~buildState.done THEN "building"
                      ELSE IF buildState.err THEN "failed" ELSE "empty"])
    /\ UNCHANGED readable

Smaller(m, n) == IF m < n THEN m ELSE n
Larger(m, n)  == IF m < n THEN n ELSE m

candidateCount == Larger(Limit, Smaller(Limit * OverFetch, MaxVerifyCandidate))
hitCount(docs) == Smaller(Smaller(candidateCount, MaxHits), Cardinality(docs))
Rankings(docs) == {s \in UNION {[1 .. n -> docs] : n \in 0 .. hitCount(docs)} : IsInjective(s)}

Search(c) ==
    /\ lookup[c].pc = "search"
    /\ \E hits \in Rankings(snap.docs) :
           LookupStep(c, [lookup[c] EXCEPT !.pc = "status", !.hits = hits, !.gaps = snap.gaps])
    /\ UNCHANGED readable

(* The batch of hits from start + 1 on, not read yet.                      *)
Unread(hits, start) == [i \in 1 .. Smaller(Limit, Len(hits) - start) |-> "none"]

ReadStatus(c) ==
    /\ lookup[c].pc = "status"
    /\ LET l == [lookup[c] EXCEPT !.partial = buildState.partial] IN
       LookupStep(c, IF l.hits = <<>> THEN [l EXCEPT !.pc = "idle", !.answer = "nohits"]
                     ELSE [l EXCEPT !.pc = "verify", !.reads = Unread(l.hits, 0)])
    /\ UNCHANGED readable

\* Mutant: what the index holds is believed.
ReadsOf_Indexed(c, b) == {IF b \in visible[c] \cup snap.docs THEN "ok" ELSE "denied"}

(* detail() as the caller.  A bug it may not see is a 400, 401, 403 or 404 *)
(* or a record without the id asked for; a failed login and an outage may  *)
(* hit any read.                                                           *)
ReadsOf(c, b) == {IF b \in visible[c] THEN "ok" ELSE "denied", "unavailable", "auth"}

ReadHit(c, i) ==
    /\ lookup[c].pc = "verify" /\ i \in DOMAIN lookup[c].reads /\ lookup[c].reads[i] = "none"
    /\ \E r \in ReadsOf(c, lookup[c].hits[lookup[c].start + i]) :
           LookupStep(c, [lookup[c] EXCEPT !.reads[i] = r])
    /\ UNCHANGED readable

\* Mutant: the batch is taken whole, beyond the limit.
Examined_All(l) == DOMAIN l.reads

(* The records of a batch are taken in rank order until the limit is       *)
(* reached; what comes after is neither returned nor counted.              *)
Examined(l) == {i \in DOMAIN l.reads :
    Len(l.bugs) + Cardinality({j \in 1 .. i - 1 : l.reads[j] = "ok"}) < Limit}

Tally(l, r)  == Cardinality({i \in Examined(l) : l.reads[i] = r})
Taken(l)     == {i \in Examined(l) : l.reads[i] = "ok"}
InRankOrder(l, is) == Pick(l.hits, {l.start + i : i \in is})

\* Mutant: the loop does not move on to the next batch.
Folded_SameBatch(l) == [l EXCEPT !.bugs = @ \o InRankOrder(l, Taken(l)), !.reads = <<>>]

Folded(l) == [l EXCEPT
    !.bugs        = @ \o InRankOrder(l, Taken(l)),
    !.hidden      = @ + Tally(l, "denied"),
    !.unavailable = @ + Tally(l, "unavailable"),
    !.auth        = @ + Tally(l, "auth"),
    !.start       = @ + Limit,
    !.reads       = <<>>]

MoreToVerify(l) == l.start < Len(l.hits) /\ Len(l.bugs) < Limit

Answered(l) == [l EXCEPT !.pc = "idle",
    !.answer = IF l.auth > 0 /\ l.bugs = <<>> THEN "noauth" ELSE "found"]

FoldBatch(c) ==
    /\ lookup[c].pc = "verify" /\ "none" \notin Range(lookup[c].reads)
    /\ LET l == Folded(lookup[c]) IN
       LookupStep(c, IF MoreToVerify(l) THEN [l EXCEPT !.reads = Unread(l.hits, l.start)]
                     ELSE Answered(l))
    /\ UNCHANGED readable

---------------------------------------------------------------------------

Proceed(c) ==
    \/ CheckReady(c) \/ Explain(c) \/ Search(c) \/ ReadStatus(c) \/ FoldBatch(c)
    \/ \E i \in 1 .. Limit : ReadHit(c, i)

Next ==
    \/ Build
    \/ \E b \in Bugs : Create(b) \/ Delete(b)
    \/ \E c \in Callers, b \in Bugs : Grant(c, b) \/ Revoke(c, b)
    \/ \E c \in Callers : Ask(c) \/ Proceed(c)

Spec == Init /\ [][Next]_vars

(* Every read is assumed to end.  The clients wait 60 seconds for response *)
(* headers (internal/clients/http.go:34); that the body behind them ends   *)
(* is up to the network.  Nobody has to ask, or to change ZenTao.          *)
FairSpec ==
    /\ Spec
    /\ WF_vars(Build)
    /\ \A c \in Callers : WF_vars(Proceed(c))

---------------------------------------------------------------------------
(* Properties.                                                             *)

Done(c, a) == lookup[c].pc = "idle" /\ lookup[c].answer = a

(* No bug is returned that the caller could not read itself during its     *)
(* lookup, however old the index and whatever the service account sees     *)
(* ("no indexed text reaches the caller unverified", history.go:400).      *)
ReadAsCaller ==
    \A c \in Callers : Range(lookup[c].bugs) \subseteq readable[c]

(* No candidate is lost: the answer is the best readable ones in rank      *)
(* order, and every candidate ranked before the last of them, or every     *)
(* candidate when there are fewer than Limit, is returned, hidden,         *)
(* unavailable or was met by a failed login (history.go:523-585); and a    *)
(* failed login never looks like an empty answer (474-475).                *)
EveryCandidateAccounted ==
    \A c \in Callers : LET l == lookup[c] IN
        l.answer \in {"found", "noauth"} =>
            LET n == Len(l.bugs) + l.hidden + l.unavailable + l.auth IN
            /\ Len(l.bugs) <= Limit
            /\ n <= Len(l.hits)
            /\ Len(l.bugs) < Limit => n = Len(l.hits)
            /\ Len(l.bugs) = Limit => l.bugs[Limit] = l.hits[n]
            /\ l.bugs = <<>> /\ l.answer = "found" => l.auth = 0
            /\ l.bugs = Pick(l.hits, {i \in DOMAIN l.hits : l.hits[i] \in Range(l.bugs)})

(* An index that reports no gap holds every bug that the service account   *)
(* could read all through its build, of the products it was shown.         *)
CompleteUnlessPartial == ~snap.gaps => snap.steady \subseteq snap.docs

(* Between builds the reported coverage is that of the index in use, even  *)
(* after refreshes that failed and kept it (recordBuildFailure).           *)
StatusFollowsIndex == builder # "storing" => buildState.partial = snap.gaps

(* What a lookup reports of the index is true of the index it searched:    *)
(* "a miss in an incomplete index does not prove there is no history"      *)
(* (deploy/cloud/README.md:99), "no-hit result concealed missing coverage" *)
(* (pagination_test.go:139).                                               *)
NoGapConcealed ==
    \A c \in Callers : Done(c, "nohits") /\ lookup[c].gaps => lookup[c].partial

(* Every lookup is answered, and every build ends.                         *)
EveryLookupReturns ==
    /\ \A c \in Callers : lookup[c].pc # "idle" ~> lookup[c].pc = "idle"
    /\ builder # "idle" ~> builder \in {"idle", "stopped"}

=============================================================================
