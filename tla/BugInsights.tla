----------------------------- MODULE BugInsights -----------------------------
(***************************************************************************)
(* What the analysis and score tools read out of bug details:              *)
(* internal/service/zentao/analysis.go and score.go.  ZenTao serves the    *)
(* history of a bug as a list of actions, or as an object keyed by action  *)
(* id; the explanation of a fix, the counts and the AI scores all come out *)
(* of it.                                                                  *)
(*                                                                         *)
(* An action is [name, comment, aiScore, score] with names in lower case,  *)
(* a comment of "" when it has none, and each score Blank, Unreadable or a *)
(* number.  A bug is [id, product, module, keyed, actions]: actions is the *)
(* list, or when keyed a function from ids to actions.  The caller sees    *)
(*   [reads, hits, ready, list, listed]                                    *)
(* where reads maps an id to the bugs a detail call returns (none when it  *)
(* fails), hits are the ids the index finds, list is the product's scan:   *)
(* [bugs, truncated], or None when it fails.                               *)
(***************************************************************************)
EXTENDS Subsequences, SequencesExt, FiniteSetsExt

CONSTANTS
    RelatedLimit, MaxRelated, OverFetch,   \* defaultRelatedLimit, maxRelatedLimit, overFetch
    MaxHits                                \* maxLimit, what a search of the index returns at most

ASSUME BugInsightsAssumption ==
    /\ RelatedLimit \in Nat \ {0} /\ MaxRelated \in Nat \ {0}
    /\ OverFetch \in Nat \ {0} /\ MaxHits \in Nat \ {0}

Blank      == -1
Unreadable == -2
NoComment  == ""

ClampTo(v, lo, hi) == IF v < lo THEN lo ELSE IF v > hi THEN hi ELSE v

---------------------------------------------------------------------------
(* actionInsights.                                                         *)

(* Keys are compared as strings: 10 comes before 9.  For keys below 100,   *)
(* one-digit keys come just before the ten keys that begin with them.      *)
StringRank(k) == IF k < 10 THEN 20 * k - 1 ELSE 2 * k

Actions(bug) ==
    IF ~bug.keyed THEN bug.actions
    ELSE LET order == Ascending({StringRank(k) : k \in DOMAIN bug.actions})
         IN [i \in DOMAIN order |->
                bug.actions[CHOOSE k \in DOMAIN bug.actions : StringRank(k) = order[i]]]

\* The first alias that is filled in; zero means not scored yet.
commentScore(action) ==
    LET raw == IF action.aiScore # Blank THEN action.aiScore ELSE action.score
    IN IF raw = 0 THEN Blank ELSE raw

Named(timeline, name) == Pick(timeline, {i \in DOMAIN timeline : timeline[i].name = name})

actionInsights(bug) ==
    LET timeline == Actions(bug)
        comments == Named(timeline, "commented")
        scores   == [i \in DOMAIN comments |-> commentScore(comments[i])]
    IN [timeline    |-> timeline,
        comments    |-> comments,
        reopens     |-> Len(Named(timeline, "activated")),
        assignments |-> Len(Named(timeline, "assigned")),
        scored      |-> Cardinality({i \in DOMAIN comments : scores[i] # Blank}),
        values      |-> Pick(scores, {i \in DOMAIN comments : scores[i] >= 0})]

---------------------------------------------------------------------------
(* resolutionNote, one action of the timeline after the other.             *)

\* Mutant: a comment after the resolution may explain it.
Remark_Any(seen, a) ==
    IF a.name = "resolved" /\ a.comment # NoComment /\ ~seen.found THEN [note |-> a.comment, found |-> TRUE]
    ELSE IF a.name = "commented" /\ a.comment # NoComment /\ ~seen.found THEN [seen EXCEPT !.note = a.comment]
    ELSE seen

\* note is the last comment until the answer is found.
Remark(seen, a) ==
    IF seen.found \/ a.name \notin {"commented", "resolved"} THEN seen
    ELSE IF a.name = "commented"
    THEN [seen EXCEPT !.note = IF a.comment # NoComment THEN a.comment ELSE @]
    ELSE IF a.comment # NoComment THEN [note |-> a.comment, found |-> TRUE]
    ELSE [seen EXCEPT !.found = seen.note # NoComment]

\* What is known after n actions.
Remarks(timeline) ==
    LET seen[n \in 0 .. Len(timeline)] ==
            IF n = 0 THEN [note |-> NoComment, found |-> FALSE] ELSE Remark(seen[n - 1], timeline[n])
    IN seen

resolutionNote(timeline) == Remarks(timeline)[Len(timeline)].note

---------------------------------------------------------------------------
(* Related bugs: from the index, every candidate re-read as the caller; or *)
(* from a scan of the product when the index yields nothing.               *)

Detail(view, id) == IF id \in DOMAIN view.reads THEN view.reads[id] ELSE {}

FirstN(s, n) == SubSeq(s, 1, IF Len(s) < n THEN Len(s) ELSE n)

Candidates(bug, view, limit) ==
    LET hits == FirstN(FirstN(view.hits, MaxHits), limit * OverFetch)
    IN Pick(hits, {i \in DOMAIN hits : hits[i] # bug.id})

\* Mutant: what the index says is believed.
relatedFromIndex_Unverified(bug, view, limit) == FirstN(Candidates(bug, view, limit), limit)

relatedFromIndex(bug, view, limit) ==
    LET ids == Candidates(bug, view, limit)
    IN FirstN(Pick(ids, {i \in DOMAIN ids : \E r \in Detail(view, ids[i]) : r.id = ids[i]}), limit)

\* By similarity, then the newest first; the likes of it are similar or in its module.
Nearer(a, b) == a.similar > b.similar \/ (a.similar = b.similar /\ a.id > b.id)
NearestFirst(bugs) ==
    [k \in 1 .. Cardinality(bugs) |->
        CHOOSE b \in bugs : Cardinality({c \in bugs : c = b \/ Nearer(c, b)}) = k]

relatedFromScan(bug, bugs, limit) ==
    LET found  == {b \in Range(bugs) :
                     /\ b.id # bug.id /\ b.id > 0
                     /\ b.similar > 0 \/ (bug.module > 0 /\ b.module = bug.module)}
        ranked == NearestFirst(found)
    IN FirstN([k \in DOMAIN ranked |-> ranked[k].id], limit)

relatedBugs(bug, view, asked) ==
    LET limit   == ClampTo(IF asked <= 0 THEN RelatedLimit ELSE asked, 1, MaxRelated)
        indexed == IF view.ready THEN relatedFromIndex(bug, view, limit) ELSE <<>>
    IN IF bug.product <= 0 THEN [ids |-> <<>>, told |-> TRUE]
       ELSE IF indexed # <<>> THEN [ids |-> indexed, told |-> FALSE]
       ELSE IF view.list = {} THEN [ids |-> <<>>, told |-> TRUE]
       ELSE LET list == CHOOSE l \in view.list : TRUE
            IN [ids  |-> relatedFromScan(bug, list.bugs, limit), told |-> list.truncated]

(* AnalyzeBug; the empty set is an error.                                  *)
Packet(bug, view, includeRelated, relatedLimit, commentLimit) ==
    LET i   == actionInsights(bug)
        cut == commentLimit > 0 /\ Len(i.comments) > commentLimit
    IN [id       |-> bug.id,
        note     |-> resolutionNote(i.timeline),
        comments |-> IF cut THEN SubSeq(i.comments, Len(i.comments) - commentLimit + 1, Len(i.comments))
                     ELSE i.comments,
        metrics  |-> i,
        told     |-> cut \/ i.timeline = <<>>,
        related  |-> IF includeRelated THEN relatedBugs(bug, view, relatedLimit)
                     ELSE [ids |-> <<>>, told |-> FALSE]]

AnalyzeBug(view, id, includeRelated, relatedLimit, commentLimit) ==
    {Packet(bug, view, includeRelated, relatedLimit, commentLimit) : bug \in Detail(view, id)}

---------------------------------------------------------------------------
(* AIScores: every object on its own, a failed read is an item as well.    *)

scoreOne(view, id) ==
    IF Detail(view, id) = {} THEN [id |-> id, failed |-> TRUE, comments |-> 0, scored |-> 0]
    ELSE LET i == actionInsights(CHOOSE b \in Detail(view, id) : TRUE)
         IN [id |-> id, failed |-> FALSE, comments |-> Len(i.comments), scored |-> i.scored]

Total(counts) == SumFunctionOnSet(counts, DOMAIN counts)

AIScores(view, ids, limit) ==
    LET items    == [n \in 1 .. ClampTo(Len(ids), 0, limit) |-> scoreOne(view, ids[n])]
        comments == Total([n \in DOMAIN items |-> items[n].comments])
        scored   == Total([n \in DOMAIN items |-> items[n].scored])
    IN [items    |-> items,
        comments |-> comments,
        scored   |-> scored,
        unscored |-> comments - scored,
        objectsWithScore  |-> Cardinality({n \in DOMAIN items : items[n].scored > 0}),
        objectsWithErrors |-> Cardinality({n \in DOMAIN items : items[n].failed}),
        told     |-> Len(ids) > limit]
=============================================================================
