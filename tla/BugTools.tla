------------------------------ MODULE BugTools ------------------------------
(***************************************************************************)
(* A client asks for the analysis of a bug, or for AI scores               *)
(* (controller/mcp/zentao_tools.go): one call and its answer.              *)
(***************************************************************************)
EXTENDS BugInsights, Exchange

CONSTANTS
    Views,            \* what a caller may see of ZenTao and of the index
    BugIDs, Limits,   \* the arguments of the two tools
    MaxIDs            \* bound on the ids a client asks scores for

IsAction(a) == a.name \in STRING /\ a.comment \in STRING /\ a.aiScore \in Int /\ a.score \in Int

IsBug(b) ==
    /\ b.id \in Int /\ b.product \in Int /\ b.module \in Int /\ b.similar \in Int
    /\ \A k \in DOMAIN b.actions : IsAction(b.actions[k])
    /\ IF b.keyed THEN DOMAIN b.actions \subseteq Nat /\ IsFiniteSet(DOMAIN b.actions)
       ELSE b.actions \in Seq(Range(b.actions))

\* A scan returns an id once (PagedScan), and the index holds a bug once.
IsView(view) ==
    /\ \A id \in DOMAIN view.reads :
           Cardinality(view.reads[id]) <= 1 /\ IsFiniteSet(view.reads[id]) /\ \A b \in view.reads[id] : IsBug(b)
    /\ view.hits \in Seq(Int) /\ IsInjective(view.hits)
    /\ \A list \in view.list :
           /\ list.bugs \in Seq(Range(list.bugs))
           /\ \A b \in Range(list.bugs) : IsBug(b)
           /\ \A i, j \in DOMAIN list.bugs : list.bugs[i].id = list.bugs[j].id => i = j

ASSUME BugToolsAssumption ==
    /\ \A view \in Views : IsView(view)
    /\ Limits \subseteq Nat /\ MaxIDs \in Nat

Analyse(view, id, relatedLimit, commentLimit) ==
    /\ call' = [kind |-> "analysis", view |-> view, id |-> id, limit |-> relatedLimit]
    /\ LET packet == AnalyzeBug(view, id, TRUE, relatedLimit, commentLimit)
       IN IF packet = {} THEN stage' = "failed" /\ UNCHANGED answer
          ELSE stage' = "answered" /\ answer' = CHOOSE p \in packet : TRUE

Score(view, ids, limit) ==
    /\ ids # <<>>
    /\ call' = [kind |-> "scores", view |-> view, ids |-> ids, limit |-> limit]
    /\ answer' = AIScores(view, ids, limit)
    /\ stage' = "answered"

CallBuiltIn ==
    /\ stage = "serving"
    /\ \E view \in Views :
           \/ \E id \in BugIDs, relatedLimit, commentLimit \in Limits :
                  Analyse(view, id, relatedLimit, commentLimit)
           \/ \E ids \in BoundedSeq(BugIDs, MaxIDs), limit \in Limits \ {0} : Score(view, ids, limit)

\* Whatever else happens: only generic tools are answered.
GenericSteps == stage' = "answered" => call'.kind = "tool"

BugToolSpec == stage = "start" /\ [][CallBuiltIn \/ GenericSteps]_exchange

---------------------------------------------------------------------------
(* Properties.                                                             *)

Caught == IF call.kind = "analysis" THEN CHOOSE b \in Detail(call.view, call.id) : TRUE ELSE <<>>
HasComment(a) == a.name = "commented" /\ a.comment # NoComment

(* However often a bug was commented, resolved and reopened, the           *)
(* explanation is that of its first resolution that has one: the           *)
(* resolution's own remark, else the last comment up to it.  When none     *)
(* has, it is the last comment of all (analysis.go:188-211).  A remark of  *)
(* a later resolution is not preferred to a comment before the first.      *)
(* Keys of different length come out of order.                             *)
NoteFollowsRule ==
    stage = "answered" /\ call.kind = "analysis" /\ ~Caught.keyed =>
        LET t           == Caught.actions
            Comments(n) == {i \in 1 .. n : HasComment(t[i])}
            LastOf(is)  == IF is = {} THEN NoComment ELSE t[Max(is)].comment
            explained   == {i \in DOMAIN t : /\ t[i].name = "resolved"
                                             /\ t[i].comment # NoComment \/ Comments(i) # {}}
            at          == Min(explained)
        IN answer.note = IF explained = {} THEN LastOf(Comments(Len(t)))
                         ELSE IF t[at].comment # NoComment THEN t[at].comment
                         ELSE LastOf(Comments(at))

(* A related bug is another bug, listed once and no more than asked for,   *)
(* and ZenTao has just shown it to this caller, in its detail or in the    *)
(* product's list: what the index holds is never believed (analysis.go     *)
(* 285-287, 361-363).  A list that is short for want of data says so.      *)
RelatedAreReadable ==
    stage = "answered" /\ call.kind = "analysis" =>
        LET ids   == answer.related.ids
            shown == {id \in DOMAIN call.view.reads : \E b \in Detail(call.view, id) : b.id = id}
                     \cup UNION {{b.id : b \in Range(l.bugs)} : l \in call.view.list}
        IN /\ IsInjective(ids) /\ Range(ids) \subseteq shown \ {answer.id}
           /\ Len(ids) <= (IF call.limit > 0 THEN call.limit ELSE RelatedLimit)
           /\ ids = <<>> /\ call.view.list = {} => answer.related.told

(* The totals of a score report are those of its objects: every comment of *)
(* every object read is scored or unscored, zero is no score, and objects  *)
(* that cannot be read are counted as such (score.go 157-181).             *)
ScoresAddUp ==
    stage = "answered" /\ call.kind = "scores" =>
        LET inspected   == FirstN(call.ids, call.limit)
            Found(n)    == Detail(call.view, inspected[n])
            Comments(b) == {k \in DOMAIN b.actions : b.actions[k].name = "commented"}
            Scored(b)   == {k \in Comments(b) : LET a == b.actions[k]
                                IN (IF a.aiScore # Blank THEN a.aiScore ELSE a.score) \notin {0, Blank}}
        IN /\ answer.scored = Total([n \in DOMAIN inspected |->
                  Cardinality(UNION {Scored(b) : b \in Found(n)})])
           /\ answer.scored + answer.unscored = Total([n \in DOMAIN inspected |->
                  Cardinality(UNION {Comments(b) : b \in Found(n)})])
           /\ answer.objectsWithErrors = Cardinality({n \in DOMAIN inspected : Found(n) = {}})

(* Both readings of a bug's actions. *)
InsightsFollowRecord == NoteFollowsRule /\ ScoresAddUp
=============================================================================
