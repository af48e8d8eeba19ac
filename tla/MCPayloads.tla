------------------------------ MODULE MCPayloads ------------------------------
EXTENDS Payloads

---------------------------------------------------------------------------
(* Operations that differ in where they declare their parameters.          *)

Par(n, in, s, must) == [name |-> n, in |-> in, schema |-> s, required |-> must, deprecated |-> FALSE]
PathId  == Par("id", "path", Of("string"), TRUE)
Anything == [allow |-> {[methods |-> {"GET", "POST"}, paths |-> {<<Lit("bugs"), Param("id")>>,
                        <<Lit("bugs"), Param("id"), Lit("close")>>, <<Lit("tokens")>>, <<Lit("bugs")>>}]},
             block |-> {[methods |-> {"POST"}, paths |-> {<<Lit("bugs")>>}]}]

Op(method, path, common, own, payload) ==
    [id |-> "op", method |-> method, path |-> path, common |-> common, own |-> own,
     body |-> payload # None, payload |-> payload, deprecated |-> FALSE,
     responses |-> ("204" :> None)]

InputOps ==
    {Op("GET", <<Lit("bugs"), Param("id")>>, common, own, None) :
        common \in {<<>>, <<PathId>>, <<[PathId EXCEPT !.deprecated = TRUE]>>, <<PathId, Par("limit", "query", Of("integer"), FALSE)>>},
        own    \in {<<>>, <<PathId>>, <<Par("id", "path", AnyValue, TRUE)>>, <<Par("id", "query", Of("string"), FALSE)>>,
                    <<Par("limit", "query", Of("integer"), FALSE), Par("page", "query", Of("string"), FALSE)>>,
                    <<Par("recPerPage", "query", Of("integer"), FALSE), Par("page", "header", Of("string"), FALSE)>>}}
    \cup {Op("POST", <<Lit("bugs"), Param("id"), Lit("close")>>, <<PathId>>, <<>>, <<Of("object")>>),
          Op("POST", <<Lit("tokens")>>, <<>>, <<>>, None), Op("POST", <<Lit("bugs")>>, <<>>, <<>>, None)}

Text(t, reads, plain) == [kind |-> "string", reads |-> reads, text |-> t, plain |-> plain]
Texts == {Text("7", {"integer", "number"}, TRUE), Text("..", {}, TRUE), Text("", {}, TRUE), Text("a/b", {}, FALSE),
          [kind |-> "integer", reads |-> {"integer", "number"}, text |-> "7", plain |-> TRUE],
          [kind |-> "null", reads |-> {}, text |-> "<nil>", plain |-> TRUE]}
Seven == [kind |-> "integer", reads |-> {"integer", "number"}, text |-> "7", plain |-> TRUE]
Five  == [Seven EXCEPT !.text = "5"]

MCArgumentsFor(op) ==
    IF "200" \in DOMAIN op.responses THEN {None}
    ELSE LET others == UNION {[ns -> {Seven, Five}] :
                              ns \in SUBSET {"limit", "recPerPage", "page", "pageID"}}
             bodies == IF op.body THEN {None, [payload |-> [kind |-> "object", fields |-> NoFields,
                                                  text |-> "map[]", plain |-> FALSE]]} ELSE {None}
         IN {o @@ b : o \in others, b \in bodies}
            \cup {("id" :> v) @@ o @@ b : v \in Texts, o \in others, b \in bodies}

---------------------------------------------------------------------------
(* Documents of three schemas that may refer to each other, with one       *)
(* operation that answers with the first.                                  *)

Scalars == {"string", "integer", "number", "boolean"}
Leaves  == {Of(t) : t \in Scalars} \cup {AnyValue, [Of("string") EXCEPT !.nullable = TRUE], Of("object"), Of("array")}
ObjectOf(n)   == [Of("object") EXCEPT !.props["f"] = <<n>>, !.required = {"f"}]
OneOf(s)      == [AnyValue EXCEPT !.key = "oneOf", !.alts = s]
Roots == {ObjectOf("a"), [ObjectOf("a") EXCEPT !.nullable = TRUE], [ObjectOf("b") EXCEPT !.extra = <<"a">>],
          [AnyValue EXCEPT !.props["f"] = <<"a">>],
          [Of("array") EXCEPT !.items = <<"a">>], OneOf(<<"a", "b">>)}
Inner == Leaves \cup {ObjectOf("b"), ObjectOf("root"), [Of("array") EXCEPT !.items = <<"b">>],
          [Of("array") EXCEPT !.items = <<"root">>], OneOf(<<"b", "c">>),
          [OneOf(<<"c", "b">>) EXCEPT !.nullable = TRUE], [ObjectOf("b") EXCEPT !.nullable = TRUE]}
Docs  == {[root |-> r, a |-> a, b |-> b, c |-> c] : r \in Roots, a \in Inner, b \in Leaves, c \in {Of("integer"), Of("object")}}
DocsUsed == {d \in Docs : d.c = Of("object") => d.a.alts # <<>>}

DocOp(d) ==
    [id |-> "doc", method |-> "GET", path |-> <<Lit("bugs")>>, common |-> <<>>, own |-> <<>>,
     body |-> FALSE, payload |-> None, deprecated |-> FALSE,
     responses |-> ("200" :> <<[doc |-> d, root |-> "root"]>>) @@ ("default" :> None)]

Atoms == {Null, Scalar("integer", {"integer", "number"}), Scalar("number", {"number"}), Scalar("boolean", {"boolean"}),
          Scalar("string", {}), Scalar("string", {"integer", "number", "boolean"}),
          Scalar("string", {"number"}), Scalar("string", {"boolean"})}
Around(vs) == {List(<<v>>) : v \in vs} \cup {Object([NoFields EXCEPT ![n] = <<v>>]) : v \in vs, n \in {"f", "h"}}
Plain  == Atoms \cup {List(<<>>), Object(NoFields)}
Answers == Plain \cup Around(Plain) \cup Around(Around(Plain))

MCBodiesFor(op) ==
    IF "200" \in DOMAIN op.responses THEN Answers \cup {[kind |-> "text"], [kind |-> "empty"]}
    ELSE {[kind |-> "empty"]}

MCApis == {[ops |-> <<op>>, matcher |-> Anything, skipDeprecated |-> TRUE] : op \in InputOps \cup {DocOp(d) : d \in DocsUsed}}

---------------------------------------------------------------------------
(* Two bugs with short histories.                                          *)

Action(name, comment, score) == [name |-> name, comment |-> comment, aiScore |-> Blank, score |-> score]
Histories == BoundedSeq({Action("commented", "c1", 0), Action("commented", "c2", 3), Action("commented", "", Blank),
                         Action("resolved", "", Blank), Action("resolved", "r", Blank), Action("activated", "", Blank)}, 3)
\* Resolved, reopened and resolved again.
Reopened == {<<first, Action("resolved", r, Blank), Action("activated", "", Blank), again, Action("resolved", s, Blank)>> :
                 r, s \in {"", "r"}, first, again \in {Action("commented", c, Blank) : c \in {"", "c1", "c2"}}}
Bug(id, history) == [id |-> id, product |-> 1, module |-> 0, similar |-> 1, keyed |-> FALSE, actions |-> history]
Keyed == [Bug(1, <<>>) EXCEPT !.keyed = TRUE,
              !.actions = (9 :> Action("commented", "c1", Blank)) @@ (10 :> Action("resolved", "", Blank))]

Lists == {{}} \cup {{[bugs |-> bs, truncated |-> t]} : t \in BOOLEAN,
                    bs \in {<<Bug(1, <<>>), Bug(2, <<>>)>>, <<[Bug(3, <<>>) EXCEPT !.similar = 0], Bug(2, <<>>)>>}}
View(first, hits, ready, list) ==
    [reads |-> (1 :> first) @@ (2 :> {Bug(2, <<Action("commented", "c2", 3)>>)}) @@ (3 :> {Bug(4, <<>>)}),
     hits |-> hits, ready |-> ready, list |-> list]

MCViews ==
    {View({Bug(1, h)}, <<>>, FALSE, {}) : h \in Histories \cup Reopened}
        \cup {View({b}, hits, ready, list) : b \in {Bug(1, <<>>), Keyed, [Bug(1, <<>>) EXCEPT !.product = 0]},
                  hits \in {<<>>, <<1, 3>>, <<3, 2, 1>>}, ready \in BOOLEAN, list \in Lists}
        \cup {View({}, <<>>, FALSE, {})}

\* The built-in tools are the same on every server: looked at where there are no others.
MCAskedOn(ts) == DOMAIN ts = {}

\* The arguments are not nested, and neither is what they are held against.
Fits(s, v) ==
    /\ s.type = {} \/ v.kind \in s.type \/ (v.kind = "integer" /\ "number" \in s.type)
    /\ s.alts # <<>> => \E i \in DOMAIN s.alts : v.kind \in s.alts[i].type \/ (v.kind = "integer" /\ "number" \in s.alts[i].type)

MCAccepts(schema, in) ==
    /\ schema.required \subseteq DOMAIN in
    /\ \A n \in DOMAIN in \cap DOMAIN schema.props : Fits(schema.props[n], in[n])
=============================================================================
