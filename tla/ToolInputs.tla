----------------------------- MODULE ToolInputs -----------------------------
(***************************************************************************)
(* From an operation of the OpenAPI document to a tool, and from the       *)
(* arguments of a call to the HTTP request: service/schema (Tools,         *)
(* build_input, collectParams), the registration of controller/mcp, the    *)
(* operation matcher and service/tool (Execute).                           *)
(*                                                                         *)
(* An operation is                                                         *)
(*   [id, method, path, common, own, body, payload, deprecated, responses] *)
(* where path is a sequence of segments [text, param], common the          *)
(* parameters of its path item, own its own, body whether it has a body    *)
(* and payload the schema of a JSON one.  A parameter is                   *)
(* [name, in, schema, required, deprecated].  An argument is a value of    *)
(* Shapes with the text       fmt.Sprint makes of it, and whether that     *)
(* text is free of characters a path must escape.                          *)
(***************************************************************************)
EXTENDS Shapes, Subsequences, SequencesExt

Lit(t)   == [text |-> t, param |-> FALSE]
Param(n) == [text |-> n, param |-> TRUE]

pathParamNames(op) == {s.text : s \in {g \in Range(op.path) : g.param}}

\* The path item's parameters come first.
Refs(op) == op.common \o op.own

---------------------------------------------------------------------------
(* The input schema.  A later parameter replaces an earlier one of its     *)
(* name; a deprecated one is left out; a placeholder nobody declares is a  *)
(* required string.                                                        *)

allowNumericStringParameter(s, in) ==
    IF s.type = {"string"} /\ in \in {"query", "path", "header", "cookie"}
    THEN [s EXCEPT !.type = {}, !.alts = @ \o <<Of("string"), Of("number")>>]
    ELSE s

Kept(op)     == Pick(Refs(op), {i \in DOMAIN Refs(op) : ~Refs(op)[i].deprecated})
Inferred(op) == pathParamNames(op) \ {p.name : p \in {k \in Range(Kept(op)) : k.in = "path"}}

PropertyOf(op, n) ==
    IF n = "payload" /\ op.payload # None THEN op.payload[1]
    ELSE IF n \in Inferred(op) THEN allowNumericStringParameter(Of("string"), "path")
    ELSE LET p == Last(Pick(Kept(op), {i \in DOMAIN Kept(op) : Kept(op)[i].name = n}))
         IN allowNumericStringParameter(p.schema, p.in)

buildToolInputSchema(op) ==
    LET declared == {p.name : p \in Range(Kept(op))} \cup Inferred(op)
        names    == declared \cup (IF op.payload = None THEN {} ELSE {"payload"})
    IN [props    |-> [n \in names |-> PropertyOf(op, n)],
        required |-> Inferred(op) \cup
            {p.name : p \in {k \in Range(Kept(op)) : k.required \/ k.in = "path"}}]

\* Mutant: the parameters of the path item are forgotten.
collectParams_OperationOnly(op) ==
    {[name |-> p.name, in |-> p.in] : p \in Range(op.own)}
        \cup {[name |-> n, in |-> "path"] : n \in pathParamNames(op)}

\* Where each argument goes; deprecated parameters included.
collectParams(op) ==
    {[name |-> p.name, in |-> p.in] : p \in Range(Refs(op))}
        \cup {[name |-> n, in |-> "path"] : n \in pathParamNames(op)}

\* The output side of a tool is in Payloads.
buildTool(op) == [op |-> op, params |-> collectParams(op), input |-> buildToolInputSchema(op)]

---------------------------------------------------------------------------
(* Registration.  A rule is a set of methods and a set of paths.           *)

IsAllowed(matcher, op) ==
    LET Hit(rules) == \E r \in rules : op.method \in r.methods /\ op.path \in r.paths
    IN Hit(matcher.allow) /\ ~Hit(matcher.block)

isInternalAuthTool(op) ==
    op.method = "POST" /\ op.path \in {<<Lit("tokens")>>, <<Lit("users"), Lit("login")>>}

(* The tools by name; AddTool replaces, so the last operation of a name    *)
(* stays (ops is in the order of the paths and verbs).                     *)
RegisterAllTools(ops, matcher, skipDeprecated) ==
    LET kept  == {i \in DOMAIN ops : /\ ~isInternalAuthTool(ops[i])
                                     /\ ~(skipDeprecated /\ ops[i].deprecated)
                                     /\ IsAllowed(matcher, ops[i])}
        Sharing(n) == {i \in kept : ops[i].id = n}
    IN [n \in {ops[i].id : i \in kept} |->
            buildTool(ops[CHOOSE i \in Sharing(n) : \A j \in Sharing(n) : j <= i])]

---------------------------------------------------------------------------
(* Execute.                                                                *)

Given(in, n) == n \in DOMAIN in /\ in[n].kind # "null"

AliasOf(n) == IF n = "limit" THEN "recPerPage" ELSE "pageID"
withV1QueryAliases(in) ==
    LET extra == {n \in {"limit", "page"} : AliasOf(n) \in DOMAIN in}
    IN [n \in DOMAIN in \cup extra |-> IF n \in DOMAIN in THEN in[n] ELSE in[AliasOf(n)]]

(* A value is escaped when it is put into the path, and again when the URL *)
(* is written.                                                             *)
Segment(v) == [text |-> v.text, param |-> FALSE, escaped |-> IF v.plain THEN 0 ELSE 2]

\* path.Join: empty and "." segments vanish, ".." takes its predecessor with it.
Dots == {"", ".", ".."}

Extended(done, s) ==
    IF ~s.param /\ s.text \in {"", "."} THEN done
    ELSE IF ~s.param /\ s.text = ".." THEN SubSeq(done, 1, Len(done) - 1)
    ELSE Append(done, s)

Join(path) ==
    LET done[n \in 0 .. Len(path)] == IF n = 0 THEN <<>> ELSE Extended(done[n - 1], path[n])
    IN done[Len(path)]

Filled(op, in) ==
    [i \in DOMAIN op.path |->
        LET s == op.path[i]
        IN IF s.param /\ Given(in, s.text) THEN Segment(in[s.text])
           ELSE [text |-> s.text, param |-> s.param, escaped |-> 0]]

Placed(params, where, in) ==
    {[name |-> p.name, text |-> in[p.name].text] :
        p \in {q \in params : q.in = where /\ Given(in, q.name)}}

Execute(tool, in) ==
    [method |-> tool.op.method,
     path   |-> Join(Filled(tool.op, in)),
     query  |-> Placed(tool.params, "query", withV1QueryAliases(in)),
     header |-> Placed(tool.params, "header", in),
     body   |-> IF tool.op.body /\ Given(in, "payload") THEN <<in["payload"]>> ELSE None]
=============================================================================
