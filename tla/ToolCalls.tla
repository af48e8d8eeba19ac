----------------------------- MODULE ToolCalls -----------------------------
(***************************************************************************)
(* A generic tool from its registration to the request it sends: the tools *)
(* are registered from an OpenAPI document, and a client calls one         *)
(* (RegisterAllTools and toolHandler of controller/mcp/register.go).       *)
(***************************************************************************)
EXTENDS ToolInputs, Exchange

CONSTANTS
    Apis,                  \* [ops, matcher, skipDeprecated]: a server of the configuration
    ArgumentsFor(_),       \* the arguments a client may try on an operation
    Accepts(_, _)          \* external: how the MCP SDK holds arguments against an input schema

VARIABLE tools             \* the registered tools, by name

\* Paths are written without empty segments, and a JSON body is a body.
IsOperation(op) ==
    /\ op.path \in Seq([text : STRING, param : BOOLEAN])
    /\ \A i \in DOMAIN op.path : ~op.path[i].param => op.path[i].text \notin Dots
    /\ \E S \in {Range(Refs(op))} : op.common \in Seq(S) /\ op.own \in Seq(S)
    /\ op.payload # None => op.body

ASSUME DocumentAssumption ==
    \A api \in Apis :
        api.ops \in Seq(Range(api.ops)) /\ \A i \in DOMAIN api.ops : IsOperation(api.ops[i])

\* Whatever else the SDK looks at, it misses no required argument.
ASSUME SDKAssumption ==
    \A api \in Apis : \A i \in DOMAIN api.ops :
        LET input == buildToolInputSchema(api.ops[i])
        IN \A in \in ArgumentsFor(api.ops[i]) :
               Accepts(input, in) => input.required \subseteq DOMAIN in

NotServing == stage = "start" /\ tools = Nothing /\ call = Nothing /\ answer = Nothing

RegisterTools ==
    /\ stage = "start"
    /\ \E api \in Apis : tools' = RegisterAllTools(api.ops, api.matcher, api.skipDeprecated)
    /\ stage' = "serving"
    /\ UNCHANGED <<call, answer>>

\* The SDK holds the arguments against the input schema first.
CallTool(name, in) ==
    /\ Accepts(tools[name].input, in)
    /\ call' = [kind |-> "tool", tool |-> tools[name], in |-> in,
                request |-> Execute(tools[name], in)]
    /\ stage' = "called"
    /\ UNCHANGED <<tools, answer>>

CallGeneric ==
    /\ stage = "serving"
    /\ \E name \in DOMAIN tools : \E in \in ArgumentsFor(tools[name].op) : CallTool(name, in)

\* Whatever else happens: no generic tool is called, and the tools stay.
OtherSteps == stage' # "called" /\ UNCHANGED tools

RequestSpec == NotServing /\ [][RegisterTools \/ CallGeneric \/ OtherSteps]_<<exchange, tools>>

---------------------------------------------------------------------------
(* Properties of the request.                                              *)

Declared(where) == {p.name : p \in {q \in Range(Refs(call.tool.op)) : q.in = where}}

\* Arguments the request can carry as they are.
Transportable ==
    \A n \in DOMAIN call.in :
        /\ call.in[n].kind # "null"
        /\ n \in pathParamNames(call.tool.op) => call.in[n].plain /\ call.in[n].text \notin Dots

\* The argument that stands for query parameter n.
Argument(n) == IF n \in DOMAIN call.in \/ n \notin {"limit", "page"} THEN n ELSE AliasOf(n)

(* What the input schema accepts reaches ZenTao in the path, the query,    *)
(* the headers or the body, as the document declares: no placeholder is    *)
(* left, limit and page may come under their other names, and the query    *)
(* has nothing else.  Cookies are never sent and are not asked about       *)
(* (what build_input.go requires is what execute.go fills in).             *)
ArgumentsSent ==
    stage = "called" /\ Transportable =>
        LET op == call.tool.op  r == call.request
            Query(n) == [name |-> n, text |-> call.in[Argument(n)].text]
        IN /\ Len(r.path) = Len(op.path)
           /\ \A i \in DOMAIN op.path : r.path[i].text =
                  IF op.path[i].param THEN call.in[op.path[i].text].text ELSE op.path[i].text
           /\ r.query = {Query(n) : n \in {m \in Declared("query") : Argument(m) \in DOMAIN call.in}}
           /\ {n \in Declared("header") : n \in DOMAIN call.in} = {h.name : h \in r.header}
           /\ op.payload # None /\ "payload" \in DOMAIN call.in => r.body = <<call.in["payload"]>>
=============================================================================
