------------------------------- MODULE Payloads -------------------------------
(***************************************************************************)
(* One exchange with the MCP server, for the data it carries: the tools    *)
(* are registered from an OpenAPI document, a client calls one, ZenTao     *)
(* answers and the answer becomes the tool's result (toolHandler of        *)
(* controller/mcp/register.go); or the client asks for the analysis of a   *)
(* bug, or for AI scores (zentao_tools.go).  What an exchange does to      *)
(* sessions is in RequestGate; here only the data matters.                 *)
(***************************************************************************)
EXTENDS ToolCalls, BugTools, OutputShapes

CONSTANTS
    BodiesFor(_),          \* the bodies ZenTao may answer an operation with
    PublishOutputSchema,   \* c.publishOutputSchema
    AskedOn(_)             \* bound: whether a server with these tools is asked about bugs

IsJSON(body) == body.kind \notin {"text", "empty"}

\* A response is described by a schema of its document, and answers nest so deep.
ASSUME ResponsesAssumption ==
    \A api \in Apis : \A i \in DOMAIN api.ops :
        LET op == api.ops[i]
        IN /\ \A code \in DOMAIN op.responses : op.responses[code] # None =>
                  LET r == op.responses[code][1] IN IsDocument(r.doc) /\ r.root \in DOMAIN r.doc
           /\ \A body \in BodiesFor(op) : IsJSON(body) => body \in ValueTrees[ValueDepth - 1]

vars == <<exchange, tools>>

Init == NotServing

\* The output side of the tool that was called.
Output == buildToolOutputSchema(call.tool.op.responses)

---------------------------------------------------------------------------
(* toolHandler.  A body that is not JSON is "text", an empty one "empty".  *)

Failed(success, body) == ~success \/ body.kind = "text"

\* data is not nil when the schema is looked at.
Structured(success, body) ==
    IF PublishOutputSchema /\ Output.schema # None /\ success /\ IsJSON(body)
          /\ (Output.wrap \/ body.kind # "null")
    THEN <<StructuredOutput(Output.schema[1], Output.wrap, body)>>
    ELSE None

ToolAnswers(success, body) ==
    /\ answer' = [body       |-> body,
                  failed     |-> Failed(success, body),
                  structured |-> Structured(success, body)]
    /\ stage' = "answered"
    /\ UNCHANGED <<tools, call>>

\* The request could not be sent, or its answer not be read.
CallFails ==
    /\ stage = "called"
    /\ stage' = "failed"
    /\ UNCHANGED <<tools, call, answer>>

Reply ==
    /\ stage = "called"
    /\ \E success \in BOOLEAN, body \in BodiesFor(call.tool.op) : ToolAnswers(success, body)

AskAboutBug == AskedOn(tools) /\ CallBuiltIn /\ UNCHANGED tools

Next == RegisterTools \/ CallGeneric \/ AskAboutBug \/ Reply \/ CallFails

Spec == Init /\ [][Next]_vars

---------------------------------------------------------------------------
(* Properties of the generic tools.                                        *)

ToolAnswered == stage = "answered" /\ call.kind = "tool"
Schema       == Output.schema[1]

\* What ZenTao said, as the schema sees it.
Said == IF Output.wrap THEN InResultField(answer.body) ELSE answer.body

(* A structured output passes the schema that was published for it,        *)
(* whatever scalars and lists ZenTao puts where the document has others    *)
(* and whatever it leaves out, as long as objects are objects ("ZenTao     *)
(* returns values that do not match its own document",                     *)
(* output_schema_compat.go:167); and a failed call has none.               *)
OutputPasses ==
    ToolAnswered /\ answer.structured # None =>
        /\ ~answer.failed
        /\ Said \in Promised[Schema] => answer.structured[1] \in Valid[makeSchemaCompatible[Schema]]

(* Where the document gives one type, a value that can be read as that     *)
(* type has it in the output, at any depth (normalize_output.go:19-79).    *)
NumbersRestored ==
    ToolAnswered /\ answer.structured # None /\ Said \in Says[Schema][FALSE] =>
        answer.structured[1] \in Says[Schema][TRUE]
=============================================================================
