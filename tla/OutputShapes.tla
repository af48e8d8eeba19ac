---------------------------- MODULE OutputShapes ----------------------------
(***************************************************************************)
(* What a generic tool publishes as its output schema, and what it makes   *)
(* of ZenTao's answer before that schema is held against it.  ZenTao's     *)
(* values do not follow its own document (numbers come as strings, fields  *)
(* are missing or empty), and an output that fails its schema fails the    *)
(* whole tool call.                                                        *)
(*                                                                         *)
(* Pure functions: resolve_schema.go and build_output.go turn the OpenAPI  *)
(* document into a schema, output_schema_compat.go relaxes it for          *)
(* publication, normalize_output.go adapts the value to the original.      *)
(* They are functions on the set of the schemas, each given by what it     *)
(* makes of a schema when the parts are done.                              *)
(***************************************************************************)
EXTENDS Shapes, Sequences, Naturals, FiniteSets, Functions

CONSTANTS
    SchemaDepth,    \* bound: how deep schemas nest when they are resolved
    ValueDepth      \* bound: how deep ZenTao's answers nest

ASSUME DepthAssumption ==
    SchemaDepth \in Nat /\ ValueDepth \in Nat \ {0} /\ "result" \in FieldNames

---------------------------------------------------------------------------
(* Schemas and values, level by level.                                     *)

TypeNames == {"object", "array", "string", "integer", "number", "boolean", "null"}

Optional(S) == {x \in Seq(S) : Len(x) <= 1}
Fields(S)   == [FieldNames -> Optional(S)]

\* The schemas whose parts are in S.
SchemasOver(S) ==
    [type : SUBSET TypeNames, nullable : BOOLEAN, key : {"anyOf", "oneOf"}, alts : Seq(S),
     items : Optional(S), props : Fields(S), required : SUBSET FieldNames, extra : Optional(S)]

SchemaTrees[n \in 0 .. 2 * SchemaDepth + 1] ==
    IF n = 0 THEN {} ELSE SchemasOver(SchemaTrees[n - 1])

Schemas   == SchemaTrees[SchemaDepth]
Published == SchemaTrees[2 * SchemaDepth + 1]

(* What the documents of docs/ write in responses: one type at most (and   *)
(* no allOf, no not), items of arrays and properties of objects only,      *)
(* choices that say nothing else than that they are objects, nullable      *)
(* types and nullable choices.                                             *)
Sound(s) ==
    /\ s.type \in {{}} \cup {{t} : t \in TypeNames \ {"null"}}
    /\ s.alts # <<>> => /\ s.type \subseteq {"object"}
                        /\ s.props = NoFields /\ s.items = None /\ s.extra = None /\ s.required = {}
    /\ s.items # None => s.type = {"array"}
    /\ s.props # NoFields => s.type \subseteq {"object"}
    /\ s.required # {} => s.type = {"object"} \/ s.props # NoFields
    /\ s.nullable => s.type = {} <=> s.alts # <<>>

SoundOver(S) == {s \in SchemasOver(S) : Sound(s)}

SoundTrees[n \in 0 .. SchemaDepth] == IF n = 0 THEN {} ELSE SoundOver(SoundTrees[n - 1])

\* The values whose parts are in V.
ValuesOver(V) ==
    {Null}
    \cup [kind : {"string", "integer", "number", "boolean"}, reads : SUBSET {"integer", "number", "boolean"}]
    \cup [kind : {"array"}, items : Seq(V)]
    \cup [kind : {"object"}, fields : Fields(V)]

ValueTrees[n \in 0 .. ValueDepth] == IF n = 0 THEN {} ELSE ValuesOver(ValueTrees[n - 1])

Values == ValueTrees[ValueDepth]

---------------------------------------------------------------------------
(* resolveSchema.  A document maps the identity of a schema to the schema, *)
(* with identities for sub-schemas; a reference back to a schema that is   *)
(* being resolved becomes the empty schema.                                *)

IsDocument(doc) ==
    /\ doc \in [DOMAIN doc -> SoundOver(DOMAIN doc)]
    /\ IsFiniteSet(DOMAIN doc) /\ Cardinality(DOMAIN doc) + 2 <= SchemaDepth

Each(x, part) == [i \in DOMAIN x |-> part[x[i]]]

WithParts(s, part) ==
    [s EXCEPT !.alts = Each(@, part), !.items = Each(@, part), !.extra = Each(@, part),
              !.props = [f \in FieldNames |-> Each(@[f], part)]]

resolveSchema(doc) ==
    LET resolved[visited \in SUBSET DOMAIN doc] ==
            [n \in DOMAIN doc |-> IF n \in visited THEN AnyValue
                                  ELSE WithParts(doc[n], resolved[visited \cup {n}])]
    IN resolved[{}]

(* findSuccessResponse: 200, 201, 202, 204, another 2xx, or the default.   *)
(* A response is None, or the schema of its JSON content.                  *)
SuccessCodes == <<"200", "201", "202", "204", "2xx", "default">>
findSuccessResponse(responses) ==
    LET present == {i \in DOMAIN SuccessCodes : SuccessCodes[i] \in DOMAIN responses}
    IN IF present = {} THEN None
       ELSE responses[SuccessCodes[CHOOSE i \in present : \A j \in present : i <= j]]

(* buildToolOutputSchema: an MCP output is an object, anything else is     *)
(* wrapped in one.                                                         *)
InResult(s) == [Of("object") EXCEPT !.props["result"] = <<s>>, !.required = {"result"}]

buildToolOutputSchema(responses) ==
    LET r == findSuccessResponse(responses)
    IN IF r = None THEN [schema |-> None, wrap |-> FALSE]
       ELSE LET s == resolveSchema(r[1].doc)[r[1].root]
            IN IF s.type = {"object"} THEN [schema |-> <<s>>, wrap |-> FALSE]
               ELSE [schema |-> <<InResult(s)>>, wrap |-> TRUE]

---------------------------------------------------------------------------
(* compatibleOutputSchema.                                                 *)

AllowsNull(s) == "null" \in s.type

convertNullableSchema(s) ==
    IF ~s.nullable THEN s
    ELSE LET t == [s EXCEPT !.nullable = FALSE]
         IN IF s.alts # <<>>
            THEN IF \E i \in DOMAIN s.alts : AllowsNull(s.alts[i]) THEN t
                 ELSE [t EXCEPT !.alts = Append(@, Of("null"))]
            ELSE IF s.type = {} THEN [t EXCEPT !.type = {"object", "null"}]
                 ELSE [t EXCEPT !.type = @ \cup {"null"}]

withRuntimeShapeDrift(s) ==
    [AnyValue EXCEPT !.alts = <<s, Of("null"), Of("object"), [Of("array") EXCEPT !.items = <<AnyValue>>],
                           Of("string"), Of("number"), Of("boolean")>>]

\* Mutant: required fields stay required.
Relaxed_KeepsRequired(s) ==
    IF "object" \in s.type \/ s.props # NoFields THEN s
    ELSE IF s.alts # <<>> THEN s
    ELSE IF s.type \cap {"string", "integer", "number", "boolean", "array", "object"} # {}
         THEN withRuntimeShapeDrift(s) ELSE s

\* An object asks for no field, and neither it nor a choice drifts.
Relaxed(s) ==
    IF "object" \in s.type \/ s.props # NoFields THEN [s EXCEPT !.required = {}]
    ELSE IF s.alts # <<>> THEN s
    ELSE IF s.type \cap {"string", "integer", "number", "boolean", "array", "object"} # {}
         THEN withRuntimeShapeDrift(s) ELSE s

Compatible(schema, compatible) ==
    Relaxed([WithParts(convertNullableSchema(schema), compatible) EXCEPT !.key = "anyOf"])

makeSchemaCompatible[schema \in Schemas] == Compatible(schema, makeSchemaCompatible)

---------------------------------------------------------------------------
(* normalizeStructuredOutput, with the schema as it was built.             *)

\* normalizeInteger, normalizeNumber, normalizeBoolean: a number reads as itself.
Reads(v, t) == IsScalar(v) /\ t \in v.reads

\* A number without a fraction is an integer of JSON.
Number(v) == [v EXCEPT !.kind = IF "integer" \in v.reads THEN "integer" ELSE "number"]

valueMatchesType(v, t) ==
    IF t \in {"integer", "number"} THEN Reads(v, t) ELSE v.kind = t
valueStrictlyMatchesType(v, t) ==
    IF t = "number" THEN v.kind \in {"integer", "number"} ELSE v.kind = t

(* valueMatchesSchema, and strictly valueStrictlyMatchesSchema: the values *)
(* that match a schema.                                                    *)
Matching[s \in Schemas] ==
    [strictly \in BOOLEAN |-> {v \in Values :
        IF s.alts # <<>> THEN \E i \in DOMAIN s.alts : v \in Matching[s.alts[i]][strictly]
        ELSE s.type = {} \/ \E t \in s.type : IF strictly THEN valueStrictlyMatchesType(v, t)
                                              ELSE valueMatchesType(v, t)}]

\* Mutant: numbers in strings stay strings.
AsScalar_LeavesNumbers(s, v) ==
    IF "string" \in s.type /\ IsScalar(v) THEN [v EXCEPT !.kind = "string"]
    ELSE IF "boolean" \in s.type /\ Reads(v, "boolean") THEN [v EXCEPT !.kind = "boolean"]
    ELSE v

\* fmt.Sprint, ParseInt, ParseFloat and ParseBool; what cannot be read stays.
AsScalar(s, v) ==
    IF "string" \in s.type /\ IsScalar(v) THEN [v EXCEPT !.kind = "string"]
    ELSE IF "integer" \in s.type /\ Reads(v, "integer") THEN [v EXCEPT !.kind = "integer"]
    ELSE IF "number" \in s.type /\ Reads(v, "number") THEN Number(v)
    ELSE IF "boolean" \in s.type /\ Reads(v, "boolean") THEN [v EXCEPT !.kind = "boolean"]
    ELSE v

\* The first alternative that has v, else the first of all.
Alternative(alts, v) ==
    LET fit == {i \in DOMAIN alts : v \in Matching[alts[i]][FALSE]}
    IN IF fit = {} THEN alts[1] ELSE alts[CHOOSE i \in fit : \A j \in fit : i <= j]

normalizeAlternativeValue(alts, v, normalize) ==
    IF \E i \in DOMAIN alts : v \in Matching[alts[i]][TRUE] THEN v
    ELSE normalize[Alternative(alts, v)][v]

normalizeObject(s, v, normalize) ==
    IF v.kind # "object" THEN v
    ELSE [v EXCEPT !.fields = [f \in FieldNames |->
             IF s.props[f] = None THEN @[f] ELSE Each(@[f], normalize[s.props[f][1]])]]

normalizeArray(s, v, normalize) ==
    IF v.kind # "array" \/ s.items = None THEN v
    ELSE [v EXCEPT !.items = Each(@, normalize[s.items[1]])]

Normalized(s, v, normalize) ==
    IF v.kind = "null" THEN v
    ELSE IF s.alts # <<>> THEN normalizeAlternativeValue(s.alts, v, normalize)
    ELSE IF "object" \in s.type \/ (s.type = {} /\ s.props # NoFields) THEN normalizeObject(s, v, normalize)
    ELSE IF "array" \in s.type \/ (s.type = {} /\ s.items # None) THEN normalizeArray(s, v, normalize)
    ELSE AsScalar(s, v)

normalizeValue[s \in Schemas] == [v \in Values |-> Normalized(s, v, normalizeValue)]

InResultField(v) == Object([NoFields EXCEPT !["result"] = <<v>>])

\* toolHandler: the value is wrapped as its schema was.
StructuredOutput(schema, wrap, v) ==
    normalizeValue[schema][IF wrap THEN InResultField(v) ELSE v]

---------------------------------------------------------------------------
(* JSON schema validation (external: the MCP SDK): the values that pass.   *)

ValidAmong(s, valid) ==
    {v \in Values :
        /\ s.type = {} \/ v.kind \in s.type \/ (v.kind = "integer" /\ "number" \in s.type)
        /\ s.alts # <<>> =>
               LET good == {i \in DOMAIN s.alts : v \in valid[s.alts[i]]}
               IN IF s.key = "oneOf" THEN Cardinality(good) = 1 ELSE good # {}
        /\ v.kind = "object" =>
               /\ \A f \in s.required : v.fields[f] # None
               /\ \A f \in FieldNames : v.fields[f] # None =>
                      IF s.props[f] # None THEN v.fields[f][1] \in valid[s.props[f][1]]
                      ELSE s.extra # None => v.fields[f][1] \in valid[s.extra[1]]
        /\ v.kind = "array" /\ s.items # None => \A i \in DOMAIN v.items : v.items[i] \in valid[s.items[1]]}

Valid[s \in Published] == ValidAmong(s, Valid)

(* What ZenTao can be relied on: objects are where the document says there *)
(* are objects (null where it says nullable).  Scalars and arrays may be   *)
(* anything, fields may be missing or new.                                 *)
PromisedAmong(s, promised) ==
    {v \in Values :
        \/ v.kind = "null" /\ s.nullable
        \/ /\ "object" \in s.type => v.kind = "object"
           /\ s.alts # <<>> => \E i \in DOMAIN s.alts : v \in promised[s.alts[i]]
           /\ v.kind = "object" =>
                  \A f \in FieldNames : v.fields[f] # None =>
                      IF s.props[f] # None THEN v.fields[f][1] \in promised[s.props[f][1]]
                      ELSE s.extra # None => v.fields[f][1] \in promised[s.extra[1]]}

Promised[s \in Schemas] == PromisedAmong(s, Promised)

(* The values that say what s declares, all scalars written as declared    *)
(* (literally) or readable as declared.  Fields may be missing.            *)
SaidAmong(s, literally, says) ==
    {v \in Values :
        \/ s.type = {}
        \/ \E t \in s.type :
              /\ IF literally \/ ~IsScalar(v) THEN valueStrictlyMatchesType(v, t)
                 ELSE t = "string" \/ Reads(v, t)
              /\ v.kind = "object" => \A f \in FieldNames : v.fields[f] # None /\ s.props[f] # None =>
                                         v.fields[f][1] \in says[s.props[f][1]][literally]
              /\ v.kind = "array" /\ s.items # None =>
                    \A i \in DOMAIN v.items : v.items[i] \in says[s.items[1]][literally]}

Says[s \in Schemas] == [literally \in BOOLEAN |-> SaidAmong(s, literally, Says)]
=============================================================================
