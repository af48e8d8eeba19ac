--------------------------- MODULE ExchangeProofs ---------------------------
(***************************************************************************)
(* Theorems about what an exchange carries: the request of a generic tool  *)
(* for any document and any arguments, the answers of the analysis and     *)
(* score tools for bugs and histories of any size, and the structured      *)
(* outputs of generic tools for any document and any answer.               *)
(***************************************************************************)
EXTENDS Payloads, SequenceLemmas

---------------------------------------------------------------------------
(* path.Join keeps a path that has no empty and no dot segments.           *)

Joins(path, g) ==
    g = [n \in 0 .. Len(path) |-> IF n = 0 THEN <<>> ELSE Extended(g[n - 1], path[n])]

LEMMA JoinDef ==
    ASSUME NEW path
    PROVE  Join(path) = (CHOOSE g : Joins(path, g))[Len(path)]
  BY DEF Join, Joins

LEMMA PrefixGrows ==
    ASSUME NEW S, NEW s \in Seq(S), NEW n \in 1 .. Len(s)
    PROVE  SubSeq(s, 1, n) = Append(SubSeq(s, 1, n - 1), s[n])
  OBVIOUS

LEMMA AppendedUnlessDots ==
    ASSUME NEW done, NEW s, ~s.param => s.text \notin Dots
    PROVE  Extended(done, s) = Append(done, s)
  BY Zenon DEF Extended, Dots

LEMMA JoinKeeps ==
    ASSUME NEW S, NEW path \in Seq(S),
           \A i \in 1 .. Len(path) : ~path[i].param => path[i].text \notin Dots
    PROVE  Join(path) = path
<1> DEFINE N == Len(path)
<1>1. N \in Nat
  OBVIOUS
<1>2. SubSeq(path, 1, 0) = <<>> /\ SubSeq(path, 1, N) = path
  OBVIOUS
<1>3. ASSUME NEW n \in 1 .. N
      PROVE  SubSeq(path, 1, n) = Extended(SubSeq(path, 1, n - 1), path[n])
  <2>1. ~path[n].param => path[n].text \notin Dots
    OBVIOUS
  <2>2. Extended(SubSeq(path, 1, n - 1), path[n]) = Append(SubSeq(path, 1, n - 1), path[n])
    BY <2>1, AppendedUnlessDots
  <2> QED BY <2>2, PrefixGrows
<1> HIDE DEF N
<1>0. 0 \in 0 .. N /\ N \in 0 .. N /\ \A n \in 1 .. N : n - 1 \in 0 .. N /\ n \in 0 .. N /\ n # 0
  BY <1>1
<1> DEFINE h == [n \in 0 .. N |-> SubSeq(path, 1, n)]
           g == CHOOSE g : Joins(path, g)
<1>4. /\ h[0] = <<>> /\ h[N] = path
      /\ \A n \in 1 .. N : h[n] = Extended(h[n - 1], path[n])
  <2>1. \A n \in 1 .. N : h[n] = SubSeq(path, 1, n) /\ h[n - 1] = SubSeq(path, 1, n - 1)
    BY <1>0
  <2> QED BY <1>0, <1>2, <1>3, <2>1
<1>5. h = [n \in 0 .. N |-> IF n = 0 THEN <<>> ELSE Extended(h[n - 1], path[n])]
  <2>1. \A n \in 0 .. N : n # 0 => n \in 1 .. N
    BY <1>1
  <2>2. \A n \in 0 .. N : h[n] = IF n = 0 THEN <<>> ELSE Extended(h[n - 1], path[n])
    BY <1>4, <2>1
  <2> QED BY <2>2
<1> HIDE DEF h
<1>6. Joins(path, g)
  <2>1. Joins(path, h)
    BY <1>5 DEF Joins, N
  <2> QED BY <2>1
<1> HIDE DEF g
<1>7. g[0] = <<>> /\ \A n \in 1 .. N : g[n] = Extended(g[n - 1], path[n])
  BY <1>0, <1>6 DEF Joins, N
<1>8. \A n \in 0 .. N : g[n] = h[n]
  <2>1. StepAlike(g, h, N)
    BY <1>4, <1>7 DEF StepAlike
  <2> QED BY <1>1, <2>1, SameSteps
<1> QED
  BY <1>0, <1>4, <1>8, JoinDef DEF g, N

---------------------------------------------------------------------------
(* The arguments a tool asks for.                                          *)

LEMMA RefsFacts ==
    ASSUME NEW op, IsOperation(op)
    PROVE  \E S : /\ Refs(op) \in Seq(S)
                  /\ Kept(op) \in Seq(S) /\ Range(Kept(op)) \subseteq Range(Refs(op))
<1>1. PICK S : S = Range(Refs(op)) /\ op.common \in Seq(S) /\ op.own \in Seq(S)
  BY DEF IsOperation
<1>2. Refs(op) \in Seq(S)
  BY <1>1 DEF Refs
<1> DEFINE is == {i \in DOMAIN Refs(op) : ~Refs(op)[i].deprecated}
<1>3. is \in SUBSET (1 .. Len(Refs(op)))
  BY <1>2
<1>4. Pick(Refs(op), is) \in Seq(S) /\ Range(Pick(Refs(op), is)) = {Refs(op)[i] : i \in is}
  <2> HIDE DEF is
  <2> QED BY <1>2, <1>3, PickFacts
<1>5. {Refs(op)[i] : i \in is} \subseteq Range(Refs(op))
  BY DEF Range
<1> QED
  BY <1>2, <1>4, <1>5 DEF Kept

\* Every placeholder of the path is a required argument.
LEMMA PlaceholdersRequired ==
    ASSUME NEW op, NEW i \in DOMAIN op.path, op.path[i].param
    PROVE  /\ op.path[i].text \in pathParamNames(op)
           /\ op.path[i].text \in buildToolInputSchema(op).required
<1> DEFINE n == op.path[i].text
<1>1. n \in pathParamNames(op)
  BY DEF pathParamNames, Range
<1>2. buildToolInputSchema(op).required =
          Inferred(op) \cup {p.name : p \in {k \in Range(Kept(op)) : k.required \/ k.in = "path"}}
  BY DEF buildToolInputSchema
<1>3. CASE n \in Inferred(op)
  BY <1>1, <1>2, <1>3
<1>4. CASE n \notin Inferred(op)
  <2>1. PICK k \in Range(Kept(op)) : k.in = "path" /\ k.name = n
    BY <1>1, <1>4 DEF Inferred
  <2> QED BY <1>1, <1>2, <2>1
<1> QED
  BY <1>3, <1>4

---------------------------------------------------------------------------
(* The request of one call.                                                *)

\* What the client asked of a tool, and what the SDK let through.
Asked(tool, op, in) ==
    /\ IsOperation(op) /\ tool = buildTool(op)
    /\ tool.input.required \subseteq DOMAIN in
    /\ call = [kind |-> "tool", tool |-> tool, in |-> in, request |-> Execute(tool, in)]

LEMMA CallFields ==
    ASSUME NEW tool, NEW op, NEW in, Asked(tool, op, in)
    PROVE  /\ call.tool.op = op /\ call.in = in
           /\ call.request.path = Join(Filled(op, in))
           /\ call.request.query = Placed(collectParams(op), "query", withV1QueryAliases(in))
           /\ call.request.header = Placed(collectParams(op), "header", in)
           /\ call.request.body = IF op.body /\ Given(in, "payload") THEN <<in["payload"]>> ELSE None
           /\ buildToolInputSchema(op).required \subseteq DOMAIN in
  BY DEF Asked, Execute, buildTool

LEMMA PathSent ==
    ASSUME NEW tool, NEW op, NEW in, Asked(tool, op, in), Transportable
    PROVE  /\ Len(call.request.path) = Len(op.path)
           /\ \A i \in DOMAIN op.path : call.request.path[i].text =
                  IF op.path[i].param THEN in[op.path[i].text].text ELSE op.path[i].text
<1> DEFINE path == op.path
           filled == Filled(op, in)
           Good(m) == in[m].kind # "null" /\ (m \in pathParamNames(op) => in[m].text \notin Dots)
<1>1. /\ path \in Seq([text : STRING, param : BOOLEAN])
      /\ \A i \in DOMAIN path : ~path[i].param => path[i].text \notin Dots
  BY DEF Asked, IsOperation
<1>2. \A m \in DOMAIN in : Good(m)
  <2>1. call.in = in /\ call.tool.op = op
    BY CallFields
  <2> QED BY <2>1 DEF Transportable
<1>3. \A i \in DOMAIN path : path[i].param => path[i].text \in pathParamNames(op) /\ path[i].text \in DOMAIN in
  BY CallFields, PlaceholdersRequired
<1>4. filled = [i \in DOMAIN path |->
          LET s == path[i]
          IN IF s.param /\ Given(in, s.text) THEN Segment(in[s.text])
             ELSE [text |-> s.text, param |-> s.param, escaped |-> 0]]
  BY DEF Filled
<1> HIDE DEF path, filled
<1>5. DOMAIN path = 1 .. Len(path) /\ Len(path) \in Nat
  BY <1>1
<1>6. ASSUME NEW i \in DOMAIN path
      PROVE  /\ filled[i].text = IF path[i].param THEN in[path[i].text].text ELSE path[i].text
             /\ ~filled[i].param => filled[i].text \notin Dots
  <2>1. CASE path[i].param
    <3>1. Given(in, path[i].text) /\ in[path[i].text].text \notin Dots
      BY <1>2, <1>3, <2>1 DEF Given
    <3> QED BY <1>4, <2>1, <3>1 DEF Segment
  <2>2. CASE ~path[i].param
    BY <1>1, <1>4, <2>2
  <2> QED BY <2>1, <2>2
<1>7. filled \in Seq(Range(filled)) /\ Len(filled) = Len(path) /\ DOMAIN filled = 1 .. Len(filled)
  <2>1. DOMAIN filled = 1 .. Len(path)
    BY <1>4, <1>5
  <2>2. filled = [i \in 1 .. Len(path) |-> filled[i]]
    BY <1>4, <1>5
  <2>3. \A i \in 1 .. Len(path) : filled[i] \in Range(filled)
    BY <2>1 DEF Range
  <2> QED BY <1>5, <2>1, <2>2, <2>3
<1>8. Join(filled) = filled
  BY <1>5, <1>6, <1>7, JoinKeeps
<1>9. call.request.path = filled
  BY <1>8, CallFields DEF filled
<1> QED
  BY <1>6, <1>7, <1>9 DEF path

\* What is put in the query or in the headers, by the names the document has.
Names(op, where) == {p.name : p \in {q \in Range(Refs(op)) : q.in = where}}

Items(op, where, in) == {[name |-> n, text |-> in[n].text] : n \in {m \in Names(op, where) : Given(in, m)}}

LEMMA NamesPlaced ==
    ASSUME NEW op, NEW where, where # "path", NEW in
    PROVE  Placed(collectParams(op), where, in) = Items(op, where, in)
<1> DEFINE Item(n) == [name |-> n, text |-> in[n].text]
           params == {q \in collectParams(op) : q.in = where /\ Given(in, q.name)}
<1>1. ASSUME NEW q \in params
      PROVE  q.name \in Names(op, where) /\ Given(in, q.name)
  <2>1. q \in collectParams(op) /\ q.in = where /\ Given(in, q.name)
    OBVIOUS
  <2>2. PICK p \in Range(Refs(op)) : q = [name |-> p.name, in |-> p.in]
    BY <2>1 DEF collectParams
  <2> QED BY <2>1, <2>2 DEF Names
<1>2. ASSUME NEW n \in Names(op, where), Given(in, n)
      PROVE  \E q \in params : q.name = n
  <2>1. PICK p \in Range(Refs(op)) : p.in = where /\ p.name = n
    BY <1>2 DEF Names
  <2>2. [name |-> p.name, in |-> p.in] \in collectParams(op)
    BY DEF collectParams
  <2> QED BY <1>2, <2>1, <2>2
<1>3. Placed(collectParams(op), where, in) = {Item(q.name) : q \in params}
  BY DEF Placed
<1> HIDE DEF params, Item
<1>4. {Item(q.name) : q \in params} = {Item(n) : n \in {m \in Names(op, where) : Given(in, m)}}
  BY <1>1, <1>2
<1> QED
  BY <1>3, <1>4 DEF Item, Items

---------------------------------------------------------------------------
(* The query, with the two names of limit and of page.                     *)

LEMMA QuerySent ==
    ASSUME NEW tool, NEW op, NEW in, Asked(tool, op, in), Transportable
    PROVE  call.request.query =
               {[name |-> n, text |-> call.in[Argument(n)].text] :
                   n \in {m \in Declared("query") : Argument(m) \in DOMAIN call.in}}
<1> DEFINE in2 == withV1QueryAliases(in)
           Arg(n) == IF n \in DOMAIN in \/ n \notin {"limit", "page"} THEN n ELSE AliasOf(n)
<1>1. call.in = in /\ Declared("query") = Names(op, "query")
  BY CallFields DEF Declared, Names
<1>2. \A n \in DOMAIN in : in[n].kind # "null"
  BY <1>1 DEF Transportable
<1>3. \A n : Argument(n) = Arg(n)
  BY <1>1 DEF Argument
<1>4. \A n : Given(in2, n) <=> Arg(n) \in DOMAIN in
  BY <1>2 DEF Given, withV1QueryAliases, AliasOf
<1>5. \A n : Given(in2, n) => in2[n] = in[Arg(n)]
  BY <1>2 DEF Given, withV1QueryAliases, AliasOf
<1>6. call.request.query =
          {[name |-> n, text |-> in2[n].text] : n \in {m \in Names(op, "query") : Given(in2, m)}}
  <2>1. Placed(collectParams(op), "query", in2) = Items(op, "query", in2)
    BY NamesPlaced, "query" # "path"
  <2> QED BY <2>1, CallFields DEF Items
<1> HIDE DEF in2, Arg
<1>7. {[name |-> n, text |-> in2[n].text] : n \in {m \in Names(op, "query") : Given(in2, m)}}
      = {[name |-> n, text |-> in[Arg(n)].text] : n \in {m \in Names(op, "query") : Arg(m) \in DOMAIN in}}
  BY <1>4, <1>5
<1> QED
  BY <1>1, <1>3, <1>6, <1>7

LEMMA RestSent ==
    ASSUME NEW tool, NEW op, NEW in, Asked(tool, op, in), Transportable
    PROVE  /\ {n \in Declared("header") : n \in DOMAIN call.in} = {h.name : h \in call.request.header}
           /\ op.payload # None /\ "payload" \in DOMAIN call.in => call.request.body = <<call.in["payload"]>>
<1>1. call.in = in /\ Declared("header") = Names(op, "header")
  BY CallFields DEF Declared, Names
<1>2. \A n \in DOMAIN in : in[n].kind # "null"
  BY <1>1 DEF Transportable
<1>3. call.request.header =
          {[name |-> n, text |-> in[n].text] : n \in {m \in Names(op, "header") : Given(in, m)}}
  <2>1. Placed(collectParams(op), "header", in) = Items(op, "header", in)
    BY NamesPlaced, "header" # "path"
  <2> QED BY <2>1, CallFields DEF Items
<1>4. \A n : Given(in, n) <=> n \in DOMAIN in
  BY <1>2 DEF Given
<1>5. op.payload # None => op.body
  BY DEF Asked, IsOperation
<1>6. {h.name : h \in call.request.header} = {n \in Names(op, "header") : n \in DOMAIN in}
  <2> DEFINE Item(n) == [name |-> n, text |-> in[n].text]
             given == {m \in Names(op, "header") : m \in DOMAIN in}
  <2>1. call.request.header = {Item(n) : n \in given}
    BY <1>3, <1>4
  <2>2. \A n \in given : Item(n).name = n
    OBVIOUS
  <2> HIDE DEF Item, given
  <2>3. {h.name : h \in call.request.header} = given
    BY <2>1, <2>2
  <2> QED BY <2>3 DEF given
<1> QED
  BY <1>1, <1>4, <1>5, <1>6, CallFields

---------------------------------------------------------------------------
(* The registered tools, and the theorem.                                  *)

\* A registered tool was built from an operation of the document.
ToolsBuilt ==
    \A name \in DOMAIN tools :
        \E api \in Apis : \E i \in DOMAIN api.ops : tools[name] = buildTool(api.ops[i])

\* A tool is called with arguments that its input schema accepts.
CalledWell == stage = "called" => \E tool, op, in : Asked(tool, op, in)

LEMMA RegisteredBuilt ==
    ASSUME NEW S, NEW ops \in Seq(S), NEW m, NEW skip
    PROVE  LET registered == RegisterAllTools(ops, m, skip)
           IN \A name \in DOMAIN registered : \E i \in DOMAIN ops : registered[name] = buildTool(ops[i])
<1> DEFINE kept == {i \in DOMAIN ops : /\ ~isInternalAuthTool(ops[i])
                                       /\ ~(skip /\ ops[i].deprecated)
                                       /\ IsAllowed(m, ops[i])}
           Sharing(n) == {i \in kept : ops[i].id = n}
           names == {ops[i].id : i \in kept}
           Winner(n) == CHOOSE i \in Sharing(n) : \A j \in Sharing(n) : j <= i
<1>1. Len(ops) \in Nat /\ kept \in SUBSET (0 .. Len(ops)) /\ kept \in SUBSET DOMAIN ops
  OBVIOUS
<1>2. RegisterAllTools(ops, m, skip) = [n \in names |-> buildTool(ops[Winner(n)])]
  BY DEF RegisterAllTools
<1> HIDE DEF kept
<1>3. ASSUME NEW n \in names PROVE Winner(n) \in DOMAIN ops
  <2>1. Sharing(n) \in SUBSET (0 .. Len(ops)) /\ Sharing(n) # {} /\ Sharing(n) \in SUBSET DOMAIN ops
    BY <1>1
  <2> HIDE DEF Sharing
  <2>2. \E i \in Sharing(n) : \A j \in Sharing(n) : j <= i
    BY <1>1, <2>1, Greatest
  <2>3. Winner(n) \in Sharing(n)
    BY <2>2
  <2> QED BY <2>1, <2>3
<1> HIDE DEF names, Winner
<1> QED
  BY <1>2, <1>3

ToolInv == ToolsBuilt /\ CalledWell

LEMMA RegisterKeeps == ASSUME ToolInv, RegisterTools PROVE ToolInv'
<1>1. PICK api \in Apis : tools' = RegisterAllTools(api.ops, api.matcher, api.skipDeprecated)
  BY DEF RegisterTools
<1>2. api.ops \in Seq(Range(api.ops))
  BY DocumentAssumption
<1>3. ToolsBuilt'
  BY <1>1, <1>2, RegisteredBuilt DEF ToolsBuilt
<1>4. CalledWell'
  BY DEF CalledWell, RegisterTools
<1> QED
  BY <1>3, <1>4 DEF ToolInv

LEMMA CallKeeps == ASSUME ToolInv, CallGeneric PROVE ToolInv'
<1>1. PICK name \in DOMAIN tools : \E in \in ArgumentsFor(tools[name].op) : CallTool(name, in)
  BY DEF CallGeneric
<1>2. PICK in \in ArgumentsFor(tools[name].op) : CallTool(name, in)
  BY <1>1
<1>3. PICK api \in Apis : \E i \in DOMAIN api.ops : tools[name] = buildTool(api.ops[i])
  BY DEF ToolInv, ToolsBuilt
<1>4. PICK i \in DOMAIN api.ops : tools[name] = buildTool(api.ops[i])
  BY <1>3
<1> DEFINE op == api.ops[i]
<1>5. IsOperation(op)
  BY DocumentAssumption
<1>6. tools[name].op = op /\ tools[name].input = buildToolInputSchema(op)
  BY <1>4 DEF buildTool
<1>7. tools[name].input.required \subseteq DOMAIN in
  <2>1. Accepts(buildToolInputSchema(op), in) /\ in \in ArgumentsFor(op)
    BY <1>2, <1>6 DEF CallTool
  <2> QED BY <1>6, <2>1, SDKAssumption
<1>8. Asked(tools[name], op, in)'
  BY <1>2, <1>4, <1>5, <1>7 DEF Asked, CallTool
<1>9. ToolsBuilt'
  BY <1>2 DEF CallTool, ToolInv, ToolsBuilt
<1> QED
  BY <1>8, <1>9 DEF ToolInv, CalledWell

(* Every argument that the schema accepts and that a request can carry     *)
(* reaches ZenTao in the place the document declares for it, whatever the  *)
(* document and the arguments (build_input.go, execute.go).                *)
THEOREM ArgumentsAlwaysSent == RequestSpec => []ArgumentsSent
<1>1. NotServing => ToolInv
  BY DEF NotServing, ToolInv, ToolsBuilt, CalledWell, Nothing
<1>2. ToolInv /\ [RegisterTools \/ CallGeneric \/ OtherSteps]_<<exchange, tools>> => ToolInv'
  <2> SUFFICES ASSUME ToolInv, [RegisterTools \/ CallGeneric \/ OtherSteps]_<<exchange, tools>>
               PROVE  ToolInv'
    OBVIOUS
  <2>1. CASE RegisterTools
    BY <2>1, RegisterKeeps
  <2>2. CASE CallGeneric
    BY <2>2, CallKeeps
  <2>3. CASE OtherSteps
    BY <2>3 DEF OtherSteps, ToolInv, ToolsBuilt, CalledWell
  <2>4. CASE UNCHANGED <<exchange, tools>>
    BY <2>4 DEF ToolInv, ToolsBuilt, CalledWell, Asked, exchange
  <2> QED
    BY <2>1, <2>2, <2>3, <2>4
<1>3. ToolInv => ArgumentsSent
  <2> SUFFICES ASSUME ToolInv, stage = "called", Transportable PROVE ArgumentsSent
    BY DEF ArgumentsSent
  <2>1. PICK tool, op, in : Asked(tool, op, in)
    BY DEF ToolInv, CalledWell
  <2>2. call.tool.op = op /\ call.in = in
    BY <2>1, CallFields
  <2> QED
    BY <2>1, <2>2, PathSent, QuerySent, RestSent DEF ArgumentsSent
<1> QED
  BY <1>1, <1>2, <1>3, PTL DEF RequestSpec

---------------------------------------------------------------------------
(* Related bugs.                                                           *)

LEMMA FirstFacts ==
    ASSUME NEW S, NEW s \in Seq(S), NEW n \in Nat
    PROVE  /\ FirstN(s, n) \in Seq(S) /\ Len(FirstN(s, n)) <= n
           /\ Range(FirstN(s, n)) \subseteq Range(s)
           /\ IsInjective(s) => IsInjective(FirstN(s, n))
           /\ n > 0 /\ FirstN(s, n) = <<>> => s = <<>>
<1> DEFINE m == IF Len(s) < n THEN Len(s) ELSE n
           part == SubSeq(s, 1, m)
<1>1. Len(s) \in Nat /\ m \in 0 .. Len(s) /\ m <= n
  OBVIOUS
<1>2. /\ part \in Seq(S) /\ Len(part) = IF 1 <= m THEN m - 1 + 1 ELSE 0
      /\ Range(part) \subseteq Range(s) /\ (IsInjective(s) => IsInjective(part))
  <2> HIDE DEF m
  <2> QED BY <1>1, PartFacts
<1>3. n > 0 /\ part = <<>> => s = <<>>
  <2>1. part = <<>> => Len(part) = 0
    OBVIOUS
  <2>2. n > 0 /\ Len(s) # 0 => 1 <= m
    BY <1>1
  <2>3. n > 0 /\ part = <<>> => Len(s) = 0
    <3> HIDE DEF part
    <3> QED BY <1>1, <1>2, <2>1, <2>2
  <2>4. Len(s) = 0 => s = <<>>
    OBVIOUS
  <2> QED BY <2>3, <2>4
<1>4. Len(part) <= n
  BY <1>1, <1>2
<1> QED
  BY <1>2, <1>3, <1>4 DEF FirstN

\* The place of an element in a set that R orders.
Place(S, R, x) == Cardinality({y \in S : y = x \/ <<y, x>> \in R})

\* A total order of a finite set gives each place to one element.
LEMMA PlacesTaken ==
    ASSUME NEW S, IsFiniteSet(S), NEW R,
           \A x \in S : <<x, x>> \notin R,
           \A x, y, z \in S : <<x, y>> \in R /\ <<y, z>> \in R => <<x, z>> \in R,
           \A x, y \in S : x = y \/ <<x, y>> \in R \/ <<y, x>> \in R
    PROVE  /\ Cardinality(S) \in Nat
           /\ \A k \in 1 .. Cardinality(S) : \E x \in S : Place(S, R, x) = k
<1> DEFINE n == Cardinality(S)
           Upto(x) == {y \in S : y = x \/ <<y, x>> \in R}
           p == [x \in S |-> Place(S, R, x)]
<1>1. n \in Nat
  BY FS_CardinalityType
<1>2. \A x \in S : /\ Upto(x) \in SUBSET S /\ x \in Upto(x) /\ IsFiniteSet(Upto(x))
                   /\ Cardinality(Upto(x)) \in 1 .. n
  <2> SUFFICES ASSUME NEW x \in S
               PROVE  /\ Upto(x) \in SUBSET S /\ x \in Upto(x) /\ IsFiniteSet(Upto(x))
                      /\ Cardinality(Upto(x)) \in 1 .. n
    OBVIOUS
  <2>1. Upto(x) \in SUBSET S /\ x \in Upto(x)
    OBVIOUS
  <2> HIDE DEF Upto
  <2>2. IsFiniteSet(Upto(x)) /\ Cardinality(Upto(x)) <= n
    BY <2>1, FS_Subset
  <2>3. Cardinality(Upto(x)) \in Nat /\ Cardinality(Upto(x)) # 0
    BY <2>1, <2>2, FS_CardinalityType, FS_EmptySet
  <2> QED BY <1>1, <2>1, <2>2, <2>3
<1>3. ASSUME NEW x \in S, NEW y \in S, <<x, y>> \in R
      PROVE  Cardinality(Upto(x)) # Cardinality(Upto(y))
  <2>1. Upto(x) \in SUBSET Upto(y) /\ y \in Upto(y) /\ y \notin Upto(x)
    BY <1>3
  <2> HIDE DEF Upto
  <2> QED BY <1>2, <2>1, FS_Subset
<1>4. p \in [S -> 1 .. n] /\ \A x \in S : p[x] = Cardinality(Upto(x))
  BY <1>2 DEF Place
<1> HIDE DEF p, Upto
<1>5. p \in Injection(S, 1 .. n)
  <2>1. \A x, y \in S : p[x] = p[y] => x = y
    BY <1>3, <1>4
  <2> QED BY <1>4, <2>1 DEF Injection, IsInjective
<1>6. IsFiniteSet(1 .. n) /\ Cardinality(1 .. n) = n
  BY <1>1, FS_Interval
<1>7. p \in Surjection(S, 1 .. n)
  BY <1>5, <1>6, FS_Injection
<1>8. \A k \in 1 .. n : \E x \in S : p[x] = k
  BY <1>7 DEF Surjection
<1> QED
  BY <1>1, <1>8 DEF p

\* The scan's candidates come each once.
LEMMA RankedFacts ==
    ASSUME NEW bugs, IsFiniteSet(bugs), \A b \in bugs : IsBug(b), \A a, b \in bugs : a.id = b.id => a = b
    PROVE  LET ranked == NearestFirst(bugs)
               ids    == [k \in DOMAIN ranked |-> ranked[k].id]
           IN  /\ ids \in Seq({b.id : b \in bugs}) /\ IsInjective(ids)
<1> DEFINE n == Cardinality(bugs)
           ranked == NearestFirst(bugs)
           ids == [k \in DOMAIN ranked |-> ranked[k].id]
           R == {p \in bugs \X bugs : Nearer(p[1], p[2])}
<1>1. \A b \in bugs : b.id \in Int /\ b.similar \in Int
  BY DEF IsBug
<1>2. \A a, b \in bugs : <<a, b>> \in R <=> Nearer(a, b)
  OBVIOUS
<1>3. \A a \in bugs : ~Nearer(a, a)
  BY <1>1 DEF Nearer
<1>4. \A a, b, c \in bugs : Nearer(a, b) /\ Nearer(b, c) => Nearer(a, c)
  BY <1>1 DEF Nearer
<1>5. \A a, b \in bugs : a = b \/ Nearer(a, b) \/ Nearer(b, a)
  BY <1>1 DEF Nearer
<1> HIDE DEF R
<1>6. n \in Nat /\ \A k \in 1 .. n : \E b \in bugs : Place(bugs, R, b) = k
  BY <1>2, <1>3, <1>4, <1>5, PlacesTaken
<1>7. \A b \in bugs : Place(bugs, R, b) = Cardinality({c \in bugs : c = b \/ Nearer(c, b)})
  <2> SUFFICES ASSUME NEW b \in bugs
               PROVE  {c \in bugs : c = b \/ <<c, b>> \in R} = {c \in bugs : c = b \/ Nearer(c, b)}
    BY DEF Place
  <2> QED BY <1>2
<1>8. ranked = [k \in 1 .. n |-> CHOOSE b \in bugs : Place(bugs, R, b) = k]
  BY <1>7 DEF NearestFirst
<1>9. \A k \in 1 .. n : ranked[k] \in bugs /\ Place(bugs, R, ranked[k]) = k
  BY <1>6, <1>8
<1>10. DOMAIN ranked = 1 .. n
  BY <1>8
<1> HIDE DEF ranked, n
<1>11. \A k \in 1 .. n : ids[k] = ranked[k].id /\ ids[k] \in {b.id : b \in bugs}
  BY <1>9, <1>10
<1>12. ids \in Seq({b.id : b \in bugs})
  BY <1>6, <1>10, <1>11
<1>13. \A k, l \in 1 .. n : ids[k] = ids[l] => k = l
  BY <1>9, <1>11
<1>14. DOMAIN ids = 1 .. n
  BY <1>10
<1> QED
  BY <1>12, <1>13, <1>14 DEF IsInjective, ranked

\* What ZenTao has shown to the caller: in a detail, or in the product's list.
ShownInDetail(view) == {id \in DOMAIN view.reads : \E b \in Detail(view, id) : b.id = id}
ShownInList(view)   == UNION {{b.id : b \in Range(l.bugs)} : l \in view.list}

\* The index only names candidates.
LEMMA IndexVerified ==
    ASSUME NEW view, IsView(view), NEW bug, NEW limit \in Nat
    PROVE  LET ids == relatedFromIndex(bug, view, limit)
           IN  /\ IsInjective(ids) /\ ids \in Seq(Int) /\ Len(ids) <= limit
               /\ Range(ids) \subseteq ShownInDetail(view) \ {bug.id}
<1> DEFINE served == FirstN(view.hits, MaxHits)
           hits == FirstN(served, limit * OverFetch)
           others == {i \in DOMAIN hits : hits[i] # bug.id}
           ids == Pick(hits, others)
           read == {i \in DOMAIN ids : \E r \in Detail(view, ids[i]) : r.id = ids[i]}
           kept == Pick(ids, read)
<1>1. limit * OverFetch \in Nat /\ view.hits \in Seq(Int) /\ IsInjective(view.hits)
  BY BugInsightsAssumption DEF IsView
<1>2. hits \in Seq(Int) /\ IsInjective(hits)
  <2>1. served \in Seq(Int) /\ IsInjective(served)
    BY <1>1, BugInsightsAssumption, FirstFacts
  <2> HIDE DEF served
  <2> QED BY <1>1, <2>1, FirstFacts
<1> HIDE DEF hits
<1>3. others \in SUBSET (1 .. Len(hits)) /\ \A i \in others : hits[i] # bug.id
  BY <1>2
<1> HIDE DEF others
<1>4. ids \in Seq(Int) /\ IsInjective(ids) /\ Range(ids) = {hits[i] : i \in others}
  BY <1>2, <1>3, PickFacts
<1>5. bug.id \notin Range(ids)
  BY <1>3, <1>4
<1>6. ids = Candidates(bug, view, limit)
  BY DEF Candidates, hits, served, others
<1> HIDE DEF ids
<1>7. read \in SUBSET (1 .. Len(ids)) /\ \A i \in read : \E r \in Detail(view, ids[i]) : r.id = ids[i]
  BY <1>4
<1>8. \A i \in read : ids[i] \in ShownInDetail(view) /\ ids[i] \in Range(ids)
  BY <1>7 DEF ShownInDetail, Detail, Range
<1>9. relatedFromIndex(bug, view, limit) = FirstN(kept, limit)
  BY <1>6 DEF relatedFromIndex
<1> HIDE DEF read
<1>10. kept \in Seq(Int) /\ IsInjective(kept) /\ Range(kept) = {ids[i] : i \in read}
  BY <1>4, <1>7, PickFacts
<1>11. Range(kept) \subseteq ShownInDetail(view) \ {bug.id}
  BY <1>5, <1>8, <1>10
<1> HIDE DEF kept
<1>12. FirstN(kept, limit) \in Seq(Int) /\ IsInjective(FirstN(kept, limit)) /\ Len(FirstN(kept, limit)) <= limit
       /\ Range(FirstN(kept, limit)) \subseteq Range(kept)
  BY <1>10, FirstFacts
<1> QED
  BY <1>9, <1>11, <1>12

LEMMA ScanListed ==
    ASSUME NEW view, IsView(view), NEW list \in view.list, NEW bug, NEW limit \in Nat
    PROVE  LET ids == relatedFromScan(bug, list.bugs, limit)
           IN  /\ IsInjective(ids) /\ Len(ids) <= limit
               /\ Range(ids) \subseteq ShownInList(view) \ {bug.id}
<1> DEFINE bugs == Range(list.bugs)
           found == {b \in bugs : /\ b.id # bug.id /\ b.id > 0
                                  /\ b.similar > 0 \/ (bug.module > 0 /\ b.module = bug.module)}
           ranked == NearestFirst(found)
           all == [k \in DOMAIN ranked |-> ranked[k].id]
<1>1. /\ list.bugs \in Seq(bugs) /\ \A b \in bugs : IsBug(b)
      /\ \A i, j \in DOMAIN list.bugs : list.bugs[i].id = list.bugs[j].id => i = j
  BY DEF IsView
<1>2. IsFiniteSet(bugs)
  BY <1>1, RangeFacts
<1>3. \A a, b \in bugs : a.id = b.id => a = b
  BY <1>1 DEF Range
<1>4. \A b \in bugs : b.id \in ShownInList(view)
  BY DEF ShownInList
<1>5. found \in SUBSET bugs /\ \A b \in found : b.id # bug.id
  OBVIOUS
<1>6. relatedFromScan(bug, list.bugs, limit) = FirstN(all, limit)
  BY DEF relatedFromScan
<1> HIDE DEF bugs, found
<1>7. IsFiniteSet(found)
  BY <1>2, <1>5, FS_Subset
<1>8. all \in Seq({b.id : b \in found}) /\ IsInjective(all)
  BY <1>1, <1>3, <1>5, <1>7, RankedFacts
<1> HIDE DEF all
<1>9. Range(all) \subseteq {b.id : b \in found}
  BY <1>8 DEF Range
<1>10. IsInjective(FirstN(all, limit)) /\ Len(FirstN(all, limit)) <= limit
       /\ Range(FirstN(all, limit)) \subseteq Range(all)
  BY <1>8, FirstFacts
<1> QED
  BY <1>4, <1>5, <1>6, <1>9, <1>10

LEMMA EmptyFacts == IsInjective(<<>>) /\ Range(<<>>) = {} /\ Len(<<>>) = 0
  BY DEF IsInjective, Range

LEMMA RelatedFacts ==
    ASSUME NEW view, IsView(view), NEW bug, NEW asked \in Nat
    PROVE  LET related == relatedBugs(bug, view, asked)
           IN  /\ IsInjective(related.ids)
               /\ Range(related.ids) \subseteq (ShownInDetail(view) \cup ShownInList(view)) \ {bug.id}
               /\ Len(related.ids) <= (IF asked > 0 THEN asked ELSE RelatedLimit)
               /\ related.ids = <<>> /\ view.list = {} => related.told
<1> DEFINE most == IF asked > 0 THEN asked ELSE RelatedLimit
           limit == ClampTo(IF asked <= 0 THEN RelatedLimit ELSE asked, 1, MaxRelated)
           indexed == IF view.ready THEN relatedFromIndex(bug, view, limit) ELSE <<>>
           list == CHOOSE l \in view.list : TRUE
           related == relatedBugs(bug, view, asked)
           Fine(ids) == /\ IsInjective(ids) /\ Len(ids) <= most
                        /\ Range(ids) \subseteq (ShownInDetail(view) \cup ShownInList(view)) \ {bug.id}
<1>1. limit \in Nat /\ limit <= most /\ most \in Nat
  BY BugInsightsAssumption DEF ClampTo
<1>2. related = IF bug.product <= 0 THEN [ids |-> <<>>, told |-> TRUE]
                ELSE IF indexed # <<>> THEN [ids |-> indexed, told |-> FALSE]
                ELSE IF view.list = {} THEN [ids |-> <<>>, told |-> TRUE]
                ELSE [ids  |-> relatedFromScan(bug, list.bugs, limit), told |-> list.truncated]
  BY DEF relatedBugs
<1> HIDE DEF limit, most
<1>3. Fine(<<>>)
  BY <1>1, EmptyFacts
<1>4. Fine(indexed)
  <2>1. CASE view.ready
    <3>1. /\ IsInjective(indexed) /\ indexed \in Seq(Int) /\ Len(indexed) <= limit
          /\ Range(indexed) \subseteq ShownInDetail(view) \ {bug.id}
      BY <1>1, <2>1, IndexVerified
    <3>2. Len(indexed) \in Nat
      BY <3>1
    <3> QED BY <1>1, <3>1, <3>2
  <2>2. CASE ~view.ready
    BY <1>3, <2>2
  <2> QED BY <2>1, <2>2
<1>5. ASSUME view.list # {} PROVE Fine(relatedFromScan(bug, list.bugs, limit))
  <2> DEFINE ids == relatedFromScan(bug, list.bugs, limit)
  <2>1. list \in view.list
    BY <1>5
  <2> HIDE DEF list
  <2>2. IsInjective(ids) /\ Len(ids) <= limit /\ Range(ids) \subseteq ShownInList(view) \ {bug.id}
    BY <1>1, <2>1, ScanListed
  <2> QED BY <1>1, <2>2
<1> HIDE DEF indexed, list, Fine
<1>6. Fine(related.ids)
  BY <1>2, <1>3, <1>4, <1>5
<1>7. related.ids = <<>> /\ view.list = {} => related.told
  BY <1>2
<1> QED
  BY <1>6, <1>7 DEF Fine, most

\* The answer is the packet of the bug that ZenTao returned for the id.
LEMMA AnalysisAnswered ==
    ASSUME NEW view \in Views, NEW id, NEW rl \in Limits, NEW cl \in Limits,
           Analyse(view, id, rl, cl), stage' = "answered"
    PROVE  /\ call' = [kind |-> "analysis", view |-> view, id |-> id, limit |-> rl]
           /\ \E bug \in Detail(view, id) :
                  /\ answer' = Packet(bug, view, TRUE, rl, cl)
                  /\ bug = CHOOSE b \in Detail(view, id) : TRUE
                  /\ IsBug(bug)
<1> DEFINE packet == AnalyzeBug(view, id, TRUE, rl, cl)
<1>1. /\ call' = [kind |-> "analysis", view |-> view, id |-> id, limit |-> rl]
      /\ packet # {} /\ answer' = CHOOSE p \in packet : TRUE
  BY DEF Analyse
<1>2. packet = {Packet(bug, view, TRUE, rl, cl) : bug \in Detail(view, id)}
  BY DEF AnalyzeBug
<1> HIDE DEF packet
<1>3. answer' \in packet
  BY <1>1
<1>4. PICK bug \in Detail(view, id) : answer' = Packet(bug, view, TRUE, rl, cl)
  BY <1>2, <1>3
<1>5. id \in DOMAIN view.reads /\ Detail(view, id) = view.reads[id]
  BY DEF Detail
<1>6. IsFiniteSet(Detail(view, id)) /\ Cardinality(Detail(view, id)) <= 1 /\ IsBug(bug)
  BY <1>5, BugToolsAssumption DEF IsView
<1>7. \A b \in Detail(view, id) : b = bug
  <2> DEFINE S == Detail(view, id)
  <2> HIDE DEF S
  <2>1. Cardinality(S \ {bug}) = Cardinality(S) - 1 /\ IsFiniteSet(S \ {bug})
        /\ Cardinality(S \ {bug}) \in Nat /\ Cardinality(S) \in Nat
    BY <1>6, Less, FS_CardinalityType DEF S
  <2>2. Cardinality(S \ {bug}) = 0
    BY <1>6, <2>1 DEF S
  <2>3. S \ {bug} = {}
    BY <2>1, <2>2, FS_EmptySet
  <2> QED BY <2>3 DEF S
<1> QED
  BY <1>1, <1>4, <1>6, <1>7

(* Every related bug of an analysis is another bug that ZenTao has just    *)
(* shown to the caller, listed once and no more of them than asked for,    *)
(* whatever the index holds (analysis.go, relatedBugs).                    *)
THEOREM RelatedReadable == BugToolSpec => []RelatedAreReadable
<1>1. stage = "start" => RelatedAreReadable
  BY DEF RelatedAreReadable
<1>2. RelatedAreReadable /\ [CallBuiltIn \/ GenericSteps]_exchange => RelatedAreReadable'
  <2> SUFFICES ASSUME RelatedAreReadable, [CallBuiltIn \/ GenericSteps]_exchange
               PROVE  RelatedAreReadable'
    OBVIOUS
  <2>1. CASE UNCHANGED exchange
    BY <2>1 DEF RelatedAreReadable, exchange
  <2>2. CASE GenericSteps
    BY <2>2 DEF RelatedAreReadable, GenericSteps
  <2>3. CASE CallBuiltIn
    <3> SUFFICES ASSUME (stage = "answered")', (call.kind = "analysis")'
                 PROVE  RelatedAreReadable'
      BY DEF RelatedAreReadable
    <3>1. PICK view \in Views :
              \/ \E id \in BugIDs, rl, cl \in Limits : Analyse(view, id, rl, cl)
              \/ \E ids \in BoundedSeq(BugIDs, MaxIDs), limit \in Limits \ {0} : Score(view, ids, limit)
      BY <2>3 DEF CallBuiltIn
    <3>2. \A ids, limit : ~Score(view, ids, limit)
      BY DEF Score
    <3>3. PICK id \in BugIDs, rl \in Limits, cl \in Limits : Analyse(view, id, rl, cl)
      BY <3>1, <3>2
    <3>4. PICK bug \in Detail(view, id) :
              answer' = Packet(bug, view, TRUE, rl, cl) /\ bug = CHOOSE b \in Detail(view, id) : TRUE
      BY <3>3, AnalysisAnswered
    <3>5. call' = [kind |-> "analysis", view |-> view, id |-> id, limit |-> rl]
      BY <3>3, AnalysisAnswered
    <3>6. answer'.id = bug.id /\ answer'.related = relatedBugs(bug, view, rl)
      BY <3>4 DEF Packet
    <3>7. rl \in Nat /\ IsView(view)
      BY BugToolsAssumption
    <3>8. /\ IsInjective(answer'.related.ids)
          /\ Range(answer'.related.ids) \subseteq (ShownInDetail(view) \cup ShownInList(view)) \ {answer'.id}
          /\ Len(answer'.related.ids) <= (IF rl > 0 THEN rl ELSE RelatedLimit)
          /\ answer'.related.ids = <<>> /\ view.list = {} => answer'.related.told
      BY <3>6, <3>7, RelatedFacts
    <3>9. call'.view = view /\ call'.limit = rl
      BY <3>5
    <3> QED
      BY <3>8, <3>9 DEF RelatedAreReadable, ShownInDetail, ShownInList
  <2> QED
    BY <2>1, <2>2, <2>3
<1> QED
  BY <1>1, <1>2, PTL DEF BugToolSpec

---------------------------------------------------------------------------
(* The explanation of a fix.                                               *)

\* The comments among the first n actions, and the last of them.
Talk(t, n)     == {i \in 1 .. n : HasComment(t[i])}
LastTalk(t, n) == IF Talk(t, n) = {} THEN NoComment ELSE t[Max(Talk(t, n))].comment

LEMMA MaxTaken ==
    ASSUME NEW n \in Nat, NEW S \in SUBSET (1 .. n), S # {}
    PROVE  Max(S) \in S /\ \A i \in S : i <= Max(S)
<1>1. \E m \in S : \A i \in S : m >= i
  <2>1. S \in SUBSET (0 .. n)
    OBVIOUS
  <2>2. PICK m \in S : \A i \in S : i <= m
    BY <2>1, Greatest
  <2>3. \A i \in S : i \in Int
    OBVIOUS
  <2> QED BY <2>2, <2>3
<1>2. Max(S) \in S /\ \A i \in S : Max(S) >= i
  BY <1>1 DEF Max
<1>3. \A i \in S : i \in Int
  OBVIOUS
<1> HIDE DEF Max
<1> QED BY <1>2, <1>3

LEMMA MinTaken ==
    ASSUME NEW n \in Nat, NEW S \in SUBSET (1 .. n), S # {}
    PROVE  Min(S) \in S /\ \A i \in S : Min(S) <= i
<1>1. \E m \in S : \A i \in S : m <= i
  <2>1. S \in SUBSET Nat
    OBVIOUS
  <2> QED BY <2>1, Least
<1> QED BY <1>1 DEF Min

LEMMA TalkGrows ==
    ASSUME NEW t, NEW n \in Nat \ {0}
    PROVE  Talk(t, n) = IF HasComment(t[n]) THEN Talk(t, n - 1) \cup {n} ELSE Talk(t, n - 1)
<1>1. 1 .. n = (1 .. n - 1) \cup {n}
  OBVIOUS
<1> QED BY <1>1 DEF Talk

LEMMA LastTalkSteps ==
    ASSUME NEW t
    PROVE  /\ LastTalk(t, 0) = NoComment
           /\ \A n \in Nat : LastTalk(t, n) = NoComment <=> Talk(t, n) = {}
           /\ \A n \in Nat \ {0} :
                  LastTalk(t, n) = IF HasComment(t[n]) THEN t[n].comment ELSE LastTalk(t, n - 1)
<1>1. Talk(t, 0) = {}
  BY DEF Talk
<1>2. \A n \in Nat : Talk(t, n) \in SUBSET (1 .. n) /\ \A i \in Talk(t, n) : HasComment(t[i])
  BY DEF Talk
<1>3. ASSUME NEW n \in Nat, Talk(t, n) # {}
      PROVE  LastTalk(t, n) # NoComment
  <2>1. Max(Talk(t, n)) \in Talk(t, n)
    BY <1>2, <1>3, MaxTaken
  <2>2. HasComment(t[Max(Talk(t, n))])
    BY <1>2, <2>1
  <2> QED BY <1>3, <2>2 DEF LastTalk, HasComment
<1>4. ASSUME NEW n \in Nat \ {0}
      PROVE  LastTalk(t, n) = IF HasComment(t[n]) THEN t[n].comment ELSE LastTalk(t, n - 1)
  <2>1. CASE HasComment(t[n])
    <3>1. Talk(t, n) = Talk(t, n - 1) \cup {n}
      BY <2>1, TalkGrows
    <3>2. n \in Talk(t, n) /\ Talk(t, n) \in SUBSET (1 .. n)
      BY <1>2, <3>1
    <3>3. Max(Talk(t, n)) \in 1 .. n /\ n <= Max(Talk(t, n))
      BY <3>2, MaxTaken
    <3>4. Max(Talk(t, n)) = n
      BY <3>3
    <3> QED BY <2>1, <3>2, <3>4 DEF LastTalk
  <2>2. CASE ~HasComment(t[n])
    <3>1. Talk(t, n) = Talk(t, n - 1)
      BY <2>2, TalkGrows
    <3> QED BY <2>2, <3>1 DEF LastTalk
  <2> QED BY <2>1, <2>2
<1> QED
  BY <1>1, <1>3, <1>4 DEF LastTalk

\* One action of the timeline.
Heard(x) == [note |-> x, found |-> FALSE]
Settled(x) == [note |-> x, found |-> TRUE]

LEMMA FoundSet ==
    ASSUME NEW x, NEW f, NEW e
    PROVE  [[note |-> x, found |-> f] EXCEPT !.found = e] = [note |-> x, found |-> e]
  OBVIOUS

LEMMA RemarkSteps ==
    ASSUME NEW x, NEW a
    PROVE  /\ Remark(Settled(x), a) = Settled(x)
           /\ a.name # "resolved" => Remark(Heard(x), a) = Heard(IF HasComment(a) THEN a.comment ELSE x)
           /\ a.name = "resolved" => Remark(Heard(x), a) =
                  IF a.comment # NoComment THEN Settled(a.comment)
                  ELSE IF x # NoComment THEN Settled(x) ELSE Heard(x)
<1>1. Remark(Settled(x), a) = Settled(x)
  BY DEF Remark, Settled
<1>2. CASE a.name = "resolved"
  <2>1. CASE a.comment # NoComment
    BY <1>1, <1>2, <2>1 DEF Remark, Settled, Heard
  <2>2. ASSUME a.comment = NoComment
        PROVE  Remark(Heard(x), a) = [Heard(x) EXCEPT !.found = (x # NoComment)]
    <3>1. Heard(x).found = FALSE /\ Heard(x).note = x
      BY DEF Heard
    <3>2. "resolved" # "commented"
      OBVIOUS
    <3> QED BY <1>2, <2>2, <3>1, <3>2, Zenon DEF Remark
  <2>3. ASSUME x # NoComment PROVE [Heard(x) EXCEPT !.found = (x # NoComment)] = Settled(x)
    <3>1. (x # NoComment) = TRUE
      BY <2>3
    <3>2. [Heard(x) EXCEPT !.found = TRUE] = Settled(x)
      BY FoundSet, Zenon DEF Heard, Settled
    <3> QED BY <3>1, <3>2, Zenon
  <2>4. ASSUME x = NoComment PROVE [Heard(x) EXCEPT !.found = (x # NoComment)] = Heard(x)
    <3>1. (x # NoComment) = FALSE
      BY <2>4
    <3>2. [Heard(x) EXCEPT !.found = FALSE] = Heard(x)
      BY FoundSet, Zenon DEF Heard
    <3> QED BY <3>1, <3>2, Zenon
  <2> QED BY <1>1, <1>2, <2>1, <2>2, <2>3, <2>4
<1>3. CASE a.name = "commented"
  <2>1. CASE a.comment # NoComment
    BY <1>1, <1>3, <2>1 DEF Remark, Settled, Heard, HasComment
  <2>2. CASE a.comment = NoComment
    BY <1>1, <1>3, <2>2 DEF Remark, Settled, Heard, HasComment
  <2> QED BY <2>1, <2>2
<1>4. CASE a.name \notin {"commented", "resolved"}
  BY <1>1, <1>4 DEF Remark, Settled, Heard, HasComment
<1> QED
  BY <1>2, <1>3, <1>4

Hears(t, g) == g = [n \in 0 .. Len(t) |-> IF n = 0 THEN Heard(NoComment) ELSE Remark(g[n - 1], t[n])]

LEMMA RemarksDef ==
    ASSUME NEW t
    PROVE  Remarks(t) = CHOOSE g : Hears(t, g)
  BY DEF Remarks, Hears, Heard

\* The resolution has a remark, or a comment before it.
Explained(t, i) == t[i].name = "resolved" /\ (t[i].comment # NoComment \/ Talk(t, i) # {})

\* The first of them is at; what is known after each action.
Known(t, at, n) ==
    IF n < at THEN Heard(LastTalk(t, n))
    ELSE Settled(IF t[at].comment # NoComment THEN t[at].comment ELSE LastTalk(t, at))

LEMMA KnownSteps ==
    ASSUME NEW t, NEW N \in Nat, NEW at \in 1 .. N + 1, at \in 1 .. N => Explained(t, at),
           \A i \in 1 .. N : i < at => ~Explained(t, i),
           NEW n \in 1 .. N
    PROVE  Known(t, at, n) = Remark(Known(t, at, n - 1), t[n])
<1>1. n \in Nat \ {0} /\ n - 1 \in Nat /\ at \in Nat \ {0} /\ n \in Nat /\ n <= N
  OBVIOUS
<1>2. LastTalk(t, n) = IF HasComment(t[n]) THEN t[n].comment ELSE LastTalk(t, n - 1)
  BY <1>1, LastTalkSteps
<1>3. LastTalk(t, n) = NoComment <=> Talk(t, n) = {}
  BY <1>1, LastTalkSteps
<1>4. CASE n < at
  <2>1. n - 1 < at /\ ~Explained(t, n)
    BY <1>1, <1>4
  <2>2. CASE t[n].name # "resolved"
    BY <1>2, <1>4, <2>1, <2>2, RemarkSteps DEF Known
  <2>3. CASE t[n].name = "resolved"
    <3>1. t[n].comment = NoComment /\ LastTalk(t, n) = NoComment /\ ~HasComment(t[n])
      BY <1>3, <2>1, <2>3 DEF Explained, HasComment
    <3>2. Remark(Heard(NoComment), t[n]) = Heard(NoComment)
      BY <2>3, <3>1, RemarkSteps
    <3> QED BY <1>2, <1>4, <2>1, <3>1, <3>2 DEF Known
  <2> QED BY <2>2, <2>3
<1>5. CASE n = at
  <2>1. t[n].name = "resolved" /\ (t[n].comment # NoComment \/ LastTalk(t, n) # NoComment)
    BY <1>3, <1>5 DEF Explained
  <2>2. ~HasComment(t[n])
    BY <2>1 DEF HasComment
  <2>3. LastTalk(t, n) = LastTalk(t, n - 1) /\ n - 1 < at /\ ~(n < at)
    BY <1>1, <1>2, <1>5, <2>2
  <2>4. Known(t, at, n - 1) = Heard(LastTalk(t, n))
    BY <2>3 DEF Known
  <2>5. Remark(Heard(LastTalk(t, n)), t[n]) =
            IF t[n].comment # NoComment THEN Settled(t[n].comment) ELSE Settled(LastTalk(t, n))
    BY <2>1, RemarkSteps
  <2> QED BY <1>5, <2>3, <2>4, <2>5 DEF Known
<1>6. CASE n > at
  <2>1. ~(n - 1 < at) /\ ~(n < at)
    BY <1>1, <1>6
  <2> QED BY <2>1, RemarkSteps DEF Known
<1> QED
  BY <1>1, <1>4, <1>5, <1>6

LEMMA NoteOfExplained ==
    ASSUME NEW S, NEW t \in Seq(S), NEW at \in 1 .. Len(t) + 1, at \in 1 .. Len(t) => Explained(t, at),
           \A i \in 1 .. Len(t) : i < at => ~Explained(t, i)
    PROVE  resolutionNote(t) = IF Len(t) < at THEN LastTalk(t, Len(t))
                               ELSE IF t[at].comment # NoComment THEN t[at].comment
                               ELSE LastTalk(t, at)
<1> DEFINE N == Len(t)
           h == [n \in 0 .. N |-> Known(t, at, n)]
           g == Remarks(t)
<1>1. N \in Nat /\ at \in 1 .. N + 1
  OBVIOUS
<1> HIDE DEF N
<1>2. 0 \in 0 .. N /\ N \in 0 .. N /\ 0 < at /\ at \in Nat
      /\ \A n \in 1 .. N : n - 1 \in 0 .. N /\ n \in 0 .. N /\ n # 0
  BY <1>1
<1>3. h[0] = Heard(NoComment)
  BY <1>2, LastTalkSteps DEF Known
<1>4. \A n \in 1 .. N : h[n] = Remark(h[n - 1], t[n])
  BY <1>1, <1>2, KnownSteps DEF N
<1>5. h = [n \in 0 .. N |-> IF n = 0 THEN Heard(NoComment) ELSE Remark(h[n - 1], t[n])]
  <2>1. \A n \in 0 .. N : n # 0 => n \in 1 .. N
    BY <1>1
  <2>2. \A n \in 0 .. N : h[n] = IF n = 0 THEN Heard(NoComment) ELSE Remark(h[n - 1], t[n])
    BY <1>3, <1>4, <2>1
  <2> QED BY <2>2
<1>6. h[N] = Known(t, at, N)
  BY <1>2
<1> HIDE DEF h
<1>7. Hears(t, g)
  <2>1. Hears(t, h)
    BY <1>5 DEF Hears, N
  <2> QED BY <2>1, RemarksDef
<1> HIDE DEF g
<1>8. g[0] = h[0] /\ \A n \in 1 .. N : g[n] = Remark(g[n - 1], t[n])
  BY <1>2, <1>3, <1>7 DEF Hears, N
<1>9. StepAlike(g, h, N)
  BY <1>4, <1>8 DEF StepAlike
<1>10. g[N] = h[N]
  <2>1. \A n \in 0 .. N : g[n] = h[n]
    BY <1>1, <1>9, SameSteps
  <2> QED BY <1>2, <2>1
<1>11. resolutionNote(t) = Known(t, at, N).note
  BY <1>6, <1>10 DEF resolutionNote, g, N
<1> QED
  BY <1>11 DEF Known, Heard, Settled, N

---------------------------------------------------------------------------
(* The sums of a score report.                                             *)

\* Subsets that a bijection carries to each other have as many elements.
Carries(f, A, B, P, Q) ==
    /\ IsFiniteSet(A) /\ f \in Bijection(A, B)
    /\ P \in SUBSET A /\ Q \in SUBSET B /\ \A a \in A : a \in P <=> f[a] \in Q

LEMMA AsMany ==
    ASSUME NEW f, NEW A, NEW B, NEW P, NEW Q, Carries(f, A, B, P, Q)
    PROVE  Cardinality(P) = Cardinality(Q)
<1> DEFINE g == [a \in P |-> f[a]]
<1>0. /\ IsFiniteSet(A) /\ f \in Bijection(A, B)
      /\ P \in SUBSET A /\ Q \in SUBSET B /\ \A a \in A : a \in P <=> f[a] \in Q
  BY DEF Carries
<1>1. /\ f \in [A -> B] /\ \A a, b \in A : f[a] = f[b] => a = b
      /\ \A b \in B : \E a \in A : f[a] = b
  BY <1>0 DEF Bijection, Injection, Surjection, IsInjective
<1>2. g \in [P -> Q] /\ (\A a, b \in P : g[a] = g[b] => a = b) /\ \A q \in Q : \E a \in P : g[a] = q
  BY <1>0, <1>1
<1> HIDE DEF g
<1>3. g \in Bijection(P, Q)
  BY <1>2 DEF Bijection, Injection, Surjection, IsInjective
<1>4. IsFiniteSet(P)
  BY <1>0, FS_Subset
<1> QED
  BY <1>3, <1>4, FS_Bijection DEF ExistsBijection

LEMMA AscendingBijection ==
    ASSUME NEW is \in SUBSET Int, IsFiniteSet(is)
    PROVE  /\ Ascending(is) \in Bijection(1 .. Cardinality(is), is)
           /\ Cardinality(is) \in Nat /\ IsFiniteSet(1 .. Cardinality(is))
<1> DEFINE n == Cardinality(is)
           e == Ascending(is)
<1>1. /\ n \in Nat /\ e \in [1 .. n -> is]
      /\ \A k, l \in 1 .. n : k < l => e[k] < e[l]
      /\ \A i \in is : \E k \in 1 .. n : e[k] = i
  BY AscendingFacts
<1> HIDE DEF n, e
<1>2. ASSUME NEW k \in 1 .. n, NEW l \in 1 .. n, e[k] = e[l] PROVE k = l
  <2>1. \A i \in is : i \in Int
    OBVIOUS
  <2>2. e[k] \in Int /\ e[l] \in Int
    BY <1>1, <2>1
  <2>3. ~(k < l) /\ ~(l < k)
    BY <1>1, <1>2, <2>2
  <2> QED BY <1>1, <2>3
<1>3. e \in Bijection(1 .. n, is)
  BY <1>1, <1>2 DEF Bijection, Injection, Surjection, IsInjective
<1>4. IsFiniteSet(1 .. n)
  BY <1>1, FS_Interval
<1> QED
  BY <1>1, <1>3, <1>4 DEF n, e

\* Those of the places is of s that hold an element of W.
OfKind(s, is, W) == {i \in is : s[i] \in W}

LEMMA PickedOfKind ==
    ASSUME NEW S, NEW s \in Seq(S), NEW is \in SUBSET (1 .. Len(s)), NEW W
    PROVE  Cardinality(OfKind(Pick(s, is), DOMAIN Pick(s, is), W)) = Cardinality(OfKind(s, is, W))
<1> DEFINE n == Cardinality(is)
           e == Ascending(is)
           p == Pick(s, is)
<1>1. is \in SUBSET Int /\ IsFiniteSet(is)
  <2>1. Len(s) \in Nat
    OBVIOUS
  <2>2. IsFiniteSet(is)
    BY PickFacts
  <2> QED BY <2>1, <2>2
<1>2. e \in Bijection(1 .. n, is) /\ IsFiniteSet(1 .. n)
  BY <1>1, AscendingBijection
<1>3. DOMAIN e = 1 .. n
  BY <1>2 DEF Bijection, Injection
<1>4. p = [k \in 1 .. n |-> s[e[k]]]
  BY <1>3 DEF Pick
<1> HIDE DEF n, e, p
<1>5. e \in [1 .. n -> is]
  BY <1>2 DEF Bijection, Injection
<1> DEFINE P == {j \in DOMAIN p : p[j] \in W}
           Q == {i \in is : s[i] \in W}
<1>6. \A k \in 1 .. n : k \in P <=> e[k] \in Q
  BY <1>4, <1>5
<1>7. P \in SUBSET (1 .. n) /\ Q \in SUBSET is
  BY <1>4
<1>8. Cardinality(P) = Cardinality(Q)
  <2> HIDE DEF P, Q
  <2>1. Carries(e, 1 .. n, is, P, Q)
    BY <1>2, <1>6, <1>7 DEF Carries
  <2> QED BY <2>1, AsMany
<1> QED
  BY <1>8 DEF p, OfKind

LEMMA StringRankInjective ==
    /\ \A k \in Nat : StringRank(k) \in Int
    /\ \A k, l \in Nat : StringRank(k) = StringRank(l) => k = l
  BY DEF StringRank

\* Keyed actions come each once, in whatever order.
LEMMA KeysInOrder ==
    ASSUME NEW D \in SUBSET Nat, IsFiniteSet(D)
    PROVE  LET order == Ascending({StringRank(k) : k \in D})
               keys  == [i \in DOMAIN order |-> CHOOSE k \in D : StringRank(k) = order[i]]
           IN  \E n \in Nat : /\ DOMAIN order = 1 .. n /\ IsFiniteSet(1 .. n)
                              /\ keys \in Bijection(1 .. n, D)
<1> DEFINE ranks == {StringRank(k) : k \in D}
           r == [k \in D |-> StringRank(k)]
           order == Ascending(ranks)
           n == Cardinality(ranks)
           keys == [i \in DOMAIN order |-> CHOOSE k \in D : StringRank(k) = order[i]]
<1>1. ranks \in SUBSET Int
  BY StringRankInjective
<1>2. r \in Surjection(D, ranks)
  BY DEF Surjection
<1>3. \A q \in ranks : \E k \in D : StringRank(k) = q
  OBVIOUS
<1>4. \A k \in D : StringRank(k) \in ranks
  OBVIOUS
<1> HIDE DEF ranks, r
<1>5. IsFiniteSet(ranks)
  BY <1>2, FS_Surjection
<1>6. order \in Bijection(1 .. n, ranks) /\ n \in Nat /\ IsFiniteSet(1 .. n)
  BY <1>1, <1>5, AscendingBijection
<1> HIDE DEF order, n
<1>7. /\ order \in [1 .. n -> ranks] /\ \A i, j \in 1 .. n : order[i] = order[j] => i = j
      /\ \A q \in ranks : \E i \in 1 .. n : order[i] = q
  BY <1>6 DEF Bijection, Injection, Surjection, IsInjective
<1>8. \A i \in 1 .. n : keys[i] \in D /\ StringRank(keys[i]) = order[i]
  BY <1>3, <1>7
<1>9. DOMAIN keys = 1 .. n /\ DOMAIN order = 1 .. n /\ keys = [i \in 1 .. n |-> keys[i]]
  BY <1>7
<1> HIDE DEF keys
<1>10. keys \in [1 .. n -> D]
  BY <1>8, <1>9
<1>11. \A i, j \in 1 .. n : keys[i] = keys[j] => i = j
  BY <1>7, <1>8
<1>12. \A k \in D : \E i \in 1 .. n : keys[i] = k
  <2> SUFFICES ASSUME NEW k \in D PROVE \E i \in 1 .. n : keys[i] = k
    OBVIOUS
  <2>1. PICK i \in 1 .. n : order[i] = StringRank(k)
    BY <1>4, <1>7
  <2>2. keys[i] \in Nat /\ k \in Nat /\ StringRank(keys[i]) = StringRank(k)
    BY <1>8, <2>1
  <2> QED BY <2>2, StringRankInjective
<1>13. keys \in Bijection(1 .. n, D)
  BY <1>10, <1>11, <1>12 DEF Bijection, Injection, Surjection, IsInjective
<1> QED
  BY <1>6, <1>9, <1>13 DEF keys, order, ranks

\* The timeline holds the actions ZenTao has, as often as it has them.
LEMMA TimelineFacts ==
    ASSUME NEW b, IsBug(b), NEW W
    PROVE  /\ Actions(b) \in Seq(Range(b.actions))
           /\ Cardinality(OfKind(Actions(b), DOMAIN Actions(b), W))
              = Cardinality(OfKind(b.actions, DOMAIN b.actions, W))
<1>1. CASE ~b.keyed
  <2>1. Actions(b) = b.actions /\ b.actions \in Seq(Range(b.actions))
    BY <1>1 DEF Actions, IsBug
  <2> QED BY <2>1
<1>2. CASE b.keyed
  <2> DEFINE D == DOMAIN b.actions
             order == Ascending({StringRank(k) : k \in D})
             keys == [i \in DOMAIN order |-> CHOOSE k \in D : StringRank(k) = order[i]]
             t == Actions(b)
             P == {i \in DOMAIN t : t[i] \in W}
             Q == {k \in D : b.actions[k] \in W}
  <2>1. D \in SUBSET Nat /\ IsFiniteSet(D)
    BY <1>2 DEF IsBug
  <2>2. PICK n \in Nat : DOMAIN order = 1 .. n /\ IsFiniteSet(1 .. n) /\ keys \in Bijection(1 .. n, D)
    BY <2>1, KeysInOrder
  <2>3. t = [i \in DOMAIN order |-> b.actions[keys[i]]]
    <3>1. t = [i \in DOMAIN order |-> b.actions[CHOOSE k \in D : StringRank(k) = order[i]]]
      BY <1>2, Zenon DEF Actions
    <3>2. \A i \in DOMAIN order : keys[i] = CHOOSE k \in D : StringRank(k) = order[i]
      OBVIOUS
    <3> HIDE DEF order, keys, t, D
    <3> QED BY <3>1, <3>2
  <2> HIDE DEF order, keys, t
  <2>4. keys \in [1 .. n -> D]
    BY <2>2 DEF Bijection, Injection
  <2>5. DOMAIN t = 1 .. n /\ \A i \in 1 .. n : t[i] = b.actions[keys[i]] /\ t[i] \in Range(b.actions)
    BY <2>2, <2>3, <2>4 DEF Range
  <2>6. t \in Seq(Range(b.actions))
    BY <2>2, <2>3, <2>5
  <2>7. \A i \in 1 .. n : i \in P <=> keys[i] \in Q
    BY <2>4, <2>5
  <2>8. P \in SUBSET (1 .. n) /\ Q \in SUBSET D
    BY <2>5
  <2> HIDE DEF P, Q, D
  <2>9. Carries(keys, 1 .. n, D, P, Q)
    BY <2>2, <2>7, <2>8 DEF Carries
  <2>10. Cardinality(P) = Cardinality(Q)
    BY <2>9, AsMany
  <2> QED BY <2>6, <2>10 DEF P, Q, D, t, OfKind
<1> QED
  BY <1>1, <1>2

\* What ScoresAddUp counts in one bug.
CommentKeys(b) == {k \in DOMAIN b.actions : b.actions[k].name = "commented"}
ScoredKeys(b)  == {k \in CommentKeys(b) : LET a == b.actions[k]
                      IN (IF a.aiScore # Blank THEN a.aiScore ELSE a.score) \notin {0, Blank}}

LEMMA CommentsCounted ==
    ASSUME NEW b, IsBug(b)
    PROVE  /\ Len(actionInsights(b).comments) = Cardinality(CommentKeys(b))
           /\ actionInsights(b).scored = Cardinality(ScoredKeys(b))
           /\ Cardinality(CommentKeys(b)) \in Nat /\ Cardinality(ScoredKeys(b)) \in Nat
<1> DEFINE t == Actions(b)
           All == Range(b.actions)
           is == {i \in DOMAIN t : t[i].name = "commented"}
           W1 == {a \in All : a.name = "commented"}
           W2 == {a \in All : commentScore(a) # Blank}
           comments == Pick(t, is)
           scores == [i \in DOMAIN comments |-> commentScore(comments[i])]
<1>1. actionInsights(b).comments = comments
      /\ actionInsights(b).scored = Cardinality({i \in DOMAIN comments : scores[i] # Blank})
  BY DEF actionInsights, Named
<1>2. t \in Seq(All)
  BY TimelineFacts
<1>3. DOMAIN t = 1 .. Len(t) /\ \A i \in DOMAIN t : t[i] \in All
  BY <1>2
<1>4. is \in SUBSET (1 .. Len(t)) /\ is = {i \in DOMAIN t : t[i] \in W1}
  BY <1>3
<1>5. \A k \in DOMAIN b.actions : b.actions[k] \in All
  BY DEF Range
<1>6. OfKind(b.actions, DOMAIN b.actions, W1) = CommentKeys(b)
  BY <1>5 DEF CommentKeys, OfKind
<1>7. \A a : commentScore(a) # Blank <=> (IF a.aiScore # Blank THEN a.aiScore ELSE a.score) \notin {0, Blank}
  BY DEF commentScore, Blank
<1>8. OfKind(b.actions, DOMAIN b.actions, W1 \cap W2) = ScoredKeys(b)
  BY <1>5, <1>7 DEF ScoredKeys, CommentKeys, OfKind
<1>9. OfKind(t, is, W2) = OfKind(t, DOMAIN t, W1 \cap W2) /\ is = OfKind(t, DOMAIN t, W1)
  BY <1>4 DEF OfKind
<1> HIDE DEF t, All, is, W1, W2
<1>10. comments \in Seq(All) /\ Len(comments) = Cardinality(is) /\ Range(comments) = {t[i] : i \in is}
       /\ Cardinality(is) \in Nat
  <2>1. Cardinality(is) \in 0 .. Len(t) /\ Len(t) \in Nat
    BY <1>2, <1>4, PickFacts
  <2> QED BY <1>2, <1>4, <2>1, PickFacts
<1>11. {i \in DOMAIN comments : scores[i] # Blank} = OfKind(comments, DOMAIN comments, W2)
  <2>1. DOMAIN comments = 1 .. Len(comments) /\ \A i \in DOMAIN comments : comments[i] \in All
    BY <1>10
  <2> QED BY <2>1 DEF W2, OfKind
<1>12. Cardinality(OfKind(comments, DOMAIN comments, W2)) = Cardinality(OfKind(t, is, W2))
  BY <1>2, <1>4, PickedOfKind
<1>13. Cardinality(OfKind(t, DOMAIN t, W1)) = Cardinality(CommentKeys(b))
  BY <1>6, TimelineFacts DEF t
<1>14. Cardinality(OfKind(t, DOMAIN t, W1 \cap W2)) = Cardinality(ScoredKeys(b))
  BY <1>8, TimelineFacts DEF t
<1>15. IsFiniteSet(ScoredKeys(b)) /\ Cardinality(ScoredKeys(b)) \in Nat
  <2>1. IsFiniteSet(DOMAIN b.actions)
    <3>1. CASE b.keyed
      BY <3>1 DEF IsBug
    <3>2. CASE ~b.keyed
      <4>1. b.actions \in Seq(Range(b.actions))
        BY <3>2 DEF IsBug
      <4>2. DOMAIN b.actions = 1 .. Len(b.actions) /\ Len(b.actions) \in Nat
        BY <4>1
      <4> QED BY <4>2, FS_Interval
    <3> QED BY <3>1, <3>2
  <2>2. ScoredKeys(b) \in SUBSET DOMAIN b.actions
    BY DEF ScoredKeys, CommentKeys
  <2> QED BY <2>1, <2>2, FS_Subset, FS_CardinalityType
<1> QED
  BY <1>1, <1>4, <1>9, <1>10, <1>11, <1>12, <1>13, <1>14, <1>15

LEMMA ScoreItem ==
    ASSUME NEW view, IsView(view), NEW id
    PROVE  LET item == scoreOne(view, id)
               found == Detail(view, id)
           IN  /\ item.scored = Cardinality(UNION {ScoredKeys(b) : b \in found}) /\ item.scored \in Nat
               /\ item.comments = Cardinality(UNION {CommentKeys(b) : b \in found}) /\ item.comments \in Nat
               /\ item.failed = (found = {})
<1> DEFINE item == scoreOne(view, id)
           found == Detail(view, id)
<1>1. CASE found = {}
  <2>1. item = [id |-> id, failed |-> TRUE, comments |-> 0, scored |-> 0]
    BY <1>1 DEF scoreOne
  <2>2. item.scored = 0 /\ item.comments = 0 /\ item.failed = TRUE
    BY <2>1
  <2>3. UNION {ScoredKeys(b) : b \in found} = {} /\ UNION {CommentKeys(b) : b \in found} = {}
    BY <1>1
  <2>4. (found = {}) = TRUE
    BY <1>1
  <2>5. Cardinality({}) = 0
    BY FS_EmptySet
  <2>6. item.failed = (found = {})
    BY <2>2, <2>4, Zenon
  <2> HIDE DEF item, found
  <2> QED BY <2>2, <2>3, <2>5, <2>6 DEF item, found
<1>2. CASE found # {}
  <2> DEFINE bug == CHOOSE b \in found : TRUE
             i == actionInsights(bug)
  <2>1. bug \in found
    BY <1>2
  <2>2. id \in DOMAIN view.reads /\ found = view.reads[id]
    BY <1>2 DEF Detail
  <2>3. IsBug(bug) /\ IsFiniteSet(found) /\ Cardinality(found) <= 1
    BY <2>1, <2>2 DEF IsView
  <2>4. item = [id |-> id, failed |-> FALSE, comments |-> Len(i.comments), scored |-> i.scored]
    BY <1>2 DEF scoreOne
  <2>5. item.scored = i.scored /\ item.comments = Len(i.comments) /\ item.failed = FALSE
    BY <2>4
  <2> HIDE DEF item, bug, found
  <2>6. found = {bug}
    <3>1. Cardinality(found \ {bug}) = Cardinality(found) - 1 /\ IsFiniteSet(found \ {bug})
          /\ Cardinality(found \ {bug}) \in Nat /\ Cardinality(found) \in Nat
      BY <2>1, <2>3, Less, FS_CardinalityType
    <3>2. Cardinality(found \ {bug}) = 0
      BY <2>3, <3>1
    <3>3. found \ {bug} = {}
      BY <3>1, <3>2, FS_EmptySet
    <3> QED BY <2>1, <3>3
  <2>7. UNION {ScoredKeys(b) : b \in found} = ScoredKeys(bug) /\ UNION {CommentKeys(b) : b \in found} = CommentKeys(bug)
    BY <2>6
  <2>8. /\ Len(i.comments) = Cardinality(CommentKeys(bug)) /\ i.scored = Cardinality(ScoredKeys(bug))
        /\ Cardinality(CommentKeys(bug)) \in Nat /\ Cardinality(ScoredKeys(bug)) \in Nat
    BY <2>3, CommentsCounted
  <2>9. item.failed = (found = {})
    <3>1. (found = {}) = FALSE
      BY <1>2
    <3> QED BY <2>5, <3>1, Zenon
  <2> HIDE DEF i
  <2> QED BY <2>5, <2>7, <2>8, <2>9 DEF item, found
<1> QED
  BY <1>1, <1>2

LEMMA FirstPlaces ==
    ASSUME NEW S, NEW s \in Seq(S), NEW n \in Nat
    PROVE  LET m == ClampTo(Len(s), 0, n)
           IN  m \in Nat /\ DOMAIN FirstN(s, n) = 1 .. m /\ \A k \in 1 .. m : FirstN(s, n)[k] = s[k]
<1> DEFINE m == IF Len(s) < n THEN Len(s) ELSE n
<1>1. m = ClampTo(Len(s), 0, n) /\ m \in 0 .. Len(s)
  BY DEF ClampTo
<1>2. FirstN(s, n) = SubSeq(s, 1, m)
  BY DEF FirstN
<1> HIDE DEF m
<1>3. DOMAIN SubSeq(s, 1, m) = 1 .. m /\ \A k \in 1 .. m : SubSeq(s, 1, m)[k] = s[k]
  BY <1>1
<1> QED
  BY <1>1, <1>2, <1>3

AddsUp(view, ids, limit) ==
    LET result == AIScores(view, ids, limit)
        inspected == FirstN(ids, limit)
    IN  /\ result.scored = Total([n \in DOMAIN inspected |->
               Cardinality(UNION {ScoredKeys(b) : b \in Detail(view, inspected[n])})])
        /\ result.scored + result.unscored = Total([n \in DOMAIN inspected |->
               Cardinality(UNION {CommentKeys(b) : b \in Detail(view, inspected[n])})])
        /\ result.objectsWithErrors = Cardinality({n \in DOMAIN inspected : Detail(view, inspected[n]) = {}})

LEMMA ScoresCounted ==
    ASSUME NEW view, IsView(view), NEW S, NEW ids \in Seq(S), NEW limit \in Nat
    PROVE  AddsUp(view, ids, limit)
<1> DEFINE m == ClampTo(Len(ids), 0, limit)
           inspected == FirstN(ids, limit)
           result == AIScores(view, ids, limit)
           items == [n \in 1 .. m |-> scoreOne(view, ids[n])]
           comments == [n \in DOMAIN items |-> items[n].comments]
           scored == [n \in DOMAIN items |-> items[n].scored]
           Scored == [n \in DOMAIN inspected |->
                         Cardinality(UNION {ScoredKeys(b) : b \in Detail(view, inspected[n])})]
           Comments == [n \in DOMAIN inspected |->
                           Cardinality(UNION {CommentKeys(b) : b \in Detail(view, inspected[n])})]
<1>1. m \in Nat /\ DOMAIN inspected = 1 .. m /\ \A n \in 1 .. m : inspected[n] = ids[n]
  BY FirstPlaces
<1>2. /\ result.scored = Total(scored) /\ result.unscored = Total(comments) - Total(scored)
      /\ result.objectsWithErrors = Cardinality({n \in DOMAIN items : items[n].failed})
  BY DEF AIScores
<1>3. DOMAIN items = 1 .. m /\ \A n \in 1 .. m : items[n] = scoreOne(view, inspected[n])
  BY <1>1
<1> HIDE DEF m, inspected, items
<1>4. ASSUME NEW n \in 1 .. m
      PROVE  /\ scored[n] = Scored[n] /\ scored[n] \in Nat
             /\ comments[n] = Comments[n] /\ comments[n] \in Nat
             /\ items[n].failed = (Detail(view, inspected[n]) = {})
  <2> DEFINE item == scoreOne(view, inspected[n])
  <2>1. /\ item.scored = Cardinality(UNION {ScoredKeys(b) : b \in Detail(view, inspected[n])}) /\ item.scored \in Nat
        /\ item.comments = Cardinality(UNION {CommentKeys(b) : b \in Detail(view, inspected[n])}) /\ item.comments \in Nat
        /\ item.failed = (Detail(view, inspected[n]) = {})
    BY ScoreItem
  <2> HIDE DEF item
  <2>2. items[n] = item
    BY <1>3 DEF item
  <2>3. scored[n] = item.scored /\ comments[n] = item.comments
    BY <1>3, <2>2
  <2>4. items[n].failed = (Detail(view, inspected[n]) = {})
    BY <2>1, <2>2, Zenon
  <2> QED BY <1>1, <2>1, <2>3, <2>4
<1>5. DOMAIN scored = 1 .. m /\ DOMAIN comments = 1 .. m /\ DOMAIN Scored = 1 .. m /\ DOMAIN Comments = 1 .. m
  BY <1>1, <1>3
<1>6. {n \in DOMAIN items : items[n].failed} = {n \in DOMAIN inspected : Detail(view, inspected[n]) = {}}
  BY <1>1, <1>3, <1>4
<1>7. IsFiniteSet(1 .. m)
  BY <1>1, FS_Interval
<1> HIDE DEF scored, comments, Scored, Comments, result
<1>8. Total(scored) = Total(Scored) /\ Total(comments) = Total(Comments)
  <2>1. (\A n \in 1 .. m : scored[n] = Scored[n]) /\ \A n \in 1 .. m : comments[n] = Comments[n]
    BY <1>4
  <2>2. SumFunctionOnSet(scored, 1 .. m) = SumFunctionOnSet(Scored, 1 .. m)
    BY <1>7, <2>1, SumSame
  <2>3. SumFunctionOnSet(comments, 1 .. m) = SumFunctionOnSet(Comments, 1 .. m)
    BY <1>7, <2>1, SumSame
  <2> QED BY <1>5, <2>2, <2>3 DEF Total
<1>9. Total(scored) \in Nat /\ Total(comments) \in Nat
  BY <1>4, <1>5, <1>7, SumRemove DEF Total
<1>10. result.scored + result.unscored = Total(comments)
  BY <1>2, <1>9
<1> QED
  BY <1>2, <1>6, <1>8, <1>10 DEF Scored, Comments, result, inspected, AddsUp

LEMMA NotesFollow ==
    ASSUME NEW view \in Views, NEW id, NEW rl \in Limits, NEW cl \in Limits,
           Analyse(view, id, rl, cl)
    PROVE  NoteFollowsRule'
<1> SUFFICES ASSUME (stage = "answered")', (call.kind = "analysis")', (~Caught.keyed)'
             PROVE  NoteFollowsRule'
  BY DEF NoteFollowsRule
<1>1. PICK bug \in Detail(view, id) :
          /\ answer' = Packet(bug, view, TRUE, rl, cl)
          /\ bug = CHOOSE b \in Detail(view, id) : TRUE
          /\ IsBug(bug)
  <2>1. stage' = "answered"
    OBVIOUS
  <2> QED BY <2>1, AnalysisAnswered, Zenon
<1>2. call'.kind = "analysis" /\ call'.view = view /\ call'.id = id
  BY DEF Analyse
<1>3. Caught' = bug
  BY <1>1, <1>2 DEF Caught
<1> DEFINE t == bug.actions
           N == Len(t)
           explained == {i \in DOMAIN t : t[i].name = "resolved"
                                           /\ (t[i].comment # NoComment \/ Talk(t, i) # {})}
<1>4. ~bug.keyed
  BY <1>3
<1>5. t \in Seq(Range(t)) /\ Actions(bug) = t
  BY <1>1, <1>4 DEF IsBug, Actions
<1>6. answer'.note = resolutionNote(t)
  <2>1. answer'.note = resolutionNote(actionInsights(bug).timeline)
    BY <1>1 DEF Packet
  <2>2. actionInsights(bug).timeline = Actions(bug)
    BY DEF actionInsights
  <2> QED BY <1>5, <2>1, <2>2
<1> HIDE DEF t
<1>7. DOMAIN t = 1 .. N /\ N \in Nat
  BY <1>5
<1>8. explained \in SUBSET (1 .. N) /\ \A i \in 1 .. N : Explained(t, i) <=> i \in explained
  BY <1>7 DEF Explained
<1> HIDE DEF explained
<1>9. CASE explained = {}
  <2>1. N + 1 \in 1 .. N + 1 /\ ~(N + 1 \in 1 .. N) /\ N < N + 1 /\ \A i \in 1 .. N : ~Explained(t, i)
    BY <1>7, <1>8, <1>9
  <2>2. resolutionNote(t) = LastTalk(t, N)
    BY <1>5, <2>1, NoteOfExplained
  <2> QED BY <1>3, <1>6, <1>9, <2>2 DEF NoteFollowsRule, Talk, LastTalk, t, explained
<1>10. CASE explained # {}
  <2> DEFINE at == Min(explained)
  <2>1. at \in explained /\ \A i \in explained : at <= i
    BY <1>7, <1>8, <1>10, MinTaken
  <2> HIDE DEF at
  <2>2. at \in 1 .. N /\ at \in 1 .. N + 1 /\ ~(N < at) /\ Explained(t, at)
        /\ \A i \in 1 .. N : i < at => ~Explained(t, i)
    BY <1>7, <1>8, <2>1
  <2>3. resolutionNote(t) = IF t[at].comment # NoComment THEN t[at].comment ELSE LastTalk(t, at)
    BY <1>5, <2>2, NoteOfExplained
  <2> QED BY <1>3, <1>6, <1>10, <2>3 DEF NoteFollowsRule, Talk, LastTalk, t, explained, at
<1> QED
  BY <1>9, <1>10

LEMMA ScoresFollow ==
    ASSUME NEW view \in Views, NEW ids \in BoundedSeq(BugIDs, MaxIDs), NEW limit \in Limits \ {0},
           Score(view, ids, limit)
    PROVE  ScoresAddUp'
<1>1. ids \in Seq(BugIDs)
  BY BugToolsAssumption DEF BoundedSeq, SeqOf
<1>2. IsView(view) /\ limit \in Nat
  BY BugToolsAssumption
<1>3. call'.view = view /\ call'.ids = ids /\ call'.limit = limit /\ answer' = AIScores(view, ids, limit)
  BY DEF Score
<1>4. AddsUp(view, ids, limit)
  BY <1>1, <1>2, ScoresCounted
<1> QED
  BY <1>3, <1>4 DEF ScoresAddUp, ScoredKeys, CommentKeys, AddsUp

(* The explanation of a fix is that of the first resolution that has one,  *)
(* else the last comment, and the totals of a score report are those of    *)
(* its objects, for bugs resolved any number of times, histories of any    *)
(* length and reports on any number of bugs (analysis.go, score.go).       *)
THEOREM InsightsFollow == BugToolSpec => []InsightsFollowRecord
<1>1. stage = "start" => InsightsFollowRecord
  BY DEF InsightsFollowRecord, NoteFollowsRule, ScoresAddUp
<1>2. InsightsFollowRecord /\ [CallBuiltIn \/ GenericSteps]_exchange => InsightsFollowRecord'
  <2> SUFFICES ASSUME InsightsFollowRecord, [CallBuiltIn \/ GenericSteps]_exchange
               PROVE  InsightsFollowRecord'
    OBVIOUS
  <2>1. CASE UNCHANGED exchange
    <3>1. NoteFollowsRule'
      <4>1. stage' = stage /\ call' = call /\ answer' = answer /\ Caught' = Caught
        BY <2>1 DEF exchange, Caught
      <4> QED BY <4>1, Zenon DEF InsightsFollowRecord, NoteFollowsRule
    <3>2. ScoresAddUp'
      BY <2>1 DEF InsightsFollowRecord, ScoresAddUp, exchange
    <3> QED BY <3>1, <3>2 DEF InsightsFollowRecord
  <2>2. CASE GenericSteps
    BY <2>2 DEF InsightsFollowRecord, NoteFollowsRule, ScoresAddUp, GenericSteps
  <2>3. CASE CallBuiltIn
    <3>1. PICK view \in Views :
              \/ \E id \in BugIDs, rl, cl \in Limits : Analyse(view, id, rl, cl)
              \/ \E ids \in BoundedSeq(BugIDs, MaxIDs), limit \in Limits \ {0} : Score(view, ids, limit)
      BY <2>3 DEF CallBuiltIn
    <3>2. CASE \E id \in BugIDs, rl, cl \in Limits : Analyse(view, id, rl, cl)
      <4>1. PICK id \in BugIDs, rl \in Limits, cl \in Limits : Analyse(view, id, rl, cl)
        BY <3>2
      <4>2. NoteFollowsRule'
        BY <4>1, NotesFollow
      <4>3. call'.kind = "analysis"
        BY <4>1 DEF Analyse
      <4> QED BY <4>2, <4>3 DEF InsightsFollowRecord, ScoresAddUp
    <3>3. CASE \E ids \in BoundedSeq(BugIDs, MaxIDs), limit \in Limits \ {0} : Score(view, ids, limit)
      <4>1. PICK ids \in BoundedSeq(BugIDs, MaxIDs), limit \in Limits \ {0} : Score(view, ids, limit)
        BY <3>3
      <4>2. ScoresAddUp'
        BY <4>1, ScoresFollow
      <4>3. call'.kind = "scores"
        BY <4>1 DEF Score
      <4> QED BY <4>2, <4>3 DEF InsightsFollowRecord, NoteFollowsRule
    <3> QED
      BY <3>1, <3>2, <3>3
  <2> QED
    BY <2>1, <2>2, <2>3
<1> QED
  BY <1>1, <1>2, PTL DEF BugToolSpec

---------------------------------------------------------------------------
(* Outputs.  The functions on schemas and values are recursive: what they  *)
(* are is shown first, by Recursion over the height of a schema, and what  *)
(* they do then by induction over it.                                      *)

---------------------------------------------------------------------------
(* Schemas and values, level by level.                                     *)

\* What makes a level of each of the three kinds from the level below it.
LevelOver(kind, S) ==
    IF kind = 1 THEN SchemasOver(S) ELSE IF kind = 2 THEN SoundOver(S) ELSE ValuesOver(S)

Levels(kind, N, f) == f[0] = {} /\ \A n \in 1 .. N : f[n] = LevelOver(kind, f[n - 1])

LEMMA LevelsExist ==
    ASSUME NEW kind, NEW N \in Nat
    PROVE  \E f : Levels(kind, N, f)
<1> DEFINE S == {n \in Nat : \E f : Levels(kind, n, f)}
<1>1. 0 \in S
  <2>1. Levels(kind, 0, [n \in {0} |-> {}])
    BY DEF Levels
  <2> QED BY <2>1
<1>2. ASSUME NEW n \in S
      PROVE  n + 1 \in S
  <2>1. n \in Nat /\ 0 \in 0 .. n /\ n \in 0 .. n
    OBVIOUS
  <2>2. PICK f : Levels(kind, n, f)
    OBVIOUS
  <2> DEFINE h == [m \in 0 .. n + 1 |-> IF m = n + 1 THEN LevelOver(kind, f[n]) ELSE f[m]]
  <2>3. h[n + 1] = LevelOver(kind, f[n]) /\ \A m \in 0 .. n : h[m] = f[m]
    <3>1. n + 1 \in 0 .. n + 1 /\ \A m \in 0 .. n : m \in 0 .. n + 1 /\ m # n + 1
      BY <2>1
    <3> QED BY <3>1
  <2>4. ASSUME NEW m \in 1 .. n + 1
        PROVE  h[m] = LevelOver(kind, h[m - 1])
    <3> HIDE DEF h
    <3>1. CASE m = n + 1
      <4>1. m - 1 = n
        BY <2>1, <3>1
      <4> QED BY <2>1, <2>3, <3>1, <4>1
    <3>2. CASE m # n + 1
      <4>1. m \in 1 .. n /\ m \in 0 .. n /\ m - 1 \in 0 .. n
        BY <2>1, <3>2
      <4> QED BY <2>2, <2>3, <4>1 DEF Levels
    <3> QED BY <3>1, <3>2
  <2>5. Levels(kind, n + 1, h)
    <3> HIDE DEF h
    <3> QED BY <2>1, <2>2, <2>3, <2>4 DEF Levels
  <2> QED BY <2>1, <2>5
<1>3. S \in SUBSET Nat
  OBVIOUS
<1> QED
  <2>1. \A n \in Nat : n \in S
    <3> HIDE DEF S
    <3> QED BY <1>1, <1>2, <1>3, Induction
  <2> QED BY <2>1

\* A recursive function that is a tower of levels is one.
IsTower(kind, N, f) == f = [n \in 0 .. N |-> IF n = 0 THEN {} ELSE LevelOver(kind, f[n - 1])]

LEMMA TowerFacts ==
    ASSUME NEW kind, NEW N \in Nat
    PROVE  LET f == CHOOSE f : IsTower(kind, N, f) IN Levels(kind, N, f)
<1> DEFINE t == CHOOSE f : IsTower(kind, N, f)
<1>1. PICK g : Levels(kind, N, g)
  BY LevelsExist
<1> DEFINE h == [n \in 0 .. N |-> g[n]]
<1>2. /\ 0 \in 0 .. N
      /\ \A n \in 1 .. N : n \in 0 .. N /\ n - 1 \in 0 .. N /\ n # 0
      /\ \A n \in 0 .. N : n # 0 => n \in 1 .. N
  OBVIOUS
<1>3. \A n \in 0 .. N : h[n] = IF n = 0 THEN {} ELSE LevelOver(kind, h[n - 1])
  BY <1>1, <1>2 DEF Levels
<1>4. IsTower(kind, N, h)
  <2>1. h = [n \in 0 .. N |-> h[n]]
    OBVIOUS
  <2> HIDE DEF h
  <2> QED BY <1>3, <2>1 DEF IsTower
<1>5. IsTower(kind, N, t)
  BY <1>4
<1> HIDE DEF t
<1>6. Levels(kind, N, t)
  BY <1>2, <1>5 DEF IsTower, Levels
<1> QED
  BY <1>6 DEF t

Top == 2 * SchemaDepth + 1

LEMMA TopFacts ==
    /\ SchemaDepth \in Nat /\ Top \in Nat /\ SchemaDepth <= Top
    /\ ValueDepth \in Nat /\ ValueDepth - 1 \in Nat /\ "result" \in FieldNames
  BY DepthAssumption DEF Top

LEMMA SchemaLevels ==
    SchemaTrees[0] = {} /\ \A n \in 1 .. Top : SchemaTrees[n] = SchemasOver(SchemaTrees[n - 1])
<1>1. SchemaTrees = CHOOSE f : IsTower(1, Top, f)
  BY Zenon DEF SchemaTrees, IsTower, LevelOver, Top
<1>2. Levels(1, Top, SchemaTrees)
  BY <1>1, TowerFacts, TopFacts
<1> QED
  BY <1>2 DEF Levels, LevelOver

LEMMA SoundLevels ==
    SoundTrees[0] = {} /\ \A n \in 1 .. SchemaDepth : SoundTrees[n] = SoundOver(SoundTrees[n - 1])
<1>1. SoundTrees = CHOOSE f : IsTower(2, SchemaDepth, f)
  BY DEF SoundTrees, IsTower, LevelOver
<1>2. Levels(2, SchemaDepth, SoundTrees)
  BY <1>1, TowerFacts, TopFacts
<1> QED
  BY <1>2 DEF Levels, LevelOver

LEMMA ValueLevels ==
    ValueTrees[0] = {} /\ \A n \in 1 .. ValueDepth : ValueTrees[n] = ValuesOver(ValueTrees[n - 1])
<1>1. ValueTrees = CHOOSE f : IsTower(3, ValueDepth, f)
  BY DEF ValueTrees, IsTower, LevelOver
<1>2. Levels(3, ValueDepth, ValueTrees)
  BY <1>1, TowerFacts, TopFacts
<1> QED
  BY <1>2 DEF Levels, LevelOver

---------------------------------------------------------------------------
(* Parts.                                                                  *)

\* The schemas a schema is made of.
Parts(s) ==
    Range(s.alts) \cup Range(s.items) \cup Range(s.extra) \cup UNION {Range(s.props[f]) : f \in FieldNames}

\* What is optional is absent or one thing.
LEMMA OptionalFacts ==
    ASSUME NEW S, NEW x \in Optional(S)
    PROVE  x \in Seq(S) /\ Range(x) \subseteq S /\ (x # None => DOMAIN x = {1} /\ x[1] \in S /\ x = <<x[1]>>)
<1>1. x \in Seq(S) /\ (Len(x) = 0 \/ Len(x) = 1)
  <2>1. x \in Seq(S) /\ Len(x) <= 1
    BY DEF Optional
  <2>2. Len(x) \in Nat
    BY <2>1
  <2>3. \A n \in Nat : n <= 1 => n = 0 \/ n = 1
    OBVIOUS
  <2> QED BY Zenon, <2>1, <2>2, <2>3
<1>2. Range(x) \subseteq S
  BY <1>1 DEF Range
<1>3. ASSUME x # None
      PROVE  DOMAIN x = {1} /\ x[1] \in S /\ x = <<x[1]>>
  <2>1. Len(x) # 0
    BY <1>1, <1>3 DEF None
  <2>2. Len(x) = 1
    BY <1>1, <2>1
  <2>3. DOMAIN x = {1} /\ x[1] \in S
    BY <1>1, <2>2
  <2>4. x = <<x[1]>>
    BY <1>1, <2>2, <2>3
  <2> QED BY <2>3, <2>4
<1> QED
  BY <1>1, <1>2, <1>3

LEMMA OptionalMade ==
    ASSUME NEW S
    PROVE  None \in Optional(S) /\ \A y \in S : <<y>> \in Optional(S)
  BY DEF Optional, None

LEMMA OptionalGrows ==
    ASSUME NEW S, NEW T, S \subseteq T
    PROVE  Optional(S) \subseteq Optional(T)
  BY DEF Optional

\* A part by the place it takes.
LEMMA PartsOf ==
    ASSUME NEW S, NEW s \in SchemasOver(S)
    PROVE  /\ Parts(s) \subseteq S
           /\ \A i \in DOMAIN s.alts : s.alts[i] \in Parts(s)
           /\ \A i \in DOMAIN s.items : s.items[i] \in Parts(s)
           /\ \A i \in DOMAIN s.extra : s.extra[i] \in Parts(s)
           /\ \A f \in FieldNames : \A i \in DOMAIN s.props[f] : s.props[f][i] \in Parts(s)
<1>1. s.alts \in Seq(S) /\ s.items \in Optional(S) /\ s.extra \in Optional(S) /\ s.props \in Fields(S)
  BY DEF SchemasOver
<1>2. Range(s.alts) \subseteq S /\ Range(s.items) \subseteq S /\ Range(s.extra) \subseteq S
  BY <1>1, OptionalFacts DEF Range
<1>3. \A f \in FieldNames : Range(s.props[f]) \subseteq S
  BY <1>1, OptionalFacts DEF Fields
<1> QED
  BY <1>2, <1>3 DEF Parts, Range

\* More parts make more schemas and more values, so a level has all below it.
LEMMA SchemasGrow ==
    ASSUME NEW S, NEW T, S \subseteq T
    PROVE  SchemasOver(S) \subseteq SchemasOver(T) /\ SoundOver(S) \subseteq SoundOver(T)
<1>1. Optional(S) \subseteq Optional(T)
  BY OptionalGrows
<1>2. Seq(S) \subseteq Seq(T) /\ Fields(S) \subseteq Fields(T)
  BY <1>1 DEF Fields
<1>3. SchemasOver(S) \subseteq SchemasOver(T)
  BY <1>1, <1>2 DEF SchemasOver
<1> QED
  BY <1>3 DEF SoundOver

LEMMA ValuesGrow ==
    ASSUME NEW S, NEW T, S \subseteq T
    PROVE  ValuesOver(S) \subseteq ValuesOver(T)
<1>1. Optional(S) \subseteq Optional(T)
  BY OptionalGrows
<1>2. Seq(S) \subseteq Seq(T) /\ Fields(S) \subseteq Fields(T)
  BY <1>1 DEF Fields
<1> QED
  BY <1>2 DEF ValuesOver

LEMMA LevelGrows ==
    ASSUME NEW kind, NEW S, NEW T, S \subseteq T
    PROVE  LevelOver(kind, S) \subseteq LevelOver(kind, T)
  BY SchemasGrow, ValuesGrow DEF LevelOver

LEMMA LevelsGrow ==
    ASSUME NEW kind, NEW N \in Nat, NEW f, Levels(kind, N, f)
    PROVE  \A m \in 0 .. N : \A n \in 0 .. m : f[n] \subseteq f[m]
<1> DEFINE S == {n \in Nat : n + 1 <= N => f[n] \subseteq f[n + 1]}
<1>1. 0 \in S
  BY DEF Levels
<1>2. ASSUME NEW n \in S
      PROVE  n + 1 \in S
  <2>1. n \in Nat /\ (n + 1) - 1 = n /\ (n + 2) - 1 = n + 1 /\ (n + 1) + 1 = n + 2
    OBVIOUS
  <2>2. ASSUME n + 2 <= N
        PROVE  f[n + 1] \subseteq f[n + 2]
    <3>1. f[n] \subseteq f[n + 1] /\ n + 1 \in 1 .. N /\ n + 2 \in 1 .. N
      BY <2>1, <2>2
    <3>2. f[n + 1] = LevelOver(kind, f[n]) /\ f[n + 2] = LevelOver(kind, f[n + 1])
      BY <2>1, <3>1 DEF Levels
    <3> QED BY <3>1, <3>2, LevelGrows
  <2> QED BY <2>1, <2>2
<1>3. \A n \in Nat : n \in S
  <2>1. S \in SUBSET Nat
    OBVIOUS
  <2> HIDE DEF S
  <2> QED BY <1>1, <1>2, <2>1, Induction
<1> DEFINE U == {m \in Nat : m <= N => \A n \in 0 .. m : f[n] \subseteq f[m]}
<1>4. 0 \in U
  OBVIOUS
<1>5. ASSUME NEW m \in U
      PROVE  m + 1 \in U
  <2>1. ASSUME m + 1 <= N, NEW n \in 0 .. m + 1
        PROVE  f[n] \subseteq f[m + 1]
    <3>1. m \in Nat /\ f[m] \subseteq f[m + 1]
      BY <1>3, <2>1
    <3>2. n = m + 1 \/ n \in 0 .. m
      BY <2>1
    <3>3. n \in 0 .. m => f[n] \subseteq f[m]
      BY <2>1
    <3> QED BY <3>1, <3>2, <3>3
  <2> QED BY <2>1
<1>6. \A n \in Nat : n \in U
  <2>1. U \in SUBSET Nat
    OBVIOUS
  <2> HIDE DEF U
  <2> QED BY <1>4, <1>5, <2>1, Induction
<1> QED
  BY <1>6

LEMMA SchemaTower == Levels(1, Top, SchemaTrees)
  BY SchemaLevels DEF Levels, LevelOver
LEMMA SoundTower == Levels(2, SchemaDepth, SoundTrees)
  BY SoundLevels DEF Levels, LevelOver
LEMMA ValueTower == Levels(3, ValueDepth, ValueTrees)
  BY ValueLevels DEF Levels, LevelOver

LEMMA SoundIsSchema == \A n \in 0 .. SchemaDepth : SoundTrees[n] \subseteq SchemaTrees[n]
<1> DEFINE S == {n \in Nat : n <= SchemaDepth => SoundTrees[n] \subseteq SchemaTrees[n]}
<1>1. 0 \in S
  BY SchemaLevels, SoundLevels
<1>2. ASSUME NEW n \in S
      PROVE  n + 1 \in S
  <2>1. ASSUME n + 1 <= SchemaDepth
        PROVE  SoundTrees[n + 1] \subseteq SchemaTrees[n + 1]
    <3>1. n \in Nat /\ (n + 1) - 1 = n /\ n + 1 \in 1 .. SchemaDepth /\ n + 1 \in 1 .. Top
      BY <2>1, TopFacts
    <3>2. /\ SoundTrees[n + 1] = SoundOver(SoundTrees[n])
          /\ SchemaTrees[n + 1] = SchemasOver(SchemaTrees[n])
      BY <3>1, SchemaLevels, SoundLevels
    <3>3. SoundTrees[n] \subseteq SchemaTrees[n]
      BY <2>1, <3>1, TopFacts
    <3>4. SchemasOver(SoundTrees[n]) \subseteq SchemasOver(SchemaTrees[n])
      BY <3>3, SchemasGrow
    <3> QED BY <3>2, <3>4 DEF SoundOver
  <2> QED BY <2>1
<1>3. \A n \in Nat : n \in S
  <2>1. S \in SUBSET Nat
    OBVIOUS
  <2> HIDE DEF S
  <2> QED BY <1>1, <1>2, <2>1, Induction
<1> QED
  BY <1>3

---------------------------------------------------------------------------
(* The rank of a schema: the lowest level it is on.                        *)

Height(s) == CHOOSE n \in 0 .. Top : s \in SchemaTrees[n] /\ \A m \in 0 .. Top : s \in SchemaTrees[m] => n <= m

LEMMA HeightFacts ==
    ASSUME NEW s \in Published
    PROVE  /\ Height(s) \in 1 .. Top /\ s \in SchemaTrees[Height(s)]
           /\ \A n \in 0 .. Top : s \in SchemaTrees[n] <=> Height(s) <= n
<1> DEFINE S == {n \in 0 .. Top : s \in SchemaTrees[n]}
<1>1. Top \in S
  BY TopFacts DEF Published, Top
<1>2. \E n \in S : \A m \in S : n <= m
  <2>1. S \in SUBSET Nat /\ S # {}
    BY <1>1
  <2> HIDE DEF S
  <2> QED BY <2>1, Least
<1>3. /\ Height(s) \in 0 .. Top /\ s \in SchemaTrees[Height(s)]
      /\ \A m \in 0 .. Top : s \in SchemaTrees[m] => Height(s) <= m
  BY <1>2 DEF Height
<1>4. Height(s) # 0
  BY <1>3, SchemaLevels
<1>5. ASSUME NEW n \in 0 .. Top, Height(s) <= n
      PROVE  s \in SchemaTrees[n]
  <2>1. Height(s) \in 0 .. n
    BY <1>3, <1>5
  <2>2. SchemaTrees[Height(s)] \subseteq SchemaTrees[n]
    BY <2>1, SchemaTower, LevelsGrow, TopFacts
  <2> QED BY <1>3, <2>2
<1> QED
  BY <1>3, <1>4, <1>5

LEMMA PartsLower ==
    ASSUME NEW s \in Published
    PROVE  /\ s \in SchemasOver(SchemaTrees[Height(s) - 1])
           /\ \A y \in Parts(s) : y \in Published /\ Height(y) < Height(s)
<1> DEFINE h == Height(s)
<1>1. h \in 1 .. Top /\ s \in SchemaTrees[h] /\ h - 1 \in 0 .. Top
  BY HeightFacts, TopFacts
<1>2. s \in SchemasOver(SchemaTrees[h - 1])
  BY <1>1, SchemaLevels
<1>3. Parts(s) \subseteq SchemaTrees[h - 1]
  BY <1>2, PartsOf
<1>4. SchemaTrees[h - 1] \subseteq Published
  <2>1. h - 1 \in 0 .. Top /\ Top \in 0 .. Top
    BY <1>1, TopFacts
  <2>2. SchemaTrees[h - 1] \subseteq SchemaTrees[Top]
    BY <2>1, SchemaTower, LevelsGrow, TopFacts
  <2> QED BY <2>2 DEF Published, Top
<1>5. ASSUME NEW y \in Parts(s)
      PROVE  y \in Published /\ Height(y) < Height(s)
  <2>1. y \in Published /\ y \in SchemaTrees[h - 1]
    BY <1>3, <1>4
  <2>2. Height(y) <= h - 1 /\ Height(y) \in 1 .. Top
    BY <1>1, <2>1, HeightFacts
  <2> QED BY <1>1, <2>1, <2>2
<1> QED
  BY <1>2, <1>5

LEMMA SchemasPublished ==
    /\ Schemas \subseteq Published
    /\ \A s \in Schemas : \A y \in Parts(s) : y \in Schemas
    /\ \A s \in Published : s \in Schemas <=> Height(s) <= SchemaDepth
<1>1. SchemaDepth \in 0 .. Top /\ Top \in 0 .. Top
  BY TopFacts
<1>2. Schemas \subseteq Published
  <2>1. SchemaTrees[SchemaDepth] \subseteq SchemaTrees[Top]
    BY <1>1, SchemaTower, LevelsGrow, TopFacts
  <2> QED BY <2>1 DEF Schemas, Published, Top
<1>3. \A s \in Published : s \in Schemas <=> Height(s) <= SchemaDepth
  BY <1>1, HeightFacts DEF Schemas
<1>4. ASSUME NEW s \in Schemas, NEW y \in Parts(s)
      PROVE  y \in Schemas
  <2>1. s \in Published /\ Height(s) <= SchemaDepth
    BY <1>2, <1>3
  <2>2. y \in Published /\ Height(y) < Height(s)
    BY <2>1, PartsLower
  <2>3. Height(y) <= SchemaDepth
    BY <2>1, <2>2, HeightFacts, TopFacts
  <2> QED BY <1>3, <2>2, <2>3
<1> QED
  BY <1>2, <1>3, <1>4

\* The parts that the functions on schemas look at.
LEMMA PartsAt ==
    ASSUME NEW s \in Published
    PROVE  /\ \A i \in DOMAIN s.alts : s.alts[i] \in Parts(s)
           /\ s.items # None => s.items[1] \in Parts(s) /\ DOMAIN s.items = {1}
           /\ s.extra # None => s.extra[1] \in Parts(s) /\ DOMAIN s.extra = {1}
           /\ \A f \in FieldNames : s.props[f] # None => s.props[f][1] \in Parts(s) /\ DOMAIN s.props[f] = {1}
<1>1. PICK S : s \in SchemasOver(S)
  BY PartsLower
<1>2. s.items \in Optional(S) /\ s.extra \in Optional(S) /\ s.props \in Fields(S)
  BY <1>1 DEF SchemasOver
<1>3. \A f \in FieldNames : s.props[f] \in Optional(S)
  BY <1>2 DEF Fields
<1> QED
  BY <1>1, <1>2, <1>3, PartsOf, OptionalFacts

Heights(X) == [s \in X |-> Height(s)]

LEMMA HeightsFacts ==
    ASSUME NEW X \in {Schemas, Published}
    PROVE  /\ X \subseteq Published /\ Heights(X) \in [X -> 0 .. Top]
           /\ \A s \in X : Heights(X)[s] = Height(s) /\ \A y \in Parts(s) : y \in X /\ Heights(X)[y] < Heights(X)[s]
<1>1. X \subseteq Published /\ \A s \in X : \A y \in Parts(s) : y \in X
  BY PartsLower, SchemasPublished
<1>2. \A s \in X : Height(s) \in 0 .. Top /\ Heights(X)[s] = Height(s)
  BY <1>1, HeightFacts DEF Heights
<1> QED
  BY <1>1, <1>2, PartsLower DEF Heights

\* What holds of a schema when it holds of its parts holds of all.
LEMMA SchemaInduction ==
    ASSUME NEW X \in {Schemas, Published}, NEW P,
           \A s \in X : Parts(s) \subseteq P => s \in P
    PROVE  X \subseteq P
<1>1. \A x \in X : (\A y \in X : Heights(X)[y] < Heights(X)[x] => y \in P) => x \in P
  BY HeightsFacts
<1>2. Top \in Nat /\ Heights(X) \in [X -> 0 .. Top]
  BY HeightsFacts, TopFacts
<1> QED
  BY <1>1, <1>2, RankInduction

\* Two functions that agree on the parts of s.
Agree(s, g, h) == \A y \in Parts(s) : g[y] = h[y]

\* A function of a schema and of what is already known of its parts.
OnParts(X, T, G) ==
    /\ \A s \in X, g \in Typed(X, T) : G[s][g] \in T[s]
    /\ \A s \in X, g, h \in Typed(X, T) : Agree(s, g, h) => G[s][g] = G[s][h]

LEMMA HeightRecursion ==
    ASSUME NEW X \in {Schemas, Published}, NEW T, NEW G, Typed(X, T) # {}, Recursive(X, Heights(X), T, G)
    PROVE  \E f \in Typed(X, T) : \A x \in X : f[x] = G[x][f]
  BY HeightsFacts, TopFacts, Recursion

LEMMA SchemaRecursion ==
    ASSUME NEW X \in {Schemas, Published}, NEW T, NEW G, Typed(X, T) # {}, OnParts(X, T, G)
    PROVE  \E f \in Typed(X, T) : \A x \in X : f[x] = G[x][f]
<1>1. Recursive(X, Heights(X), T, G)
  <2>1. \A s \in X, g, h \in Typed(X, T) :
           (\A y \in X : Heights(X)[y] < Heights(X)[s] => g[y] = h[y]) => Agree(s, g, h)
    BY HeightsFacts DEF Agree
  <2> QED BY <2>1 DEF Recursive, OnParts
<1> QED
  BY <1>1, HeightRecursion

Sets(X) == [s \in X |-> SUBSET Values]

LEMMA SetsTyped ==
    ASSUME NEW X
    PROVE  Typed(X, Sets(X)) = [X -> SUBSET Values] /\ Typed(X, Sets(X)) # {}
<1>1. ASSUME NEW g \in [X -> SUBSET Values]
      PROVE  g \in Typed(X, Sets(X))
  <2>1. \A x \in X : g[x] \in Sets(X)[x]
    BY DEF Sets
  <2>2. g \in [X -> UNION {Sets(X)[x] : x \in X}]
    BY <2>1
  <2> QED BY <2>1, <2>2 DEF Typed
<1>2. ASSUME NEW g \in Typed(X, Sets(X))
      PROVE  g \in [X -> SUBSET Values]
  BY DEF Typed, Sets
<1>3. [x \in X |-> {}] \in [X -> SUBSET Values]
  OBVIOUS
<1> QED
  BY <1>1, <1>2, <1>3

---------------------------------------------------------------------------
(* The recursive sets: what is promised, valid and said.                   *)

LEMMA PromisedAgrees ==
    ASSUME NEW s \in Published, NEW g, NEW h, Agree(s, g, h)
    PROVE  PromisedAmong(s, g) = PromisedAmong(s, h)
<1>1. \A i \in DOMAIN s.alts : g[s.alts[i]] = h[s.alts[i]]
  BY PartsAt DEF Agree
<1>2. s.extra # None => g[s.extra[1]] = h[s.extra[1]]
  BY PartsAt DEF Agree
<1>3. \A f \in FieldNames : s.props[f] # None => g[s.props[f][1]] = h[s.props[f][1]]
  BY PartsAt DEF Agree
<1> QED
  BY <1>1, <1>2, <1>3 DEF PromisedAmong

IsPromised(f) == f = [s \in Schemas |-> PromisedAmong(s, f)]

LEMMA PromisedDef == \A s \in Schemas : Promised[s] = PromisedAmong(s, Promised)
<1> DEFINE X == Schemas
           T == Sets(X)
           G == [s \in X |-> [g \in Typed(X, T) |-> PromisedAmong(s, g)]]
<1>1. Typed(X, T) # {}
  BY SetsTyped
<1>2. OnParts(X, T, G)
  <2>1. \A s \in X, g \in Typed(X, T) : G[s][g] = PromisedAmong(s, g)
    OBVIOUS
  <2>2. \A s \in X, g \in Typed(X, T) : PromisedAmong(s, g) \in T[s]
    BY DEF Sets, PromisedAmong
  <2> HIDE DEF G, T
  <2> QED BY <2>1, <2>2, PromisedAgrees, SchemasPublished DEF OnParts
<1>3. PICK f \in Typed(X, T) : \A s \in X : f[s] = G[s][f]
  <2> HIDE DEF G, T
  <2> QED BY <1>1, <1>2, SchemaRecursion
<1>4. f \in [X -> SUBSET Values]
  BY SetsTyped
<1>5. IsPromised(f)
  <2>1. \A s \in X : f[s] = PromisedAmong(s, f)
    BY <1>3
  <2> QED BY <1>4, <2>1 DEF IsPromised
<1>6. Promised = CHOOSE g : IsPromised(g)
  BY DEF Promised, IsPromised
<1>7. IsPromised(Promised)
  BY <1>5, <1>6
<1> QED
  BY <1>7 DEF IsPromised

LEMMA ValidAgrees ==
    ASSUME NEW s \in Published, NEW g, NEW h, Agree(s, g, h)
    PROVE  ValidAmong(s, g) = ValidAmong(s, h)
<1>1. \A i \in DOMAIN s.alts : g[s.alts[i]] = h[s.alts[i]]
  BY PartsAt DEF Agree
<1>2. s.extra # None => g[s.extra[1]] = h[s.extra[1]]
  BY PartsAt DEF Agree
<1>3. \A f \in FieldNames : s.props[f] # None => g[s.props[f][1]] = h[s.props[f][1]]
  BY PartsAt DEF Agree
<1>4. s.items # None => g[s.items[1]] = h[s.items[1]]
  BY PartsAt DEF Agree
<1>5. \A v : {i \in DOMAIN s.alts : v \in g[s.alts[i]]} = {i \in DOMAIN s.alts : v \in h[s.alts[i]]}
  BY <1>1
<1> QED
  BY <1>2, <1>3, <1>4, <1>5 DEF ValidAmong

IsValid(f) == f = [s \in Published |-> ValidAmong(s, f)]

LEMMA ValidDef == \A s \in Published : Valid[s] = ValidAmong(s, Valid)
<1> DEFINE X == Published
           T == Sets(X)
           G == [s \in X |-> [g \in Typed(X, T) |-> ValidAmong(s, g)]]
<1>1. Typed(X, T) # {}
  BY SetsTyped
<1>2. OnParts(X, T, G)
  <2>1. \A s \in X, g \in Typed(X, T) : G[s][g] = ValidAmong(s, g)
    OBVIOUS
  <2>2. \A s \in X, g \in Typed(X, T) : ValidAmong(s, g) \in T[s]
    <3>1. \A s, g : ValidAmong(s, g) \in SUBSET Values
      BY Zenon DEF ValidAmong
    <3> QED BY <3>1 DEF Sets
  <2> HIDE DEF G, T
  <2> QED BY <2>1, <2>2, ValidAgrees DEF OnParts
<1>3. PICK f \in Typed(X, T) : \A s \in X : f[s] = G[s][f]
  <2> HIDE DEF G, T
  <2> QED BY <1>1, <1>2, SchemaRecursion
<1>4. f \in [X -> SUBSET Values]
  BY SetsTyped
<1>5. IsValid(f)
  <2>1. \A s \in X : f[s] = ValidAmong(s, f)
    BY <1>3
  <2> QED BY <1>4, <2>1 DEF IsValid
<1>6. Valid = CHOOSE g : IsValid(g)
  BY DEF Valid, IsValid
<1>7. IsValid(Valid)
  BY <1>5, <1>6
<1> QED
  BY <1>7 DEF IsValid

SaidBoth(s, g) == [literally \in BOOLEAN |-> SaidAmong(s, literally, g)]

LEMMA SaysAgrees ==
    ASSUME NEW s \in Published, NEW g, NEW h, Agree(s, g, h)
    PROVE  SaidBoth(s, g) = SaidBoth(s, h)
<1>1. s.items # None => g[s.items[1]] = h[s.items[1]]
  BY PartsAt DEF Agree
<1>2. \A f \in FieldNames : s.props[f] # None => g[s.props[f][1]] = h[s.props[f][1]]
  BY PartsAt DEF Agree
<1>3. ASSUME NEW literally \in BOOLEAN
      PROVE  SaidAmong(s, literally, g) = SaidAmong(s, literally, h)
  BY <1>1, <1>2 DEF SaidAmong
<1> QED
  BY <1>3 DEF SaidBoth

IsSays(f) == f = [s \in Schemas |-> SaidBoth(s, f)]

LEMMA SaysDef == \A s \in Schemas : \A literally \in BOOLEAN : Says[s][literally] = SaidAmong(s, literally, Says)
<1> DEFINE X == Schemas
           T == [s \in X |-> [BOOLEAN -> SUBSET Values]]
           G == [s \in X |-> [g \in Typed(X, T) |-> SaidBoth(s, g)]]
<1>1. Typed(X, T) # {}
  <2> DEFINE f == [s \in X |-> [literally \in BOOLEAN |-> {}]]
  <2>1. \A s \in X : f[s] \in T[s]
    OBVIOUS
  <2>2. f \in [X -> UNION {T[s] : s \in X}]
    BY <2>1
  <2>3. f \in Typed(X, T)
    <3> HIDE DEF f, T
    <3> QED BY <2>1, <2>2 DEF Typed
  <2> QED BY <2>3
<1>2. OnParts(X, T, G)
  <2>1. \A s \in X, g \in Typed(X, T) : G[s][g] = SaidBoth(s, g)
    OBVIOUS
  <2>2. \A s \in X, g \in Typed(X, T) : SaidBoth(s, g) \in T[s]
    <3>1. \A s, g : \A literally \in BOOLEAN : SaidAmong(s, literally, g) \in SUBSET Values
      BY Zenon DEF SaidAmong
    <3>2. \A s, g : SaidBoth(s, g) \in [BOOLEAN -> SUBSET Values]
      BY <3>1 DEF SaidBoth
    <3> QED BY <3>2
  <2> HIDE DEF G, T
  <2> QED BY <2>1, <2>2, SaysAgrees, SchemasPublished DEF OnParts
<1>3. PICK f \in Typed(X, T) : \A s \in X : f[s] = G[s][f]
  <2> HIDE DEF G, T
  <2> QED BY <1>1, <1>2, SchemaRecursion
<1>4. IsSays(f)
  <2>1. \A s \in X : f[s] = SaidBoth(s, f)
    BY <1>3
  <2>2. f = [s \in X |-> f[s]]
    BY DEF Typed
  <2> QED BY <2>1, <2>2 DEF IsSays
<1>5. Says = CHOOSE g : IsSays(g)
  BY DEF Says, IsSays, SaidBoth
<1>6. IsSays(Says)
  BY <1>4, <1>5
<1> QED
  BY <1>6 DEF IsSays, SaidBoth

---------------------------------------------------------------------------
(* The schemas the code writes itself.                                     *)

LEMMA Leaves ==
    ASSUME NEW S
    PROVE  /\ AnyValue \in SchemasOver(S) /\ NoFields \in Fields(S)
           /\ \A t \in TypeNames : Of(t) \in SchemasOver(S)
<1>1. None \in Optional(S) /\ <<>> \in Seq(S)
  BY OptionalMade
<1>2. NoFields \in Fields(S)
  BY <1>1 DEF NoFields, Fields
<1>3. AnyValue \in SchemasOver(S)
  BY <1>1, <1>2 DEF AnyValue, SchemasOver
<1>4. ASSUME NEW t \in TypeNames
      PROVE  Of(t) \in SchemasOver(S)
  <2>1. {t} \in SUBSET TypeNames
    OBVIOUS
  <2> QED BY <1>3, <2>1 DEF Of, SchemasOver
<1> QED
  BY <1>2, <1>3, <1>4

LEMMA SeqMade ==
    ASSUME NEW S, NEW x \in Seq(S), NEW R, NEW g, \A y \in Range(x) : g[y] \in R
    PROVE  /\ Each(x, g) \in Seq(R) /\ Len(Each(x, g)) = Len(x)
           /\ DOMAIN Each(x, g) = DOMAIN x /\ \A i \in DOMAIN x : Each(x, g)[i] = g[x[i]]
<1>1. DOMAIN x = 1 .. Len(x) /\ Len(x) \in Nat
  OBVIOUS
<1>2. \A i \in DOMAIN x : g[x[i]] \in R
  BY DEF Range
<1>3. Each(x, g) \in [1 .. Len(x) -> R]
  BY <1>1, <1>2 DEF Each
<1>4. Each(x, g) \in Seq(R)
  BY <1>1, <1>3
<1>5. DOMAIN Each(x, g) = 1 .. Len(x)
  BY <1>3
<1>6. Len(Each(x, g)) = Len(x)
  BY <1>1, <1>4, <1>5
<1> QED
  BY <1>1, <1>4, <1>5, <1>6 DEF Each

LEMMA OptionalEach ==
    ASSUME NEW S, NEW x \in Optional(S), NEW R, NEW g, \A y \in Range(x) : g[y] \in R
    PROVE  /\ Each(x, g) \in Optional(R)
           /\ x = None => Each(x, g) = None
           /\ x # None => Each(x, g) # None /\ Each(x, g) = <<g[x[1]]>> /\ Each(x, g)[1] = g[x[1]]
<1>1. x \in Seq(S) /\ Len(x) <= 1
  BY DEF Optional
<1>2. /\ Each(x, g) \in Seq(R) /\ Len(Each(x, g)) = Len(x)
      /\ DOMAIN Each(x, g) = DOMAIN x /\ \A i \in DOMAIN x : Each(x, g)[i] = g[x[i]]
  BY <1>1, SeqMade
<1>3. Each(x, g) \in Optional(R)
  BY <1>1, <1>2 DEF Optional
<1>4. x = None => Each(x, g) = None
  BY <1>2 DEF None, Each
<1>5. ASSUME x # None
      PROVE  Each(x, g) # None /\ Each(x, g) = <<g[x[1]]>> /\ Each(x, g)[1] = g[x[1]]
  <2>1. DOMAIN x = {1}
    BY <1>5, OptionalFacts
  <2>2. DOMAIN Each(x, g) = {1} /\ Each(x, g)[1] = g[x[1]]
    BY <1>2, <2>1
  <2>3. Each(x, g) # None
    BY <2>2 DEF None
  <2>4. Each(x, g) = <<Each(x, g)[1]>>
    BY <1>3, <2>3, OptionalFacts
  <2> QED BY <2>2, <2>3, <2>4
<1> QED
  BY <1>3, <1>4, <1>5

LEMMA EachPresent ==
    ASSUME NEW S, NEW x \in Optional(S), NEW g
    PROVE  /\ x = None => Each(x, g) = None
           /\ x # None => Each(x, g) # None /\ Each(x, g)[1] = g[x[1]]
<1> DEFINE R == {g[y] : y \in Range(x)}
<1>1. \A y \in Range(x) : g[y] \in R
  OBVIOUS
<1> HIDE DEF R
<1> QED
  BY <1>1, OptionalEach

\* w is s with g done to its parts.
Rewritten(s, g, w) ==
    /\ \E R : w \in SchemasOver(R)
    /\ w.type = s.type /\ w.required = s.required /\ w.nullable = s.nullable
    /\ w.alts = Each(s.alts, g) /\ w.items = Each(s.items, g) /\ w.extra = Each(s.extra, g)
    /\ w.props = [f \in FieldNames |-> Each(s.props[f], g)]

LEMMA WithPartsFacts ==
    ASSUME NEW S, NEW s \in SchemasOver(S), NEW R, NEW g, \A y \in Parts(s) : g[y] \in R
    PROVE  WithParts(s, g) \in SchemasOver(R) /\ Rewritten(s, g, WithParts(s, g))
<1>1. /\ s.alts \in Seq(S) /\ s.items \in Optional(S) /\ s.extra \in Optional(S)
      /\ s.props \in [FieldNames -> Optional(S)]
  BY DEF SchemasOver, Fields
<1>2. /\ \A y \in Range(s.alts) : g[y] \in R
      /\ \A y \in Range(s.items) : g[y] \in R
      /\ \A y \in Range(s.extra) : g[y] \in R
      /\ \A f \in FieldNames : \A y \in Range(s.props[f]) : g[y] \in R
  BY DEF Parts
<1>3. Each(s.alts, g) \in Seq(R) /\ Each(s.items, g) \in Optional(R) /\ Each(s.extra, g) \in Optional(R)
  BY <1>1, <1>2, SeqMade, OptionalEach
<1>4. [f \in FieldNames |-> Each(s.props[f], g)] \in Fields(R)
  <2>1. \A f \in FieldNames : Each(s.props[f], g) \in Optional(R)
    BY <1>1, <1>2, OptionalEach
  <2> QED BY <2>1 DEF Fields
<1>5. WithParts(s, g) = [s EXCEPT !.alts = Each(s.alts, g), !.items = Each(s.items, g),
                                 !.extra = Each(s.extra, g), !.props = [f \in FieldNames |-> Each(s.props[f], g)]]
  BY DEF WithParts
<1> DEFINE a == Each(s.alts, g)
           i == Each(s.items, g)
           e == Each(s.extra, g)
           p == [f \in FieldNames |-> Each(s.props[f], g)]
<1>6. WithParts(s, g) = [s EXCEPT !.alts = a, !.items = i, !.extra = e, !.props = p]
  BY <1>5
<1> HIDE DEF a, i, e, p
<1>7. a \in Seq(R) /\ i \in Optional(R) /\ e \in Optional(R) /\ p \in Fields(R)
  BY <1>3, <1>4 DEF a, i, e, p
<1>8. WithParts(s, g) \in SchemasOver(R)
  BY <1>6, <1>7 DEF SchemasOver
<1>9. /\ WithParts(s, g).type = s.type /\ WithParts(s, g).required = s.required
      /\ WithParts(s, g).nullable = s.nullable
      /\ WithParts(s, g).alts = a /\ WithParts(s, g).items = i
      /\ WithParts(s, g).extra = e /\ WithParts(s, g).props = p
  BY <1>6 DEF SchemasOver
<1> QED
  BY <1>8, <1>9 DEF Rewritten, a, i, e, p

LEMMA WithPartsRewrites ==
    ASSUME NEW S, NEW s \in SchemasOver(S), NEW g
    PROVE  Rewritten(s, g, WithParts(s, g))
<1> DEFINE R == {g[y] : y \in Parts(s)}
<1>1. \A y \in Parts(s) : g[y] \in R
  OBVIOUS
<1> HIDE DEF R
<1> QED
  BY <1>1, WithPartsFacts

LEMMA WithPartsAgrees ==
    ASSUME NEW S, NEW s \in SchemasOver(S), NEW g, NEW h, Agree(s, g, h)
    PROVE  WithParts(s, g) = WithParts(s, h)
<1>1. Each(s.alts, g) = Each(s.alts, h) /\ Each(s.items, g) = Each(s.items, h) /\ Each(s.extra, g) = Each(s.extra, h)
  BY PartsOf DEF Agree, Each
<1>2. \A f \in FieldNames : Each(s.props[f], g) = Each(s.props[f], h)
  BY PartsOf DEF Agree, Each
<1>3. [f \in FieldNames |-> Each(s.props[f], g)] = [f \in FieldNames |-> Each(s.props[f], h)]
  BY <1>2
<1> QED
  BY <1>1, <1>3 DEF WithParts

---------------------------------------------------------------------------
(* makeSchemaCompatible.                                                   *)

LEMMA NullableFacts ==
    ASSUME NEW s \in Schemas
    PROVE  LET t == convertNullableSchema(s)
           IN /\ t \in SchemasOver(SchemaTrees[Height(s) - 1])
              /\ \A y \in Parts(t) : y \in Schemas /\ Height(y) < Height(s)
<1> DEFINE h == Height(s)
           S == SchemaTrees[h - 1]
           t == convertNullableSchema(s)
           u == [s EXCEPT !.nullable = FALSE]
<1>1. /\ s \in Published /\ h \in 1 .. Top /\ s \in SchemasOver(S) /\ h <= SchemaDepth
      /\ h - 1 \in 0 .. Top /\ h \in Nat
  BY SchemasPublished, HeightFacts, PartsLower, TopFacts
<1>2. u \in SchemasOver(S)
  BY <1>1 DEF SchemasOver
<1>3. ASSUME s.alts # <<>>
      PROVE  Of("null") \in S
  <2>1. h - 1 # 0
    <3>1. SUFFICES ASSUME h - 1 = 0 PROVE FALSE
      OBVIOUS
    <3>2. S = {}
      BY <3>1, SchemaLevels
    <3>3. s.alts \in Seq({})
      BY <1>1, <3>2 DEF SchemasOver
    <3> QED BY <1>3, <3>3
  <2>2. h - 1 \in 1 .. Top
    BY <1>1, <2>1
  <2>3. S = SchemasOver(SchemaTrees[(h - 1) - 1])
    BY <2>2, SchemaLevels
  <2> QED BY <2>3, Leaves DEF TypeNames
<1>4. t \in SchemasOver(S)
  <2>1. CASE ~s.nullable
    BY <1>1, <2>1 DEF convertNullableSchema
  <2>2. CASE s.nullable /\ s.alts # <<>>
    <3>1. s.alts \in Seq(S)
      BY <1>1 DEF SchemasOver
    <3>2. Append(s.alts, Of("null")) \in Seq(S)
      <4> HIDE DEF S
      <4> QED BY <1>3, <2>2, <3>1, AppendedTyped
    <3>3. [u EXCEPT !.alts = Append(@, Of("null"))] \in SchemasOver(S)
      BY <1>2, <3>2 DEF SchemasOver
    <3> QED BY <1>2, <2>2, <3>3 DEF convertNullableSchema
  <2>3. CASE s.nullable /\ s.alts = <<>>
    <3>1. {"object", "null"} \in SUBSET TypeNames /\ s.type \cup {"null"} \in SUBSET TypeNames
      BY <1>1 DEF SchemasOver, TypeNames
    <3>2. [u EXCEPT !.type = {"object", "null"}] \in SchemasOver(S) /\ [u EXCEPT !.type = @ \cup {"null"}] \in SchemasOver(S)
      BY <1>2, <3>1 DEF SchemasOver
    <3> QED BY <2>3, <3>2 DEF convertNullableSchema
  <2> QED BY <2>1, <2>2, <2>3
<1>5. ASSUME NEW y \in Parts(t)
      PROVE  y \in Schemas /\ Height(y) < Height(s)
  <2>1. y \in S
    BY <1>4, <1>5, PartsOf
  <2>2. S \subseteq Published
    <3>1. Top \in 0 .. Top
      BY TopFacts
    <3>2. SchemaTrees[h - 1] \subseteq SchemaTrees[Top]
      BY <1>1, <3>1, SchemaTower, LevelsGrow, TopFacts
    <3> QED BY <3>2 DEF Published, Top
  <2>3. y \in Published /\ Height(y) <= h - 1 /\ Height(y) \in 1 .. Top
    BY <1>1, <2>1, <2>2, HeightFacts
  <2>4. Height(y) < h /\ Height(y) <= SchemaDepth
    BY <1>1, <2>3, TopFacts
  <2> QED BY <2>3, <2>4, SchemasPublished
<1> QED
  BY <1>4, <1>5

LEMMA CompatibleAgrees ==
    ASSUME NEW s \in Schemas, NEW g, NEW h, \A y \in Schemas : Height(y) < Height(s) => g[y] = h[y]
    PROVE  Compatible(s, g) = Compatible(s, h)
<1> DEFINE t == convertNullableSchema(s)
<1>1. t \in SchemasOver(SchemaTrees[Height(s) - 1]) /\ Agree(t, g, h)
  BY NullableFacts DEF Agree
<1>2. WithParts(t, g) = WithParts(t, h)
  <2> HIDE DEF t
  <2> QED BY <1>1, WithPartsAgrees
<1> QED
  BY <1>2 DEF Compatible

Deep(n) == SchemaTrees[2 * n + 1]

LEMMA RelaxedTyped ==
    ASSUME NEW n \in 1 .. SchemaDepth, NEW u \in SchemasOver(SchemaTrees[2 * n - 1])
    PROVE  Relaxed(u) \in Deep(n)
<1> DEFINE R == SchemaTrees[2 * n - 1]
           M == SchemaTrees[2 * n]
<1>1. /\ 2 * n - 1 \in 1 .. Top /\ 2 * n \in 1 .. Top /\ 2 * n + 1 \in 1 .. Top
      /\ (2 * n) - 1 = 2 * n - 1 /\ (2 * n + 1) - 1 = 2 * n
      /\ 2 * n - 1 \in 0 .. 2 * n /\ 2 * n \in 0 .. Top
      /\ (2 * n - 1) - 1 \in 0 .. Top
  BY TopFacts DEF Top
<1>2. /\ M = SchemasOver(R) /\ Deep(n) = SchemasOver(M)
      /\ R = SchemasOver(SchemaTrees[(2 * n - 1) - 1])
  <2>1. M = SchemasOver(R)
    BY <1>1, SchemaLevels
  <2>2. Deep(n) = SchemasOver(M)
    BY <1>1, SchemaLevels DEF Deep
  <2>3. R = SchemasOver(SchemaTrees[(2 * n - 1) - 1])
    BY <1>1, SchemaLevels
  <2> QED BY <2>1, <2>2, <2>3
<1>3. R \subseteq M
  BY <1>1, SchemaTower, LevelsGrow, TopFacts
<1>4. SchemasOver(R) \subseteq SchemasOver(M)
  <2> HIDE DEF R, M
  <2> QED BY <1>3, SchemasGrow
<1> HIDE DEF R, M
<1>5. u \in SchemasOver(R)
  BY DEF R
<1>6. [u EXCEPT !.required = {}] \in SchemasOver(R)
  BY <1>5 DEF SchemasOver
<1>7. withRuntimeShapeDrift(u) \in SchemasOver(M)
  <2>1. \A t \in TypeNames : Of(t) \in M
    BY <1>2, Leaves
  <2>2. AnyValue \in R /\ Of("array") \in SchemasOver(R)
    BY <1>2, Leaves DEF TypeNames
  <2>3. <<AnyValue>> \in Optional(R)
    BY <2>2, OptionalMade
  <2>4. [Of("array") EXCEPT !.items = <<AnyValue>>] \in SchemasOver(R)
    BY <2>2, <2>3 DEF SchemasOver
  <2> DEFINE alts == <<u, Of("null"), Of("object"), [Of("array") EXCEPT !.items = <<AnyValue>>],
                       Of("string"), Of("number"), Of("boolean")>>
  <2>5. /\ u \in M /\ Of("null") \in M /\ Of("object") \in M /\ Of("string") \in M
        /\ Of("number") \in M /\ Of("boolean") \in M /\ [Of("array") EXCEPT !.items = <<AnyValue>>] \in M
    BY <1>2, <1>5, <2>1, <2>4 DEF TypeNames
  <2>6. alts \in Seq(M)
    BY <2>5
  <2>7. AnyValue \in SchemasOver(M)
    BY Leaves
  <2>8. withRuntimeShapeDrift(u) = [AnyValue EXCEPT !.alts = alts]
    BY DEF withRuntimeShapeDrift
  <2> HIDE DEF alts
  <2> QED BY <2>6, <2>7, <2>8 DEF SchemasOver
<1> QED
  BY <1>2, <1>4, <1>5, <1>6, <1>7 DEF Relaxed

LEMMA CompatibleTyped ==
    ASSUME NEW s \in Schemas, NEW g, \A y \in Schemas : Height(y) < Height(s) => g[y] \in Deep(Height(y))
    PROVE  Compatible(s, g) \in Deep(Height(s))
<1> DEFINE n == Height(s)
           R == SchemaTrees[2 * n - 1]
           t == convertNullableSchema(s)
<1>1. n \in 1 .. SchemaDepth
  BY SchemasPublished, HeightFacts
<1>2. \A y \in Parts(t) : g[y] \in R
  <2>1. SUFFICES ASSUME NEW y \in Parts(t) PROVE g[y] \in R
    OBVIOUS
  <2>2. y \in Schemas /\ Height(y) < n
    BY <2>1, NullableFacts
  <2>3. g[y] \in Deep(Height(y))
    BY <2>2
  <2>4. Height(y) \in 1 .. Top
    BY <2>2, SchemasPublished, HeightFacts
  <2>5. 2 * n - 1 \in 0 .. Top /\ 2 * Height(y) + 1 \in 0 .. 2 * n - 1
    BY <1>1, <2>2, <2>4, TopFacts DEF Top
  <2>6. Deep(Height(y)) \subseteq R
    BY <2>5, SchemaTower, LevelsGrow, TopFacts DEF Deep
  <2> QED BY <2>3, <2>6
<1>3. WithParts(t, g) \in SchemasOver(R)
  <2>1. t \in SchemasOver(SchemaTrees[n - 1])
    BY NullableFacts
  <2> HIDE DEF t, R
  <2> QED BY <1>2, <2>1, WithPartsFacts
<1>4. [WithParts(t, g) EXCEPT !.key = "anyOf"] \in SchemasOver(R)
  BY <1>3 DEF SchemasOver
<1> QED
  BY <1>1, <1>4, RelaxedTyped DEF Compatible

IsCompatible(f) == f = [s \in Schemas |-> Compatible(s, f)]

LEMMA CompatibleDef ==
    \A s \in Schemas : /\ makeSchemaCompatible[s] = Compatible(s, makeSchemaCompatible)
                       /\ makeSchemaCompatible[s] \in Deep(Height(s))
<1> DEFINE X == Schemas
           T == [s \in X |-> Deep(Height(s))]
           G == [s \in X |-> [g \in Typed(X, T) |-> Compatible(s, g)]]
           c == makeSchemaCompatible
<1>0. \A s \in X : T[s] = Deep(Height(s))
  OBVIOUS
<1>00. \A s \in X : Heights(X)[s] = Height(s)
  BY DEF Heights
<1>1. Typed(X, T) # {}
  <2>1. \A s \in X : AnyValue \in T[s]
    <3>1. SUFFICES ASSUME NEW s \in X PROVE AnyValue \in T[s]
      OBVIOUS
    <3>2. Height(s) \in 1 .. SchemaDepth
      BY SchemasPublished, HeightFacts
    <3>3. 2 * Height(s) + 1 \in 1 .. Top
      BY <3>2, TopFacts DEF Top
    <3>4. Deep(Height(s)) = SchemasOver(SchemaTrees[(2 * Height(s) + 1) - 1])
      BY <3>3, SchemaLevels DEF Deep
    <3> QED BY <3>4, Leaves
  <2>2. [s \in X |-> AnyValue] \in Typed(X, T)
    <3> HIDE DEF T
    <3> QED BY <2>1 DEF Typed
  <2> QED BY <2>2
<1>2. Recursive(X, Heights(X), T, G)
  <2>1. \A s \in X, g \in Typed(X, T) : G[s][g] = Compatible(s, g)
    OBVIOUS
  <2>2. ASSUME NEW s \in X, NEW g \in Typed(X, T)
        PROVE  G[s][g] \in T[s]
    <3>1. \A y \in Schemas : g[y] \in Deep(Height(y))
      BY <1>0 DEF Typed
    <3>2. Compatible(s, g) \in Deep(Height(s))
      <4> HIDE DEF T, G
      <4> QED BY <3>1, CompatibleTyped
    <3> QED BY <2>1, <3>2
  <2>3. ASSUME NEW s \in X, NEW g \in Typed(X, T), NEW h \in Typed(X, T),
               \A y \in X : Heights(X)[y] < Heights(X)[s] => g[y] = h[y]
        PROVE  G[s][g] = G[s][h]
    <3>1. \A y \in Schemas : Height(y) < Height(s) => g[y] = h[y]
      BY <1>00, <2>3
    <3>2. Compatible(s, g) = Compatible(s, h)
      <4> HIDE DEF T, G
      <4> QED BY <3>1, CompatibleAgrees
    <3> QED BY <2>1, <3>2
  <2> HIDE DEF G, T
  <2> QED BY <2>2, <2>3 DEF Recursive
<1>3. PICK f \in Typed(X, T) : \A s \in X : f[s] = G[s][f]
  <2> HIDE DEF G, T
  <2> QED BY <1>1, <1>2, HeightRecursion
<1>4. IsCompatible(f)
  <2>1. \A s \in X : f[s] = Compatible(s, f)
    BY <1>3
  <2>2. f = [s \in X |-> f[s]]
    BY DEF Typed
  <2> QED BY <2>1, <2>2 DEF IsCompatible
<1>5. c = CHOOSE g : IsCompatible(g)
  BY DEF makeSchemaCompatible, IsCompatible
<1>6. IsCompatible(c)
  BY <1>4, <1>5
<1>7. \A s \in X : c[s] = Compatible(s, c)
  BY <1>6 DEF IsCompatible
<1> DEFINE P == {s \in X : c[s] \in Deep(Height(s))}
<1>8. X \subseteq P
  <2>1. ASSUME NEW s \in X, \A y \in X : Heights(X)[y] < Heights(X)[s] => y \in P
        PROVE  s \in P
    <3>1. \A y \in Schemas : Height(y) < Height(s) => c[y] \in Deep(Height(y))
      BY <1>00, <2>1
    <3>2. Compatible(s, c) \in Deep(Height(s))
      <4> HIDE DEF c
      <4> QED BY <3>1, CompatibleTyped
    <3> QED BY <1>7, <3>2
  <2>2. Heights(X) \in [X -> 0 .. Top] /\ Top \in Nat
    BY HeightsFacts, TopFacts
  <2> HIDE DEF P, c
  <2> QED BY <2>1, <2>2, RankInduction
<1> QED
  BY <1>7, <1>8

\* A level of the original makes two of the published schema, which drifts.
LEMMA CompatiblePublished == \A s \in Schemas : makeSchemaCompatible[s] \in Published
<1>1. SUFFICES ASSUME NEW s \in Schemas PROVE makeSchemaCompatible[s] \in Published
  OBVIOUS
<1>2. Height(s) \in 1 .. SchemaDepth
  BY SchemasPublished, HeightFacts
<1>3. 2 * Height(s) + 1 \in 0 .. Top /\ Top \in 0 .. Top
  BY <1>2, TopFacts DEF Top
<1>4. Deep(Height(s)) \subseteq SchemaTrees[Top]
  BY <1>3, SchemaTower, LevelsGrow, TopFacts DEF Deep
<1> QED
  BY <1>4, CompatibleDef DEF Published, Top

---------------------------------------------------------------------------
(* Values.                                                                 *)

IsAtom(v) ==
    v \in [kind : {"string", "integer", "number", "boolean"}, reads : SUBSET {"integer", "number", "boolean"}]
IsList(v, V)   == v \in [kind : {"array"}, items : Seq(V)]
IsObject(v, V) == v \in [kind : {"object"}, fields : Fields(V)]

LEMMA ValueCases ==
    ASSUME NEW n \in 0 .. ValueDepth, NEW v \in ValueTrees[n]
    PROVE  /\ n - 1 \in 0 .. ValueDepth /\ v \in Values
           /\ v = Null \/ IsAtom(v) \/ IsList(v, ValueTrees[n - 1]) \/ IsObject(v, ValueTrees[n - 1])
           /\ v.kind = "null" => v = Null
           /\ IsScalar(v) => IsAtom(v)
           /\ v.kind = "array" => IsList(v, ValueTrees[n - 1])
           /\ v.kind = "object" => IsObject(v, ValueTrees[n - 1])
<1>1. n # 0
  BY ValueLevels
<1>2. n \in 1 .. ValueDepth /\ n - 1 \in 0 .. ValueDepth /\ ValueDepth \in 0 .. ValueDepth
  BY <1>1, TopFacts
<1>3. ValueTrees[n] = ValuesOver(ValueTrees[n - 1])
  BY <1>2, ValueLevels
<1>4. v \in Values
  <2>1. ValueTrees[n] \subseteq ValueTrees[ValueDepth]
    BY <1>2, ValueTower, LevelsGrow, TopFacts
  <2> QED BY <2>1 DEF Values
<1>5. v = Null \/ IsAtom(v) \/ IsList(v, ValueTrees[n - 1]) \/ IsObject(v, ValueTrees[n - 1])
  BY <1>3 DEF ValuesOver, IsAtom, IsList, IsObject
<1>6. /\ v = Null => v.kind = "null"
      /\ IsAtom(v) => v.kind \in {"string", "integer", "number", "boolean"}
      /\ IsList(v, ValueTrees[n - 1]) => v.kind = "array"
      /\ IsObject(v, ValueTrees[n - 1]) => v.kind = "object"
  BY DEF Null, IsAtom, IsList, IsObject
<1> QED
  BY <1>2, <1>4, <1>5, <1>6 DEF IsScalar

LEMMA ValueMade ==
    ASSUME NEW n \in 0 .. ValueDepth, n # 0, NEW v,
           v = Null \/ IsAtom(v) \/ IsList(v, ValueTrees[n - 1]) \/ IsObject(v, ValueTrees[n - 1])
    PROVE  v \in ValueTrees[n]
<1>1. n \in 1 .. ValueDepth
  BY TopFacts
<1>2. ValueTrees[n] = ValuesOver(ValueTrees[n - 1])
  BY <1>1, ValueLevels
<1> QED
  BY <1>2 DEF ValuesOver, IsAtom, IsList, IsObject

LEMMA FieldFacts ==
    ASSUME NEW V, NEW v, IsObject(v, V), NEW f \in FieldNames
    PROVE  /\ v.fields[f] \in Optional(V)
           /\ v.fields[f] # None => v.fields[f][1] \in V
<1>1. v.fields \in [FieldNames -> Optional(V)]
  BY DEF IsObject, Fields
<1> QED
  BY <1>1, OptionalFacts

\* The values of a value.
LEMMA PartsAreValues ==
    ASSUME NEW v \in Values
    PROVE  /\ v.kind = "object" => \A f \in FieldNames : v.fields[f] # None => v.fields[f][1] \in Values
           /\ v.kind = "array" => \A i \in DOMAIN v.items : v.items[i] \in Values
<1> DEFINE V == ValueTrees[ValueDepth - 1]
<1>1. ValueDepth \in 0 .. ValueDepth /\ v \in ValueTrees[ValueDepth]
  BY TopFacts DEF Values
<1>2. /\ v.kind = "array" => IsList(v, V)
      /\ v.kind = "object" => IsObject(v, V)
      /\ ValueDepth - 1 \in 0 .. ValueDepth
  BY <1>1, ValueCases
<1>3. V \subseteq Values
  BY <1>2, ValueCases
<1> HIDE DEF V
<1>4. IsList(v, V) => \A i \in DOMAIN v.items : v.items[i] \in V
  BY DEF IsList
<1> QED
  BY <1>2, <1>3, <1>4, FieldFacts

---------------------------------------------------------------------------
(* normalizeValue.                                                         *)

\* What takes a value to one that nests no deeper.
Steady == {h \in [Values -> Values] : \A n \in 0 .. ValueDepth : \A v \in ValueTrees[n] : h[v] \in ValueTrees[n]}

\* What becomes of the fields of an object.
FieldsNormalized(s, v, g) ==
    [f \in FieldNames |-> IF s.props[f] = None THEN v.fields[f] ELSE Each(v.fields[f], g[s.props[f][1]])]

LEMMA ObjectNormalized ==
    ASSUME NEW V, NEW v, IsObject(v, V), NEW s, NEW g
    PROVE  /\ normalizeObject(s, v, g).kind = "object"
           /\ normalizeObject(s, v, g).fields = FieldsNormalized(s, v, g)
           /\ \A W : FieldsNormalized(s, v, g) \in Fields(W) => IsObject(normalizeObject(s, v, g), W)
<1> DEFINE fs == FieldsNormalized(s, v, g)
<1>1. v.kind = "object"
  BY DEF IsObject
<1>2. normalizeObject(s, v, g) = [v EXCEPT !.fields = fs]
  BY <1>1 DEF normalizeObject, FieldsNormalized
<1> HIDE DEF fs
<1> QED
  BY <1>2 DEF IsObject, fs

LEMMA ArrayNormalized ==
    ASSUME NEW V, NEW v, IsList(v, V), NEW s, NEW g, s.items # None
    PROVE  /\ normalizeArray(s, v, g).kind = "array"
           /\ normalizeArray(s, v, g).items = Each(v.items, g[s.items[1]])
           /\ \A W : Each(v.items, g[s.items[1]]) \in Seq(W) => IsList(normalizeArray(s, v, g), W)
<1> DEFINE is == Each(v.items, g[s.items[1]])
<1>1. v.kind = "array"
  BY DEF IsList
<1>2. normalizeArray(s, v, g) = [v EXCEPT !.items = is]
  BY <1>1 DEF normalizeArray
<1> HIDE DEF is
<1> QED
  BY <1>2 DEF IsList, is

LEMMA ScalarNormalized ==
    ASSUME NEW v, NEW s
    PROVE  /\ IsAtom(v) => IsAtom(AsScalar(s, v)) /\ IsScalar(AsScalar(s, v))
           /\ ~IsScalar(v) => AsScalar(s, v) = v
<1>1. ASSUME IsAtom(v)
      PROVE  IsAtom(AsScalar(s, v))
  BY <1>1 DEF IsAtom, AsScalar, Number
<1>2. IsAtom(AsScalar(s, v)) => IsScalar(AsScalar(s, v))
  BY DEF IsAtom, IsScalar
<1>3. ~IsScalar(v) => AsScalar(s, v) = v
  BY DEF AsScalar, Reads
<1> QED
  BY <1>1, <1>2, <1>3

\* The alternative that is taken is one of them.
LEMMA AlternativeFacts ==
    ASSUME NEW S, NEW alts \in Seq(S), alts # <<>>, NEW v
    PROVE  \E i \in DOMAIN alts : Alternative(alts, v) = alts[i]
<1> DEFINE fit == {i \in DOMAIN alts : v \in Matching[alts[i]][FALSE]}
<1>1. DOMAIN alts \in SUBSET Nat /\ 1 \in DOMAIN alts
  OBVIOUS
<1>2. CASE fit = {}
  BY <1>1, <1>2 DEF Alternative
<1>3. CASE fit # {}
  <2>1. fit \in SUBSET Nat
    BY <1>1
  <2>2. \E i \in fit : \A j \in fit : i <= j
    <3> HIDE DEF fit
    <3> QED BY <1>3, <2>1, Least
  <2>3. (CHOOSE i \in fit : \A j \in fit : i <= j) \in fit
    <3> HIDE DEF fit
    <3> QED BY <2>2
  <2> QED BY <1>3, <2>3 DEF Alternative
<1> QED
  BY <1>2, <1>3

\* The ways normalizeValue takes, by the kind of the value and of the schema.
LEMMA NormalizedCases ==
    ASSUME NEW s, NEW v, NEW g
    PROVE  \/ Normalized(s, v, g) = v
           \/ s.alts # <<>> /\ Normalized(s, v, g) = g[Alternative(s.alts, v)][v]
           \/ s.alts = <<>> /\ v.kind = "object" /\ Normalized(s, v, g) = normalizeObject(s, v, g)
           \/ s.alts = <<>> /\ v.kind = "array" /\ s.items # None /\ Normalized(s, v, g) = normalizeArray(s, v, g)
           \/ s.alts = <<>> /\ IsScalar(v) /\ Normalized(s, v, g) = AsScalar(s, v)
<1>1. ~IsScalar(v) => AsScalar(s, v) = v
  BY ScalarNormalized
<1>2. v.kind # "object" => normalizeObject(s, v, g) = v
  BY DEF normalizeObject
<1>3. v.kind # "array" \/ s.items = None => normalizeArray(s, v, g) = v
  BY DEF normalizeArray
<1>4. normalizeAlternativeValue(s.alts, v, g) \in {v, g[Alternative(s.alts, v)][v]}
  BY DEF normalizeAlternativeValue
<1> QED
  BY <1>1, <1>2, <1>3, <1>4 DEF Normalized

LEMMA NormalizedAgrees ==
    ASSUME NEW s \in Published, NEW v, NEW g, NEW h, Agree(s, g, h)
    PROVE  Normalized(s, v, g) = Normalized(s, v, h)
<1>1. s.items # None => g[s.items[1]] = h[s.items[1]]
  BY PartsAt DEF Agree
<1>2. \A f \in FieldNames : s.props[f] # None => g[s.props[f][1]] = h[s.props[f][1]]
  BY PartsAt DEF Agree
<1>3. s.alts # <<>> => g[Alternative(s.alts, v)] = h[Alternative(s.alts, v)]
  <2>1. PICK S : s \in SchemasOver(S)
    BY PartsLower
  <2>2. s.alts \in Seq(S)
    BY <2>1 DEF SchemasOver
  <2> QED BY <2>2, AlternativeFacts, PartsAt DEF Agree
<1>4. normalizeObject(s, v, g) = normalizeObject(s, v, h)
  <2>1. FieldsNormalized(s, v, g) = FieldsNormalized(s, v, h)
    BY <1>2 DEF FieldsNormalized
  <2> QED BY <2>1 DEF normalizeObject, FieldsNormalized
<1>5. normalizeArray(s, v, g) = normalizeArray(s, v, h)
  BY <1>1 DEF normalizeArray
<1>6. s.alts # <<>> => normalizeAlternativeValue(s.alts, v, g) = normalizeAlternativeValue(s.alts, v, h)
  BY <1>3 DEF normalizeAlternativeValue
<1> QED
  BY <1>4, <1>5, <1>6 DEF Normalized

LEMMA NormalizedSteady ==
    ASSUME NEW s \in Published, NEW g, \A y \in Parts(s) : g[y] \in Steady,
           NEW n \in 0 .. ValueDepth, NEW v \in ValueTrees[n]
    PROVE  Normalized(s, v, g) \in ValueTrees[n]
<1> DEFINE V == ValueTrees[n - 1]
           w == Normalized(s, v, g)
<1>1. /\ n - 1 \in 0 .. ValueDepth
      /\ IsScalar(v) => IsAtom(v)
      /\ v.kind = "array" => IsList(v, V)
      /\ v.kind = "object" => IsObject(v, V)
      /\ n # 0
  BY ValueCases, ValueLevels
<1>2. \A y \in Parts(s) : \A x \in V : g[y][x] \in V
  BY <1>1 DEF Steady
<1> HIDE DEF V
<1>3. CASE w = v
  BY <1>3
<1>4. CASE s.alts # <<>> /\ w = g[Alternative(s.alts, v)][v]
  <2>1. PICK S : s \in SchemasOver(S)
    BY PartsLower
  <2>2. s.alts \in Seq(S)
    BY <2>1 DEF SchemasOver
  <2>3. Alternative(s.alts, v) \in Parts(s)
    BY <1>4, <2>2, AlternativeFacts, PartsAt
  <2> QED BY <1>4, <2>3 DEF Steady
<1>5. CASE v.kind = "object" /\ w = normalizeObject(s, v, g)
  <2>1. FieldsNormalized(s, v, g) \in Fields(V)
    <3>1. ASSUME NEW f \in FieldNames
          PROVE  FieldsNormalized(s, v, g)[f] \in Optional(V)
      <4>1. v.fields[f] \in Optional(V)
        BY <1>1, <1>5, FieldFacts
      <4>2. Range(v.fields[f]) \subseteq V
        BY <4>1, OptionalFacts
      <4>3. s.props[f] # None => Each(v.fields[f], g[s.props[f][1]]) \in Optional(V)
        BY <1>2, <4>1, <4>2, OptionalEach, PartsAt
      <4> QED BY <4>1, <4>3 DEF FieldsNormalized
    <3> QED BY <3>1 DEF Fields, FieldsNormalized
  <2>2. IsObject(w, V)
    BY <1>1, <1>5, <2>1, ObjectNormalized
  <2> QED BY <1>1, <2>2, ValueMade DEF V
<1>6. CASE v.kind = "array" /\ s.items # None /\ w = normalizeArray(s, v, g)
  <2>1. v.items \in Seq(V)
    BY <1>1, <1>6 DEF IsList
  <2>2. \A x \in Range(v.items) : g[s.items[1]][x] \in V
    BY <1>2, <1>6, <2>1, PartsAt DEF Range
  <2>3. Each(v.items, g[s.items[1]]) \in Seq(V)
    BY <2>1, <2>2, SeqMade
  <2>4. IsList(w, V)
    BY <1>1, <1>6, <2>3, ArrayNormalized
  <2> QED BY <1>1, <2>4, ValueMade DEF V
<1>7. CASE IsScalar(v) /\ w = AsScalar(s, v)
  <2>1. IsAtom(w)
    BY <1>1, <1>7, ScalarNormalized
  <2> QED BY <1>1, <2>1, ValueMade DEF V
<1> QED
  BY <1>3, <1>4, <1>5, <1>6, <1>7, NormalizedCases

AllNormalized(s, g) == [v \in Values |-> Normalized(s, v, g)]

LEMMA AllSteady ==
    ASSUME NEW s \in Published, NEW g, \A y \in Parts(s) : g[y] \in Steady
    PROVE  AllNormalized(s, g) \in Steady
<1>1. ValueDepth \in 0 .. ValueDepth
  BY TopFacts
<1>2. \A n \in 0 .. ValueDepth : \A v \in ValueTrees[n] : Normalized(s, v, g) \in ValueTrees[n]
  BY NormalizedSteady
<1>3. \A v \in Values : Normalized(s, v, g) \in Values
  BY <1>1, <1>2 DEF Values
<1>4. \A n \in 0 .. ValueDepth : \A v \in ValueTrees[n] : v \in Values
  BY ValueCases
<1> QED
  BY <1>2, <1>3, <1>4 DEF AllNormalized, Steady

IsNormalize(f) == f = [s \in Schemas |-> AllNormalized(s, f)]

LEMMA NormalizeDef ==
    \A s \in Schemas : /\ normalizeValue[s] \in Steady
                       /\ \A v \in Values : normalizeValue[s][v] = Normalized(s, v, normalizeValue)
<1> DEFINE X == Schemas
           T == [s \in X |-> Steady]
           G == [s \in X |-> [g \in Typed(X, T) |-> AllNormalized(s, g)]]
<1>0. \A s \in X : T[s] = Steady
  OBVIOUS
<1>1. Typed(X, T) # {}
  <2>1. [v \in Values |-> v] \in Steady
    <3>1. \A n \in 0 .. ValueDepth : \A v \in ValueTrees[n] : v \in Values
      BY ValueCases
    <3> QED BY <3>1 DEF Steady
  <2>2. [s \in X |-> [v \in Values |-> v]] \in Typed(X, T)
    <3> HIDE DEF T
    <3> QED BY <1>0, <2>1 DEF Typed
  <2> QED BY <2>2
<1>2. OnParts(X, T, G)
  <2>1. \A s \in X, g \in Typed(X, T) : G[s][g] = AllNormalized(s, g)
    OBVIOUS
  <2>2. ASSUME NEW s \in X, NEW g \in Typed(X, T)
        PROVE  AllNormalized(s, g) \in T[s]
    <3>1. \A y \in X : g[y] \in Steady
      BY <1>0 DEF Typed
    <3>2. AllNormalized(s, g) \in Steady
      BY <3>1, AllSteady, SchemasPublished
    <3> QED BY <3>2
  <2>3. ASSUME NEW s \in X, NEW g, NEW h, Agree(s, g, h)
        PROVE  AllNormalized(s, g) = AllNormalized(s, h)
    <3>1. \A v \in Values : Normalized(s, v, g) = Normalized(s, v, h)
      BY <2>3, NormalizedAgrees, SchemasPublished
    <3> QED BY <3>1 DEF AllNormalized
  <2> HIDE DEF G, T
  <2> QED BY <2>1, <2>2, <2>3 DEF OnParts
<1>3. PICK f \in Typed(X, T) : \A s \in X : f[s] = G[s][f]
  <2> HIDE DEF G, T
  <2> QED BY <1>1, <1>2, SchemaRecursion
<1>4. IsNormalize(f)
  <2>1. \A s \in X : f[s] = AllNormalized(s, f)
    BY <1>3
  <2>2. f = [s \in X |-> f[s]]
    BY DEF Typed
  <2> QED BY <2>1, <2>2 DEF IsNormalize
<1>5. normalizeValue = CHOOSE g : IsNormalize(g)
  BY DEF normalizeValue, IsNormalize, AllNormalized
<1>6. IsNormalize(normalizeValue)
  BY <1>4, <1>5
<1>7. \A s \in X : normalizeValue[s] = AllNormalized(s, normalizeValue)
  BY <1>6 DEF IsNormalize
<1> DEFINE P == {s \in X : normalizeValue[s] \in Steady}
<1>8. X \subseteq P
  <2>1. ASSUME NEW s \in X, Parts(s) \subseteq P
        PROVE  s \in P
    BY <1>7, <2>1, AllSteady, SchemasPublished
  <2> HIDE DEF P
  <2> QED BY <2>1, SchemaInduction
<1> QED
  BY <1>7, <1>8 DEF AllNormalized

---------------------------------------------------------------------------
(* Promised values.                                                        *)

\* w is promised wherever v is.
Follows(v, w) == w \in Values /\ \A t \in Schemas : v \in Promised[t] => w \in Promised[t]

LEMMA FlatFollows ==
    ASSUME NEW v, NEW w \in Values, v.kind \notin {"null", "object"}, w.kind # "object"
    PROVE  Follows(v, w)
<1> DEFINE P == {t \in Schemas : v \in Promised[t] => w \in Promised[t]}
<1>1. ASSUME NEW t \in Schemas, Parts(t) \subseteq P, v \in Promised[t]
      PROVE  w \in Promised[t]
  <2>1. v \in PromisedAmong(t, Promised)
    BY <1>1, PromisedDef
  <2>2. "object" \notin t.type
    BY <2>1 DEF PromisedAmong
  <2>3. t.alts # <<>> => \E i \in DOMAIN t.alts : v \in Promised[t.alts[i]]
    BY <2>1 DEF PromisedAmong
  <2>4. t.alts # <<>> => \E i \in DOMAIN t.alts : w \in Promised[t.alts[i]]
    BY <1>1, <2>3, PartsAt, SchemasPublished
  <2>5. w \in PromisedAmong(t, Promised)
    BY <2>2, <2>4 DEF PromisedAmong
  <2> QED BY <2>5, PromisedDef
<1>2. Schemas \subseteq P
  <2>1. \A t \in Schemas : Parts(t) \subseteq P => t \in P
    BY <1>1
  <2> HIDE DEF P
  <2> QED BY <2>1, SchemaInduction
<1> QED
  BY <1>2 DEF Follows

\* Objects of the same fields.
FieldsFollow(v, w) ==
    \A f \in FieldNames : w.fields[f] # None => v.fields[f] # None /\ Follows(v.fields[f][1], w.fields[f][1])

LEMMA ObjectFollows ==
    ASSUME NEW v, NEW w \in Values, v.kind = "object", w.kind = "object", FieldsFollow(v, w)
    PROVE  Follows(v, w)
<1> DEFINE P == {t \in Schemas : v \in Promised[t] => w \in Promised[t]}
<1>1. ASSUME NEW t \in Schemas, Parts(t) \subseteq P, v \in Promised[t]
      PROVE  w \in Promised[t]
  <2>1. v \in PromisedAmong(t, Promised)
    BY <1>1, PromisedDef
  <2>2. t \in Published
    BY SchemasPublished
  <2>3. t.alts # <<>> => \E i \in DOMAIN t.alts : v \in Promised[t.alts[i]]
    BY <2>1 DEF PromisedAmong
  <2>4. t.alts # <<>> => \E i \in DOMAIN t.alts : w \in Promised[t.alts[i]]
    BY <1>1, <2>2, <2>3, PartsAt
  <2>5. ASSUME NEW f \in FieldNames, w.fields[f] # None
        PROVE  IF t.props[f] # None THEN w.fields[f][1] \in Promised[t.props[f][1]]
               ELSE t.extra # None => w.fields[f][1] \in Promised[t.extra[1]]
    <3>1. v.fields[f] # None /\ Follows(v.fields[f][1], w.fields[f][1])
      BY <2>5 DEF FieldsFollow
    <3>2. IF t.props[f] # None THEN v.fields[f][1] \in Promised[t.props[f][1]]
          ELSE t.extra # None => v.fields[f][1] \in Promised[t.extra[1]]
      BY <2>1, <3>1 DEF PromisedAmong
    <3>3. /\ t.props[f] # None => t.props[f][1] \in Schemas
          /\ t.extra # None => t.extra[1] \in Schemas
      BY <2>2, PartsAt, SchemasPublished
    <3> QED BY <3>1, <3>2, <3>3 DEF Follows
  <2>6. w \in PromisedAmong(t, Promised)
    BY <2>4, <2>5 DEF PromisedAmong
  <2> QED BY <2>6, PromisedDef
<1>2. Schemas \subseteq P
  <2>1. \A t \in Schemas : Parts(t) \subseteq P => t \in P
    BY <1>1
  <2> HIDE DEF P
  <2> QED BY <2>1, SchemaInduction
<1> QED
  BY <1>2 DEF Follows

\* Normalisation breaks no promise, by whatever schema it goes.
LEMMA NormalizedFollows ==
    \A s \in Schemas : \A v \in Values : Follows(v, normalizeValue[s][v])
<1> DEFINE P == {s \in Schemas : \A v \in Values : Follows(v, normalizeValue[s][v])}
<1>1. ASSUME NEW s \in Schemas, Parts(s) \subseteq P, NEW v \in Values
      PROVE  Follows(v, normalizeValue[s][v])
  <2> DEFINE g == normalizeValue
             w == g[s][v]
             V == ValueTrees[ValueDepth - 1]
  <2>1. s \in Published /\ w = Normalized(s, v, g)
    BY NormalizeDef, SchemasPublished
  <2>2. /\ ValueDepth \in 0 .. ValueDepth /\ v \in ValueTrees[ValueDepth]
        /\ ValueDepth - 1 \in 0 .. ValueDepth
        /\ IsScalar(v) => IsAtom(v)
        /\ v.kind = "array" => IsList(v, V)
        /\ v.kind = "object" => IsObject(v, V)
    BY TopFacts, ValueCases DEF Values
  <2>3. w \in Values
    <3>1. g[s] \in Steady
      BY NormalizeDef
    <3> QED BY <2>2, <3>1 DEF Steady, Values
  <2>4. CASE w = v
    BY <2>4 DEF Follows
  <2>5. CASE s.alts # <<>> /\ w = g[Alternative(s.alts, v)][v]
    <3>1. PICK S : s \in SchemasOver(S)
      BY <2>1, PartsLower
    <3>2. s.alts \in Seq(S)
      BY <3>1 DEF SchemasOver
    <3>3. Alternative(s.alts, v) \in Parts(s)
      BY <2>1, <2>5, <3>2, AlternativeFacts, PartsAt
    <3> QED BY <1>1, <2>5, <3>3
  <2>6. CASE v.kind = "object" /\ w = normalizeObject(s, v, g)
    <3>1. IsObject(v, V)
      BY <2>2, <2>6
    <3>2. w.kind = "object" /\ w.fields = FieldsNormalized(s, v, g)
      BY <2>6, <3>1, ObjectNormalized
    <3>3. ASSUME NEW f \in FieldNames, w.fields[f] # None
          PROVE  v.fields[f] # None /\ Follows(v.fields[f][1], w.fields[f][1])
      <4> DEFINE a == v.fields[f]
      <4>1. a \in Optional(V) /\ (a # None => a[1] \in Values)
        BY <2>6, <3>1, FieldFacts, PartsAreValues
      <4>2. w.fields[f] = IF s.props[f] = None THEN a ELSE Each(a, g[s.props[f][1]])
        BY <3>2 DEF FieldsNormalized
      <4>3. CASE s.props[f] = None
        BY <3>3, <4>1, <4>2, <4>3 DEF Follows
      <4>4. CASE s.props[f] # None
        <5> DEFINE t == s.props[f][1]
        <5>1. t \in Parts(s) /\ t \in Schemas
          BY <2>1, <4>4, PartsAt, SchemasPublished
        <5>2. (a = None => Each(a, g[t]) = None) /\ (a # None => Each(a, g[t])[1] = g[t][a[1]])
          <6> HIDE DEF a, t
          <6> QED BY <4>1, EachPresent
        <5>3. a # None /\ w.fields[f][1] = g[t][a[1]]
          BY <3>3, <4>2, <4>4, <5>2
        <5> QED BY <1>1, <4>1, <5>1, <5>3
      <4> QED BY <4>3, <4>4
    <3>4. FieldsFollow(v, w)
      BY <3>3 DEF FieldsFollow
    <3> QED BY <2>3, <2>6, <3>2, <3>4, ObjectFollows
  <2>7. CASE v.kind = "array" /\ s.items # None /\ w = normalizeArray(s, v, g)
    <3>1. w.kind = "array"
      BY <2>2, <2>7, ArrayNormalized
    <3> QED BY <2>3, <2>7, <3>1, FlatFollows
  <2>8. CASE IsScalar(v) /\ w = AsScalar(s, v)
    <3>1. IsScalar(w)
      BY <2>2, <2>8, ScalarNormalized
    <3>2. v.kind \notin {"null", "object"} /\ w.kind # "object"
      BY <2>8, <3>1 DEF IsScalar
    <3> QED BY <2>3, <3>2, FlatFollows
  <2> QED BY <2>1, <2>4, <2>5, <2>6, <2>7, <2>8, NormalizedCases
<1>2. Schemas \subseteq P
  <2>1. \A t \in Schemas : Parts(t) \subseteq P => t \in P
    BY <1>1
  <2> HIDE DEF P
  <2> QED BY <2>1, SchemaInduction
<1> QED
  BY <1>2

---------------------------------------------------------------------------
(* The published schema.                                                   *)

\* The schemas of documents, resolved.
Documented == SoundTrees[SchemaDepth]

LEMMA DocumentedFacts ==
    ASSUME NEW s \in Documented
    PROVE  /\ s \in Schemas /\ s \in Published /\ Sound(s)
           /\ Parts(s) \subseteq Documented
           /\ s \in SchemasOver(Documented)
<1>1. SchemaDepth # 0
  BY SoundLevels DEF Documented
<1>2. SchemaDepth \in 1 .. SchemaDepth /\ SchemaDepth - 1 \in 0 .. SchemaDepth /\ SchemaDepth \in 0 .. SchemaDepth
  BY <1>1, TopFacts
<1>3. s \in SoundOver(SoundTrees[SchemaDepth - 1])
  BY <1>2, SoundLevels DEF Documented
<1>4. SoundTrees[SchemaDepth - 1] \subseteq Documented
  BY <1>2, SoundTower, LevelsGrow, TopFacts DEF Documented
<1>5. s \in Schemas
  BY <1>2, SoundIsSchema DEF Documented, Schemas
<1>6. s \in SchemasOver(SoundTrees[SchemaDepth - 1]) /\ Sound(s)
  BY <1>3 DEF SoundOver
<1>7. Parts(s) \subseteq SoundTrees[SchemaDepth - 1]
  <2> DEFINE S == SoundTrees[SchemaDepth - 1]
  <2> HIDE DEF S
  <2>1. s \in SchemasOver(S)
    BY <1>6 DEF S
  <2>2. Parts(s) \subseteq S
    BY <2>1, PartsOf
  <2> QED BY <2>2 DEF S
<1>8. s \in SchemasOver(Documented)
  BY <1>4, <1>6, SchemasGrow
<1> QED
  BY <1>4, <1>5, <1>6, <1>7, <1>8, SchemasPublished

LEMMA DocumentedInduction ==
    ASSUME NEW P, \A s \in Documented : Parts(s) \subseteq P => s \in P
    PROVE  Documented \subseteq P
<1> DEFINE Q == {s \in Schemas : s \in Documented => s \in P}
<1>1. ASSUME NEW s \in Schemas, Parts(s) \subseteq Q, s \in Documented
      PROVE  s \in P
  <2>1. Parts(s) \subseteq P
    BY <1>1, DocumentedFacts
  <2> QED BY <1>1, <2>1
<1>2. Schemas \subseteq Q
  <2>1. \A s \in Schemas : Parts(s) \subseteq Q => s \in Q
    BY <1>1
  <2> HIDE DEF Q
  <2> QED BY <2>1, SchemaInduction
<1> QED
  BY <1>2, DocumentedFacts

\* What it takes to be valid against a schema without oneOf and required.
Passes(c, v) ==
    /\ c.type = {} \/ v.kind \in c.type
    /\ c.alts # <<>> => c.key = "anyOf" /\ \E i \in DOMAIN c.alts : v \in Valid[c.alts[i]]
    /\ v.kind = "object" =>
           /\ c.required = {}
           /\ \A f \in FieldNames : v.fields[f] # None =>
                  IF c.props[f] # None THEN v.fields[f][1] \in Valid[c.props[f][1]]
                  ELSE c.extra # None => v.fields[f][1] \in Valid[c.extra[1]]
    /\ v.kind = "array" /\ c.items # None => \A i \in DOMAIN v.items : v.items[i] \in Valid[c.items[1]]

LEMMA PassesIsValid ==
    ASSUME NEW c \in Published, NEW v \in Values, Passes(c, v)
    PROVE  v \in Valid[c]
<1>1. v \in ValidAmong(c, Valid)
  <2> DEFINE good == {i \in DOMAIN c.alts : v \in Valid[c.alts[i]]}
  <2>1. c.alts # <<>> => IF c.key = "oneOf" THEN Cardinality(good) = 1 ELSE good # {}
    BY DEF Passes
  <2> HIDE DEF good
  <2> QED BY <2>1 DEF ValidAmong, Passes, good
<1> QED
  BY <1>1, ValidDef

LEMMA LeafFields ==
    /\ AnyValue.type = {} /\ AnyValue.alts = <<>> /\ AnyValue.items = None /\ AnyValue.extra = None
    /\ AnyValue.props = NoFields /\ AnyValue.required = {} /\ AnyValue.key = "anyOf" /\ ~AnyValue.nullable
    /\ \A t : /\ Of(t).type = {t} /\ Of(t).alts = <<>> /\ Of(t).items = None /\ Of(t).extra = None
              /\ Of(t).props = NoFields /\ Of(t).required = {} /\ Of(t).key = "anyOf" /\ ~Of(t).nullable
    /\ \A f \in FieldNames : NoFields[f] = None
  BY DEF AnyValue, Of, NoFields

LEMMA LeafPasses ==
    ASSUME NEW c \in Published, NEW v \in Values,
           c.type = {} \/ v.kind \in c.type, c.alts = <<>>, c.required = {},
           c.props = NoFields, c.extra = None, c.items = None
    PROVE  v \in Valid[c]
<1>1. Passes(c, v)
  BY LeafFields DEF Passes
<1> QED
  BY <1>1, PassesIsValid

LEMMA KindCases ==
    ASSUME NEW v \in Values
    PROVE  v.kind \in {"null", "array", "object", "string", "integer", "number", "boolean"}
<1>1. ValueDepth \in 0 .. ValueDepth /\ v \in ValueTrees[ValueDepth]
  BY TopFacts DEF Values
<1>2. v = Null \/ IsAtom(v) \/ IsList(v, ValueTrees[ValueDepth - 1]) \/ IsObject(v, ValueTrees[ValueDepth - 1])
  BY <1>1, ValueCases
<1> QED
  BY <1>2 DEF Null, IsAtom, IsList, IsObject

\* What drifts accepts everything.
LEMMA DriftAccepts ==
    ASSUME NEW u, withRuntimeShapeDrift(u) \in Published, NEW v \in Values
    PROVE  v \in Valid[withRuntimeShapeDrift(u)]
<1> DEFINE c == withRuntimeShapeDrift(u)
           many == [Of("array") EXCEPT !.items = <<AnyValue>>]
           alts == <<u, Of("null"), Of("object"), many, Of("string"), Of("number"), Of("boolean")>>
<1>1. c = [AnyValue EXCEPT !.alts = alts]
  BY DEF withRuntimeShapeDrift
<1> HIDE DEF c, many
<1>2. /\ DOMAIN alts = 1 .. 7
      /\ alts[2] = Of("null") /\ alts[3] = Of("object") /\ alts[4] = many
      /\ alts[5] = Of("string") /\ alts[6] = Of("number") /\ alts[7] = Of("boolean")
      /\ alts # <<>>
  OBVIOUS
<1> HIDE DEF alts
<1>3. /\ c.alts = alts /\ c.key = "anyOf" /\ c.type = {} /\ c.required = {}
      /\ c.props = NoFields /\ c.extra = None /\ c.items = None
  BY <1>1 DEF AnyValue
<1>4. c \in Published
  BY DEF c
<1>5. /\ Of("null") \in Published /\ Of("object") \in Published /\ many \in Published
      /\ Of("string") \in Published /\ Of("number") \in Published /\ Of("boolean") \in Published
  <2>1. \A i \in DOMAIN alts : alts[i] \in Published
    BY <1>3, <1>4, PartsAt, PartsLower
  <2> QED BY <1>2, <2>1
<1>6. v.kind = "null" => v \in Valid[alts[2]]
  BY <1>2, <1>5, LeafFields, LeafPasses
<1>7. v.kind = "object" => v \in Valid[alts[3]]
  BY <1>2, <1>5, LeafFields, LeafPasses
<1>8. v.kind = "array" => v \in Valid[alts[4]]
  <2>1. /\ many.type = {"array"} /\ many.items = <<AnyValue>> /\ many.alts = <<>>
    BY DEF many, Of, AnyValue
  <2>2. many.items # None /\ many.items[1] = AnyValue
    BY <2>1 DEF None
  <2>3. AnyValue \in Published
    BY <1>5, <2>2, PartsAt, PartsLower
  <2>4. \A x \in Values : x \in Valid[AnyValue]
    BY <2>3, LeafFields, LeafPasses
  <2>5. v.kind = "array" => Passes(many, v)
    BY <2>1, <2>2, <2>4, PartsAreValues DEF Passes
  <2> QED BY <1>2, <1>5, <2>5, PassesIsValid
<1>9. v.kind = "string" => v \in Valid[alts[5]]
  BY <1>2, <1>5, LeafFields, LeafPasses
<1>10. v.kind \in {"number", "integer"} => v \in Valid[alts[6]]
  <2>1. v.kind \in {"number", "integer"} => v \in ValidAmong(Of("number"), Valid)
    BY LeafFields DEF ValidAmong
  <2> QED BY <1>2, <1>5, <2>1, ValidDef
<1>11. v.kind = "boolean" => v \in Valid[alts[7]]
  BY <1>2, <1>5, LeafFields, LeafPasses
<1>12. \E i \in DOMAIN alts : v \in Valid[alts[i]]
  BY <1>2, <1>6, <1>7, <1>8, <1>9, <1>10, <1>11, KindCases
<1>13. Passes(c, v)
  BY <1>3, <1>12, LeafFields DEF Passes
<1> QED
  BY <1>4, <1>13, PassesIsValid DEF c

---------------------------------------------------------------------------
(* Promised values pass the published schema.                              *)

LEMMA NullableOf ==
    ASSUME NEW s \in Documented
    PROVE  LET t == convertNullableSchema(s)
           IN /\ t.props = s.props /\ t.items = s.items /\ t.extra = s.extra /\ t.required = s.required
              /\ s.alts = <<>> => t.alts = <<>> /\ t.type = IF s.nullable THEN s.type \cup {"null"} ELSE s.type
              /\ s.alts # <<>> => t.type = s.type /\ t.alts = IF s.nullable THEN Append(s.alts, Of("null")) ELSE s.alts
<1> DEFINE t == convertNullableSchema(s)
<1>1. s \in SchemasOver(Documented) /\ Sound(s)
  BY DocumentedFacts
<1>2. CASE ~s.nullable
  BY <1>2 DEF convertNullableSchema
<1>3. CASE s.nullable /\ s.alts = <<>>
  <2>1. s.type # {}
    BY <1>1, <1>3 DEF Sound
  <2>2. t = [[s EXCEPT !.nullable = FALSE] EXCEPT !.type = s.type \cup {"null"}]
    BY <1>1, <1>3, <2>1 DEF convertNullableSchema, SchemasOver
  <2> QED BY <1>1, <1>3, <2>2 DEF SchemasOver
<1>4. CASE s.nullable /\ s.alts # <<>>
  <2>1. \A i \in DOMAIN s.alts : ~AllowsNull(s.alts[i])
    <3>1. SUFFICES ASSUME NEW i \in DOMAIN s.alts PROVE ~AllowsNull(s.alts[i])
      OBVIOUS
    <3>2. s.alts[i] \in Documented
      BY <1>1, DocumentedFacts, PartsOf
    <3>3. Sound(s.alts[i])
      BY <3>2, DocumentedFacts
    <3> QED BY <3>3 DEF Sound, AllowsNull
  <2>2. t = [[s EXCEPT !.nullable = FALSE] EXCEPT !.alts = Append(s.alts, Of("null"))]
    BY <1>1, <1>4, <2>1 DEF convertNullableSchema, SchemasOver
  <2> QED BY <1>1, <1>4, <2>2 DEF SchemasOver
<1> QED
  BY <1>2, <1>3, <1>4

\* makeSchemaCompatible before it relaxes.
Rebuilt(s) == [WithParts(convertNullableSchema(s), makeSchemaCompatible) EXCEPT !.key = "anyOf"]

LEMMA RebuiltFacts ==
    ASSUME NEW s \in Documented
    PROVE  LET u == Rebuilt(s)
               t == convertNullableSchema(s)
               c == makeSchemaCompatible
           IN /\ c[s] = Relaxed(u) /\ c[s] \in Published
              /\ \E R : u \in SchemasOver(R)
              /\ u.key = "anyOf" /\ u.type = t.type /\ u.required = s.required
              /\ u.alts = Each(t.alts, c)
              /\ s.items = None => u.items = None
              /\ s.extra = None => u.extra = None
              /\ s.extra # None => u.extra # None /\ u.extra[1] = c[s.extra[1]]
              /\ \A f \in FieldNames : /\ s.props[f] = None => u.props[f] = None
                                       /\ s.props[f] # None => u.props[f] # None /\ u.props[f][1] = c[s.props[f][1]]
              /\ u.props = NoFields <=> s.props = NoFields
<1> DEFINE t == convertNullableSchema(s)
           c == makeSchemaCompatible
           w == WithParts(t, c)
           u == Rebuilt(s)
<1>1. s \in Schemas /\ s \in SchemasOver(Documented)
  BY DocumentedFacts
<1>2. \E S : t \in SchemasOver(S)
  BY <1>1, NullableFacts
<1>3. Rewritten(t, c, w)
  BY <1>2, WithPartsRewrites
<1>4. c[s] = Relaxed(u) /\ c[s] \in Published
  BY <1>1, CompatibleDef, CompatiblePublished DEF Compatible, Rebuilt
<1>5. PICK R :
      /\ w \in SchemasOver(R) /\ w.type = t.type /\ w.required = t.required
      /\ w.alts = Each(t.alts, c) /\ w.items = Each(t.items, c) /\ w.extra = Each(t.extra, c)
      /\ w.props = [f \in FieldNames |-> Each(t.props[f], c)]
  <2> HIDE DEF t, c, w
  <2> QED BY <1>3 DEF Rewritten
<1>6. u = [w EXCEPT !.key = "anyOf"]
  BY DEF Rebuilt
<1> HIDE DEF w, u
<1>7. /\ u \in SchemasOver(R) /\ u.key = "anyOf" /\ u.type = w.type /\ u.required = w.required
      /\ u.alts = w.alts /\ u.items = w.items /\ u.extra = w.extra /\ u.props = w.props
  BY <1>5, <1>6 DEF SchemasOver
<1>8. t.props = s.props /\ t.items = s.items /\ t.extra = s.extra /\ t.required = s.required
  BY NullableOf
<1>9. /\ s.items \in Optional(Documented) /\ s.extra \in Optional(Documented)
      /\ s.props \in [FieldNames -> Optional(Documented)]
  BY <1>1 DEF SchemasOver, Fields
<1> HIDE DEF t, c
<1>10. /\ s.items = None => u.items = None
       /\ s.extra = None => u.extra = None
       /\ s.extra # None => u.extra # None /\ u.extra[1] = c[s.extra[1]]
  BY <1>5, <1>7, <1>8, <1>9, EachPresent
<1>11. ASSUME NEW f \in FieldNames
       PROVE  /\ s.props[f] = None => u.props[f] = None
              /\ s.props[f] # None => u.props[f] # None /\ u.props[f][1] = c[s.props[f][1]]
  <2>1. s.props[f] \in Optional(Documented) /\ u.props[f] = Each(s.props[f], c)
    BY <1>5, <1>7, <1>8, <1>9
  <2> QED BY <2>1, EachPresent
<1>12. u.props = NoFields <=> s.props = NoFields
  <2>1. u.props \in [FieldNames -> Optional(R)]
    BY <1>7 DEF SchemasOver, Fields
  <2>2. \A f \in FieldNames : u.props[f] = None <=> s.props[f] = None
    BY <1>11
  <2>3. u.props = NoFields <=> \A f \in FieldNames : u.props[f] = None
    BY <2>1 DEF NoFields
  <2>4. s.props = NoFields <=> \A f \in FieldNames : s.props[f] = None
    BY <1>9 DEF NoFields
  <2> QED BY <2>2, <2>3, <2>4
<1> QED
  BY <1>4, <1>5, <1>7, <1>8, <1>10, <1>11, <1>12 DEF t, c, u

\* A choice keeps its alternatives, and gets null as one of them when it is nullable.
LEMMA ChoiceValid ==
    ASSUME NEW s \in Documented, s.alts # <<>>,
           \A y \in Parts(s) : Promised[y] \subseteq Valid[makeSchemaCompatible[y]],
           NEW v \in Promised[s]
    PROVE  v \in Valid[makeSchemaCompatible[s]]
<1> DEFINE t == convertNullableSchema(s)
           m == makeSchemaCompatible
           u == Rebuilt(s)
           c == m[s]
<1>1. /\ s \in Schemas /\ s \in Published /\ Sound(s)
      /\ s.alts \in Seq(Documented)
  BY DocumentedFacts DEF SchemasOver
<1>2. /\ s.type = {} \/ s.type = {"object"}
      /\ s.props = NoFields /\ s.items = None /\ s.extra = None /\ s.required = {}
      /\ s.nullable => s.type = {}
  BY <1>1 DEF Sound
<1>3. t.type = s.type /\ t.alts = IF s.nullable THEN Append(s.alts, Of("null")) ELSE s.alts
  BY NullableOf
<1>4. /\ c = Relaxed(u) /\ c \in Published /\ u.key = "anyOf" /\ u.type = s.type /\ u.required = {}
      /\ u.alts = Each(t.alts, m) /\ u.items = None /\ u.extra = None /\ u.props = NoFields
  BY <1>2, <1>3, RebuiltFacts
<1>5. /\ DOMAIN s.alts \subseteq DOMAIN t.alts /\ \A i \in DOMAIN s.alts : t.alts[i] = s.alts[i]
      /\ s.nullable => \E i \in DOMAIN t.alts : t.alts[i] = Of("null")
      /\ t.alts # <<>>
  <2>1. CASE ~s.nullable
    BY <1>3, <2>1
  <2>2. CASE s.nullable
    <3> DEFINE a == s.alts
               n == Of("null")
    <3>1. t.alts = Append(a, n) /\ a \in Seq(Documented)
      BY <1>1, <1>3, <2>2
    <3> HIDE DEF a, n, t
    <3>2. /\ DOMAIN Append(a, n) = 1 .. Len(a) + 1 /\ Append(a, n)[Len(a) + 1] = n
          /\ DOMAIN a = 1 .. Len(a) /\ Len(a) \in Nat
          /\ \A i \in 1 .. Len(a) : Append(a, n)[i] = a[i]
      BY <3>1
    <3>3. Len(a) + 1 \in 1 .. Len(a) + 1 /\ 1 .. Len(a) \subseteq 1 .. Len(a) + 1
      BY <3>2
    <3> QED BY <3>1, <3>2, <3>3 DEF a, n
  <2> QED BY <2>1, <2>2
<1>6. /\ c.key = "anyOf" /\ c.type = s.type /\ c.required = {} /\ c.alts = Each(t.alts, m)
      /\ c.items = None /\ c.extra = None /\ c.props = NoFields
  <2>1. u.alts # <<>>
    <3>1. DOMAIN u.alts = DOMAIN t.alts
      BY <1>4 DEF Each
    <3>2. \E i : i \in DOMAIN s.alts
      BY <1>1
    <3> QED BY <1>5, <3>1, <3>2
  <2>2. PICK R : u \in SchemasOver(R)
    BY RebuiltFacts
  <2>3. c = u \/ c = [u EXCEPT !.required = {}]
    BY <1>4, <2>1 DEF Relaxed
  <2> HIDE DEF u, c
  <2> QED BY <1>4, <2>2, <2>3 DEF SchemasOver
<1>7. /\ DOMAIN c.alts = DOMAIN t.alts
      /\ \A i \in DOMAIN t.alts : c.alts[i] = m[t.alts[i]]
  BY <1>6 DEF Each
<1>8. /\ v \in Values
      /\ \/ v.kind = "null" /\ s.nullable
         \/ /\ "object" \in s.type => v.kind = "object"
            /\ \E i \in DOMAIN s.alts : v \in Promised[s.alts[i]]
  <2>1. v \in PromisedAmong(s, Promised)
    BY <1>1, PromisedDef
  <2> QED BY <2>1 DEF PromisedAmong
<1>9. c.type = {} \/ v.kind \in c.type
  BY <1>2, <1>6, <1>8
<1>10. \E i \in DOMAIN c.alts : v \in Valid[c.alts[i]]
  <2>1. CASE v.kind = "null" /\ s.nullable
    <3>1. PICK i \in DOMAIN t.alts : t.alts[i] = Of("null")
      BY <1>5, <2>1
    <3> DEFINE n == Of("null")
    <3>2. n \in Schemas
      <4>1. SchemaDepth \in 1 .. Top
        <5>1. SchemaDepth # 0
          BY SoundLevels DEF Documented
        <5> QED BY <5>1, TopFacts
      <4>2. Schemas = SchemasOver(SchemaTrees[SchemaDepth - 1])
        BY <4>1, SchemaLevels DEF Schemas
      <4> QED BY <4>2, Leaves DEF TypeNames
    <3>3. m[n] = Compatible(n, m) /\ m[n] \in Published
      BY <3>2, CompatibleDef, CompatiblePublished
    <3>4. convertNullableSchema(n) = n
      BY LeafFields DEF convertNullableSchema
    <3> DEFINE w == WithParts(n, m)
               x == [w EXCEPT !.key = "anyOf"]
    <3>5. PICK R :
          /\ w \in SchemasOver(R) /\ w.type = n.type /\ w.required = n.required
          /\ w.alts = Each(n.alts, m) /\ w.items = Each(n.items, m) /\ w.extra = Each(n.extra, m)
          /\ w.props = [f \in FieldNames |-> Each(n.props[f], m)]
      <4>1. n \in SchemasOver(Documented)
        BY Leaves DEF TypeNames
      <4>2. Rewritten(n, m, w)
        BY <4>1, WithPartsRewrites
      <4> HIDE DEF n, m, w
      <4> QED BY <4>2 DEF Rewritten
    <3>6. Each(None, m) = None
      BY DEF Each, None
    <3>7. /\ w.type = {"null"} /\ w.required = {} /\ w.alts = <<>>
          /\ w.items = None /\ w.extra = None /\ w.props = NoFields
      BY <3>5, <3>6, LeafFields DEF None, NoFields
    <3> HIDE DEF w
    <3>8. /\ x.type = {"null"} /\ x.required = {} /\ x.alts = <<>>
          /\ x.items = None /\ x.extra = None /\ x.props = NoFields
      BY <3>5, <3>7 DEF SchemasOver
    <3>9. m[n] = Relaxed(x)
      BY <3>3, <3>4 DEF Compatible, w
    <3>10. Relaxed(x) = x
      <4> HIDE DEF x
      <4> QED BY <3>8 DEF Relaxed
    <3>11. v \in Valid[m[n]]
      <4> HIDE DEF x, n, m
      <4> QED BY <1>8, <2>1, <3>3, <3>8, <3>9, <3>10, LeafPasses
    <3> QED BY <1>7, <3>1, <3>11
  <2>2. CASE \E i \in DOMAIN s.alts : v \in Promised[s.alts[i]]
    <3>1. PICK i \in DOMAIN s.alts : v \in Promised[s.alts[i]]
      BY <2>2
    <3>2. s.alts[i] \in Parts(s)
      BY <1>1, PartsAt
    <3>3. i \in DOMAIN c.alts /\ c.alts[i] = m[s.alts[i]]
      BY <1>5, <1>7
    <3> QED BY <3>1, <3>2, <3>3
  <2> QED BY <1>8, <2>1, <2>2
<1>11. Passes(c, v)
  <2> HIDE DEF c
  <2> QED BY <1>6, <1>9, <1>10, LeafFields DEF Passes
<1> QED
  BY <1>4, <1>8, <1>11, PassesIsValid

\* A schema without a choice drifts when it is no object, and asks for no field when it is one.
LEMMA PlainValid ==
    ASSUME NEW s \in Documented, s.alts = <<>>,
           \A y \in Parts(s) : Promised[y] \subseteq Valid[makeSchemaCompatible[y]],
           NEW v \in Promised[s]
    PROVE  v \in Valid[makeSchemaCompatible[s]]
<1> DEFINE t == convertNullableSchema(s)
           m == makeSchemaCompatible
           u == Rebuilt(s)
           c == m[s]
<1>1. /\ s \in Schemas /\ s \in Published /\ Sound(s)
  BY DocumentedFacts
<1>2. /\ s.type \in {{}} \cup {{x} : x \in TypeNames \ {"null"}}
      /\ s.items # None => s.type = {"array"}
      /\ s.props # NoFields => s.type \subseteq {"object"}
      /\ s.required # {} => s.type = {"object"} \/ s.props # NoFields
      /\ s.nullable => s.type # {}
  BY <1>1 DEF Sound
<1>3. t.type = (IF s.nullable THEN s.type \cup {"null"} ELSE s.type) /\ t.alts = <<>>
  BY NullableOf
<1>4. /\ c = Relaxed(u) /\ c \in Published /\ u.key = "anyOf" /\ u.type = t.type /\ u.required = s.required
      /\ u.alts = Each(t.alts, m)
      /\ u.props = NoFields <=> s.props = NoFields
  BY RebuiltFacts
<1>5. u.alts = <<>>
  BY <1>3, <1>4 DEF Each
<1>6. /\ v \in Values
      /\ \/ v.kind = "null" /\ s.nullable
         \/ /\ "object" \in s.type => v.kind = "object"
            /\ v.kind = "object" =>
                   \A f \in FieldNames : v.fields[f] # None =>
                       IF s.props[f] # None THEN v.fields[f][1] \in Promised[s.props[f][1]]
                       ELSE s.extra # None => v.fields[f][1] \in Promised[s.extra[1]]
  <2>1. v \in PromisedAmong(s, Promised)
    BY <1>1, PromisedDef
  <2> QED BY <2>1 DEF PromisedAmong
<1>7. CASE "object" \in s.type \/ s.props # NoFields \/ s.type = {}
  <2>1. s.type = {} \/ s.type = {"object"}
    BY <1>2, <1>7 DEF TypeNames
  <2>2. s.items = None
    BY <1>2, <2>1
  <2>3. (c = u /\ s.required = {}) \/ c = [u EXCEPT !.required = {}]
    <3>1. CASE "object" \in s.type \/ s.props # NoFields
      <4>1. "object" \in u.type \/ u.props # NoFields
        BY <1>3, <1>4, <3>1
      <4> QED BY <1>4, <4>1 DEF Relaxed
    <3>2. CASE "object" \notin s.type /\ s.props = NoFields
      <4>1. s.type = {} /\ ~s.nullable /\ s.required = {}
        BY <1>2, <1>7, <3>2
      <4>2. u.type = {} /\ u.props = NoFields
        BY <1>3, <1>4, <3>2, <4>1
      <4>3. c = u
        <5> HIDE DEF u
        <5> QED BY <1>4, <1>5, <4>2 DEF Relaxed
      <4> QED BY <4>1, <4>3
    <3> QED BY <3>1, <3>2
  <2>4. /\ c.type = t.type /\ c.required = {} /\ c.alts = <<>> /\ c.items = None
        /\ c.extra = u.extra /\ c.props = u.props
    <3>1. PICK R : u \in SchemasOver(R)
      BY RebuiltFacts
    <3>2. u.items = None
      BY <2>2, RebuiltFacts
    <3> HIDE DEF u, c
    <3> QED BY <1>4, <1>5, <2>3, <3>1, <3>2 DEF SchemasOver
  <2>5. c.type = {} \/ v.kind \in c.type
    BY <1>2, <1>3, <1>6, <2>1, <2>4
  <2>6. ASSUME v.kind = "object", NEW f \in FieldNames, v.fields[f] # None
        PROVE  IF c.props[f] # None THEN v.fields[f][1] \in Valid[c.props[f][1]]
               ELSE c.extra # None => v.fields[f][1] \in Valid[c.extra[1]]
    <3>1. IF s.props[f] # None THEN v.fields[f][1] \in Promised[s.props[f][1]]
          ELSE s.extra # None => v.fields[f][1] \in Promised[s.extra[1]]
      BY <1>6, <2>6
    <3>2. /\ s.props[f] = None => c.props[f] = None
          /\ s.props[f] # None => c.props[f] # None /\ c.props[f][1] = m[s.props[f][1]]
          /\ s.extra = None => c.extra = None
          /\ s.extra # None => c.extra # None /\ c.extra[1] = m[s.extra[1]]
      <4> HIDE DEF c
      <4> QED BY <2>4, RebuiltFacts
    <3>3. /\ s.props[f] # None => s.props[f][1] \in Parts(s)
          /\ s.extra # None => s.extra[1] \in Parts(s)
      BY <1>1, PartsAt
    <3> QED BY <3>1, <3>2, <3>3
  <2>7. Passes(c, v)
    <3> HIDE DEF c
    <3> QED BY <2>4, <2>5, <2>6 DEF Passes
  <2> QED BY <1>4, <1>6, <2>7, PassesIsValid
<1>8. CASE "object" \notin s.type /\ s.props = NoFields /\ s.type # {}
  <2>1. PICK x \in TypeNames \ {"null"} : s.type = {x}
    BY <1>2, <1>8
  <2>2. u.type \cap {"string", "integer", "number", "boolean", "array", "object"} # {} /\ "object" \notin u.type
    <3>1. x \in {"string", "integer", "number", "boolean", "array"} /\ x \in u.type
      BY <1>3, <1>4, <1>8, <2>1 DEF TypeNames
    <3>2. "object" \notin u.type
      BY <1>3, <1>4, <1>8
    <3> QED BY <3>1, <3>2
  <2>3. c = withRuntimeShapeDrift(u)
    <3> HIDE DEF u
    <3> QED BY <1>4, <1>5, <1>8, <2>2 DEF Relaxed
  <2> QED BY <1>4, <1>6, <2>3, DriftAccepts
<1> QED
  BY <1>7, <1>8

\* What a schema promises passes the schema that is published for it.
LEMMA PromisedIsValid ==
    \A s \in Documented : Promised[s] \subseteq Valid[makeSchemaCompatible[s]]
<1> DEFINE P == {s \in Documented : Promised[s] \subseteq Valid[makeSchemaCompatible[s]]}
<1>1. ASSUME NEW s \in Documented, Parts(s) \subseteq P
      PROVE  s \in P
  BY <1>1, ChoiceValid, PlainValid
<1> QED
  <2> HIDE DEF P
  <2>1. Documented \subseteq P
    BY <1>1, DocumentedInduction
  <2> QED BY <2>1 DEF P

---------------------------------------------------------------------------
(* What is said, read and written.                                         *)

LEMMA SaysCases ==
    ASSUME NEW s \in Schemas, NEW v
    PROVE  /\ v \in Says[s][TRUE] <=>
                  /\ v \in Values
                  /\ \/ s.type = {}
                     \/ \E t \in s.type :
                           /\ valueStrictlyMatchesType(v, t)
                           /\ v.kind = "object" => \A f \in FieldNames : v.fields[f] # None /\ s.props[f] # None =>
                                                      v.fields[f][1] \in Says[s.props[f][1]][TRUE]
                           /\ v.kind = "array" /\ s.items # None =>
                                 \A i \in DOMAIN v.items : v.items[i] \in Says[s.items[1]][TRUE]
           /\ v \in Says[s][FALSE] <=>
                  /\ v \in Values
                  /\ \/ s.type = {}
                     \/ \E t \in s.type :
                           /\ IF ~IsScalar(v) THEN valueStrictlyMatchesType(v, t) ELSE t = "string" \/ Reads(v, t)
                           /\ v.kind = "object" => \A f \in FieldNames : v.fields[f] # None /\ s.props[f] # None =>
                                                      v.fields[f][1] \in Says[s.props[f][1]][FALSE]
                           /\ v.kind = "array" /\ s.items # None =>
                                 \A i \in DOMAIN v.items : v.items[i] \in Says[s.items[1]][FALSE]
<1>1. Says[s][TRUE] = SaidAmong(s, TRUE, Says) /\ Says[s][FALSE] = SaidAmong(s, FALSE, Says)
  BY SaysDef
<1> QED
  BY <1>1 DEF SaidAmong

\* An object stays one.
LEMMA ObjectsStay ==
    \A s \in Schemas : \A v \in Values : v.kind = "object" => normalizeValue[s][v].kind = "object"
<1> DEFINE P == {s \in Schemas : \A v \in Values : v.kind = "object" => normalizeValue[s][v].kind = "object"}
<1>1. ASSUME NEW s \in Schemas, Parts(s) \subseteq P, NEW v \in Values, v.kind = "object"
      PROVE  normalizeValue[s][v].kind = "object"
  <2> DEFINE g == normalizeValue
             w == g[s][v]
             V == ValueTrees[ValueDepth - 1]
  <2>1. s \in Published /\ w = Normalized(s, v, g)
    BY NormalizeDef, SchemasPublished
  <2>2. IsObject(v, V)
    <3>1. ValueDepth \in 0 .. ValueDepth /\ v \in ValueTrees[ValueDepth]
      BY TopFacts DEF Values
    <3> QED BY <1>1, <3>1, ValueCases
  <2>3. CASE s.alts # <<>> /\ w = g[Alternative(s.alts, v)][v]
    <3>1. PICK S : s \in SchemasOver(S)
      BY <2>1, PartsLower
    <3>2. s.alts \in Seq(S)
      BY <3>1 DEF SchemasOver
    <3>3. Alternative(s.alts, v) \in Parts(s)
      BY <2>1, <2>3, <3>2, AlternativeFacts, PartsAt
    <3> QED BY <1>1, <2>3, <3>3
  <2>4. CASE w = normalizeObject(s, v, g)
    BY <2>2, <2>4, ObjectNormalized
  <2>5. ~IsScalar(v)
    BY <1>1 DEF IsScalar
  <2> QED BY <1>1, <2>1, <2>3, <2>4, <2>5, NormalizedCases
<1>2. Schemas \subseteq P
  <2>1. \A t \in Schemas : Parts(t) \subseteq P => t \in P
    BY <1>1
  <2> HIDE DEF P
  <2> QED BY <2>1, SchemaInduction
<1> QED
  BY <1>2

LEMMA ScalarRestored ==
    ASSUME NEW s, NEW x \in {"string", "integer", "number", "boolean"}, s.type = {x},
           NEW v, IsAtom(v), x = "string" \/ Reads(v, x)
    PROVE  valueStrictlyMatchesType(AsScalar(s, v), x)
<1>1. IsScalar(v)
  BY DEF IsAtom, IsScalar
<1> QED
  BY <1>1 DEF AsScalar, Number, IsAtom, valueStrictlyMatchesType

\* A value that says what a schema declares says it literally when it is normalised.
LEMMA SaidIsRestored ==
    \A s \in Documented : \A v \in Says[s][FALSE] : normalizeValue[s][v] \in Says[s][TRUE]
<1> DEFINE P == {s \in Documented : \A v \in Says[s][FALSE] : normalizeValue[s][v] \in Says[s][TRUE]}
<1>1. ASSUME NEW s \in Documented, Parts(s) \subseteq P, NEW v \in Says[s][FALSE]
      PROVE  normalizeValue[s][v] \in Says[s][TRUE]
  <2> DEFINE g == normalizeValue
             w == g[s][v]
             V == ValueTrees[ValueDepth - 1]
  <2>1. s \in Schemas /\ s \in Published /\ Sound(s)
    BY DocumentedFacts
  <2>2. v \in Values /\ w = Normalized(s, v, g)
    BY <2>1, SaysCases, NormalizeDef
  <2>3. w \in Values
    BY <2>1, <2>2, NormalizedFollows DEF Follows
  <2>4. CASE s.type = {}
    BY <2>1, <2>3, <2>4, SaysCases
  <2>5. CASE s.type # {}
    <3>1. PICK x \in TypeNames \ {"null"} : s.type = {x}
      BY <2>1, <2>5 DEF Sound
    <3>2. /\ IF ~IsScalar(v) THEN valueStrictlyMatchesType(v, x) ELSE x = "string" \/ Reads(v, x)
          /\ v.kind = "object" => \A f \in FieldNames : v.fields[f] # None /\ s.props[f] # None =>
                                     v.fields[f][1] \in Says[s.props[f][1]][FALSE]
          /\ v.kind = "array" /\ s.items # None => \A i \in DOMAIN v.items : v.items[i] \in Says[s.items[1]][FALSE]
      <4>1. PICK t \in s.type :
                /\ IF ~IsScalar(v) THEN valueStrictlyMatchesType(v, t) ELSE t = "string" \/ Reads(v, t)
                /\ v.kind = "object" => \A f \in FieldNames : v.fields[f] # None /\ s.props[f] # None =>
                                           v.fields[f][1] \in Says[s.props[f][1]][FALSE]
                /\ v.kind = "array" /\ s.items # None => \A i \in DOMAIN v.items : v.items[i] \in Says[s.items[1]][FALSE]
        <5>1. s \in Schemas /\ v \in Says[s][FALSE] /\ s.type # {}
          BY <1>1, <2>1, <2>5
        <5> QED BY <5>1, SaysCases
      <4>2. t = x
        BY <3>1
      <4> QED BY <4>1, <4>2
    <3>3. /\ IsScalar(v) => IsAtom(v)
          /\ v.kind = "array" => IsList(v, V)
          /\ v.kind = "object" => IsObject(v, V)
      <4>1. ValueDepth \in 0 .. ValueDepth /\ v \in ValueTrees[ValueDepth]
        BY <2>2, TopFacts DEF Values
      <4> QED BY <4>1, ValueCases
    <3>4. s.items # None => x = "array"
      BY <2>1, <3>1 DEF Sound
    <3>5. (\A f \in FieldNames : s.props[f] = None) \/ x = "object"
      <4>1. s.props # NoFields => x = "object"
        BY <2>1, <3>1 DEF Sound
      <4> QED BY <4>1, LeafFields
    <3>6. CASE x = "object"
      <4>1. v.kind = "object"
        <5>1. IsScalar(v) => ~Reads(v, "object")
          BY <3>3 DEF Reads, IsAtom
        <5> QED BY <3>2, <3>6, <5>1 DEF valueStrictlyMatchesType
      <4>2. w.kind = "object"
        BY <2>1, <2>2, <4>1, ObjectsStay
      <4>3. ASSUME NEW f \in FieldNames, w.fields[f] # None, s.props[f] # None
            PROVE  w.fields[f][1] \in Says[s.props[f][1]][TRUE]
        <5>1. s.alts = <<>>
          <6>1. s.props # NoFields
            BY <4>3, LeafFields
          <6> QED BY <2>1, <6>1 DEF Sound
        <5>2. w = normalizeObject(s, v, g)
          BY <2>2, <3>1, <3>6, <4>1, <5>1 DEF Normalized
        <5>3. w.fields = FieldsNormalized(s, v, g)
          BY <3>3, <4>1, <5>2, ObjectNormalized
        <5> DEFINE a == v.fields[f]
                   t == s.props[f][1]
        <5>4. w.fields[f] = Each(a, g[t])
          BY <4>3, <5>3 DEF FieldsNormalized
        <5>5. a \in Optional(V)
          BY <3>3, <4>1, FieldFacts
        <5>6. (a = None => Each(a, g[t]) = None) /\ (a # None => Each(a, g[t])[1] = g[t][a[1]])
          <6> HIDE DEF a, t
          <6> QED BY <5>5, EachPresent
        <5>7. a # None /\ w.fields[f][1] = g[t][a[1]]
          BY <4>3, <5>4, <5>6
        <5>8. a[1] \in Says[t][FALSE]
          BY <3>2, <4>1, <4>3, <5>7
        <5>9. t \in Parts(s)
          BY <2>1, <4>3, PartsAt
        <5> QED BY <1>1, <5>7, <5>8, <5>9
      <4>4. valueStrictlyMatchesType(w, x)
        BY <3>6, <4>2 DEF valueStrictlyMatchesType
      <4>5. w.kind # "array"
        BY <4>2
      <4> QED BY <2>1, <2>3, <3>1, <4>3, <4>4, <4>5, SaysCases
    <3>7. CASE x = "array"
      <4>1. v.kind = "array"
        <5>1. IsScalar(v) => ~Reads(v, "array")
          BY <3>3 DEF Reads, IsAtom
        <5> QED BY <3>2, <3>7, <5>1 DEF valueStrictlyMatchesType
      <4>2. s.alts = <<>>
        BY <2>1, <3>1, <3>7 DEF Sound
      <4>3. w = normalizeArray(s, v, g)
        BY <2>2, <3>1, <3>7, <4>1, <4>2 DEF Normalized
      <4>4. CASE s.items = None
        <5>1. w = v
          BY <4>3, <4>4 DEF normalizeArray
        <5>2. valueStrictlyMatchesType(w, x) /\ w.kind # "object"
          BY <3>7, <4>1, <5>1 DEF valueStrictlyMatchesType
        <5> QED BY <2>1, <2>3, <3>1, <4>4, <5>2, SaysCases
      <4>5. CASE s.items # None
        <5> DEFINE t == s.items[1]
        <5>1. w.kind = "array" /\ w.items = Each(v.items, g[t])
          BY <3>3, <4>1, <4>3, <4>5, ArrayNormalized
        <5>2. t \in Parts(s)
          BY <2>1, <4>5, PartsAt
        <5>3. ASSUME NEW i \in DOMAIN w.items
              PROVE  w.items[i] \in Says[t][TRUE]
          <6>1. i \in DOMAIN v.items /\ w.items[i] = g[t][v.items[i]]
            BY <5>1 DEF Each
          <6> QED BY <1>1, <3>2, <4>1, <4>5, <5>2, <6>1
        <5>4. valueStrictlyMatchesType(w, x) /\ w.kind # "object"
          BY <3>7, <5>1 DEF valueStrictlyMatchesType
        <5> QED BY <2>1, <2>3, <3>1, <5>3, <5>4, SaysCases
      <4> QED BY <4>4, <4>5
    <3>8. CASE x \in {"string", "integer", "number", "boolean"}
      <4>1. IsScalar(v)
        BY <3>2, <3>8 DEF valueStrictlyMatchesType, IsScalar
      <4>2. IsAtom(v) /\ (x = "string" \/ Reads(v, x))
        BY <3>2, <3>3, <4>1
      <4>3. s.alts = <<>>
        BY <2>1, <3>1, <3>8 DEF Sound
      <4>4. w = AsScalar(s, v)
        BY <2>2, <3>1, <3>8, <4>1, <4>3 DEF Normalized, IsScalar
      <4>5. valueStrictlyMatchesType(w, x)
        BY <3>1, <3>8, <4>2, <4>4, ScalarRestored
      <4>6. IsScalar(w)
        BY <4>2, <4>4, ScalarNormalized
      <4>7. w.kind # "object" /\ w.kind # "array"
        BY <4>6 DEF IsScalar
      <4> QED BY <2>1, <2>3, <3>1, <4>5, <4>7, SaysCases
    <3> QED BY <3>6, <3>7, <3>8 DEF TypeNames
  <2> QED BY <2>4, <2>5
<1> QED
  <2>1. \A s \in Documented : Parts(s) \subseteq P => s \in P
    BY <1>1
  <2> HIDE DEF P
  <2>2. Documented \subseteq P
    BY <2>1, DocumentedInduction
  <2> QED BY <2>2 DEF P

---------------------------------------------------------------------------
(* resolveSchema.                                                          *)

\* How many schemas of the document are not being resolved: it falls with every step.
Left(doc, visited) == Cardinality(DOMAIN doc \ visited)

ResolvedBody(doc, visited, r) ==
    [n \in DOMAIN doc |-> IF n \in visited THEN AnyValue ELSE WithParts(doc[n], r[visited \cup {n}])]

LEMMA LeftFacts ==
    ASSUME NEW doc, IsDocument(doc), NEW visited \in SUBSET DOMAIN doc
    PROVE  /\ Left(doc, visited) \in 0 .. Cardinality(DOMAIN doc)
           /\ \A n \in DOMAIN doc \ visited :
                  visited \cup {n} \in SUBSET DOMAIN doc /\ Left(doc, visited \cup {n}) = Left(doc, visited) - 1
<1> DEFINE N == DOMAIN doc
<1>1. IsFiniteSet(N)
  BY DEF IsDocument
<1>2. N \ visited \in SUBSET N
  OBVIOUS
<1>3. Left(doc, visited) \in 0 .. Cardinality(N)
  <2>1. /\ IsFiniteSet(N \ visited) /\ Cardinality(N \ visited) <= Cardinality(N)
        /\ Cardinality(N) \in Nat /\ Cardinality(N \ visited) \in Nat
    BY <1>1, <1>2, FS_Subset, FS_CardinalityType
  <2> QED BY <2>1 DEF Left
<1>4. ASSUME NEW n \in N \ visited
      PROVE  visited \cup {n} \in SUBSET N /\ Left(doc, visited \cup {n}) = Left(doc, visited) - 1
  <2>1. N \ (visited \cup {n}) = (N \ visited) \ {n}
    OBVIOUS
  <2>2. IsFiniteSet(N \ visited)
    BY <1>1, <1>2, FS_Subset
  <2>3. Cardinality((N \ visited) \ {n}) = Cardinality(N \ visited) - 1
    BY <2>2, FS_RemoveElement
  <2> QED BY <2>1, <2>3 DEF Left
<1> QED
  BY <1>3, <1>4

\* Other parts leave a schema sound.
LEMMA RewrittenSound ==
    ASSUME NEW S, NEW s \in SchemasOver(S), Sound(s), NEW g, NEW w, Rewritten(s, g, w)
    PROVE  Sound(w)
<1>1. PICK R :
      /\ w \in SchemasOver(R) /\ w.type = s.type /\ w.required = s.required /\ w.nullable = s.nullable
      /\ w.alts = Each(s.alts, g) /\ w.items = Each(s.items, g) /\ w.extra = Each(s.extra, g)
      /\ w.props = [f \in FieldNames |-> Each(s.props[f], g)]
  BY DEF Rewritten
<1>2. /\ s.alts \in Seq(S) /\ s.items \in Optional(S) /\ s.extra \in Optional(S)
      /\ s.props \in [FieldNames -> Optional(S)]
  BY DEF SchemasOver, Fields
<1>3. w.alts = <<>> <=> s.alts = <<>>
  <2>1. DOMAIN w.alts = DOMAIN s.alts
    BY <1>1 DEF Each
  <2>2. w.alts \in Seq(R)
    BY <1>1 DEF SchemasOver
  <2>3. \A T : \A x \in Seq(T) : x = <<>> <=> DOMAIN x = {}
    <3>1. SUFFICES ASSUME NEW T, NEW x \in Seq(T), DOMAIN x = {}
                   PROVE  x = <<>>
      OBVIOUS
    <3>2. DOMAIN x = 1 .. Len(x) /\ Len(x) \in Nat
      OBVIOUS
    <3>3. Len(x) = 0
      <4>1. \A n \in Nat : 1 .. n = {} => n = 0
        <5>1. SUFFICES ASSUME NEW n \in Nat, n # 0 PROVE 1 \in 1 .. n
          OBVIOUS
        <5> QED BY <5>1
      <4> QED BY <3>1, <3>2, <4>1
    <3> QED BY <3>3
  <2> QED BY <1>2, <2>1, <2>2, <2>3
<1>4. (w.items = None <=> s.items = None) /\ (w.extra = None <=> s.extra = None)
  BY <1>1, <1>2, EachPresent
<1>5. w.props = NoFields <=> s.props = NoFields
  <2>1. w.props \in [FieldNames -> Optional(R)]
    BY <1>1 DEF SchemasOver, Fields
  <2>2. ASSUME NEW f \in FieldNames
        PROVE  w.props[f] = None <=> s.props[f] = None
    <3>1. s.props[f] \in Optional(S) /\ w.props[f] = Each(s.props[f], g)
      BY <1>1, <1>2
    <3> QED BY <3>1, EachPresent
  <2>3. w.props = NoFields <=> \A f \in FieldNames : w.props[f] = None
    BY <2>1 DEF NoFields
  <2>4. s.props = NoFields <=> \A f \in FieldNames : s.props[f] = None
    BY <1>2 DEF NoFields
  <2> QED BY <2>2, <2>3, <2>4
<1>6. w.type = s.type /\ w.required = s.required /\ w.nullable = s.nullable
  BY <1>1
<1> QED
  BY <1>3, <1>4, <1>5, <1>6 DEF Sound

SoundFrom(k) == SoundTrees[k + 1]

LEMMA ResolvedTyped ==
    ASSUME NEW doc, IsDocument(doc), NEW visited \in SUBSET DOMAIN doc, NEW r,
           \A n \in DOMAIN doc \ visited :
               r[visited \cup {n}] \in [DOMAIN doc -> SoundFrom(Left(doc, visited \cup {n}))]
    PROVE  ResolvedBody(doc, visited, r) \in [DOMAIN doc -> SoundFrom(Left(doc, visited))]
<1> DEFINE N == DOMAIN doc
           k == Left(doc, visited)
<1>1. ASSUME NEW n \in N
      PROVE  ResolvedBody(doc, visited, r)[n] \in SoundFrom(k)
  <2>1. k \in Nat /\ k + 1 \in 1 .. SchemaDepth /\ (k + 1) - 1 = k
    <3>1. /\ k \in 0 .. Cardinality(N) /\ Cardinality(N) + 2 <= SchemaDepth
          /\ Cardinality(N) \in Nat
      BY LeftFacts, FS_CardinalityType DEF IsDocument
    <3> HIDE DEF k, N
    <3> QED BY <3>1, TopFacts
  <2>2. SoundFrom(k) = SoundOver(SoundTrees[k])
    <3> HIDE DEF k
    <3> QED BY <2>1, SoundLevels DEF SoundFrom
  <2>3. CASE n \in visited
    <3>1. AnyValue \in SchemasOver(SoundTrees[k]) /\ Sound(AnyValue)
      BY LeafFields, Leaves DEF Sound
    <3> QED BY <2>2, <2>3, <3>1 DEF SoundOver, ResolvedBody
  <2>4. CASE n \notin visited
    <3> DEFINE g == r[visited \cup {n}]
               s == doc[n]
               w == WithParts(s, g)
    <3>1. s \in SchemasOver(N) /\ Sound(s)
      BY DEF IsDocument, SoundOver
    <3>2. g \in [N -> SoundTrees[k]]
      <4>1. Left(doc, visited \cup {n}) = k - 1
        BY <2>4, LeftFacts
      <4>2. SoundFrom(k - 1) = SoundTrees[k]
        <5>1. (k - 1) + 1 = k
          BY <2>1
        <5> QED BY <5>1 DEF SoundFrom
      <4> QED BY <2>4, <4>1, <4>2
    <3> HIDE DEF g, s, N, k
    <3>3. \A y \in Parts(s) : g[y] \in SoundTrees[k]
      BY <3>1, <3>2, PartsOf
    <3>4. w \in SchemasOver(SoundTrees[k]) /\ Rewritten(s, g, w)
      BY <3>1, <3>3, WithPartsFacts
    <3>5. Sound(w)
      BY <3>1, <3>4, RewrittenSound
    <3>6. ResolvedBody(doc, visited, r)[n] = w
      BY <2>4 DEF ResolvedBody, w, s, g, N
    <3> QED BY <2>2, <3>4, <3>5, <3>6 DEF SoundOver
  <2> QED BY <2>3, <2>4
<1> QED
  BY <1>1 DEF ResolvedBody

\* What the definition of resolveSchema asks of its recursive function.
IsResolved(doc, f) == f = [visited \in SUBSET DOMAIN doc |-> ResolvedBody(doc, visited, f)]

LEMMA ResolvedAgrees ==
    ASSUME NEW doc, NEW visited \in SUBSET DOMAIN doc, NEW g, NEW h,
           \A n \in DOMAIN doc \ visited : g[visited \cup {n}] = h[visited \cup {n}]
    PROVE  ResolvedBody(doc, visited, g) = ResolvedBody(doc, visited, h)
<1>1. \A n \in DOMAIN doc :
          (IF n \in visited THEN AnyValue ELSE WithParts(doc[n], g[visited \cup {n}]))
          = (IF n \in visited THEN AnyValue ELSE WithParts(doc[n], h[visited \cup {n}]))
  OBVIOUS
<1> QED
  BY <1>1 DEF ResolvedBody

Lefts(doc) == [visited \in SUBSET DOMAIN doc |-> Left(doc, visited)]
Resolutions(doc) == [visited \in SUBSET DOMAIN doc |-> [DOMAIN doc -> SoundFrom(Left(doc, visited))]]

LEMMA LeftsFacts ==
    ASSUME NEW doc, IsDocument(doc)
    PROVE  /\ Cardinality(DOMAIN doc) \in Nat
           /\ Lefts(doc) \in [SUBSET DOMAIN doc -> 0 .. Cardinality(DOMAIN doc)]
           /\ \A visited \in SUBSET DOMAIN doc : \A n \in DOMAIN doc \ visited :
                 visited \cup {n} \in SUBSET DOMAIN doc
                 /\ Lefts(doc)[visited \cup {n}] < Lefts(doc)[visited]
<1>1. Cardinality(DOMAIN doc) \in Nat
  BY FS_CardinalityType DEF IsDocument
<1>2. \A v \in SUBSET DOMAIN doc : Left(doc, v) \in 0 .. Cardinality(DOMAIN doc)
  BY LeftFacts
<1>3. Lefts(doc) \in [SUBSET DOMAIN doc -> 0 .. Cardinality(DOMAIN doc)]
  BY <1>2 DEF Lefts
<1>4. ASSUME NEW visited \in SUBSET DOMAIN doc, NEW n \in DOMAIN doc \ visited
      PROVE  visited \cup {n} \in SUBSET DOMAIN doc /\ Lefts(doc)[visited \cup {n}] < Lefts(doc)[visited]
  <2>1. visited \cup {n} \in SUBSET DOMAIN doc /\ Left(doc, visited \cup {n}) = Left(doc, visited) - 1
    BY LeftFacts
  <2>2. Left(doc, visited) \in Int
    BY <1>1, <1>2
  <2>3. Left(doc, visited \cup {n}) < Left(doc, visited)
    BY <2>1, <2>2
  <2> QED BY <2>1, <2>3 DEF Lefts
<1> QED
  BY <1>1, <1>3, <1>4

LEMMA ResolutionExists ==
    ASSUME NEW doc, IsDocument(doc)
    PROVE  \E f \in Typed(SUBSET DOMAIN doc, Resolutions(doc)) : IsResolved(doc, f)
<1> DEFINE X == SUBSET DOMAIN doc
           T == Resolutions(doc)
           r == Lefts(doc)
           G == [visited \in X |-> [g \in Typed(X, T) |-> ResolvedBody(doc, visited, g)]]
<1>1. \A v \in X : T[v] = [DOMAIN doc -> SoundFrom(Left(doc, v))]
  BY DEF Resolutions
<1>2. \A v \in X, g \in Typed(X, T) : G[v][g] = ResolvedBody(doc, v, g)
  OBVIOUS
<1>3. \A v \in X, g \in Typed(X, T) : G[v][g] \in T[v]
  <2>1. SUFFICES ASSUME NEW v \in X, NEW g \in Typed(X, T)
                 PROVE  ResolvedBody(doc, v, g) \in T[v]
    BY <1>2
  <2>2. \A n \in DOMAIN doc \ v : g[v \cup {n}] \in [DOMAIN doc -> SoundFrom(Left(doc, v \cup {n}))]
    BY <1>1, LeftsFacts DEF Typed
  <2> HIDE DEF T
  <2> QED BY <1>1, <2>2, ResolvedTyped
<1>4. \A v \in X, g, h \in Typed(X, T) :
          (\A w \in X : r[w] < r[v] => g[w] = h[w]) => G[v][g] = G[v][h]
  <2>1. SUFFICES ASSUME NEW v \in X, NEW g \in Typed(X, T), NEW h \in Typed(X, T),
                        \A w \in X : r[w] < r[v] => g[w] = h[w]
                 PROVE  ResolvedBody(doc, v, g) = ResolvedBody(doc, v, h)
    BY <1>2
  <2>2. \A n \in DOMAIN doc \ v : g[v \cup {n}] = h[v \cup {n}]
    BY <2>1, LeftsFacts
  <2> HIDE DEF T, r
  <2> QED BY <2>2, ResolvedAgrees
<1>5. Typed(X, T) # {}
  <2> DEFINE a == [n \in DOMAIN doc |-> AnyValue]
             g == [v \in X |-> a]
  <2>1. ASSUME NEW v \in X
        PROVE  a \in T[v]
    <3>1. Left(doc, v) + 1 \in 1 .. SchemaDepth
      <4>1. /\ Left(doc, v) \in 0 .. Cardinality(DOMAIN doc) /\ Cardinality(DOMAIN doc) + 2 <= SchemaDepth
            /\ Cardinality(DOMAIN doc) \in Nat
        BY LeftFacts, LeftsFacts DEF IsDocument
      <4> QED BY <4>1, TopFacts
    <3>2. SoundFrom(Left(doc, v)) = SoundOver(SoundTrees[(Left(doc, v) + 1) - 1])
      BY <3>1, SoundLevels DEF SoundFrom
    <3>3. AnyValue \in SoundFrom(Left(doc, v))
      BY <3>2, Leaves, LeafFields DEF SoundOver, Sound
    <3> QED BY <1>1, <3>3
  <2>2. g \in Typed(X, T)
    <3>1. \A v \in X : g[v] = a
      OBVIOUS
    <3> HIDE DEF a, T
    <3> QED BY <2>1, <3>1 DEF Typed
  <2> QED BY <2>2
<1>6. PICK f \in Typed(X, T) : \A v \in X : f[v] = G[v][f]
  <2>1. Recursive(X, r, T, G)
    <3> HIDE DEF X, T, r, G
    <3> QED BY <1>3, <1>4 DEF Recursive
  <2>2. r \in [X -> 0 .. Cardinality(DOMAIN doc)] /\ Cardinality(DOMAIN doc) \in Nat
    BY LeftsFacts
  <2> HIDE DEF X, T, r, G
  <2> QED BY <1>5, <2>1, <2>2, Recursion
<1>7. \A v \in X : f[v] = ResolvedBody(doc, v, f)
  BY <1>2, <1>6
<1>8. f = [v \in X |-> f[v]]
  BY DEF Typed
<1>9. IsResolved(doc, f)
  BY <1>7, <1>8 DEF IsResolved
<1> QED
  BY <1>9

\* Every schema of a document resolves to a sound schema, no deeper than the document is long.
LEMMA ResolvedSchema ==
    ASSUME NEW doc, IsDocument(doc), NEW n \in DOMAIN doc
    PROVE  resolveSchema(doc)[n] \in SoundTrees[Cardinality(DOMAIN doc) + 1]
<1> DEFINE X == SUBSET DOMAIN doc
           T == Resolutions(doc)
           f == CHOOSE f : IsResolved(doc, f)
<1>1. IsResolved(doc, f)
  <2>1. \E g : IsResolved(doc, g)
    BY ResolutionExists
  <2> QED BY <2>1
<1>2. resolveSchema(doc) = f[{}]
  BY DEF resolveSchema, IsResolved, ResolvedBody
<1> HIDE DEF f
<1>3. \A v \in X : f[v] = ResolvedBody(doc, v, f)
  BY <1>1 DEF IsResolved
<1> DEFINE P == {v \in X : f[v] \in [DOMAIN doc -> SoundFrom(Left(doc, v))]}
           r == Lefts(doc)
<1>4. ASSUME NEW v \in X, \A w \in X : r[w] < r[v] => w \in P
      PROVE  v \in P
  <2>1. \A m \in DOMAIN doc \ v : f[v \cup {m}] \in [DOMAIN doc -> SoundFrom(Left(doc, v \cup {m}))]
    BY <1>4, LeftsFacts
  <2>2. ResolvedBody(doc, v, f) \in [DOMAIN doc -> SoundFrom(Left(doc, v))]
    BY <2>1, ResolvedTyped
  <2> QED BY <1>3, <2>2
<1>5. X \subseteq P
  <2>1. r \in [X -> 0 .. Cardinality(DOMAIN doc)] /\ Cardinality(DOMAIN doc) \in Nat
    BY LeftsFacts
  <2> HIDE DEF X, P, r
  <2> QED BY <1>4, <2>1, RankInduction
<1>6. f[{}] \in [DOMAIN doc -> SoundFrom(Left(doc, {}))]
  BY <1>5
<1>7. Left(doc, {}) = Cardinality(DOMAIN doc)
  <2>1. DOMAIN doc \ {} = DOMAIN doc
    OBVIOUS
  <2> QED BY <2>1 DEF Left
<1> QED
  BY <1>2, <1>6, <1>7 DEF SoundFrom

LEMMA SoundTreesDocumented ==
    ASSUME NEW n \in 0 .. SchemaDepth
    PROVE  SoundTrees[n] \subseteq Documented
<1>1. SchemaDepth \in 0 .. SchemaDepth
  BY TopFacts
<1>2. SoundTrees[n] \subseteq SoundTrees[SchemaDepth]
  BY <1>1, SoundTower, LevelsGrow, TopFacts
<1> QED
  BY <1>2 DEF Documented

\* Wrapping a schema, and wrapping a value.
LEMMA Wrapped ==
    /\ \A n \in 1 .. SchemaDepth - 1 : \A s \in SoundTrees[n] : InResult(s) \in Documented
    /\ \A v \in ValueTrees[ValueDepth - 1] : v \in Values /\ InResultField(v) \in Values
<1>1. ASSUME NEW n \in 1 .. SchemaDepth - 1, NEW s \in SoundTrees[n]
      PROVE  InResult(s) \in Documented
  <2> DEFINE S == SoundTrees[n]
             o == Of("object")
             p == [NoFields EXCEPT !["result"] = <<s>>]
             w == [[o EXCEPT !.props = p] EXCEPT !.required = {"result"}]
  <2>1. o \in SchemasOver(S) /\ NoFields \in Fields(S) /\ <<s>> \in Optional(S)
    BY Leaves, OptionalMade DEF TypeNames
  <2>2. p \in Fields(S)
    BY <2>1, TopFacts DEF Fields
  <2>3. InResult(s) = w
    BY LeafFields DEF InResult
  <2>4. {"result"} \in SUBSET FieldNames
    BY TopFacts
  <2>5. p # NoFields
    <3>1. p["result"] = <<s>> /\ NoFields["result"] = None
      BY TopFacts DEF NoFields
    <3>2. <<s>> # None
      BY DEF None
    <3> QED BY <3>1, <3>2
  <2> HIDE DEF p, S
  <2>6. /\ w \in SchemasOver(S) /\ w.type = o.type /\ w.alts = o.alts /\ w.items = o.items
        /\ w.props = p /\ w.required = {"result"} /\ w.nullable = o.nullable
    BY <2>1, <2>2, <2>4 DEF SchemasOver
  <2>7. o.type = {"object"} /\ o.alts = <<>> /\ o.items = None /\ ~o.nullable
    BY LeafFields
  <2> HIDE DEF w, o
  <2>8. Sound(w)
    BY <2>5, <2>6, <2>7 DEF Sound, TypeNames
  <2>9. n + 1 \in 1 .. SchemaDepth /\ (n + 1) - 1 = n
    BY TopFacts
  <2>10. SoundTrees[n + 1] = SoundOver(S)
    BY <2>9, SoundLevels DEF S
  <2>11. w \in SoundTrees[n + 1]
    BY <2>6, <2>8, <2>10 DEF SoundOver
  <2> QED BY <2>3, <2>9, <2>11, SoundTreesDocumented
<1>2. ASSUME NEW v \in ValueTrees[ValueDepth - 1]
      PROVE  v \in Values /\ InResultField(v) \in Values
  <2> DEFINE V == ValueTrees[ValueDepth - 1]
  <2>1. ValueDepth \in 1 .. ValueDepth /\ ValueDepth \in 0 .. ValueDepth /\ ValueDepth - 1 \in 0 .. ValueDepth
    BY TopFacts, DepthAssumption
  <2>2. V \subseteq Values
    BY <2>1, ValueTower, LevelsGrow, TopFacts DEF Values
  <2>3. Values = ValuesOver(V)
    BY <2>1, ValueLevels DEF Values
  <2>4. [NoFields EXCEPT !["result"] = <<v>>] \in Fields(V)
    <3>1. None \in Optional(V) /\ <<v>> \in Optional(V)
      BY OptionalMade
    <3> HIDE DEF V
    <3> QED BY <3>1 DEF NoFields, Fields
  <2>5. InResultField(v) \in ValuesOver(V)
    BY <2>4 DEF InResultField, Object, ValuesOver
  <2> QED BY <2>2, <2>3, <2>5
<1> QED
  BY <1>1, <1>2

---------------------------------------------------------------------------
(* The answer of a generic tool.                                           *)

\* A tool that is called was made from an operation of a document.
OperationCalled == \E api \in Apis : \E i \in DOMAIN api.ops : call.tool.op = api.ops[i]

\* An answer is what toolHandler makes of one that ZenTao may give.
AnsweredWell ==
    \E success \in BOOLEAN : \E body \in BodiesFor(call.tool.op) :
        /\ answer.body = body /\ answer.failed = Failed(success, body)
        /\ answer.structured = Structured(success, body)

AnswerInv ==
    /\ ToolsBuilt
    /\ stage = "called" => call.kind = "tool"
    /\ stage = "called" \/ ToolAnswered => OperationCalled
    /\ ToolAnswered => AnsweredWell

\* findSuccessResponse finds one of the responses.
LEMMA ResponseFound ==
    ASSUME NEW responses, findSuccessResponse(responses) # None
    PROVE  \E code \in DOMAIN responses : findSuccessResponse(responses) = responses[code]
<1> DEFINE present == {i \in DOMAIN SuccessCodes : SuccessCodes[i] \in DOMAIN responses}
           i == CHOOSE i \in present : \A j \in present : i <= j
<1>1. present # {} /\ findSuccessResponse(responses) = responses[SuccessCodes[i]]
  BY DEF findSuccessResponse
<1>2. present \in SUBSET Nat
  BY DEF SuccessCodes
<1>3. i \in present
  <2> HIDE DEF present
  <2>1. \E m \in present : \A j \in present : m <= j
    BY <1>1, <1>2, Least
  <2> QED BY <2>1
<1>4. SuccessCodes[i] \in DOMAIN responses
  <2> HIDE DEF i
  <2> QED BY <1>3
<1> QED
  BY <1>1, <1>4

LEMMA OutputFacts ==
    ASSUME OperationCalled, Output.schema # None
    PROVE  /\ Schema \in Documented
           /\ \A body \in BodiesFor(call.tool.op) :
                  IsJSON(body) => (IF Output.wrap THEN InResultField(body) ELSE body) \in Values
<1>1. PICK api \in Apis : \E i \in DOMAIN api.ops : call.tool.op = api.ops[i]
  BY DEF OperationCalled
<1>2. PICK i \in DOMAIN api.ops : call.tool.op = api.ops[i]
  BY <1>1
<1> DEFINE op == api.ops[i]
           r == findSuccessResponse(op.responses)
           doc == r[1].doc
           s == resolveSchema(doc)[r[1].root]
<1>3. /\ \A code \in DOMAIN op.responses : op.responses[code] # None =>
             LET q == op.responses[code][1] IN IsDocument(q.doc) /\ q.root \in DOMAIN q.doc
      /\ \A body \in BodiesFor(op) : IsJSON(body) => body \in ValueTrees[ValueDepth - 1]
  BY ResponsesAssumption
<1>4. Output = buildToolOutputSchema(op.responses)
  BY <1>2 DEF Output
<1>5. r # None
  BY <1>4 DEF buildToolOutputSchema
<1>6. IsDocument(doc) /\ r[1].root \in DOMAIN doc
  <2>1. PICK code \in DOMAIN op.responses : r = op.responses[code]
    BY <1>5, ResponseFound
  <2> QED BY <1>3, <1>5, <2>1
<1>7. Schema = s \/ Schema = InResult(s)
  BY <1>4, <1>5 DEF buildToolOutputSchema, Schema
<1> DEFINE n == Cardinality(DOMAIN doc) + 1
<1>8. n \in 1 .. SchemaDepth - 1 /\ n \in 0 .. SchemaDepth
  <2>1. Cardinality(DOMAIN doc) \in Nat /\ Cardinality(DOMAIN doc) + 2 <= SchemaDepth
    BY <1>6, FS_CardinalityType DEF IsDocument
  <2> QED BY <2>1, TopFacts
<1>9. s \in SoundTrees[n]
  BY <1>6, ResolvedSchema
<1>10. Schema \in Documented
  <2> HIDE DEF s, n
  <2>1. s \in Documented
    BY <1>8, <1>9, SoundTreesDocumented
  <2>2. InResult(s) \in Documented
    BY <1>8, <1>9, Wrapped
  <2> QED BY <1>7, <2>1, <2>2
<1>11. \A body \in BodiesFor(call.tool.op) :
           IsJSON(body) => (IF Output.wrap THEN InResultField(body) ELSE body) \in Values
  BY <1>2, <1>3, Wrapped
<1> QED
  BY <1>10, <1>11

\* The structured output of an answer is what ZenTao said, normalised.
LEMMA StructuredFacts ==
    ASSUME AnswerInv, ToolAnswered, answer.structured # None
    PROVE  /\ ~answer.failed /\ Schema \in Documented /\ Said \in Values
           /\ answer.structured[1] = normalizeValue[Schema][Said]
<1>1. OperationCalled /\ AnsweredWell
  BY DEF AnswerInv
<1>2. PICK success \in BOOLEAN : \E body \in BodiesFor(call.tool.op) :
          /\ answer.body = body /\ answer.failed = Failed(success, body)
          /\ answer.structured = Structured(success, body)
  BY <1>1 DEF AnsweredWell
<1>3. PICK body \in BodiesFor(call.tool.op) :
          /\ answer.body = body /\ answer.failed = Failed(success, body)
          /\ answer.structured = Structured(success, body)
  BY <1>2
<1>4. Output.schema # None /\ success /\ IsJSON(body)
  BY <1>3 DEF Structured
<1>5. answer.structured = <<StructuredOutput(Output.schema[1], Output.wrap, body)>>
  BY <1>3 DEF Structured
<1>6. answer.structured[1] = normalizeValue[Schema][Said]
  BY <1>3, <1>5 DEF StructuredOutput, Schema, Said
<1>7. ~answer.failed
  BY <1>3, <1>4 DEF Failed, IsJSON
<1>8. Schema \in Documented /\ Said \in Values
  BY <1>1, <1>3, <1>4, OutputFacts DEF Said
<1> QED
  BY <1>6, <1>7, <1>8

LEMMA AnswerStart == Init => AnswerInv
  BY DEF Init, NotServing, AnswerInv, ToolsBuilt, ToolAnswered, Nothing

LEMMA RegisterAnswers == ASSUME AnswerInv, RegisterTools PROVE AnswerInv'
<1>1. PICK api \in Apis : tools' = RegisterAllTools(api.ops, api.matcher, api.skipDeprecated)
  BY DEF RegisterTools
<1>2. api.ops \in Seq(Range(api.ops))
  BY DocumentAssumption
<1>3. ToolsBuilt'
  BY <1>1, <1>2, RegisteredBuilt DEF ToolsBuilt
<1> QED
  BY <1>3 DEF RegisterTools, AnswerInv, ToolAnswered

LEMMA CallAnswers == ASSUME AnswerInv, CallGeneric PROVE AnswerInv'
<1>1. PICK name \in DOMAIN tools : \E in \in ArgumentsFor(tools[name].op) : CallTool(name, in)
  BY DEF CallGeneric
<1>2. PICK in \in ArgumentsFor(tools[name].op) : CallTool(name, in)
  BY <1>1
<1>3. PICK api \in Apis : \E i \in DOMAIN api.ops : tools[name] = buildTool(api.ops[i])
  BY DEF AnswerInv, ToolsBuilt
<1>4. PICK i \in DOMAIN api.ops : tools[name] = buildTool(api.ops[i])
  BY <1>3
<1>5. call'.kind = "tool" /\ call'.tool = tools[name] /\ stage' = "called" /\ tools' = tools
  BY <1>2 DEF CallTool
<1>6. tools[name].op = api.ops[i]
  BY <1>4 DEF buildTool
<1>7. OperationCalled'
  BY <1>5, <1>6 DEF OperationCalled
<1> QED
  BY <1>5, <1>7 DEF AnswerInv, ToolsBuilt, ToolAnswered

LEMMA ReplyAnswers == ASSUME AnswerInv, Reply PROVE AnswerInv'
<1>1. PICK success \in BOOLEAN, body \in BodiesFor(call.tool.op) : ToolAnswers(success, body)
  BY DEF Reply
<1>2. stage' = "answered" /\ tools' = tools /\ call' = call /\ stage = "called"
  BY <1>1 DEF Reply, ToolAnswers
<1>3. Failed(success, body)' = Failed(success, body) /\ Structured(success, body)' = Structured(success, body)
  BY <1>2 DEF Failed, Structured, Output
<1>4. AnsweredWell'
  BY <1>1, <1>2, <1>3 DEF AnsweredWell, ToolAnswers
<1>5. OperationCalled'
  BY <1>2 DEF AnswerInv, OperationCalled
<1> QED
  BY <1>2, <1>4, <1>5 DEF AnswerInv, ToolsBuilt

\* An answer about bugs is no answer of a generic tool.
LEMMA AskAnswers == ASSUME AnswerInv, AskAboutBug PROVE AnswerInv'
<1>1. PICK view \in Views :
          \/ \E id \in BugIDs, rl, cl \in Limits : Analyse(view, id, rl, cl)
          \/ \E ids \in BoundedSeq(BugIDs, MaxIDs), limit \in Limits \ {0} : Score(view, ids, limit)
  BY DEF AskAboutBug, CallBuiltIn
<1>2. stage' # "called" /\ call'.kind # "tool"
  <2>1. ASSUME NEW id, NEW rl, NEW cl, Analyse(view, id, rl, cl)
        PROVE  stage' # "called" /\ call'.kind # "tool"
    <3>1. call'.kind = "analysis"
      BY <2>1 DEF Analyse
    <3>2. stage' = "failed" \/ stage' = "answered"
      BY <2>1 DEF Analyse
    <3> QED BY <3>1, <3>2
  <2>2. ASSUME NEW ids, NEW limit, Score(view, ids, limit)
        PROVE  stage' # "called" /\ call'.kind # "tool"
    BY <2>2 DEF Score
  <2> QED BY <1>1, <2>1, <2>2
<1>3. tools' = tools
  BY DEF AskAboutBug
<1> QED
  BY <1>2, <1>3 DEF AnswerInv, ToolsBuilt, ToolAnswered

LEMMA AnswerStep == AnswerInv /\ [Next]_vars => AnswerInv'
<1> SUFFICES ASSUME AnswerInv, [Next]_vars PROVE AnswerInv'
  OBVIOUS
<1>1. CASE RegisterTools
  BY <1>1, RegisterAnswers
<1>2. CASE CallGeneric
  BY <1>2, CallAnswers
<1>3. CASE AskAboutBug
  BY <1>3, AskAnswers
<1>4. CASE Reply
  BY <1>4, ReplyAnswers
<1>5. CASE CallFails
  BY <1>5 DEF CallFails, AnswerInv, ToolsBuilt, ToolAnswered
<1>6. CASE UNCHANGED vars
  BY <1>6 DEF vars, exchange, AnswerInv, ToolsBuilt, ToolAnswered, OperationCalled, AnsweredWell,
              Failed, Structured, Output
<1> QED
  BY <1>1, <1>2, <1>3, <1>4, <1>5, <1>6 DEF Next

(* A structured output passes the schema that was published for its tool,  *)
(* for every document, every operation and every answer in which objects   *)
(* are objects, however deep they nest; a failed call has none             *)
(* (output_schema_compat.go, normalize_output.go).                         *)
THEOREM OutputsAlwaysPass == Spec => []OutputPasses
<1>1. AnswerInv => OutputPasses
  <2> SUFFICES ASSUME AnswerInv, ToolAnswered, answer.structured # None
               PROVE  /\ ~answer.failed
                      /\ Said \in Promised[Schema] =>
                             answer.structured[1] \in Valid[makeSchemaCompatible[Schema]]
    BY DEF OutputPasses
  <2>1. /\ ~answer.failed /\ Schema \in Documented /\ Said \in Values
        /\ answer.structured[1] = normalizeValue[Schema][Said]
    BY StructuredFacts
  <2>2. Schema \in Schemas
    BY <2>1, DocumentedFacts
  <2>3. ASSUME Said \in Promised[Schema]
        PROVE  normalizeValue[Schema][Said] \in Valid[makeSchemaCompatible[Schema]]
    <3>1. normalizeValue[Schema][Said] \in Promised[Schema]
      BY <2>1, <2>2, <2>3, NormalizedFollows DEF Follows
    <3> QED BY <2>1, <3>1, PromisedIsValid
  <2> QED BY <2>1, <2>3
<1> QED
  BY <1>1, AnswerStart, AnswerStep, PTL DEF Spec

(* A value that can be read as the document declares it is written so in   *)
(* the output, at any depth (normalize_output.go:19-79).                   *)
THEOREM NumbersAlwaysRestored == Spec => []NumbersRestored
<1>1. AnswerInv => NumbersRestored
  <2> SUFFICES ASSUME AnswerInv, ToolAnswered, answer.structured # None, Said \in Says[Schema][FALSE]
               PROVE  answer.structured[1] \in Says[Schema][TRUE]
    BY DEF NumbersRestored
  <2> QED BY StructuredFacts, SaidIsRestored
<1> QED
  BY <1>1, AnswerStart, AnswerStep, PTL DEF Spec

---------------------------------------------------------------------------
(* What was shown of the request and of the bug tools holds of exchanges.  *)

(* An exchange takes the steps that the theorems on requests assume: only  *)
(* CallGeneric calls a generic tool, and the tools stay registered.        *)
THEOREM ExchangeIsRequest == Spec => RequestSpec
<1>1. [Next]_vars => [RegisterTools \/ CallGeneric \/ OtherSteps]_<<exchange, tools>>
  <2>1. AskAboutBug => OtherSteps
    BY DEF AskAboutBug, CallBuiltIn, Analyse, Score, OtherSteps
  <2>2. Reply => OtherSteps
    BY DEF Reply, ToolAnswers, OtherSteps
  <2>3. CallFails => OtherSteps
    BY DEF CallFails, OtherSteps
  <2> QED BY <2>1, <2>2, <2>3 DEF Next, vars
<1> QED
  BY <1>1, PTL DEF Spec, Init, RequestSpec

(* And those that the theorems on the bug tools assume: any other answer   *)
(* is one of a generic tool.                                               *)
THEOREM ExchangeAsksAboutBugs == Spec => BugToolSpec
<1>1. Init => stage = "start"
  BY DEF Init, NotServing
<1>2. AnswerInv /\ [Next]_vars => [CallBuiltIn \/ GenericSteps]_exchange
  <2> SUFFICES ASSUME AnswerInv, [Next]_vars
               PROVE  CallBuiltIn \/ GenericSteps \/ UNCHANGED exchange
    OBVIOUS
  <2>1. CASE RegisterTools \/ CallGeneric \/ CallFails
    BY <2>1 DEF RegisterTools, CallGeneric, CallTool, CallFails, GenericSteps
  <2>2. CASE Reply
    BY <2>2 DEF Reply, ToolAnswers, AnswerInv, GenericSteps
  <2>3. CASE AskAboutBug
    BY <2>3 DEF AskAboutBug
  <2>4. CASE UNCHANGED vars
    BY <2>4 DEF vars
  <2> QED BY <2>1, <2>2, <2>3, <2>4 DEF Next
<1> QED
  BY <1>1, <1>2, AnswerStart, AnswerStep, PTL DEF Spec, BugToolSpec

(* So an exchange sends what its client asked, shows related bugs only to  *)
(* those who may read them, and follows the record of a bug.               *)
THEOREM ExchangesKeep == Spec => [](ArgumentsSent /\ RelatedAreReadable /\ InsightsFollowRecord)
  BY ExchangeIsRequest, ExchangeAsksAboutBugs, ArgumentsAlwaysSent, RelatedReadable, InsightsFollow, PTL
=============================================================================
