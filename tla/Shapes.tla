------------------------------- MODULE Shapes -------------------------------
(***************************************************************************)
(* Schemas, and the values they are held against: what the input and the   *)
(* output side of a generic tool have in common.  The keywords are those   *)
(* that the documents of docs/ use.                                        *)
(***************************************************************************)

CONSTANT FieldNames         \* the names of fields, in documents and in answers

None == <<>>                \* what is absent; a present x is <<x>>
NoFields == [f \in FieldNames |-> None]

(* A schema.  alts are the alternatives of the keyword key.                *)
AnyValue == [type |-> {}, nullable |-> FALSE, key |-> "anyOf", alts |-> <<>>, items |-> None,
        props |-> NoFields, required |-> {}, extra |-> None]
Of(t) == [AnyValue EXCEPT !.type = {t}]

(* A value, by its kind; a scalar with the types its text can be parsed as *)
(* (strconv.ParseInt, ParseFloat, ParseBool).  What JSON calls a number is *)
(* an "integer" here when it has no fraction.                              *)
Null           == [kind |-> "null"]
Scalar(k, r)   == [kind |-> k, reads |-> r]
List(s)        == [kind |-> "array", items |-> s]
Object(f)      == [kind |-> "object", fields |-> f]
IsScalar(v)    == v.kind \in {"string", "integer", "number", "boolean"}
=============================================================================
