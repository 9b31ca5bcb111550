------------------------------ MODULE SchemaOptions ------------------------------
(***************************************************************************)
(* Which limits of a value the console of webapp/swagger-ui.js tells the   *)
(* reader of a schema, in the two copies of its code (schema-markup of     *)
(* swagger-js, SwaggerUi.partials.signature).                              *)
(*                                                                         *)
(* s.basic is the type of a primitive, s.limits a function from the names  *)
(* of its limits to values, of which 0 stands for all that count as false: *)
(* the number, an empty text, FALSE.                                       *)
(***************************************************************************)
EXTENDS Integers, Sequences

OfStrings == {"minLength", "maxLength", "pattern"}
OfNumbers == {"minimum", "exclusiveMinimum", "maximum", "exclusiveMaximum", "multipleOf"}
OfArrays == {"minItems", "maxItems", "uniqueItems", "collectionFormat"}

OfType(type) ==
  IF type = "string" THEN OfStrings
  ELSE IF type \in {"number", "integer"} THEN OfNumbers ELSE {}

IsArray(s) == s.kind \in {"array", "tuple", "list"}

\* The limits of an array are those of its own and, although it has none, those
\* of the type of its items.
Limits(s) ==
  IF ~ IsArray(s) THEN OfType(s.basic)
  ELSE OfArrays \cup (IF s.kind = "array" THEN OfType(s.parts[1].basic) ELSE {})

Present(s, names) == DOMAIN s.limits \cap names

\* A limit that counts as false is left out; a default is not, nor are the
\* values that are allowed, unless there are items.
Options(s) ==
  {l \in Present(s, Limits(s)) : s.limits[l] # 0}
    \cup Present(s, IF s.kind \in {"array", "tuple"} THEN {"default"} ELSE {"default", "enum"})

\* The newer copy puts the allowed values of any schema beside its type.
primitiveToOptionsHTML(copy, s) ==
  Options(s) \cup (IF copy = "partial" THEN Present(s, {"enum"}) ELSE {})

\* The older copy does that for the properties of a model.
Property(copy, s) ==
  primitiveToOptionsHTML(copy, s) \cup Present(s, {"enum"})

=============================================================================
