-------------------------- MODULE OperationParameter --------------------------
(***************************************************************************)
(* A parameter of an operation in the console of webapp/swagger-ui.js:     *)
(* what its declaration allows, the element of the form that it gets, what *)
(* is in the element at first, what is read from it, and how a value that  *)
(* was read is written into the parts of a request.                        *)
(*                                                                         *)
(* A parameter is a record                                                 *)
(*   [name, in, type, items, enum, required, default, example, format,     *)
(*    password, values]                                                    *)
(* where type is that of the schema of a body, items that of the items of  *)
(* an array, enum its allowed values or those of its items, and values is  *)
(* what a user may type.  What is in a field is the sequence of its lines  *)
(* or of its selected options.  A value that was read is a record          *)
(* [list, of]; one that was written is a sequence of values and the        *)
(* separators between them.  None is what the code has as undefined.       *)
(***************************************************************************)
EXTENDS Naturals, Sequences, SequencesExt

CONSTANTS None

-----------------------------------------------------------------------------
(* The declaration, as Operation completes it *)

IsArray(p) == p.in # "body" /\ p.type = "array"

\* An array of booleans is written "boolean" like a boolean.
IsBoolean(p) == p.type = "boolean" \/ (p.type = "array" /\ p.items = "boolean")

AllowableValues(p) == IF IsBoolean(p) THEN <<"true", "false">> ELSE p.enum

\* An example takes the place of the default.
Default(p) == IF p.example # <<>> THEN p.example ELSE p.default

IsList(p) == AllowableValues(p) # <<>>

-----------------------------------------------------------------------------
(* The templates: the element that a parameter gets *)

renderTextParam(p) == IF IsArray(p) THEN "textarea" ELSE "input"

param(p) ==
  IF p.type = "file" THEN "input"
  ELSE IF p.in = "body" THEN "textarea" ELSE renderTextParam(p)

\* Nothing can be entered in an operation that the page does not submit.
param_readonly(p) == IF p.in = "body" THEN "readonly" ELSE "text"

template(p, readOnly) ==
  IF IsList(p) THEN "select" ELSE IF readOnly THEN param_readonly(p) ELSE param(p)

\* An optional parameter has an empty option, before the allowed values.
param_list(p) == (IF p.required THEN <<>> ELSE <<"">>) \o AllowableValues(p)

\* What may be selected, or typed.
Enterable(p) ==
  IF ~ IsList(p) THEN p.values
  ELSE IF IsArray(p)
    THEN {SelectSeq(param_list(p), LAMBDA v : v \in S) : S \in SUBSET ToSet(param_list(p))}
  ELSE {<<v>> : v \in ToSet(param_list(p))}

\* The option that is the default is selected.  The default of an array is no
\* value of its items, and with a default the empty option is not selected: then
\* nothing is, unless there is one value to select, when it is the first option.
Selected(p) ==
  IF Default(p) = <<>> /\ ~ p.required THEN <<"">>
  ELSE IF IsArray(p) THEN <<>>
  ELSE IF \E v \in ToSet(AllowableValues(p)) : Default(p) = <<v>> THEN Default(p)
  ELSE <<param_list(p)[1]>>

\* What is in the element before anything is entered.
Initially(p) ==
  IF p.type = "file" THEN <<>> ELSE IF IsList(p) THEN Selected(p) ELSE Default(p)

-----------------------------------------------------------------------------
(* What is read *)

Blank(field) == \A i \in DOMAIN field : field[i] = ""

\* An array is typed in lines, of which the empty ones do not count; anything
\* else is one value, however many lines it has.
getTextAreaValue(p, field) ==
  IF IsArray(p) THEN [list |-> TRUE, of |-> SelectSeq(field, LAMBDA v : v # "")]
  ELSE [list |-> FALSE, of |-> field]

\* The empty option is a value among the others that are selected.
getSelectedValue(p, field) == [list |-> IsArray(p), of |-> field]

Text(field) == [list |-> FALSE, of |-> field]

-----------------------------------------------------------------------------
(* What is written *)

Mask == "******"
Masked == <<Mask>>

MaskedEach(value) == [value EXCEPT !.of = [i \in DOMAIN value.of |-> Mask]]

Joined(values, separator) ==
  [i \in 1..(2 * Len(values) - 1) |-> IF i % 2 = 1 THEN values[(i + 1) \div 2] ELSE separator]

Separator(format) ==
  CASE format = "ssv" -> "%20" [] format = "tsv" -> "%09" [] format = "pipes" -> "|"
    [] OTHER -> ","

encodePathCollection(format, value) == Joined(value.of, Separator(format))

\* The pairs of a query or of a form that a list becomes; a format that is not
\* known makes none.
encodeQueryCollection(format, name, value) ==
  IF format \in {None, "multi"} THEN [i \in DOMAIN value.of |-> <<name, <<value.of[i]>>>>]
  ELSE IF format = "brackets"
    THEN [i \in DOMAIN value.of |-> <<name \o "[]", <<value.of[i]>>>>]
  ELSE IF format \in {"csv", "ssv", "tsv", "pipes"}
    THEN <<<<name, Joined(value.of, Separator(format))>>>>
  ELSE <<>>

\* A value that is written as it is: the lines of a text, and the values of a
\* list that is turned into a string, are escaped with what is between them.
encodeQueryParam(value) == Joined(value.of, IF value.list THEN "%2C" ELSE "%0A")

\* A list in a query without a format is one value, and one with a format is not
\* masked.
InQuery(p, value, masked) ==
  IF value.list /\ p.format # None THEN encodeQueryCollection(p.format, p.name, value)
  ELSE <<<<p.name, IF masked THEN Masked ELSE encodeQueryParam(value)>>>>

\* Only the values of a list are masked in a path.
InPath(p, value, masked) ==
  <<p.name, IF value.list
              THEN encodePathCollection(p.format, IF masked THEN MaskedEach(value) ELSE value)
            ELSE encodeQueryParam(value)>>

AsHeader(p, value) == <<p.name, Joined(value.of, ",")>>

\* Values that have a name each are masked, those between separators not.
InForm(p, value, masked) ==
  IF ~ value.list THEN <<<<p.name, IF masked THEN Masked ELSE encodeQueryParam(value)>>>>
  ELSE encodeQueryCollection(p.format, p.name,
         IF masked /\ p.format \in {None, "multi", "brackets"} THEN MaskedEach(value) ELSE value)

\* The parts of a multipart body.  Unless its values are parts of their own, a
\* list is what follows the first "=" of its pairs, the names of the others
\* included.
InMultipart(p, value) ==
  LET pairs == encodeQueryCollection(p.format, p.name, value) IN
    IF ~ value.list THEN <<<<p.name, Joined(value.of, "%0A")>>>>
    ELSE IF p.format = "multi" THEN pairs
    ELSE IF pairs = <<>> THEN <<<<p.name, <<"">>>>>>
    ELSE <<<<p.name, FoldLeft(LAMBDA part, q : part \o <<"&", q[1], "=">> \o q[2],
                              pairs[1][2], Tail(pairs))>>>>

=============================================================================
