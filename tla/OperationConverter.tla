-------------------------- MODULE OperationConverter --------------------------
(***************************************************************************)
(* How SwaggerSpecConverter of webapp/swagger-ui.js converts one operation *)
(* of version 1 into one of version 2.  (SpecConverter has the documents   *)
(* that operations come from, and the order of their answers.)             *)
(*                                                                         *)
(* An operation of version 1 is a record [path, method, nickname,          *)
(* resourcePath, type, parameters, responseMessages, produces, consumes];  *)
(* a type is a record [kind, of]: a "model" is named by of, a "list" has   *)
(* items of that type.                                                     *)
(***************************************************************************)
EXTENDS Naturals, Sequences, FiniteSets, SequencesExt

CONSTANTS None,
          extractTag  \* resource path -> tag

Typed(kind, to, parts) ==
  [kind |-> kind, to |-> to, title |-> None, given |-> FALSE, readOnly |-> FALSE,
   basic |-> "string", limits |-> <<>>, parts |-> parts]

\* A type that is the name of a model refers to it if the model is known, and is
\* passed along like that of a primitive if not; a list without items is one of
\* objects; void is no schema.
RECURSIVE toJsonSchema(_, _)
toJsonSchema(known, t) ==
  IF t.kind = "list"
    THEN Typed("array", None, <<IF t.of = None THEN Typed("bare", None, <<>>)
                                ELSE toJsonSchema(known, t.of)>>)
  ELSE IF t.kind = "model" /\ t.of \in known THEN Typed("ref", t.of, <<>>)
  ELSE IF t.kind = "void" THEN None
  ELSE Typed("prim", None, <<>>)

\* dataType: a reference is a schema, what else has a type becomes one.
Response(schema) == [schema |-> schema, examples |-> FALSE]

\* The type of the operation is that of 200, or of "default" if there is a
\* message for 200.
DefaultCode(messages) ==
  IF \E i \in DOMAIN messages : messages[i].code = "200" THEN "default" ELSE "200"

\* A response model is referred to, whether it is known or not.
Message(m) ==
  Response(IF m.model = None THEN None ELSE Typed("ref", m.model, <<>>))

responseMessages(known, old) ==
  LET messages == old.responseMessages
      declared == [code \in {messages[i].code : i \in DOMAIN messages} |->
                     Message(messages[CHOOSE i \in DOMAIN messages :
                       /\ messages[i].code = code
                       /\ \A j \in DOMAIN messages : messages[j].code = code => j <= i])]
      code == DefaultCode(messages)
  IN  [c \in DOMAIN declared \cup {code} |->
         IF c = code THEN Response(toJsonSchema(known, old.type)) ELSE declared[c]]

\* parameters, dataType: a model is a schema, a list has items and no schema.
Parameter(known, t) ==
  LET type == toJsonSchema(known, t) IN
    [type |-> type, schema |-> IF type.kind = "ref" THEN type ELSE None]

parameters(known, old) ==
  FoldLeft(LAMBDA params, t : IF t.kind = "void" THEN params
                              ELSE Append(params, Parameter(known, t)), <<>>, old.parameters)

operations(known, old) ==
  [path |-> old.path,
   method |-> old.method,
   nick |-> old.nickname,
   tags |-> <<extractTag[old.resourcePath]>>,
   params |-> parameters(known, old),
   responses |-> responseMessages(known, old),
   produces |-> old.produces,
   consumes |-> old.consumes,
   old |-> old]

=============================================================================
