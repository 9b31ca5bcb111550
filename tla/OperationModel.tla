---------------------------- MODULE OperationModel ----------------------------
(***************************************************************************)
(* What the console of webapp/swagger-ui.js makes of the declaration of an *)
(* operation (Operation, OperationView.render, ParameterView,              *)
(* StatusCodeView): which response is shown as the one of success, which   *)
(* among the status codes, and which schemas are shown with samples and a  *)
(* signature.                                                              *)
(*                                                                         *)
(* An operation is a record [path, method, nick, tags, params, responses,  *)
(* produces, consumes]: nick is its operationId, <<>> if it has none, then *)
(* its nickname; params are its parameters [type, schema] that have a type *)
(* of some structure, responses is a function from codes to [schema,          *)
(* examples]; a schema is one of SchemaSamples, or None.                   *)
(***************************************************************************)
EXTENDS Naturals, Sequences, FiniteSets, SequencesExt

CONSTANTS None,
          Extensions  \* keys of responses that are extensions

\* The response of success is the first of these that is declared.
SuccessCodes == <<"200", "201", "202", "203", "204", "205", "206", "default">>

successCode(o) ==
  LET found == SelectSeq(SuccessCodes, LAMBDA c : c \in DOMAIN o.responses) IN
    IF found = <<>> THEN None ELSE Head(found)

Schema(o, code) == o.responses[code].schema

\* An extension puts "vendorExtensions" among the responses, where it is shown
\* like a code.
extractExtensions(o) ==
  DOMAIN o.responses \cup (IF DOMAIN o.responses \cap Extensions # {}
                             THEN {"vendorExtensions"} ELSE {})

\* Mutant: the response is shown above, whether it has a schema or not.
AnyHasSchema(o, code) == code # None

\* The response of success is shown above the parameters if it has a schema,
\* and stays among the status codes if not.
HasSchema(o, code) == code # None /\ Schema(o, code) # None

responseMessages(o) ==
  LET code == successCode(o) IN
    extractExtensions(o) \ (IF HasSchema(o, code) THEN {code} ELSE {})

successResponse(o) ==
  LET code == successCode(o) IN
    IF code # None /\ Schema(o, code) # None THEN {code} ELSE {}

\* "xml" in the media types; "json" is asked for only then.
isXML(types) == "xml" \in types
isJSON(types) == isXML(types) => "json" \in types

\* new Model: without a name, it gets its title.
ModelName(s) == IF s.title # None THEN s.title ELSE "Inline Model"

\* What a SignatureView is given: the definition of the model that is shown,
\* where the sample in XML starts, which samples there are, and which of the
\* two copies of the code lists the models.
View(models, name, schema, root, isParam, examples, copy, json, xml) ==
  [models |-> models, name |-> name, schema |-> schema, root |-> root, list |-> FALSE,
   isParam |-> isParam, examples |-> examples, copy |-> copy, json |-> json, xml |-> xml]

Model(name, s) == [name |-> IF name = None THEN ModelName(s) ELSE name, definition |-> s]

\* A reference is the model of its name if that is defined, an object an inline
\* model; at most one.
resolveModel(models, s) ==
  IF s.kind = "ref" /\ s.to \in DOMAIN models THEN <<Model(s.to, models[s.to])>>
  ELSE IF s.kind \in {"object", "bare"} THEN <<Model(None, s)>>
  ELSE <<>>

\* An array and a dangling reference are inline models here, too.
SuccessView(models, o) ==
  LET r == o.responses[successCode(o)]
      found == resolveModel(models, r.schema)
      model == IF found = <<>> THEN Model(None, r.schema) ELSE Head(found)
  IN  IF r.schema.kind = "prim" THEN <<>>
      ELSE <<View(models, model.name, model.definition, model.definition, FALSE, r.examples,
                  "partial", isJSON(o.produces), isXML(o.produces))>>

\* getType: an array counts by what it is an array of, however deep.
RECURSIVE getType(_)
getType(s) ==
  IF s.kind = "ref" THEN s.to
  ELSE IF s.kind = "array" THEN getType(s.parts[1]) ELSE None

Bare == [kind |-> "bare", to |-> None, title |-> None, given |-> FALSE,
         readOnly |-> FALSE, basic |-> "object", limits |-> <<>>, parts |-> <<>>]

\* A list of models, however deep, is shown as a list of one.
getParameterModelSignature(view, p) == [view EXCEPT !.list = p.type.kind = "array"]

\* A schema without a title gets a blank one before it is shown.
addParameter(p) ==
  IF p.schema = None THEN p
  ELSE [p EXCEPT !.schema.title = IF @ = None THEN " " ELSE @]

\* Only what is declared as an object becomes a model of the operation.
addInlineModel(p) ==
  IF p.schema = None \/ p.type.kind \notin {"object", "bare"} THEN <<>>
  ELSE resolveModel(<<>>, p.schema)

\* What the operation itself lists of a parameter that is a model: a body that is
\* an inline object is shown so, the others by ParameterView.
getModelSignature(models, p) ==
  LET m == getType(p.type)
      found == IF m \in DOMAIN models THEN <<Model(m, models[m])>> ELSE addInlineModel(p)
      view(model) == View(models, model.name, model.definition, model.definition, TRUE, FALSE,
                          "markup", FALSE, FALSE)
  IN  [i \in DOMAIN found |-> [view(found[i]) EXCEPT !.list = p.type.kind = "array"]]

\* A body that is a model, or an array of one, is shown with samples, the one in
\* XML of nothing if it has no schema; inline models are not found here.
ParameterView(models, o, p) ==
  LET m == getType(p.type)
      schema == addParameter(p).schema
  IN  IF m \notin DOMAIN models THEN <<>>
      ELSE <<getParameterModelSignature(
               View(models, m, models[m], IF schema = None THEN Bare ELSE schema, TRUE,
                    FALSE, "partial", isJSON(o.consumes), isXML(o.consumes)), p)>>

\* A status code shows its model only if its schema is a reference to one.
StatusCodeView(models, o, code) ==
  LET s == IF code \in DOMAIN o.responses THEN Schema(o, code) ELSE None IN
    IF s = None \/ s.kind # "ref" \/ s.to \notin DOMAIN models THEN <<>>
    ELSE <<View(models, s.to, models[s.to], s, FALSE, FALSE, "partial", TRUE,
                isXML(o.produces))>>

\* The views in the order they are made: those of the operation itself, then
\* those of OperationView.render.
Views(models, o) ==
  FoldLeft(LAMBDA views, p : views \o getModelSignature(models, p), <<>>, o.params)
    \o (IF successResponse(o) = {} THEN <<>> ELSE SuccessView(models, o))
    \o FoldLeft(LAMBDA views, p : views \o ParameterView(models, o, p), <<>>, o.params)
    \o FoldLeft(LAMBDA views, c : views \o StatusCodeView(models, o, c), <<>>,
                SetToSeq(responseMessages(o)))

=============================================================================
