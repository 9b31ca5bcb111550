----------------------------- MODULE SchemaSamples -----------------------------
(***************************************************************************)
(* What the console of webapp/swagger-ui.js shows of a schema: a sample in *)
(* JSON, a sample in XML, and a signature that lists the models the schema *)
(* is made of (SwaggerUi.partials.signature and its older copy, the        *)
(* schema-markup module of swagger-js).                                    *)
(*                                                                         *)
(* A schema is a record                                                    *)
(*   [kind, to, title, given, readOnly, basic, limits, parts]              *)
(* "object" has properties, "bare" none; "array" has one schema of its     *)
(* items, "tuple" one for each, "list" none; "ref" refers to the model to, *)
(* anything else is "prim".  given: it has an example.  basic and limits   *)
(* are those of SchemaOptions.                                             *)
(*                                                                         *)
(* A sample is a tree of [node, to, parts], in which a "model" node is     *)
(* what a reference is replaced by, and "cut" is where it is not.          *)
(***************************************************************************)
EXTENDS FormatXml, SchemaOptions, FiniteSets, TLC

CONSTANT None

VARIABLES view,        \* what is shown, see OperationModel
          phase,
          json, xml,   \* the samples: a tree, and how its lines are indented
          references,  \* names and definitions of models to be listed
          pending,     \* names that forEach has still to visit
          seenModels,
          shown,       \* names of the models listed
          repeated,    \* names of the models listed more than once
          told,        \* <<model, position of a part, limit>> that are told
          inlineModels \* models without a name listed so far

samples == <<json, xml>>
signature == <<references, pending, seenModels, shown, repeated, told, inlineModels>>
vars == <<view, phase, samples, signature>>

Bare == [kind |-> "bare", to |-> None, title |-> None, given |-> FALSE,
         readOnly |-> FALSE, basic |-> "object", limits |-> <<>>, parts |-> <<>>]

ArrayKinds == {"array", "tuple", "list"}

Names(models) == DOMAIN models

-----------------------------------------------------------------------------
(* Samples.  Both keep a list of the models they are inside of, one object  *)
(* for the whole walk: each step returns a node and what the list is then.  *)

Node(node, to, parts) == [node |-> node, to |-> to, parts |-> parts]
Leaf(node, ignore) == [out |-> Node(node, None, <<>>), ignore |-> ignore]

\* What a type that is none of the others is shown as.
Value(ignore) == Leaf("value", ignore)

\* Mutant: a model stays on the list after it was replaced.
ReleasedNever(ignore, m) == ignore

\* delete modelsToIgnore[model.name], and the splice of createSchemaXML.
Released(ignore, m) == ignore \ {m}

\* The parts in turn, each with the list as the one before left it.
Begun(ignore) == [outs |-> <<>>, ignore |-> ignore]
Then(walk, part) == [outs |-> Append(walk.outs, part.out), ignore |-> part.ignore]
Parent(node, walk) == [out |-> Node(node, None, walk.outs), ignore |-> walk.ignore]

RECURSIVE schemaToJSON(_, _, _)

\* A reference: the model, in the list while the walk is in it.
Dereferenced(models, m, ignore) ==
  IF m \notin Names(models) THEN Leaf("undefined", ignore)
  ELSE IF m \in ignore THEN [out |-> Node("cut", m, <<>>), ignore |-> ignore]
  ELSE LET walk == schemaToJSON(models, models[m], ignore \cup {m}) IN
         [out |-> Node("model", m, <<walk.out>>), ignore |-> Released(walk.ignore, m)]

InTurn(models, s, ignore) ==
  Parent(s.kind, FoldLeft(LAMBDA walk, p : Then(walk, schemaToJSON(models, p, walk.ignore)),
                          Begun(ignore), s.parts))

schemaToJSON(models, s, ignore) ==
  IF s.given THEN Leaf("example", ignore)
  ELSE IF s.kind = "ref" THEN Dereferenced(models, s.to, ignore)
  ELSE IF s.kind = "prim" THEN Value(ignore)
  ELSE InTurn(models, s, ignore)

\* The model that is shown is the first on the list.
getSampleValue(v) == schemaToJSON(v.models, v.schema, {v.name}).out

\* Examples of a response replace all, and are shown with the media types they
\* are given for.
createJSONSample(v) ==
  IF v.examples THEN Node("examples", None, <<>>) ELSE getSampleValue(v)

\* The sample of a list is a list of one.
InList(v, sample) == IF v.list THEN Node("array", None, <<sample>>) ELSE sample

createParameterJSONSample(v) == InList(v, createJSONSample(v))

\* What the operation itself makes of an inline model, and keeps unseen.
getModelSampleJSON(v) == InList(v, getSampleValue(v))

\* What the type of a definition makes of it; an object needs properties, an
\* array one schema, and a definition that is a reference is taken for an
\* object without properties.
RECURSIVE createSchemaXML(_, _, _, _)

PartsXML(models, parts, isParam, ignore) ==
  FoldLeft(LAMBDA walk, p : Then(walk, createSchemaXML(models, p, isParam, walk.ignore)),
           Begun(ignore), parts)

createObjectXML(models, s, isParam, ignore) ==
  Parent("object", PartsXML(models, SelectSeq(s.parts, LAMBDA p : ~ (isParam /\ p.readOnly)),
                            isParam, ignore))

createArrayXML(models, s, isParam, ignore) ==
  Parent("array", PartsXML(models, s.parts, isParam, ignore))

createPrimitiveXML(ignore) == Leaf("value", ignore)

getErrorMessage(ignore) == Leaf("invalid", ignore)

getInfiniteLoopMessage(m, ignore) == [out |-> Node("cut", m, <<>>), ignore |-> ignore]

\* What is to be shown, and the list with what it refers to.
getDescriptor(s, ignore) == [type |-> s.kind, definition |-> s, ignore |-> ignore]

getDescriptorByRef(models, m, ignore) ==
  IF m \notin Names(models) THEN [type |-> "missing", definition |-> None, ignore |-> ignore \cup {m}]
  ELSE [type |-> IF m \in ignore THEN "loop" ELSE models[m].kind,
        definition |-> models[m], ignore |-> ignore \cup {m}]

createSchemaXML(models, s, isParam, ignore) ==
  LET ref == s.kind = "ref"
      d == IF ref THEN getDescriptorByRef(models, s.to, ignore) ELSE getDescriptor(s, ignore)
      walk == IF d.type = "object" THEN createObjectXML(models, d.definition, isParam, d.ignore)
              ELSE IF d.type = "array" THEN createArrayXML(models, d.definition, isParam, d.ignore)
              ELSE IF d.type = "prim" THEN createPrimitiveXML(d.ignore)
              ELSE getErrorMessage(d.ignore)
  IN  IF d.type = "loop" THEN getInfiniteLoopMessage(s.to, d.ignore)
      ELSE IF ref /\ d.type # "missing"
        THEN [out |-> Node("model", s.to, <<walk.out>>), ignore |-> Released(walk.ignore, s.to)]
      ELSE walk

\* The lines of a sample before they are indented.  A name is around a value,
\* and around the comment that says where recursion is cut.
RECURSIVE Lines(_)
Lines(t) ==
  LET parts == FoldLeft(LAMBDA ls, p : ls \o Lines(p), <<>>, t.parts) IN
    IF t.node \in {"object", "value"} THEN <<"opening">> \o parts \o <<"closing">>
    ELSE IF t.node = "cut" THEN <<"opening", "other", "closing">>
    ELSE IF t.node = "invalid" THEN <<"other">>
    ELSE parts

RECURSIVE EndsInValue(_)
EndsInValue(t) ==
  \/ t.node = "value"
  \/ t.node \in {"array", "model"} /\ t.parts # <<>> /\ EndsInValue(t.parts[Len(t.parts)])

\* A value at the very end is one line, with its tags.
Unbroken(t, lines) ==
  IF EndsInValue(t) THEN SubSeq(lines, 1, Len(lines) - 2) \o <<"closing">> ELSE lines

\* The sample starts from the schema that the operation declares, which may be
\* a reference to the model, or an array of it; the first line is the prolog.
createXMLSample(v) ==
  LET tree == createSchemaXML(v.models, v.root, v.isParam, {}).out IN
    [tree |-> tree, indents |-> formatXml(<<"other">> \o Unbroken(tree, Lines(tree)))]

-----------------------------------------------------------------------------
(* Signature.  listing is [references, inlines]. *)

Definition(models, m) == IF m \in Names(models) THEN models[m] ELSE Bare

Filed(listing, name, definition) ==
  [listing EXCEPT !.references = [n \in DOMAIN @ \cup {name} |->
                                    IF n = name THEN definition ELSE @[n]]]

\* A reference is filed under its title, if it has one; the older copy looks
\* for the model under it, too.
ReferenceName(s) == IF s.title # None THEN s.title ELSE s.to

\* Mutant: both copies look for the model under the title.
ReferredByTitle(v, s) == Definition(v.models, ReferenceName(s))

ReferredTo(v, s) ==
  Definition(v.models, IF v.copy = "markup" THEN ReferenceName(s) ELSE s.to)

Inline(listing, s) ==
  IF s.title # None THEN Filed(listing, s.title, s)
  ELSE LET n == listing.inlines + 1 IN
         Filed([listing EXCEPT !.inlines = n], "Inline Model " \o ToString(n), s)

addReference(v, listing, s) ==
  IF s.kind = "ref" THEN Filed(listing, ReferenceName(s), ReferredTo(v, s))
  ELSE Inline(listing, s)

\* map hands addReference the position of an item as its name, under which
\* there is no model.
addReferenceAt(v, listing, s, position) ==
  IF s.kind = "ref" THEN addReference(v, listing, s)
  ELSE Filed(listing, ToString(position - 1), Bare)

\* What the type of a property refers to.
primitiveToHTML(v, listing, s) ==
  IF s.kind \in {"ref", "object"} THEN addReference(v, listing, s)
  ELSE IF s.kind = "array" /\ s.parts[1].kind # "prim" THEN addReference(v, listing, s.parts[1])
  ELSE IF s.kind = "tuple" THEN
         FoldLeft(LAMBDA l, i : addReferenceAt(v, l, s.parts[i], i), listing,
                  [i \in DOMAIN s.parts |-> i])
  ELSE listing

\* A property that refers to a primitive model is shown as the primitive.
Resolved(v, s) ==
  LET d == Definition(v.models, s.to) IN
    IF s.kind = "ref" /\ d.kind = "prim" THEN d ELSE s

\* What an item of a model that is an array refers to.
itemToHTML(v, listing, s) ==
  IF s.kind \in {"prim", "bare"} THEN listing ELSE addReference(v, listing, s)

\* The references in the definition of a model.
processModel(v, listing, s) ==
  IF s.kind = "object"
    THEN FoldLeft(LAMBDA l, p : primitiveToHTML(v, l, Resolved(v, p)), listing, s.parts)
  ELSE IF s.kind \in ArrayKinds
    THEN FoldLeft(LAMBDA l, p : itemToHTML(v, l, p), listing, s.parts)
  ELSE IF s.kind = "ref" THEN addReference(v, listing, s)
  ELSE listing

\* What is told of the values: in an array, of items that are primitive.
Told(v, name, s) ==
  IF s.kind = "object"
    THEN UNION {{<<name, i, l>> : l \in Property(v.copy, Resolved(v, s.parts[i]))} : i \in DOMAIN s.parts}
  ELSE IF s.kind \in ArrayKinds
    THEN UNION {{<<name, i, l>> : l \in primitiveToOptionsHTML(v.copy, s.parts[i])} :
                  i \in {j \in DOMAIN s.parts : s.parts[j].kind = "prim"}}
  ELSE IF s.kind = "prim" THEN {<<name, 0, l>> : l \in primitiveToOptionsHTML(v.copy, s)}
  ELSE {}

\* The model is listed, and what it refers to is filed.
List(name, definition, rest) ==
  LET listing == processModel(view, [references |-> rest, inlines |-> inlineModels], definition)
  IN  /\ references' = listing.references
      /\ inlineModels' = listing.inlines
      /\ seenModels' = seenModels \cup {name}
      /\ shown' = shown \cup {name}
      /\ repeated' = IF name \in shown THEN repeated \cup {name} ELSE repeated
      /\ told' = told \cup Told(view, name, definition)

-----------------------------------------------------------------------------
Nothing ==
  /\ references = <<>> /\ pending = {} /\ seenModels = {}
  /\ shown = {} /\ repeated = {} /\ told = {} /\ inlineModels = 0

\* What is left of the view before is cleared.
Anew ==
  /\ phase' = "samples"
  /\ json' = None /\ xml' = None
  /\ references' = <<>> /\ pending' = {} /\ seenModels' = {}
  /\ shown' = {} /\ repeated' = {} /\ told' = {} /\ inlineModels' = 0

Init(v) ==
  /\ view = v
  /\ phase = "samples"
  /\ json = None /\ xml = None
  /\ Nothing

Samples ==
  /\ phase = "samples"
  /\ phase' = "signature"
  /\ json' = (IF view.copy = "markup" THEN getModelSampleJSON(view)
              ELSE IF view.json THEN createParameterJSONSample(view) ELSE None)
  /\ xml' = (IF view.xml THEN createXMLSample(view) ELSE None)
  /\ UNCHANGED <<view, signature>>

\* A view of a reference lists the model it refers to, or says that there is
\* none.
Root ==
  /\ phase = "signature"
  /\ LET ref == view.schema.kind = "ref" IN
       IF ref /\ view.schema.to \notin Names(view.models)
         THEN /\ phase' = "done"
              /\ UNCHANGED signature
         ELSE /\ List(IF ref THEN view.schema.to ELSE view.name,
                      IF ref THEN view.models[view.schema.to] ELSE view.schema, <<>>)
              /\ phase' = "references"
              /\ UNCHANGED pending
  /\ UNCHANGED <<view, samples>>

\* forEach visits the names there are when it begins, in some order, and is
\* repeated as long as it leaves any.
Round ==
  /\ phase = "references" /\ pending = {}
  /\ IF references = <<>> THEN phase' = "done" /\ UNCHANGED pending
     ELSE pending' = DOMAIN references /\ UNCHANGED phase
  /\ UNCHANGED <<view, samples, references, seenModels, shown, repeated, told, inlineModels>>

seenModel(name) == name \in seenModels

Left(name) == [n \in DOMAIN references \ {name} |-> references[n]]

Reference ==
  /\ phase = "references"
  /\ \E name \in pending :
       /\ pending' = pending \ {name}
       /\ IF seenModel(name)
            THEN /\ references' = Left(name)
                 /\ UNCHANGED <<seenModels, shown, repeated, told, inlineModels>>
            ELSE List(name, references[name], Left(name))
  /\ UNCHANGED <<view, phase, samples>>

Show == Samples \/ Root \/ Round \/ Reference

-----------------------------------------------------------------------------
(* Properties *)

RECURSIVE All(_)
All(s) == <<s>> \o FoldLeft(LAMBDA t, p : t \o All(p), <<>>, s.parts)

\* All schemas of the view and of the models.
Schemas ==
  FoldLeft(LAMBDA t, m : t \o All(view.models[m]),
           IF view.name \in Names(view.models) THEN <<>> ELSE All(view.schema),
           SetToSeq(Names(view.models)))

\* A title that is the name of a model, of the view or of another schema, makes
\* the two one.
NoClash ==
  LET titled == SelectSeq(Schemas, LAMBDA s : s.title # None) IN
    /\ \A i, j \in DOMAIN titled : titled[i].title = titled[j].title => i = j
    /\ \A i \in DOMAIN titled : titled[i].title \notin Names(view.models) \cup {view.name}
    /\ view.name \in Names(view.models) => view.schema = view.models[view.name]

\* A reference is cut where its model is around it, and nowhere else.
RECURSIVE WellCut(_, _)
WellCut(t, around) ==
  /\ t.node = "cut" => t.to \in around
  /\ t.node = "model" => t.to \notin around
  /\ \A i \in DOMAIN t.parts :
       WellCut(t.parts[i], IF t.node = "model" THEN around \cup {t.to} ELSE around)

\* However models refer to each other, to themselves, or twice to another, the
\* samples cut recursion and nothing else.
CutLoopsOnly ==
  NoClash => /\ json # None => WellCut(json, {view.name})
             /\ xml # None => WellCut(xml.tree, {})

\* How deep a line should be: what is in a tag is one step further in, and a
\* tag with nothing but a text in it is one line.
RECURSIVE Depths(_, _)
Depths(t, depth) ==
  LET In(d) == FoldLeft(LAMBDA ls, p : ls \o Depths(p, d), <<>>, t.parts)
      Around(inner) == IF inner = <<>> THEN <<depth>> ELSE <<depth>> \o inner \o <<depth>>
  IN  IF t.node \in {"object", "value"} THEN Around(In(depth + 1))
      ELSE IF t.node = "cut" THEN Around(<<depth + 1>>)
      ELSE IF t.node = "invalid" THEN <<depth>>
      ELSE In(depth)

\* Each line of a sample in XML is as far in as the tags around it, unless it is
\* a value that ends it all.
Indented ==
  xml # None =>
    \/ xml.indents = <<0>> \o Depths(xml.tree, 0)
    \/ EndsInValue(xml.tree)

\* The samples say of a schema what it is, however models refer to each other.
SamplesReadable == CutLoopsOnly /\ (phase = "signature" => Indented)

\* The models that a schema refers to.
RECURSIVE Mentioned(_)
Mentioned(s) ==
  IF s.kind = "ref" THEN {s.to} ELSE UNION {Mentioned(s.parts[i]) : i \in DOMAIN s.parts}

\* Those in an inline item of a tuple are shown only if a model is the tuple.
RECURSIVE Displayed(_)
Displayed(s) ==
  IF s.kind = "ref" THEN {s.to}
  ELSE UNION {Displayed(s.parts[i]) : i \in
                {j \in DOMAIN s.parts : s.kind = "tuple" => s.parts[j].kind = "ref"}}

\* All models that can be reached, as Of finds them in a definition.
RECURSIVE Reached(_, _)
Reached(Of(_), ms) ==
  LET more == ms \cup UNION {Of(Definition(view.models, m)) : m \in ms} IN
    IF more = ms THEN ms ELSE Reached(Of, more)

Primitive(m) == Definition(view.models, m).kind = "prim"

\* What the model is listed as.
Aliases(m) == {m} \cup {ReferenceName(s) : s \in {t \in Range(Schemas) : t.kind = "ref" /\ t.to = m}}

\* The older copy shows nothing of a model whose reference has a title.
TitlesFollowed ==
  view.copy = "markup" => \A s \in Range(Schemas) : s.kind = "ref" => s.title = None

\* A property that is primitive, or refers to a model that is, is listed with all
\* that limits its values, in both copies; a limit of 0 is not.
LimitsTold ==
  \A m \in shown \cap Names(view.models) : \A i \in DOMAIN view.models[m].parts :
    LET p == view.models[m].parts[i]
        s == IF p.kind = "ref" THEN Definition(view.models, p.to) ELSE p
    IN  view.models[m].kind = "object" /\ s.kind = "prim" =>
          \A l \in DOMAIN s.limits :
            l \in OfType(s.basic) \cup {"default", "enum"} /\ s.limits[l] # 0 => <<m, i, l>> \in told

\* No model is listed twice, none is listed that the schema has nothing to do
\* with, and in the end all that it is made of are listed; a primitive perhaps
\* among its properties only.  They are listed with the limits of their values.
ModelsListed ==
  NoClash /\ TitlesFollowed /\ shown # {} =>
    /\ repeated = {}
    /\ shown \cap Names(view.models) \subseteq
         Reached(Mentioned, Mentioned(view.schema)) \cup {view.name}
    /\ phase = "done" =>
         \A m \in Reached(Displayed, Displayed(view.schema)) :
           Primitive(m) \/ Aliases(m) \cap shown # {}
    /\ LimitsTold

=============================================================================
