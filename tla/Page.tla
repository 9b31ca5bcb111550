---------------------------------- MODULE Page ----------------------------------
(***************************************************************************)
(* The page of the console of webapp/swagger-ui.js, from the client that   *)
(* groups operations by tags (SwaggerClient.buildFromSpec) over the        *)
(* elements that MainView, ResourceView and OperationView make, to what    *)
(* the user opens and closes (Docs), and the fragment of the address that  *)
(* is to open it again when the page is loaded anew.                       *)
(*                                                                         *)
(* A description is a record [models, tags, ops]: the models it defines,   *)
(* the tags it declares, in order, and its operations (OperationModel).    *)
(* A name is a sequence of tokens that are joined by "_", a path one of    *)
(* tokens between characters that a name does not have.                    *)
(***************************************************************************)
EXTENDS Naturals, Sequences, FiniteSets, SequencesExt, TLC

CONSTANTS Descriptions,
          escaped,         \* tag -> what is left of it in an id
          docExpansions,   \* settings of the page
          Extensions, None

VARIABLES spec,        \* the description
          docExpansion,
          groups,      \* apisArray: sequence of [tag, ops, id]
          toShow,      \* views that are still to be rendered
          displayed,   \* elements that are displayed
          fragment,    \* of the address
          timer,       \* is Docs.shebang still to be called?
          followed,    \* history: the element whose link set the fragment
          fresh,       \* history: has only the fragment opened anything?
          view, phase, json, xml, references, pending, seenModels, shown,
          repeated, told, inlineModels  \* see SchemaSamples

samples == INSTANCE SchemaSamples
model == INSTANCE OperationModel

viewVars == <<view, phase, json, xml, references, pending, seenModels, shown,
              repeated, told, inlineModels>>
pageVars == <<displayed, fragment, timer, followed, fresh>>
vars == <<spec, docExpansion, groups, toShow, pageVars, viewVars>>

-----------------------------------------------------------------------------
(* buildFromSpec: a group for each tag, in the order of the operations. *)

reservedClientTags ==
  {"apis", "authorizationScheme", "authorizations", "basePath", "build", "buildFrom1_1Spec",
   "buildFrom1_2Spec", "buildFromSpec", "clientAuthorizations", "convertInfo", "debug",
   "defaultErrorCallback", "defaultSuccessCallback", "enableCookies", "fail", "failure",
   "finish", "help", "host", "idFromOp", "info", "initialize", "isBuilt", "isValid",
   "modelPropertyMacro", "models", "modelsArray", "options", "parameterMacro", "parseUri",
   "progress", "resourceCount", "sampleModels", "selfReflect", "setConsolidatedModels",
   "spec", "supportedSubmitMethods", "swaggerRequestHeaders", "tagFromLabel", "title",
   "url", "useJQuery", "jqueryAjaxCache"}

reservedApiTags ==
  {"apis", "asCurl", "description", "externalDocs", "help", "label", "name", "operation",
   "operations", "operationsArray", "path", "tag"}

\* The field of the client that is the group of the tag.
clientProperty(tag) == IF tag \in reservedClientTags THEN "_" \o tag ELSE tag

\* What has no id is named by method and path; a name has no empty tokens.
idFromOp(o) ==
  SelectSeq(IF o.nick = <<>> THEN <<o.method>> \o o.path ELSE o.nick, LAMBDA t : t # "")

\* Nor is a name that of a field of a group.
nickname(o) ==
  LET id == idFromOp(o) IN
    IF id \in {<<t>> : t \in reservedApiTags} THEN <<"">> \o id ELSE id

\* Mutant: every operation gets its own name, taken or not.
NotMadeUnique(id, operations) == id

\* The first of id, id_0, id_1, ... that is no operation's nickname.  What it
\* returns becomes the operation's key and leaves its nickname alone.
makeUniqueOperationId(id, operations) ==
  LET nicknames == {operations[name].nick : name \in DOMAIN operations}
      name(i) == IF i = 0 THEN id ELSE Append(id, ToString(i - 1))
  IN  name(Min({i \in 0..Cardinality(nicknames) : name(i) \notin nicknames}))

OperationGroup(tag) == [tag |-> tag, ops |-> <<>>, operations |-> <<>>, id |-> tag]

IsGroupOf(g, tag) == clientProperty(g.tag) = clientProperty(tag)

\* An operation can be called by its key in the group that is the field of the
\* client, and is listed in the group whose tag is the same, if there is one.  The
\* key is the id that the next tag starts from.
addTo(r, tag, o) ==
  LET made == IF \E i \in DOMAIN r.api : IsGroupOf(r.api[i], tag) THEN r.api
              ELSE Append(r.api, OperationGroup(tag))
      group == CHOOSE i \in DOMAIN made : IsGroupOf(made[i], tag)
      key == makeUniqueOperationId(r.id, made[group].operations)
  IN  [id |-> key,
       api |-> [i \in DOMAIN made |->
                  [made[i] EXCEPT
                     !.ops = IF made[i].tag = tag THEN Append(@, o) ELSE @,
                     !.operations = IF i = group THEN (key :> o) @@ @ ELSE @]]]

Tags(o) == IF o.tags = <<>> THEN <<"default">> ELSE o.tags

\* (A tag that is some other field of the client makes this throw: see Console.)
apisArray(s) ==
  LET addOperation(api, o) ==
        LET named == [o EXCEPT !.nick = nickname(o)] IN
          FoldLeft(LAMBDA r, t : addTo(r, t, named), [api |-> api, id |-> named.nick], Tags(o)).api
  IN  FoldLeft(addOperation, <<>>, s.ops)

\* What has no tag that is declared comes last.
Leftover(api, tags) == SelectSeq(api, LAMBDA g : g.tag \notin Range(tags))

sortedApis(s) ==
  LET api == apisArray(s) IN
    FoldLeft(LAMBDA sorted, t : sorted \o SelectSeq(api, LAMBDA g : g.tag = t), <<>>, s.tags)
      \o Leftover(api, s.tags)

-----------------------------------------------------------------------------
(* The elements.  MainView gives a group the id that is left of its tag,    *)
(* ResourceView renames the operations that have the name of another.       *)

\* A name that is taken gets the next number, and that name, if it is taken,
\* the next one after it.
RECURSIVE Unique(_, _, _)
Unique(taken, nick, counter) ==
  IF nick \notin taken THEN nick
  ELSE Unique(taken, Append(nick, ToString(counter)), counter + 1)

\* Operations are the same objects in all their groups: one that was renamed in
\* a group comes into the next with its new name.
NickOf(nicks, o) == IF o \in DOMAIN nicks THEN nicks[o] ELSE o.nick

RenderedOps(nicks, ops) ==
  FoldLeft(LAMBDA r, o :
      LET nick == Unique({r.out[i].nick : i \in DOMAIN r.out}, NickOf(r.nicks, o), 0) IN
        [out |-> Append(r.out, [o EXCEPT !.nick = nick]),
         nicks |-> [p \in DOMAIN r.nicks \cup {o} |-> IF p = o THEN nick ELSE r.nicks[p]]],
    [out |-> <<>>, nicks |-> nicks], ops)

Rendered(api) ==
  FoldLeft(LAMBDA r, g :
      LET ops == RenderedOps(r.nicks, g.ops) IN
        [out |-> Append(r.out, [g EXCEPT !.ops = ops.out, !.id = escaped[g.tag]]),
         nicks |-> ops.nicks],
    [out |-> <<>>, nicks |-> <<>>], api).out

\* Elements are numbered by group and operation; an operation has an entry and
\* its content, a group a list.
At(kind, g, i) == [kind |-> kind, group |-> g, op |-> i]

List(g) == At("list", g, 0)
Entry(g, i) == At("entry", g, i)
Content(g, i) == At("content", g, i)

Lists(gs) == {List(g) : g \in DOMAIN gs}
Entries(gs) == UNION {{Entry(g, i) : i \in DOMAIN gs[g].ops} : g \in DOMAIN gs}
Contents(gs) == UNION {{Content(g, i) : i \in DOMAIN gs[g].ops} : g \in DOMAIN gs}

Name(e) == <<groups[e.group].id>> \o groups[e.group].ops[e.op].nick

Id(e) == IF e.kind = "content" THEN Append(Name(e), "content") ELSE Name(e)

\* In the document, an entry comes before the content that is in it.
Before(d, e) ==
  \/ d.group < e.group
  \/ d.group = e.group /\ d.op < e.op
  \/ d.group = e.group /\ d.op = e.op /\ d.kind = "entry" /\ e.kind = "content"

\* $("#id"): the first of the elements that have it.
ById(id) ==
  LET all == {e \in Entries(groups) \cup Contents(groups) : Id(e) = id} IN
    {e \in all : \A d \in all : ~ Before(d, e)}

Around(e) == {List(e.group), Entry(e.group, e.op)}

Visible(e) ==
  e \in displayed /\ (e.kind = "content" => Around(e) \subseteq displayed)
                  /\ (e.kind = "entry" => List(e.group) \in displayed)

-----------------------------------------------------------------------------
(* Docs *)

\* li#resource_id ul.endpoints: all groups of that id, or all there are if it is
\* empty.
ListsOf(id) == {e \in Lists(groups) : id = "" \/ groups[e.group].id = id}

ContentsOf(id) == {e \in Contents(groups) : id = "" \/ groups[e.group].id = id}

expandEndpointListForResource(id) == displayed \cup ListsOf(id)

pushState(f, e) == fragment' = f /\ followed' = e

\* A click on the name of a group.
toggleEndpointListForResource(g) ==
  LET id == groups[g].id IN
    IF \E e \in {d \in Lists(groups) : groups[d.group].id = id} : Visible(e)
      THEN pushState(<<>>, None) /\ displayed' = displayed \ ListsOf(id)
      ELSE /\ pushState(<<id>>, List(g))
           /\ displayed' = expandEndpointListForResource(id)

expandOperationsForResource(g) ==
  displayed' = expandEndpointListForResource(groups[g].id) \cup ContentsOf(groups[g].id)

collapseOperationsForResource(g) ==
  displayed' = expandEndpointListForResource(groups[g].id) \ ContentsOf(groups[g].id)

\* A click on an operation: opening follows its link, closing does not.
toggleOperationContent(e) ==
  LET found == ById(Append(Name(e), "content")) IN
    IF \E d \in found : Visible(d)
      THEN pushState(<<>>, None) /\ displayed' = displayed \ found
      ELSE pushState(Name(e), e) /\ displayed' = displayed \cup found

\* Mutant: the group stays closed around the operation.
OpensNoGroup(id) == displayed

OpensGroup(id) == expandEndpointListForResource(id)

\* The fragment is a group, or a group and an operation.
shebang ==
  displayed' =
    CASE Len(fragment) = 0 -> displayed
      [] Len(fragment) = 1 -> IF fragment[1] = "" THEN displayed
                              ELSE expandEndpointListForResource(fragment[1])
      [] OTHER -> OpensGroup(fragment[1]) \cup ById(Append(fragment, "content"))

-----------------------------------------------------------------------------
\* Lists and contents are closed when they are made; listAll opens the lists,
\* expandAll the contents, too.
Expansion(gs) ==
  Entries(gs) \cup (IF docExpansion \in {"list", "full"} THEN Lists(gs) ELSE {})
              \cup (IF docExpansion = "full" THEN Contents(gs) ELSE {})

ViewsOf(s, gs) ==
  FoldLeft(LAMBDA views, g :
      FoldLeft(LAMBDA vs, o : vs \o model!Views(s.models, o), views, g.ops), <<>>, gs)

NoView == [models |-> <<>>, name |-> None, schema |-> samples!Bare, root |-> samples!Bare,
           list |-> FALSE, isParam |-> FALSE, examples |-> FALSE, copy |-> "partial", json |-> FALSE,
           xml |-> FALSE]

ShowFirst(views) == samples!Init(IF views = <<>> THEN NoView ELSE Head(views))

Init ==
  /\ spec \in Descriptions
  /\ docExpansion \in docExpansions
  /\ groups = Rendered(sortedApis(spec))
  /\ toShow = ViewsOf(spec, groups)
  /\ ShowFirst(toShow)
  /\ displayed = {}
  /\ fragment = <<>>
  /\ timer = FALSE /\ followed = None /\ fresh = FALSE

\* The view is rendered, step by step.
ShowView ==
  /\ toShow # <<>>
  /\ samples!Show
  /\ UNCHANGED <<spec, docExpansion, groups, toShow, pageVars>>

\* The next of them.
NextView ==
  /\ toShow # <<>> /\ phase = "done"
  /\ toShow' = Tail(toShow)
  /\ view' = (IF toShow' = <<>> THEN NoView ELSE Head(toShow'))
  /\ samples!Anew
  /\ UNCHANGED <<spec, docExpansion, groups, pageVars>>

\* SwaggerUi.render, of a page that is loaded for the first time or again: the
\* same description makes the same elements.
Load ==
  /\ toShow = <<>>
  /\ displayed' = Expansion(groups)
  /\ timer' = TRUE
  /\ fresh' = TRUE
  /\ UNCHANGED <<spec, docExpansion, groups, toShow, fragment, followed, viewVars>>

\* A tenth of a second later, whatever was clicked in between.
Shebang ==
  /\ timer
  /\ timer' = FALSE
  /\ shebang
  /\ UNCHANGED <<spec, docExpansion, groups, toShow, fragment, followed, fresh, viewVars>>

Click ==
  /\ displayed # {}
  /\ \/ \E g \in DOMAIN groups : toggleEndpointListForResource(g)
     \/ \E g \in DOMAIN groups :
          /\ expandOperationsForResource(g) \/ collapseOperationsForResource(g)
          /\ UNCHANGED <<fragment, followed>>
     \/ \E e \in Contents(groups) :
          Visible(Entry(e.group, e.op)) /\ toggleOperationContent(e)
  /\ fresh' = FALSE
  /\ UNCHANGED <<spec, docExpansion, groups, toShow, timer, viewVars>>

Next == ShowView \/ NextView \/ Load \/ Shebang \/ Click

Spec == Init /\ [][Next]_vars

-----------------------------------------------------------------------------
(* Properties *)

Count(seq, test(_)) == Cardinality({i \in DOMAIN seq : test(seq[i])})

\* Two tags that are one field of the client: the operations of the second are
\* not listed.
TagsDistinct ==
  LET tags == UNION {Range(Tags(spec.ops[i])) : i \in DOMAIN spec.ops} IN
    \A t, u \in tags : clientProperty(t) = clientProperty(u) => t = u

SameAs(o, p) == [p EXCEPT !.nick = o.nick] = o

\* No third operation has the id of two, nor their id with a number: it would
\* take the key of the second.
AtMostPairs ==
  LET nicks == {nickname(spec.ops[k]) : k \in DOMAIN spec.ops} IN
    /\ \A n \in nicks : Count(spec.ops, LAMBDA o : nickname(o) = n) <= 2
    /\ \A n \in nicks : \A i \in 0..2 : Append(n, ToString(i)) \notin nicks

\* An operation is listed under each of its tags, as often as it has it, under
\* no other, and under names that differ within the group; and the client can call
\* it there.
OperationsListed ==
  TagsDistinct =>
    /\ \A k \in DOMAIN spec.ops : \A t \in DOMAIN escaped :
         LET o == spec.ops[k]
             listed == FoldLeft(LAMBDA n, g : n + (IF g.tag = t THEN Count(g.ops, LAMBDA p : SameAs(o, p))
                                                   ELSE 0), 0, groups)
         IN  listed = Count(Tags(o), LAMBDA u : u = t)
    /\ \A g \in DOMAIN groups :
         /\ \A i, j \in DOMAIN groups[g].ops :
              groups[g].ops[i].nick = groups[g].ops[j].nick => i = j
         /\ AtMostPairs =>
              \A i \in DOMAIN groups[g].ops : \E key \in DOMAIN groups[g].operations :
                SameAs(groups[g].ops[i], groups[g].operations[key])

\* Messages of an operation of version 1 that no later one of its code replaces.
LastMessages(old) ==
  {i \in DOMAIN old.responseMessages :
     \A j \in DOMAIN old.responseMessages :
       old.responseMessages[j].code = old.responseMessages[i].code => j <= i}

\* Each response that is declared is shown in one place, above the parameters or
\* among the status codes; what a description of version 1 says of a code is not
\* lost to the response that its conversion adds.
ResponsesShown ==
  \A k \in DOMAIN spec.ops :
    LET o == spec.ops[k] IN
      /\ \A c \in DOMAIN o.responses \ Extensions :
           (c \in model!successResponse(o)) # (c \in model!responseMessages(o))
      /\ o.old # None =>
           \A i \in LastMessages(o.old) :
             LET m == o.old.responseMessages[i] IN
               IF m.model = None THEN o.responses[m.code].schema = None
               ELSE /\ o.responses[m.code].schema.kind = "ref"
                    /\ o.responses[m.code].schema.to = m.model

\* However models refer to each other, to themselves, or twice to another, the
\* samples cut recursion and nothing else, and XML is indented by its depth.
SamplesReadable == samples!SamplesReadable

\* All models that a view is made of are listed, once, and no other.
ModelsListed == samples!ModelsListed

\* Every id finds the element it is meant to find, and no group has an empty one.
IdsClear ==
  /\ \A g \in DOMAIN groups : groups[g].id # ""
  /\ \A e \in Contents(groups) : ById(Id(e)) = {e}
  /\ \A g, h \in DOMAIN groups : groups[g].id = groups[h].id => g = h

\* When the page is loaded again, the fragment opens what was opened by the
\* click that set it.
LinksLead ==
  IdsClear /\ fresh /\ ~ timer /\ followed # None => Visible(followed)

=============================================================================
