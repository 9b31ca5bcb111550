----------------------------- MODULE SpecConverter -----------------------------
(***************************************************************************)
(* SwaggerSpecConverter of webapp/swagger-ui.js: it turns a description of *)
(* version 1 into one of version 2.  A resource listing names documents    *)
(* (the entries of its apis), each of which is requested and declares      *)
(* operations; the answers come in any order, write into one new           *)
(* description, and the last one calls the callback.                       *)
(*                                                                         *)
(* Every client has a converter of its own.  An endpoint is a path with a  *)
(* method.  What a declaration says of an operation is abstracted to which *)
(* declaration it comes from, which media type it was given, and which of  *)
(* the models it uses were known.                                          *)
(***************************************************************************)
EXTENDS Naturals, FiniteSets

CONSTANTS Client,
          Api,         \* declarations
          Endpoint,
          Path,        \* Endpoint -> its path
          Endpoints,   \* Api -> endpoints it declares
          Consumes,    \* Api -> its media type, or None
          HasBasePath, \* declarations with a basePath
          Model,       \* names of models
          Models,      \* Api -> models it declares
          Uses,        \* Api -> place -> models used there
          None

Places == {"property", "parameter", "response", "responseModel"}

VARIABLE conv  \* of each client: its conversion

\* pending: requests under way; paths, media, definitions: whose operation, media
\* type or model it is; basePath: whose base path; unknown: uses of models that
\* are no reference; read: history, the declarations that were converted; called:
\* has the callback been called?
Empty == [pending |-> {}, expectedCount |-> 0, processedCount |-> 0,
          paths |-> [e \in Endpoint |-> None],
          media |-> [e \in Endpoint |-> None],
          consumes |-> None, basePath |-> None, modelMap |-> {},
          definitions |-> [m \in Model |-> None], unknown |-> {},
          read |-> {}, called |-> FALSE]

Init == conv = [c \in Client |-> Empty]

\* Mutant: the other methods of a path that is declared again are lost.
pathsFromScratch(k, a) ==
  [e \in Endpoint |-> IF e \in Endpoints[a] THEN a
                      ELSE IF \E d \in Endpoints[a] : Path[d] = Path[e] THEN None
                      ELSE k.paths[e]]

\* operations: a later declaration adds its methods to a path that is there,
\* and replaces those both have.
pathsAfter(k, a) ==
  [e \in Endpoint |-> IF e \in Endpoints[a] THEN a ELSE k.paths[e]]

\* A media type once set, by whichever declaration came first, is given to the
\* operations of later ones that have none.
consumesAfter(k, a) == IF Consumes[a] # None THEN Consumes[a] ELSE k.consumes

\* The models of the declaration are known to its own operations, and to those
\* of declarations that are read later.
mapFirst(k, a) == k.modelMap \cup Models[a]

\* toJsonSchema: what is not in the map is passed along under its bare name.
toJsonSchema(known, m) == IF m \in known THEN "definition" ELSE "bare"

\* dataType, of the properties of models, of parameters and of what operations
\* return.  A responseModel becomes a reference without the map.
dataType(a) == UNION {Uses[a][p] : p \in Places \ {"responseModel"}}

unknownAfter(k, a) ==
  k.unknown \cup {<<a, m>> : m \in {x \in dataType(a) :
                                      toJsonSchema(mapFirst(k, a), x) = "bare"}}

\* models: a definition of the same name replaces the one that was there.
definitionsAfter(k, a) ==
  [m \in Model |-> IF m \in Models[a] THEN a ELSE k.definitions[m]]

\* declaration: the base path is that of the declaration read last.
declaration(k, a) ==
  [k EXCEPT !.basePath = a,
            !.modelMap = @ \cup Models[a],
            !.unknown = unknownAfter(k, a),
            !.definitions = definitionsAfter(k, a),
            !.consumes = consumesAfter(k, a),
            !.paths = pathsAfter(k, a),
            !.media = [e \in Endpoint |-> IF e \in Endpoints[a]
                                            THEN consumesAfter(k, a) ELSE @[e]],
            !.read = @ \cup {a}]

isLast(k) == k.processedCount = k.expectedCount

finishIfLast(k) == [k EXCEPT !.called = isLast(k)]

\* The converted description of one document is complete at once.
singleFile(c, a) ==
  conv' = [conv EXCEPT ![c] = [declaration(Empty, a) EXCEPT !.called = TRUE]]

\* resourceListing: all the requests at once; an empty listing is finished.
resourceListing(c, apis) ==
  conv' = [conv EXCEPT ![c] = [Empty EXCEPT !.pending = apis,
                                            !.expectedCount = Cardinality(apis),
                                            !.called = apis = {}]]

Counted(k, a) == [k EXCEPT !.pending = @ \ {a}, !.processedCount = @ + 1]

\* on.response of one resource.  An answer that is no object only counts; one
\* without basePath throws, after it has counted, and is not the one to finish.
response(c, a, isObject) ==
  /\ a \in conv[c].pending
  /\ conv' = [conv EXCEPT ![c] =
       IF ~ isObject THEN finishIfLast(Counted(@, a))
       ELSE IF a \in HasBasePath THEN finishIfLast(declaration(Counted(@, a), a))
       ELSE Counted(@, a)]

\* Mutant: a failed request is not counted.
errorForgotten(k, a) == [k EXCEPT !.pending = @ \ {a}]

errorCounted(k, a) == finishIfLast(Counted(k, a))

error(c, a) ==
  /\ a \in conv[c].pending
  /\ conv' = [conv EXCEPT ![c] = errorCounted(@, a)]

-----------------------------------------------------------------------------
(* Properties *)

\* What is handed back is final and complete: no answer can write into it any
\* more, and it has exactly the endpoints of the declarations that were read,
\* whatever the order of the answers and however they share paths.  A declaration
\* finds the models it declares itself; only one of another document may be
\* missed, when that is late.
DeclarationsKept ==
  \A c \in Client : conv[c].called =>
    /\ conv[c].pending = {}
    /\ {e \in Endpoint : conv[c].paths[e] # None} =
         UNION {Endpoints[a] : a \in conv[c].read}
    /\ \A u \in conv[c].unknown : u[2] \notin Models[u[1]]

=============================================================================
