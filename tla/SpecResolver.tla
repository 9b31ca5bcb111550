----------------------------- MODULE SpecResolver -----------------------------
(***************************************************************************)
(* Resolver of webapp/swagger-ui.js: it replaces the references of an API  *)
(* description by what they refer to, fetching other documents where it    *)
(* has to, round after round, and then hands the description back through  *)
(* a callback.                                                             *)
(*                                                                         *)
(* The browser runs one function at a time, to its end; timers and the     *)
(* answers of servers arrive in any order.  A reference is a place of the  *)
(* description that holds a "$ref"; what it refers to is an object, named  *)
(* by its document and the key under which the resolver files it.  Two     *)
(* references to one object are two places.                                *)
(***************************************************************************)
EXTENDS SchemaComposition

CONSTANTS Ref,            \* places that may hold a "$ref"
          Initials,       \* those of the descriptions that may be loaded
          Root,           \* the document of the description itself
          Url,            \* the other documents
          Doc,            \* Ref -> the document it is written to point into
          Fragment,       \* Ref -> the place there, as written behind "#"
          Http,           \* references written with a full URL
          Place,          \* Ref -> where in the description it stands
          There,          \* document -> fragments that lead to an object
          Inner,          \* document -> fragment -> references of that object
          Defined,        \* the definitions of a description, by name
          Unnamed,        \* inline schemas: sequence of [title, schema]
          Object,         \* document -> fragment -> the schema there
          IterationLimit, \* the 5 of the test iteration > 5
          NoDoc

Document == Url \cup {Root}
Fragments == {Fragment[r] : r \in Ref}

ASSUME RefAssumption ==
  /\ IsFiniteSet(Ref)
  /\ Initials \subseteq SUBSET Ref /\ Http \subseteq Ref
  /\ Root \notin Url /\ NoDoc \notin Url \cup {Root}
  /\ Doc \in [Ref -> Document]
  /\ There \in [Document -> SUBSET Fragments]
  /\ Inner \in [Document -> [Fragments -> SUBSET Ref]]
  /\ IterationLimit \in Nat

\* Of the references inside the objects only those that stay where they are when
\* they get an object of their own, or are not looked at.
ASSUME InnerAssumption ==
  \A d \in Document, f \in Fragments :
    \A q \in Inner[d][f] : Place[q] \in {"property", "body", "schema", "elsewhere"}

VARIABLES queryKey,       \* does an authorization append its key to every URL?
          phase,          \* "resolve", "waiting", "finish", "done", "threw"
          sites,          \* references the description holds at present
          doc,            \* the document a reference is now written to point into
          absolute,       \* references that are now written with a full URL
          given,          \* places that ever got their object
          fresh,          \* references that the last finish brought in or rewrote
          iteration,
          todo,           \* items whose waitForUnlock timer is set
          sent,           \* items whose request is under way
          lock,           \* URLs that waitForUnlock takes for locked
          resolverCache,  \* documents that have been read
          failedUrls,     \* documents given up for later rounds
          resolvedRefs,   \* key -> the document that last answered for it
          expectedCalls, processedCalls,
          localResolve,   \* argument of finish
          definitions,    \* spec.definitions
          taken,          \* history: names that objects of other documents took
          bad             \* history: documents that ever failed to be read

vars == <<queryKey, phase, sites, doc, absolute, given, fresh, iteration, todo, sent,
          lock, resolverCache, failedUrls, resolvedRefs, expectedCalls,
          processedCalls, localResolve, definitions, taken, bad>>

round == <<sites, doc, absolute, given, fresh, iteration, definitions, taken>>

\* A key is the "$ref" as it is written, or only its fragment.
Keys == (Document \cup {NoDoc}) \X Fragments

Init ==
  /\ queryKey \in BOOLEAN
  /\ phase = "resolve"
  /\ sites \in Initials
  /\ doc = Doc /\ absolute = Http
  /\ given = {} /\ fresh = {} /\ taken = {}
  /\ iteration = 0
  /\ todo = {} /\ sent = {} /\ lock = {}
  /\ resolverCache = {} /\ failedUrls = {} /\ bad = {}
  /\ resolvedRefs = [k \in Keys |-> NoDoc]
  /\ expectedCalls = 0 /\ processedCalls = 0
  /\ localResolve = FALSE
  /\ definitions = Defined

-----------------------------------------------------------------------------
(* One round *)

\* The resolver looks for references at these places, and at no other.
DefinitionRefs == {r \in sites : Place[r] \in {"definition", "property", "allOf"}}
ParameterRefs == {r \in sites : Place[r] \in {"parameter", "body"}}
PathRefs == {r \in sites : Place[r] \in {"path", "response", "items", "schema"}}

resolutionTable == DefinitionRefs \cup ParameterRefs \cup PathRefs

\* resolveTo leaves the reference in place and brings its object into the
\* definitions ("ref"); resolveInline has the object take its place.
ResolvedAsRef(r) == Place[r] \in {"property", "body", "schema"}

HasFullUrl(r) == r \in absolute

\* The key of a "ref" with a full URL is what stands behind its "#"; any other
\* tells one document from another.
resolveToKey(r) == <<IF HasFullUrl(r) THEN NoDoc ELSE doc[r], Fragment[r]>>
resolveInlineKey(r) == <<doc[r], Fragment[r]>>

Key(r) == IF ResolvedAsRef(r) THEN resolveToKey(r) ELSE resolveInlineKey(r)

\* It leads to nothing in its document; what the description has found or named
\* stands among its definitions.
Missing(r) == Fragment[r] \notin There[doc[r]] \cup (IF doc[r] = Root THEN DOMAIN definitions ELSE {})

\* A "ref" into the description itself needs nothing when its target is there.
\* Written with the full URL its key has lost the "#" that the search for the
\* target relies on, and it is passed over as well.
NeedsNothing(r) ==
  /\ doc[r] = Root
  /\ ResolvedAsRef(r)
  /\ HasFullUrl(r) \/ ~ Missing(r)

\* References to a whole file, without "#", are not modelled: at an inline one to
\* a relative file the loop uses its index for another loop as well.
toResolve == {r \in resolutionTable : ~ NeedsNothing(r)}

\* Items of this round that need no request: local ones, and those whose
\* document failed in an earlier round.
Local == {r \in toResolve : doc[r] = Root}

\* Mutant: one failed document is taken for the failure of all.
KnownFailedAny == {r \in toResolve \ Local : failedUrls # {}}

KnownFailed == {r \in toResolve : doc[r] \in failedUrls}

\* resolveItem: what an object that can be found is filed under its key.
resolveItem(items) ==
  [k \in Keys |-> LET found == {r \in items : ~ Missing(r) /\ Key(r) = k} IN
                    IF found = {} THEN resolvedRefs[k]
                                  ELSE doc[CHOOSE r \in found : TRUE]]

\* The first round leaves no schema without a name.
AllNamed == Named(Defined, Unnamed)

ASSUME NamedAssumption == Fragments \cap DOMAIN AllNamed \subseteq There[Root]

\* resolve(): the table of the references, the local items at once, a timer
\* for every other.  When all are local the call goes on to finish; the flag
\* it passes is that of the last item, and their order is not modelled.
resolve ==
  LET now == Local \cup KnownFailed IN
    /\ phase = "resolve"
    /\ expectedCalls' = Cardinality(toResolve)
    /\ processedCalls' = Cardinality(now)
    /\ resolvedRefs' = [k \in Keys |-> IF \E r \in Local : ~ Missing(r) /\ Key(r) = k
                                        THEN Root ELSE NoDoc]
    /\ todo' = toResolve \ now
    /\ lock' = {}
    /\ phase' = IF todo' = {} THEN "finish" ELSE "waiting"
    /\ localResolve' \in {l \in BOOLEAN : /\ l => todo' = {} /\ Local # {}
                                          /\ ~ l => \/ todo' # {}
                                                    \/ KnownFailed # {}
                                                    \/ Local = {}}
    /\ definitions' = IF iteration = 0 THEN AllNamed ELSE definitions
    /\ UNCHANGED <<queryKey, sent, resolverCache, failedUrls, bad, sites, doc, absolute,
                   given, fresh, iteration, taken>>

\* lock, resolverCache and failedUrls are written under item.root or obj.url
\* and read under the other: once an authorization has appended its key to
\* obj.url, a lock is never opened, and nothing is found in the cache or
\* among the failures.
Unlocked(u) == IF queryKey THEN lock ELSE lock \ {u}
Cached(u) == ~ queryKey /\ u \in resolverCache
Failed(u) == IF queryKey THEN failedUrls ELSE failedUrls \cup {u}

\* Mutant: the error handler leaves the lock closed.
UnlockedOnSuccessOnly(u) == lock

UnlockedByError(u) == Unlocked(u)

\* Mutant: one item is taken for accounted for that is not.
ProcessedOneEarly ==
  /\ processedCalls' = processedCalls + 1
  /\ phase' = IF processedCalls' + 1 >= expectedCalls THEN "finish" ELSE phase
  /\ localResolve' = FALSE

\* An item is accounted for; the last one calls finish.
Processed ==
  /\ processedCalls' = processedCalls + 1
  /\ phase' = IF processedCalls' = expectedCalls THEN "finish" ELSE phase
  /\ localResolve' = FALSE

\* on.response and resolveItem: the document, or something that is no object,
\* has been read for item r.
response(r, isObject) ==
  /\ lock' = Unlocked(doc[r])
  /\ resolverCache' = IF isObject THEN resolverCache \cup {doc[r]}
                                  ELSE resolverCache \ {doc[r]}
  /\ resolvedRefs' = IF isObject THEN resolveItem({r}) ELSE resolvedRefs
  /\ bad' = IF isObject THEN bad ELSE bad \cup {doc[r]}
  /\ Processed
  /\ UNCHANGED <<queryKey, expectedCalls, failedUrls, round>>

\* Mutant: no one holds the lock while the document is on its way.
MayFetchUnlocked(r) == TRUE

MayFetch(r) == doc[r] \notin lock

\* waitForUnlock: the timer of item r expires.  While the URL is locked the
\* timer is set again, which changes nothing.
waitForUnlock(r) ==
  /\ phase = "waiting"
  /\ r \in todo
  /\ MayFetch(r)
  /\ todo' = todo \ {r}
  /\ IF Cached(doc[r])
       THEN response(r, TRUE) /\ UNCHANGED sent
       ELSE /\ lock' = lock \cup {doc[r]}
            /\ sent' = sent \cup {r}
            /\ UNCHANGED <<queryKey, phase, resolverCache, failedUrls, bad,
                           resolvedRefs, expectedCalls, processedCalls,
                           localResolve, round>>

\* The server answers with a document, or with something else.
Answer(r) ==
  /\ r \in sent
  /\ sent' = sent \ {r}
  /\ \E isObject \in BOOLEAN : response(r, isObject)
  /\ UNCHANGED todo

\* on.error: a status of 400 or more, no connection, a timeout.
error(r) ==
  /\ r \in sent
  /\ sent' = sent \ {r}
  /\ lock' = UnlockedByError(doc[r])
  /\ failedUrls' = Failed(doc[r])
  /\ bad' = bad \cup {doc[r]}
  /\ Processed
  /\ UNCHANGED <<queryKey, todo, resolverCache, resolvedRefs, expectedCalls, round>>

-----------------------------------------------------------------------------
(* The end of a round *)

\* Every place of the table whose key has an object is given it, the one that
\* answered last if several documents have an object of that key.
Given == {r \in resolutionTable : resolvedRefs[Key(r)] # NoDoc}

InnerOf(r) == Inner[resolvedRefs[Key(r)]][Fragment[r]]
Brought == UNION {InnerOf(r) : r \in Given}

\* A walk through the table goes from place to place in some order.
FirstOf(turn, places) == CHOOSE r \in places : \A s \in places : turn[r] <= turn[s]
LastOf(turn, places) == CHOOSE r \in places : \A s \in places : turn[s] <= turn[r]

\* retainRoot, unless the whole round was local, goes through the object that a
\* place is given and writes the references in it with a full URL, if they have
\* none.  One that gets its own object loses it; walks through what it stands in
\* write it anew if they come after that.
Rewriters(turn, q) == {r \in Given : q \in InnerOf(r) /\ (q \in Given => turn[q] < turn[r])}

Rewritten(turn) ==
  IF localResolve THEN {}
  ELSE {q \in Brought : Rewriters(turn, q) # {} /\ (q \in Given \/ ~ HasFullUrl(q))}

\* The full URL is that of item.root, the document which the place that is given
\* the object points into: when two documents have an object of one key, the
\* object may be of the other.  (A path to a third document leads to that one from
\* both: they are in one directory.)
Retained(turn, q) ==
  LET item == FirstOf(turn, Rewriters(turn, q)) IN
    IF q \in given \cup Given \/ doc[q] = resolvedRefs[Key(item)] THEN doc[item] ELSE doc[q]

\* countUnresolvedRefs: whatever does not start with "#", or leads nowhere.
Unresolved(r) == doc[r] # Root \/ HasFullUrl(r) \/ Missing(r)

GoesOn(left) == left # {} /\ iteration <= IterationLimit

\* A "ref" is given a definition, under its name, which takes the place of one
\* that has the same; one of the description itself has its place already.
GivenAs(n) == {r \in Given : ResolvedAsRef(r) /\ Fragment[r] = n}

Giver(turn, n) == resolvedRefs[Key(LastOf(turn, GivenAs(n)))]

NamesTaken(turn) == {n \in Fragments : GivenAs(n) # {} /\ Giver(turn, n) # Root}

DefinitionsAfter(turn) ==
  [n \in NamesTaken(turn) \cup DOMAIN definitions |->
     IF n \in NamesTaken(turn) THEN Object[Giver(turn, n)][n] ELSE definitions[n]]

\* The rounds are over: the definitions are composed, unless there is a null in
\* them, on which resolveAllOf throws before the callback is called.  (A null in
\* the place of a whole definition or property makes resolve throw before that.)
HandBack(composed) ==
  IF \E n \in DOMAIN composed : HasNull[composed[n]]
    THEN /\ phase' = "threw"
         /\ definitions' = composed
         /\ UNCHANGED resolverCache
    ELSE /\ phase' = "done"
         /\ resolverCache' = {}
         /\ definitions' = [n \in DOMAIN composed |-> resolveAllOf[composed[n]]]

\* Objects are shared, not copied: a place that has been given its object keeps
\* it when it turns up again inside another one, unless it is rewritten.
finish ==
  \E turn \in Injection(Given, 1..Cardinality(Given)) :
    LET left == {r \in sites' : Unresolved(r)'} IN
      /\ phase = "finish"
      /\ given' = given \cup Given
      /\ sites' = (sites \ Given) \cup (Brought \ given') \cup Rewritten(turn)
      /\ doc' = [q \in Ref |-> IF q \in Rewritten(turn) THEN Retained(turn, q) ELSE doc[q]]
      /\ absolute' = (absolute \ Given) \cup Rewritten(turn)
      /\ fresh' = (sites' \ sites) \cup Rewritten(turn)
      /\ taken' = taken \cup NamesTaken(turn)
      /\ \/ /\ definitions' = DefinitionsAfter(turn)
            /\ GoesOn(left)
            /\ phase' = "resolve"
            /\ iteration' = iteration + 1
            /\ UNCHANGED resolverCache
         \/ /\ HandBack(DefinitionsAfter(turn))
            /\ ~ GoesOn(left)
            /\ UNCHANGED iteration
      /\ UNCHANGED <<queryKey, todo, sent, lock, failedUrls, resolvedRefs,
                     expectedCalls, processedCalls, localResolve, bad>>

Next ==
  \/ resolve
  \/ finish
  \/ \E r \in Ref : waitForUnlock(r) \/ Answer(r) \/ error(r)

\* The browser runs what is due, and ends every request sooner or later, with
\* an error if need be.  The steps named by their phases are resolve and finish.
Fairness ==
  /\ WF_phase(phase = "resolve" /\ phase' \in {"waiting", "finish"})
  /\ WF_phase(phase = "finish" /\ phase' \in {"resolve", "done", "threw"})
  /\ \A r \in Ref : WF_vars(waitForUnlock(r)) /\ WF_vars(Answer(r) \/ error(r))

Spec == Init /\ [][Next]_vars /\ Fairness

-----------------------------------------------------------------------------
(* Properties *)

\* The lock works: a document is fetched for one item at a time, the others
\* wait for it and find it in the cache.
OneRequestPerUrl == \A r, s \in sent : doc[r] = doc[s] => r = s

\* finish, and with it the callback, comes after the last timer and the last
\* answer: the two counters agree only when nothing is under way, so no late
\* answer can write into a description that was handed back.
NothingUnderWay ==
  /\ phase # "waiting" => todo = {} /\ sent = {}
  /\ phase = "waiting" =>
       expectedCalls = processedCalls + Cardinality(todo) + Cardinality(sent)

\* A reference to another document is left in the description that is handed
\* back only if it stands where the resolver does not look, the document that it
\* is now written to point into once could not be read or has no such object, or
\* the very last round brought it or wrote it anew.
LeftoversExplained ==
  phase = "done" =>
    \A r \in sites : doc[r] # Root => \/ r \notin resolutionTable
                                      \/ doc[r] \in bad
                                      \/ Missing(r)
                                      \/ r \in fresh /\ iteration > IterationLimit

\* The description is handed back, however documents fail, nest and refer to
\* each other, if no authorization changes the URLs and there is no null among
\* the values of its definitions.
HandedBack ==
  ~ queryKey => <>(\/ phase = "done"
                   \/ phase = "threw" /\ \E n \in DOMAIN definitions : HasNull[definitions[n]])

\* The definitions that the description is handed back with: each that it had,
\* and one for each inline schema, unless the object of another document has
\* taken the name; composed schemas have lost nothing of their parts.
DefinitionsKept ==
  phase = "done" =>
    LET mine == DOMAIN definitions \ taken
    IN  /\ \A n \in DOMAIN Defined \ taken : n \in mine /\ Whole(Defined[n], definitions[n])
        /\ \A i \in DOMAIN Unnamed :
             Unnamed[i].title \notin taken =>
               \E n \in mine \ DOMAIN Defined : Whole(Unnamed[i].schema, definitions[n])

=============================================================================
