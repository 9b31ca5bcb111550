--------------------------- MODULE SpecResolverProofs ---------------------------
(***************************************************************************)
(* Theorems about SpecResolver, for any references, documents and limit:   *)
(* its types, that a document is fetched for one item at a time, that the  *)
(* description is handed back when nothing is under way, and never twice,  *)
(* that a reference is left in it only for a reason, and that its items    *)
(* never wait for each other.                                              *)
(*                                                                         *)
(* The names of definitions and their composition are folded over          *)
(* sequences; what fetching makes of them is proved, and DefinitionsKept   *)
(* for names and compositions that are right by themselves.                *)
(***************************************************************************)
EXTENDS SpecResolver, FiniteSetTheorems, TLAPS

TypeOK ==
  /\ queryKey \in BOOLEAN
  /\ phase \in {"resolve", "waiting", "finish", "done", "threw"}
  /\ sites \subseteq Ref /\ absolute \subseteq Ref /\ fresh \subseteq Ref
  /\ given \subseteq Ref /\ taken \subseteq Fragments
  /\ doc \in [Ref -> Document]
  /\ iteration \in 0..(IterationLimit + 1)
  /\ todo \subseteq Ref /\ sent \subseteq Ref
  /\ lock \subseteq Document /\ resolverCache \subseteq Document
  /\ failedUrls \subseteq Document /\ bad \subseteq Document
  /\ resolvedRefs \in [Keys -> Document \cup {NoDoc}]
  /\ expectedCalls \in Nat /\ processedCalls \in Nat
  /\ localResolve \in BOOLEAN

-----------------------------------------------------------------------------
(* The inductive invariant *)

\* An item waits for its timer or for its answer, not for both.
Apart == todo \cap sent = {}

\* While a request is under way, its document is locked.
Locked == \A r \in sent : doc[r] \in lock

\* A document that was given up has failed.
GivenUp == failedUrls \subseteq bad

\* In a round, a reference to another document is under way, or was given up for
\* one of the reasons there are, or has something filed under its key.
Accounted ==
  phase \in {"waiting", "finish"} =>
    \A r \in resolutionTable : doc[r] # Root =>
      r \in todo \cup sent \/ doc[r] \in bad \/ Missing(r) \/ resolvedRefs[Key(r)] # NoDoc

IInv ==
  /\ TypeOK
  /\ NothingUnderWay /\ Apart
  /\ Locked /\ OneRequestPerUrl
  /\ GivenUp /\ Accounted /\ LeftoversExplained

-----------------------------------------------------------------------------
(* Keys, and what is filed under them *)

\* Each place has a key, whether it is to hold a reference or an object.
LEMMA KeyType == ASSUME TypeOK, NEW r \in Ref PROVE Key(r) \in Keys
<1>1. doc[r] \in Document /\ Fragment[r] \in Fragments
  BY DEF TypeOK, Fragments
<1> QED BY <1>1 DEF Key, resolveToKey, resolveInlineKey, Keys

\* While a round waits, its table stays what it was, and so do the keys.
LEMMA TableKept ==
  ASSUME sites' = sites, doc' = doc, absolute' = absolute
  PROVE  /\ resolutionTable' = resolutionTable /\ \A r : Key(r)' = Key(r)
         /\ \A r : doc[r] # Root => Missing(r)' = Missing(r)
<1>1. resolutionTable' = resolutionTable
  BY DEF resolutionTable, DefinitionRefs, ParameterRefs, PathRefs
<1>2. \A r : Key(r)' = Key(r)
  BY DEF Key, resolveToKey, resolveInlineKey, HasFullUrl, ResolvedAsRef
<1>3. \A r : doc[r] # Root => Missing(r)' = Missing(r)
  BY DEF Missing
<1> QED BY <1>1, <1>2, <1>3

\* resolveItem files the object of an item, if there is one, and nothing that was
\* filed before is lost.
LEMMA ItemFiled ==
  ASSUME TypeOK, NEW r \in Ref
  PROVE  /\ resolveItem({r}) \in [Keys -> Document \cup {NoDoc}]
         /\ \A k \in Keys : resolvedRefs[k] # NoDoc => resolveItem({r})[k] # NoDoc
         /\ ~ Missing(r) => resolveItem({r})[Key(r)] # NoDoc
<1>1. \A k \in Keys :
        resolveItem({r})[k] = IF ~ Missing(r) /\ Key(r) = k THEN doc[r] ELSE resolvedRefs[k]
  <2> SUFFICES ASSUME NEW k \in Keys
               PROVE  resolveItem({r})[k] = IF ~ Missing(r) /\ Key(r) = k
                                              THEN doc[r] ELSE resolvedRefs[k]
    OBVIOUS
  <2> DEFINE found == {q \in {r} : ~ Missing(q) /\ Key(q) = k}
  <2>1. resolveItem({r})[k] = IF found = {} THEN resolvedRefs[k] ELSE doc[CHOOSE q \in found : TRUE]
    BY DEF resolveItem
  <2>2. CASE ~ Missing(r) /\ Key(r) = k
    <3>1. found = {r}
      BY <2>2
    <3>2. (CHOOSE q \in found : TRUE) = r
      BY <3>1
    <3> QED BY <2>1, <2>2, <3>1, <3>2
  <2>3. CASE ~ (~ Missing(r) /\ Key(r) = k)
    <3>1. found = {}
      BY <2>3
    <3> QED BY <2>1, <2>3, <3>1
  <2> QED BY <2>2, <2>3
<1>2. doc[r] \in Document /\ doc[r] # NoDoc
  BY RefAssumption DEF TypeOK, Document
<1>3. resolveItem({r}) = [k \in Keys |-> resolveItem({r})[k]]
  BY DEF resolveItem
<1>4. \A k \in Keys : resolveItem({r})[k] \in Document \cup {NoDoc}
  BY <1>1, <1>2 DEF TypeOK
<1> QED BY <1>1, <1>2, <1>3, <1>4, KeyType

-----------------------------------------------------------------------------
(* The counters *)

\* A set of items has a number, one less without one of them, one more with another.
LEMMA Counted ==
  ASSUME NEW S, S \subseteq Ref
  PROVE  /\ IsFiniteSet(S) /\ Cardinality(S) \in Nat
         /\ Cardinality(S) = 0 <=> S = {}
         /\ \A r \in S : Cardinality(S \ {r}) = Cardinality(S) - 1
         /\ \A r \in Ref \ S : Cardinality(S \cup {r}) = Cardinality(S) + 1
<1>1. IsFiniteSet(S)
  BY FS_Subset, RefAssumption
<1> QED BY <1>1, FS_CardinalityType, FS_EmptySet, FS_RemoveElement, FS_AddElement

\* The item that is accounted for is one of those under way; the counters agree
\* when it was the last.
LEMMA ProcessedCounts ==
  ASSUME TypeOK, NothingUnderWay, phase = "waiting", Processed,
         expectedCalls' = expectedCalls,
         \/ \E r \in todo : todo' = todo \ {r} /\ sent' = sent
         \/ \E r \in sent : sent' = sent \ {r} /\ todo' = todo
  PROVE  /\ phase' \in {"waiting", "finish"} /\ processedCalls' \in Nat
         /\ todo' \subseteq todo /\ sent' \subseteq sent
         /\ localResolve' \in BOOLEAN
         /\ NothingUnderWay'
<1>1. todo \subseteq Ref /\ sent \subseteq Ref /\ processedCalls \in Nat /\ expectedCalls \in Nat
  BY DEF TypeOK
<1>2. todo' \subseteq todo /\ sent' \subseteq sent
  OBVIOUS
<1>3. todo' \subseteq Ref /\ sent' \subseteq Ref
  BY <1>1, <1>2
<1>4. expectedCalls = processedCalls + Cardinality(todo) + Cardinality(sent)
  BY DEF NothingUnderWay
<1>5. Cardinality(todo') + Cardinality(sent') = Cardinality(todo) + Cardinality(sent) - 1
  <2>1. CASE \E r \in todo : todo' = todo \ {r} /\ sent' = sent
    BY <1>1, <2>1, Counted
  <2>2. CASE \E r \in sent : sent' = sent \ {r} /\ todo' = todo
    BY <1>1, <2>2, Counted
  <2> QED BY <2>1, <2>2
<1>6. /\ Cardinality(todo) \in Nat /\ Cardinality(sent) \in Nat
      /\ Cardinality(todo') \in Nat /\ Cardinality(sent') \in Nat
      /\ Cardinality(todo') = 0 => todo' = {}
      /\ Cardinality(sent') = 0 => sent' = {}
  BY <1>1, <1>3, Counted
<1>7. expectedCalls' = processedCalls' + Cardinality(todo') + Cardinality(sent')
  BY <1>1, <1>4, <1>5, <1>6 DEF Processed
<1>8. processedCalls' = expectedCalls => todo' = {} /\ sent' = {}
  BY <1>1, <1>4, <1>5, <1>6 DEF Processed
<1>9. phase' = IF processedCalls' = expectedCalls THEN "finish" ELSE "waiting"
  BY DEF Processed
<1>10. NothingUnderWay'
  BY <1>7, <1>8, <1>9 DEF NothingUnderWay
<1>11. processedCalls' = processedCalls + 1 /\ localResolve' = FALSE
  BY DEF Processed
<1>12. processedCalls' \in Nat
  BY <1>1, <1>11
<1> QED BY <1>2, <1>9, <1>10, <1>11, <1>12

-----------------------------------------------------------------------------
(* The steps of a round *)

\* The handler of an answer, and of an item whose document is in the cache: no other
\* request for that document is under way.
LEMMA ResponsePreservesIInv ==
  ASSUME IInv, phase = "waiting", NEW r \in Ref, NEW isObject \in BOOLEAN,
         response(r, isObject),
         \/ r \in todo /\ todo' = todo \ {r} /\ sent' = sent
         \/ r \in sent /\ sent' = sent \ {r} /\ todo' = todo,
         \A s \in sent' : doc[s] # doc[r]
  PROVE  IInv'
<1> USE DEF response
<1>1. TypeOK /\ NothingUnderWay /\ Apart /\ Locked /\ OneRequestPerUrl /\ GivenUp /\ Accounted
  BY DEF IInv
<1>2. /\ phase' \in {"waiting", "finish"} /\ processedCalls' \in Nat
      /\ todo' \subseteq todo /\ sent' \subseteq sent
      /\ localResolve' \in BOOLEAN
      /\ NothingUnderWay'
  BY <1>1, ProcessedCounts
<1>3. doc[r] \in Document
  BY <1>1 DEF TypeOK
<1>4. /\ resolvedRefs' \in [Keys -> Document \cup {NoDoc}]
      /\ \A k \in Keys : resolvedRefs[k] # NoDoc => resolvedRefs'[k] # NoDoc
      /\ isObject /\ ~ Missing(r) => resolvedRefs'[Key(r)] # NoDoc
  BY <1>1, ItemFiled DEF TypeOK
<1>5. TypeOK'
  <2>1. lock' \subseteq Document /\ resolverCache' \subseteq Document /\ bad' \subseteq Document
    BY <1>1, <1>3 DEF TypeOK, Unlocked
  <2>2. todo' \subseteq Ref /\ sent' \subseteq Ref
    BY <1>1, <1>2 DEF TypeOK
  <2> QED BY <1>1, <1>2, <1>4, <2>1, <2>2 DEF TypeOK, round
<1>6. Apart'
  BY <1>1, <1>2 DEF Apart
<1>7. Locked'
  BY <1>1, <1>2 DEF Locked, Unlocked, round
<1>8. OneRequestPerUrl'
  BY <1>1, <1>2 DEF OneRequestPerUrl, round
<1>9. GivenUp'
  BY <1>1 DEF GivenUp
<1>10. Accounted'
  <2>1. /\ resolutionTable' = resolutionTable /\ \A q : Key(q)' = Key(q)
        /\ doc' = doc /\ \A q : doc[q] # Root => Missing(q)' = Missing(q)
    BY TableKept DEF round
  <2>2. bad \subseteq bad' /\ (~ isObject => doc[r] \in bad')
    OBVIOUS
  <2>3. SUFFICES ASSUME NEW q \in resolutionTable, doc[q] # Root
                 PROVE  \/ q \in todo' \cup sent' \/ doc[q] \in bad' \/ Missing(q)
                        \/ resolvedRefs'[Key(q)] # NoDoc
    BY <2>1 DEF Accounted
  <2>4. q \in Ref /\ Key(q) \in Keys
    BY <1>1, <2>3, KeyType DEF TypeOK, resolutionTable, DefinitionRefs, ParameterRefs, PathRefs
  <2>5. q \in todo \cup sent \/ doc[q] \in bad \/ Missing(q) \/ resolvedRefs[Key(q)] # NoDoc
    BY <1>1, <2>3 DEF Accounted
  <2>6. CASE q = r
    BY <2>2, <2>6, <1>4
  <2>7. CASE q # r
    BY <2>2, <2>4, <2>5, <2>7, <1>4
  <2> QED BY <2>6, <2>7
<1>11. LeftoversExplained'
  BY <1>2 DEF LeftoversExplained
<1> QED BY <1>2, <1>5, <1>6, <1>7, <1>8, <1>9, <1>10, <1>11 DEF IInv

\* A timer that expires takes the lock, or finds the document in the cache.
LEMMA WaitPreservesIInv ==
  ASSUME IInv, NEW r \in Ref, waitForUnlock(r)
  PROVE  IInv'
<1>1. TypeOK /\ NothingUnderWay /\ Apart /\ Locked /\ OneRequestPerUrl /\ GivenUp /\ Accounted
  BY DEF IInv
<1>2. phase = "waiting" /\ r \in todo /\ doc[r] \notin lock /\ todo' = todo \ {r}
  BY DEF waitForUnlock, MayFetch
<1>3. \A s \in sent : doc[s] # doc[r]
  BY <1>1, <1>2 DEF Locked
<1>4. CASE Cached(doc[r])
  BY <1>2, <1>3, <1>4, ResponsePreservesIInv DEF waitForUnlock
<1>5. CASE ~ Cached(doc[r])
  <2>1. /\ lock' = lock \cup {doc[r]} /\ sent' = sent \cup {r}
        /\ UNCHANGED <<queryKey, phase, resolverCache, failedUrls, bad, resolvedRefs,
                       expectedCalls, processedCalls, localResolve, round>>
    BY <1>5 DEF waitForUnlock
  <2>2. TypeOK'
    <3>1. doc[r] \in Document
      BY <1>1 DEF TypeOK
    <3> QED BY <1>1, <1>2, <2>1, <3>1 DEF TypeOK, round
  <2>3. NothingUnderWay'
    <3>1. r \notin sent
      BY <1>1, <1>2 DEF Apart
    <3>2. /\ Cardinality(todo') = Cardinality(todo) - 1
          /\ Cardinality(sent') = Cardinality(sent) + 1
          /\ Cardinality(todo) \in Nat /\ Cardinality(sent) \in Nat
      BY <1>1, <1>2, <2>1, <3>1, Counted DEF TypeOK
    <3>3. processedCalls \in Nat /\ expectedCalls = processedCalls + Cardinality(todo) + Cardinality(sent)
      BY <1>1, <1>2 DEF TypeOK, NothingUnderWay
    <3>4. expectedCalls' = processedCalls' + Cardinality(todo') + Cardinality(sent')
      BY <2>1, <3>2, <3>3
    <3> QED BY <1>2, <2>1, <3>4 DEF NothingUnderWay
  <2>4. Apart'
    BY <1>1, <1>2, <2>1 DEF Apart
  <2>5. Locked'
    BY <1>1, <2>1 DEF Locked, round
  <2>6. OneRequestPerUrl'
    BY <1>1, <1>3, <2>1 DEF OneRequestPerUrl, round
  <2>7. GivenUp'
    BY <1>1, <2>1 DEF GivenUp
  <2>8. Accounted'
    <3>1. /\ resolutionTable' = resolutionTable /\ \A q : Key(q)' = Key(q)
          /\ doc' = doc /\ \A q : doc[q] # Root => Missing(q)' = Missing(q)
      BY <2>1, TableKept DEF round
    <3> QED BY <1>1, <1>2, <2>1, <3>1 DEF Accounted
  <2>9. LeftoversExplained'
    BY <1>2, <2>1 DEF LeftoversExplained
  <2> QED BY <2>2, <2>3, <2>4, <2>5, <2>6, <2>7, <2>8, <2>9 DEF IInv
<1> QED BY <1>4, <1>5

\* What is under way is so in a round that waits.
LEMMA SentWaits ==
  ASSUME IInv, NEW r \in sent
  PROVE  phase = "waiting" /\ \A s \in sent \ {r} : doc[s] # doc[r]
BY DEF IInv, NothingUnderWay, OneRequestPerUrl

\* An answer, of whatever kind.
LEMMA AnswerPreservesIInv ==
  ASSUME IInv, NEW r \in Ref, Answer(r)
  PROVE  IInv'
<1>1. r \in sent /\ sent' = sent \ {r} /\ todo' = todo
  BY DEF Answer
<1>2. PICK isObject \in BOOLEAN : response(r, isObject)
  BY DEF Answer
<1> QED BY <1>1, <1>2, SentWaits, ResponsePreservesIInv

\* A failure opens the lock, as an answer does, and is remembered.
LEMMA ErrorPreservesIInv ==
  ASSUME IInv, NEW r \in Ref, error(r)
  PROVE  IInv'
<1> USE DEF error
<1>1. TypeOK /\ NothingUnderWay /\ Apart /\ Locked /\ OneRequestPerUrl /\ GivenUp /\ Accounted
  BY DEF IInv
<1>2. phase = "waiting" /\ \A s \in sent' : doc[s] # doc[r]
  BY SentWaits
<1>3. /\ phase' \in {"waiting", "finish"} /\ processedCalls' \in Nat
      /\ todo' \subseteq todo /\ sent' \subseteq sent
      /\ localResolve' \in BOOLEAN
      /\ NothingUnderWay'
  BY <1>1, <1>2, ProcessedCounts
<1>4. doc[r] \in Document
  BY <1>1 DEF TypeOK
<1>5. TypeOK'
  <2>1. lock' \subseteq Document /\ failedUrls' \subseteq Document /\ bad' \subseteq Document
    BY <1>1, <1>4 DEF TypeOK, Unlocked, UnlockedByError, Failed
  <2>2. todo' \subseteq Ref /\ sent' \subseteq Ref
    BY <1>1, <1>3 DEF TypeOK
  <2> QED BY <1>1, <1>3, <2>1, <2>2 DEF TypeOK, round
<1>6. Apart'
  BY <1>1, <1>3 DEF Apart
<1>7. Locked'
  BY <1>1, <1>2, <1>3 DEF Locked, Unlocked, UnlockedByError, round
<1>8. OneRequestPerUrl'
  BY <1>1, <1>3 DEF OneRequestPerUrl, round
<1>9. GivenUp'
  BY <1>1 DEF GivenUp, Failed
<1>10. Accounted'
  <2>1. /\ resolutionTable' = resolutionTable /\ \A q : Key(q)' = Key(q)
        /\ doc' = doc /\ \A q : doc[q] # Root => Missing(q)' = Missing(q)
    BY TableKept DEF round
  <2> QED BY <1>1, <1>2, <2>1 DEF Accounted
<1>11. LeftoversExplained'
  BY <1>3 DEF LeftoversExplained
<1> QED BY <1>3, <1>5, <1>6, <1>7, <1>8, <1>9, <1>10, <1>11 DEF IInv

-----------------------------------------------------------------------------
(* The ends of a round *)

\* The call that makes the table: what needs no request is accounted for at once.
LEMMA ResolvePreservesIInv ==
  ASSUME IInv, resolve
  PROVE  IInv'
<1> DEFINE now == Local \cup KnownFailed
<1>1. TypeOK /\ NothingUnderWay /\ GivenUp
  BY DEF IInv
<1>2. /\ phase = "resolve"
      /\ expectedCalls' = Cardinality(toResolve)
      /\ processedCalls' = Cardinality(now)
      /\ resolvedRefs' = [k \in Keys |-> IF \E r \in Local : ~ Missing(r) /\ Key(r) = k
                                           THEN Root ELSE NoDoc]
      /\ todo' = toResolve \ now
      /\ lock' = {}
      /\ phase' = IF todo' = {} THEN "finish" ELSE "waiting"
      /\ localResolve' \in BOOLEAN
      /\ UNCHANGED <<queryKey, sent, resolverCache, failedUrls, bad, sites, doc, absolute,
                     given, fresh, iteration, taken>>
  BY DEF resolve
<1>3. todo = {} /\ sent = {}
  BY <1>1, <1>2 DEF NothingUnderWay
<1>4. toResolve \subseteq resolutionTable /\ resolutionTable \subseteq Ref
  BY <1>1 DEF TypeOK, toResolve, resolutionTable, DefinitionRefs, ParameterRefs, PathRefs
<1>5. now \subseteq toResolve
  BY DEF Local, KnownFailed
<1>6. TypeOK'
  <2>1. Root \in Document
    BY DEF Document
  <2>2. expectedCalls' \in Nat /\ processedCalls' \in Nat
    BY <1>2, <1>4, <1>5, Counted
  <2>3. resolvedRefs' \in [Keys -> Document \cup {NoDoc}]
    BY <1>2, <2>1
  <2>4. todo' \subseteq Ref /\ sent' \subseteq Ref /\ lock' \subseteq Document
    BY <1>1, <1>2, <1>4 DEF TypeOK
  <2>5. phase' \in {"waiting", "finish"}
    BY <1>2
  <2> QED BY <1>1, <1>2, <2>2, <2>3, <2>4, <2>5 DEF TypeOK
<1>7. NothingUnderWay'
  <2>1. Cardinality(todo') = Cardinality(toResolve) - Cardinality(now)
    <3>1. toResolve \cap now = now
      BY <1>5
    <3>2. IsFiniteSet(toResolve)
      BY <1>4, Counted
    <3> HIDE DEF now
    <3> QED BY <1>2, <3>1, <3>2, FS_Difference
  <2>2. Cardinality(sent') = 0 /\ sent' = {}
    BY <1>2, <1>3, FS_EmptySet
  <2>3. Cardinality(toResolve) \in Nat /\ Cardinality(now) \in Nat
    BY <1>4, <1>5, Counted
  <2>4. expectedCalls' = processedCalls' + Cardinality(todo') + Cardinality(sent')
    BY <1>2, <2>1, <2>2, <2>3
  <2> QED BY <1>2, <2>2, <2>4 DEF NothingUnderWay
<1>8. Apart' /\ Locked' /\ OneRequestPerUrl'
  BY <1>2, <1>3 DEF Apart, Locked, OneRequestPerUrl
<1>9. GivenUp'
  BY <1>1, <1>2 DEF GivenUp
<1>10. Accounted'
  <2>1. resolutionTable' = resolutionTable /\ doc' = doc
    BY <1>2, TableKept
  <2>2. SUFFICES ASSUME NEW r \in resolutionTable, doc[r] # Root
                 PROVE  r \in todo' \/ doc[r] \in bad'
    BY <2>1 DEF Accounted
  <2>3. r \in toResolve /\ r \notin Local
    BY <2>2 DEF toResolve, NeedsNothing, Local
  <2>4. r \in KnownFailed => doc[r] \in bad'
    BY <1>1, <1>2 DEF KnownFailed, GivenUp
  <2> QED BY <1>2, <2>3, <2>4
<1>11. LeftoversExplained'
  BY <1>2 DEF LeftoversExplained
<1> QED BY <1>6, <1>7, <1>8, <1>9, <1>10, <1>11 DEF IInv

\* What is brought in are references, by objects that were found.
LEMMA BroughtType == ASSUME TypeOK PROVE Given \subseteq Ref /\ Brought \subseteq Ref
<1>1. resolutionTable \subseteq Ref
  BY DEF TypeOK, resolutionTable, DefinitionRefs, ParameterRefs, PathRefs
<1>2. \A r \in Given : resolvedRefs[Key(r)] \in Document /\ Fragment[r] \in Fragments
  BY <1>1, KeyType DEF Given, TypeOK, Fragments
<1>3. \A r \in Given : InnerOf(r) \subseteq Ref
  BY <1>2, RefAssumption DEF InnerOf
<1> QED BY <1>1, <1>3 DEF Given, Brought

\* Of some places of the table there is a first one.
LEMMA FirstExists ==
  ASSUME NEW S, S \subseteq Ref, S # {}, NEW turn, \A r \in S : turn[r] \in Nat
  PROVE  FirstOf(turn, S) \in S
<1> DEFINE Before(r) == {s \in S : turn[s] < turn[r]}
           Befores == {Before(r) : r \in S}
<1>1. IsFiniteSet(S)
  BY RefAssumption, FS_Subset
<1>2. IsWellFoundedOn(StrictSubsetOrdering(S), SUBSET S)
  BY <1>1, FS_StrictSubsetOrderingWellFounded, FS_FiniteSubsetsOfFinite
<1>3. Befores \subseteq SUBSET S /\ Befores # {}
  OBVIOUS
<1>4. PICK B \in Befores : \A C \in Befores : ~ (<<C, B>> \in StrictSubsetOrdering(S))
  BY <1>2, <1>3, WFMin
<1>5. PICK r \in S : B = Before(r)
  OBVIOUS
<1>6. ASSUME NEW s \in S, turn[s] < turn[r] PROVE FALSE
  <2>1. Before(s) \subseteq Before(r) /\ s \in Before(r) /\ s \notin Before(s)
    BY <1>6
  <2>2. Before(s) # Before(r)
    BY <2>1
  <2>3. <<Before(s), B>> \in StrictSubsetOrdering(S)
    BY <1>5, <2>1, <2>2 DEF StrictSubsetOrdering
  <2> QED BY <1>4, <2>3
<1>7. \A s \in S : turn[r] <= turn[s]
  BY <1>6
<1> QED BY <1>5, <1>7 DEF FirstOf

\* What is rewritten points into a document.
LEMMA RetainedType ==
  ASSUME TypeOK, NEW turn \in Injection(Given, 1..Cardinality(Given)),
         NEW q \in Rewritten(turn)
  PROVE  q \in Ref /\ Retained(turn, q) \in Document
<1> DEFINE writers == Rewriters(turn, q)
<1>1. q \in Brought /\ writers # {} /\ writers \subseteq Given
  BY DEF Rewritten, Rewriters
<1>2. q \in Ref /\ writers \subseteq Ref
  BY <1>1, BroughtType
<1>3. Cardinality(Given) \in Nat
  BY BroughtType, Counted
<1>4. turn \in [Given -> 1..Cardinality(Given)]
  BY DEF Injection
<1>5. \A r \in writers : turn[r] \in Nat
  BY <1>1, <1>3, <1>4
<1> HIDE DEF writers
<1>6. FirstOf(turn, writers) \in writers
  BY <1>1, <1>2, <1>5, FirstExists
<1>7. FirstOf(turn, writers) \in Ref
  BY <1>2, <1>6
<1> QED BY <1>2, <1>7 DEF TypeOK, Retained, writers

\* A reference to another document that is still there had nothing filed for it, or
\* has just been brought in or rewritten; in that case the resolver goes on if it may.
LEMMA FinishPreservesIInv ==
  ASSUME IInv, finish
  PROVE  IInv'
<1> DEFINE left == {r \in sites' : Unresolved(r)'}
<1>1. TypeOK /\ NothingUnderWay /\ GivenUp /\ Accounted
  BY DEF IInv
<1>2. PICK turn \in Injection(Given, 1..Cardinality(Given)) :
      /\ phase = "finish"
      /\ given' = given \cup Given
      /\ sites' = (sites \ Given) \cup (Brought \ given') \cup Rewritten(turn)
      /\ doc' = [q \in Ref |-> IF q \in Rewritten(turn) THEN Retained(turn, q) ELSE doc[q]]
      /\ absolute' = (absolute \ Given) \cup Rewritten(turn)
      /\ fresh' = (sites' \ sites) \cup Rewritten(turn)
      /\ taken' = taken \cup NamesTaken(turn)
      /\ \/ GoesOn(left) /\ phase' = "resolve" /\ iteration' = iteration + 1
              /\ resolverCache' = resolverCache
         \/ ~ GoesOn(left) /\ phase' = "done" /\ iteration' = iteration /\ resolverCache' = {}
         \/ ~ GoesOn(left) /\ phase' = "threw" /\ iteration' = iteration
              /\ resolverCache' = resolverCache
      /\ UNCHANGED <<queryKey, todo, sent, lock, failedUrls, resolvedRefs,
                     expectedCalls, processedCalls, localResolve, bad>>
  BY DEF finish, HandBack
<1> HIDE DEF left
<1>3. phase' \in {"resolve", "done", "threw"}
  BY <1>2
<1>4. todo = {} /\ sent = {}
  BY <1>1, <1>2 DEF NothingUnderWay
<1>5. TypeOK'
  <2>1. /\ Given \subseteq Ref /\ Brought \subseteq Ref /\ Rewritten(turn) \subseteq Ref
        /\ NamesTaken(turn) \subseteq Fragments
    BY <1>1, <1>2, BroughtType, RetainedType DEF NamesTaken
  <2>2. sites' \subseteq Ref /\ absolute' \subseteq Ref /\ given' \subseteq Ref
    BY <1>1, <1>2, <2>1 DEF TypeOK
  <2>3. fresh' \subseteq Ref /\ taken' \subseteq Fragments
    BY <1>1, <1>2, <2>1, <2>2 DEF TypeOK
  <2>4. doc' \in [Ref -> Document]
    BY <1>1, <1>2, RetainedType DEF TypeOK
  <2>5. iteration' \in 0..(IterationLimit + 1)
    <3>1. iteration \in 0..(IterationLimit + 1) /\ IterationLimit \in Nat
      BY <1>1, RefAssumption DEF TypeOK
    <3>2. GoesOn(left) => iteration <= IterationLimit
      BY DEF GoesOn
    <3> QED BY <1>2, <3>1, <3>2
  <2>6. resolverCache' \subseteq Document
    BY <1>1, <1>2 DEF TypeOK
  <2> QED BY <1>1, <1>2, <1>3, <2>2, <2>3, <2>4, <2>5, <2>6 DEF TypeOK
<1>7. NothingUnderWay'
  BY <1>2, <1>3, <1>4 DEF NothingUnderWay
<1>8. Apart' /\ Locked' /\ OneRequestPerUrl'
  BY <1>2, <1>4 DEF Apart, Locked, OneRequestPerUrl
<1>9. GivenUp'
  BY <1>1, <1>2 DEF GivenUp
<1>10. Accounted'
  BY <1>3 DEF Accounted
<1>11. LeftoversExplained'
  <2>1. SUFFICES ASSUME phase' = "done", NEW r \in sites', doc'[r] # Root,
                        r \in resolutionTable'
                 PROVE  \/ doc'[r] \in bad' \/ Missing(r)'
                        \/ r \in fresh' /\ iteration' > IterationLimit
    BY DEF LeftoversExplained
  <2>2. CASE r \in fresh'
    <3>1. r \in left
      BY <2>1 DEF Unresolved, left
    <3>2. ~ GoesOn(left) /\ iteration' = iteration
      BY <1>2, <2>1
    <3>3. ~ (iteration <= IterationLimit)
      BY <3>1, <3>2 DEF GoesOn
    <3>4. iteration' > IterationLimit
      BY <1>1, <3>2, <3>3, RefAssumption DEF TypeOK
    <3> QED BY <2>2, <3>4
  <2>3. CASE r \notin fresh'
    <3>1. r \in sites /\ r \notin Rewritten(turn)
      BY <1>2, <2>1, <2>3
    <3>2. r \in Ref /\ doc'[r] = doc[r]
      BY <1>1, <1>2, <3>1 DEF TypeOK
    <3>3. r \in resolutionTable
      BY <2>1, <3>1 DEF resolutionTable, DefinitionRefs, ParameterRefs, PathRefs
    <3>4. r \notin Given
      BY <1>2, <2>1, <3>1
    <3>5. resolvedRefs[Key(r)] = NoDoc
      BY <3>3, <3>4 DEF Given
    <3>6. doc[r] \in bad \/ Missing(r)
      BY <1>1, <1>2, <1>4, <2>1, <3>2, <3>3, <3>5 DEF Accounted
    <3>7. Missing(r) => Missing(r)'
      BY <2>1, <3>2 DEF Missing
    <3> QED BY <1>2, <3>2, <3>6, <3>7
  <2> QED BY <2>2, <2>3
<1> QED BY <1>5, <1>7, <1>8, <1>9, <1>10, <1>11 DEF IInv

-----------------------------------------------------------------------------
(* The theorems *)

LEMMA InitIInv == Init => IInv
<1> SUFFICES ASSUME Init PROVE IInv
  OBVIOUS
<1>1. TypeOK
  <2>1. sites \subseteq Ref
    BY RefAssumption DEF Init
  <2>2. doc \in [Ref -> Document] /\ resolvedRefs \in [Keys -> Document \cup {NoDoc}]
    BY RefAssumption DEF Init
  <2>3. iteration \in 0..(IterationLimit + 1)
    BY RefAssumption DEF Init
  <2> QED BY <2>1, <2>2, <2>3, RefAssumption DEF Init, TypeOK
<1>2. NothingUnderWay /\ Apart /\ Locked /\ OneRequestPerUrl /\ GivenUp
  BY DEF Init, NothingUnderWay, Apart, Locked, OneRequestPerUrl, GivenUp
<1>3. Accounted /\ LeftoversExplained
  BY DEF Init, Accounted, LeftoversExplained
<1> QED BY <1>1, <1>2, <1>3 DEF IInv

\* A step of the specification preserves the invariant.
LEMMA NextIInv == IInv /\ [Next]_vars => IInv'
<1> SUFFICES ASSUME IInv, [Next]_vars PROVE IInv'
  OBVIOUS
<1>1. CASE resolve
  BY <1>1, ResolvePreservesIInv
<1>2. CASE finish
  BY <1>2, FinishPreservesIInv
<1>3. ASSUME NEW r \in Ref, waitForUnlock(r) PROVE IInv'
  BY <1>3, WaitPreservesIInv
<1>4. ASSUME NEW r \in Ref, Answer(r) PROVE IInv'
  BY <1>4, AnswerPreservesIInv
<1>5. ASSUME NEW r \in Ref, error(r) PROVE IInv'
  BY <1>5, ErrorPreservesIInv
<1>6. CASE UNCHANGED vars
  <2>1. /\ resolutionTable' = resolutionTable /\ \A q : Key(q)' = Key(q)
        /\ doc' = doc /\ \A q : doc[q] # Root => Missing(q)' = Missing(q)
    BY <1>6, TableKept DEF vars
  <2>2. TypeOK' /\ NothingUnderWay' /\ Apart' /\ Locked' /\ OneRequestPerUrl' /\ GivenUp'
    BY <1>6 DEF IInv, vars, TypeOK, NothingUnderWay, Apart, Locked, OneRequestPerUrl, GivenUp
  <2>3. Accounted'
    BY <1>6, <2>1 DEF IInv, vars, Accounted
  <2>4. LeftoversExplained'
    BY <1>6, <2>1 DEF IInv, vars, LeftoversExplained
  <2> QED BY <2>2, <2>3, <2>4 DEF IInv
<1> QED BY <1>1, <1>2, <1>3, <1>4, <1>5, <1>6 DEF Next

\* The inductive invariant of the resolver: whatever has to be fetched is on its way or
\* accounted for, in every round.
THEOREM IInvCorrect == Spec => []IInv
<1>1. Init => IInv
  BY InitIInv
<1>2. IInv /\ [Next]_vars => IInv'
  BY NextIInv
<1> QED BY <1>1, <1>2, PTL DEF Spec

\* The variables of the resolver have their types, and the rounds end after the
\* limit of the code: the counter is never above its limit plus one.
THEOREM TypeCorrect == Spec => []TypeOK
<1>1. IInv => TypeOK
  BY DEF IInv
<1> QED BY <1>1, IInvCorrect, PTL

\* The lock of waitForUnlock works for any number of items, although it is polled by
\* timers and opened by handlers: a document is fetched for one of them at a time.
THEOREM OneRequestPerUrlCorrect == Spec => []OneRequestPerUrl
<1>1. IInv => OneRequestPerUrl
  BY DEF IInv
<1> QED BY <1>1, IInvCorrect, PTL

\* finish is called by the last handler of a round and by no other: the counters of
\* resolve and of the handlers agree only when no timer and no request is left.
THEOREM NothingUnderWayCorrect == Spec => []NothingUnderWay
<1>1. IInv => NothingUnderWay
  BY DEF IInv
<1> QED BY <1>1, IInvCorrect, PTL

\* A reference into another document that finish leaves where the resolver looks was
\* given up because the document it is now written to point into failed once, because
\* that has no such object, or because the rounds are used up.
THEOREM LeftoversExplainedCorrect == Spec => []LeftoversExplained
<1>1. IInv => LeftoversExplained
  BY DEF IInv
<1> QED BY <1>1, IInvCorrect, PTL

\* Once the callback has got the description, nothing of the resolver runs any more: no
\* late answer or timer changes what was handed back, and it is handed back once; nor is
\* it handed back after resolveAllOf has thrown.
THEOREM HandedBackOnce == Spec => [][phase \notin {"done", "threw"}]_vars
<1>1. IInv /\ [Next]_vars => [phase \notin {"done", "threw"}]_vars
  <2> SUFFICES ASSUME IInv, Next, phase \in {"done", "threw"} PROVE FALSE
    OBVIOUS
  <2>1. todo = {} /\ sent = {}
    BY DEF IInv, NothingUnderWay
  <2> QED BY <2>1 DEF Next, resolve, finish, waitForUnlock, Answer, error
<1> QED BY <1>1, IInvCorrect, PTL DEF Spec

-----------------------------------------------------------------------------
(* What becomes of the definitions *)

\* Once the schemas have their names, every definition whose place was not taken is what
\* it was then, and none has come or gone; in the end it is composed, once.
DefinitionsFollow ==
  phase # "resolve" \/ iteration # 0 =>
    /\ DOMAIN definitions \ taken = DOMAIN AllNamed \ taken
    /\ \A n \in DOMAIN AllNamed \ taken :
         definitions[n] = IF phase = "done" THEN resolveAllOf[AllNamed[n]] ELSE AllNamed[n]

\* What is given takes the places of its own names only.
LEMMA DefinitionsBrought ==
  ASSUME NEW turn
  PROVE  /\ DOMAIN DefinitionsAfter(turn) = DOMAIN definitions \cup NamesTaken(turn)
         /\ \A n \in DOMAIN definitions \ NamesTaken(turn) :
              DefinitionsAfter(turn)[n] = definitions[n]
BY DEF DefinitionsAfter

\* A finish keeps the definitions but those whose places it gives to others.
LEMMA FinishPreservesFollow ==
  ASSUME DefinitionsFollow, finish
  PROVE  DefinitionsFollow'
<1>1. PICK turn \in Injection(Given, 1..Cardinality(Given)) :
        /\ phase = "finish" /\ taken' = taken \cup NamesTaken(turn)
        /\ \/ definitions' = DefinitionsAfter(turn) /\ phase' = "resolve"
           \/ HandBack(DefinitionsAfter(turn))
  BY DEF finish
<1>2. /\ DOMAIN definitions \ taken = DOMAIN AllNamed \ taken
      /\ \A n \in DOMAIN AllNamed \ taken : definitions[n] = AllNamed[n]
  BY <1>1 DEF DefinitionsFollow
<1>3. /\ DOMAIN DefinitionsAfter(turn) \ taken' = DOMAIN AllNamed \ taken'
      /\ \A n \in DOMAIN AllNamed \ taken' : DefinitionsAfter(turn)[n] = AllNamed[n]
  BY <1>1, <1>2, DefinitionsBrought
<1>4. AllNamed' = AllNamed
  BY DEF AllNamed
<1>5. CASE definitions' = DefinitionsAfter(turn) /\ phase' # "done"
  BY <1>3, <1>4, <1>5 DEF DefinitionsFollow
<1>6. CASE /\ phase' = "done"
           /\ definitions' = [n \in DOMAIN DefinitionsAfter(turn) |->
                                resolveAllOf[DefinitionsAfter(turn)[n]]]
  <2>1. \A n \in DOMAIN AllNamed \ taken' : n \in DOMAIN DefinitionsAfter(turn)
    BY <1>3
  <2>2. \A n \in DOMAIN AllNamed \ taken' : definitions'[n] = resolveAllOf[AllNamed[n]]
    BY <1>3, <1>6, <2>1
  <2>3. DOMAIN definitions' \ taken' = DOMAIN AllNamed \ taken'
    BY <1>3, <1>6
  <2> QED BY <1>4, <1>6, <2>2, <2>3 DEF DefinitionsFollow
<1> QED BY <1>1, <1>5, <1>6 DEF HandBack

LEMMA FollowPreserved ==
  ASSUME IInv, DefinitionsFollow, [Next]_vars
  PROVE  DefinitionsFollow'
<1>1. AllNamed' = AllNamed
  BY DEF AllNamed
<1>2. CASE resolve
  <2>1. /\ UNCHANGED <<taken, iteration>> /\ phase = "resolve"
        /\ phase' \in {"finish", "waiting"}
        /\ definitions' = IF iteration = 0 THEN AllNamed ELSE definitions
    BY <1>2 DEF resolve
  <2> QED BY <1>1, <2>1 DEF DefinitionsFollow
<1>3. CASE finish
  BY <1>3, FinishPreservesFollow
<1>4. CASE \E r \in Ref : waitForUnlock(r) \/ Answer(r) \/ error(r)
  <2>1. UNCHANGED round /\ phase = "waiting"
    BY <1>4, SentWaits DEF IInv, waitForUnlock, Answer, error, response
  <2>2. phase' \in {"waiting", "finish"}
    BY <1>4, <2>1 DEF waitForUnlock, Answer, error, response, Processed
  <2> QED BY <1>1, <2>1, <2>2 DEF DefinitionsFollow, round
<1>5. CASE UNCHANGED vars
  BY <1>1, <1>5 DEF DefinitionsFollow, vars
<1> QED BY <1>2, <1>3, <1>4, <1>5 DEF Next

\* Whatever is fetched, in whichever order and however often: of the definitions that
\* have their names after the first round, none is lost, changed or invented but those
\* whose places objects of other documents take, and in the end each is composed.
THEOREM DefinitionsFollowCorrect == Spec => []DefinitionsFollow
<1>1. Init => DefinitionsFollow
  BY DEF Init, DefinitionsFollow
<1>2. IInv /\ DefinitionsFollow /\ [Next]_vars => DefinitionsFollow'
  BY FollowPreserved
<1> QED BY <1>1, <1>2, IInvCorrect, PTL DEF Spec

\* What the folds over sequences have to give, apart from any fetching: a definition
\* keeps its name, an inline schema gets one that no object is fetched by, unless that
\* is its own title, and what is composed of a schema is whole.  (Of a description
\* without references DefinitionsKept says just this.)
SchemasKept ==
  /\ \A n \in DOMAIN Defined :
       n \in DOMAIN AllNamed /\ Whole(Defined[n], resolveAllOf[AllNamed[n]])
  /\ \A i \in DOMAIN Unnamed : \E n \in DOMAIN AllNamed \ DOMAIN Defined :
       /\ n = Unnamed[i].title \/ n \notin Fragments
       /\ Whole(Unnamed[i].schema, resolveAllOf[AllNamed[n]])

\* As far as fetching goes, a description is handed back with all it had: where the
\* names and the composition of its schemas are right by themselves, no round, no failure
\* and no order of answers makes a definition wrong.
THEOREM DefinitionsKeptCorrect == ASSUME SchemasKept PROVE Spec => []DefinitionsKept
<1>1. TypeOK /\ DefinitionsFollow => DefinitionsKept
  <2> SUFFICES ASSUME TypeOK, DefinitionsFollow, phase = "done" PROVE DefinitionsKept
    BY DEF DefinitionsKept
  <2>1. /\ DOMAIN definitions \ taken = DOMAIN AllNamed \ taken
        /\ \A n \in DOMAIN AllNamed \ taken : definitions[n] = resolveAllOf[AllNamed[n]]
    BY DEF DefinitionsFollow
  <2>2. taken \subseteq Fragments
    BY DEF TypeOK
  <2>3. \A n \in DOMAIN Defined \ taken :
          n \in DOMAIN definitions \ taken /\ Whole(Defined[n], definitions[n])
    BY <2>1 DEF SchemasKept
  <2>4. ASSUME NEW i \in DOMAIN Unnamed, Unnamed[i].title \notin taken
        PROVE  \E n \in (DOMAIN definitions \ taken) \ DOMAIN Defined :
                 Whole(Unnamed[i].schema, definitions[n])
    <3>1. PICK n \in DOMAIN AllNamed \ DOMAIN Defined :
            /\ n = Unnamed[i].title \/ n \notin Fragments
            /\ Whole(Unnamed[i].schema, resolveAllOf[AllNamed[n]])
      BY DEF SchemasKept
    <3>2. n \notin taken
      BY <2>2, <2>4, <3>1
    <3> QED BY <2>1, <3>1, <3>2
  <2> QED BY <2>3, <2>4 DEF DefinitionsKept
<1> QED BY <1>1, TypeCorrect, DefinitionsFollowCorrect, PTL

-----------------------------------------------------------------------------
(* Who waits for whom *)

\* A round that waits has something to wait for.
Awaited == phase = "waiting" => todo \cup sent # {}

\* As long as no authorization changes URLs, a lock is held by a request under way.
Held == ~ queryKey => \A u \in lock : \E r \in sent : doc[r] = u

\* A round that waits can go on: a request is under way, or a timer will find its
\* document unlocked.  Only with an authorization that changes URLs may each item wait
\* for a lock that nobody opens.
SomeoneGoesOn ==
  phase = "waiting" /\ ~ queryKey => sent # {} \/ \E r \in todo : MayFetch(r)

\* Two empty sets add nothing to a count.
LEMMA NoneLeft == \A n \in Nat : n + 0 + 0 = n
OBVIOUS

\* After an item was accounted for, others are left or the round is over.
LEMMA ProcessedAwaits ==
  ASSUME IInv', NothingUnderWay, phase = "waiting", Processed, expectedCalls' = expectedCalls,
         TypeOK
  PROVE  Awaited'
<1>1. SUFFICES ASSUME phase' = "waiting", todo' = {}, sent' = {} PROVE FALSE
  BY DEF Awaited
<1>2. expectedCalls' = processedCalls' + 0 + 0
  BY <1>1, FS_EmptySet DEF IInv, NothingUnderWay
<1>3. processedCalls' \in Nat
  BY DEF IInv, TypeOK
<1>4. processedCalls' = expectedCalls
  <2>1. processedCalls' + 0 + 0 = processedCalls'
    BY <1>3, NoneLeft
  <2>2. expectedCalls' = expectedCalls
    OBVIOUS
  <2> QED BY <1>2, <2>1, <2>2
<1>5. phase' = "finish"
  BY <1>4 DEF Processed
<1> QED BY <1>1, <1>5

\* The handlers open the lock of their own document, and no request for another ends.
LEMMA UnlockedHeld ==
  ASSUME Held, NEW r \in Ref, queryKey' = queryKey, doc' = doc, lock' = Unlocked(doc[r]),
         sent \subseteq sent' \cup {r}
  PROVE  Held'
BY DEF Held, Unlocked

LEMMA WaitingPreserved ==
  ASSUME IInv, IInv', Awaited, Held, [Next]_vars
  PROVE  Awaited' /\ Held'
<1>1. TypeOK /\ NothingUnderWay
  BY DEF IInv
<1>2. CASE resolve
  BY <1>2 DEF resolve, Awaited, Held
<1>3. CASE finish
  <2>1. phase' # "waiting" /\ phase = "finish" /\ UNCHANGED <<queryKey, lock, sent>>
    BY <1>3 DEF finish, HandBack
  <2>2. ~ queryKey => lock = {}
    BY <1>1, <2>1 DEF NothingUnderWay, Held
  <2> QED BY <2>1, <2>2 DEF Awaited, Held
<1>4. ASSUME NEW r \in Ref, waitForUnlock(r)
      PROVE  Awaited' /\ Held'
  <2>1. CASE Cached(doc[r])
    <3>1. /\ phase = "waiting" /\ response(r, TRUE) /\ sent' = sent
      BY <1>4, <2>1 DEF waitForUnlock
    <3>2. Awaited'
      BY <1>1, <3>1, ProcessedAwaits DEF response
    <3>3. Held'
      BY <3>1, UnlockedHeld DEF response, round
    <3> QED BY <3>2, <3>3
  <2>2. CASE ~ Cached(doc[r])
    <3>1. /\ lock' = lock \cup {doc[r]} /\ sent' = sent \cup {r} /\ queryKey' = queryKey
          /\ doc' = doc
      BY <1>4, <2>2 DEF waitForUnlock, round
    <3> QED BY <3>1 DEF Awaited, Held
  <2> QED BY <2>1, <2>2
<1>5. ASSUME NEW r \in Ref, Answer(r) \/ error(r)
      PROVE  Awaited' /\ Held'
  <2>1. r \in sent /\ sent' = sent \ {r}
    BY <1>5 DEF Answer, error
  <2>2. phase = "waiting"
    BY <2>1, SentWaits
  <2>3. /\ Processed /\ expectedCalls' = expectedCalls /\ queryKey' = queryKey
        /\ doc' = doc /\ lock' = Unlocked(doc[r])
    BY <1>5 DEF Answer, error, response, UnlockedByError, round
  <2>4. Awaited'
    BY <1>1, <2>2, <2>3, ProcessedAwaits
  <2>5. Held'
    BY <2>1, <2>3, UnlockedHeld
  <2> QED BY <2>4, <2>5
<1>6. CASE UNCHANGED vars
  BY <1>6 DEF vars, Awaited, Held
<1> QED BY <1>2, <1>3, <1>4, <1>5, <1>6 DEF Next

\* The items that poll a lock never all wait for each other: whatever fails, and in
\* whichever order answers and timers come, a round that has not ended can go on.
THEOREM SomeoneGoesOnCorrect == Spec => []SomeoneGoesOn
<1>1. Init => Awaited /\ Held
  BY DEF Init, Awaited, Held
<1>2. IInv /\ IInv' /\ Awaited /\ Held /\ [Next]_vars => Awaited' /\ Held'
  BY WaitingPreserved
<1>3. IInv /\ Awaited /\ Held => SomeoneGoesOn
  BY DEF Awaited, Held, SomeoneGoesOn, MayFetch
<1> QED BY <1>1, <1>2, <1>3, IInvCorrect, PTL DEF Spec

=============================================================================
