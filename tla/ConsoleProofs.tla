----------------------------- MODULE ConsoleProofs -----------------------------
(***************************************************************************)
(* Console with the converter of each of its clients, for any number of    *)
(* loads, descriptions and authorizations: types, what the page shows, the *)
(* keys in use, and what a conversion hands back.  At the end one property *)
(* of an operation on the page (OperationView) with its requests.          *)
(***************************************************************************)
EXTENDS Console, Callbacks, FiniteSetTheorems, TLAPS

-----------------------------------------------------------------------------
(* The converter of one client *)

MediaType == {Consumes[a] : a \in Api} \cup {None}

Conversion ==
  [pending : SUBSET Api, expectedCount : Nat, processedCount : Nat,
   paths : [Endpoint -> Api \cup {None}], media : [Endpoint -> MediaType],
   consumes : MediaType, basePath : Api \cup {None}, modelMap : SUBSET Model,
   definitions : [Model -> Api \cup {None}], unknown : SUBSET (Api \X Model),
   read : SUBSET Api, called : BOOLEAN]

\* Every request is counted once, whatever becomes of it.
AllCounted(k) ==
  /\ IsFiniteSet(k.pending)
  /\ k.processedCount + Cardinality(k.pending) = k.expectedCount

\* DeclarationsKept says this of a conversion that has called back; the endpoints and
\* models are right on the way there, too, and so are the counters that find its end.
Kept(k) ==
  /\ k \in Conversion
  /\ AllCounted(k)
  /\ k.called => k.pending = {}
  /\ {e \in Endpoint : k.paths[e] # None} = UNION {Endpoints[a] : a \in k.read}
  /\ \A u \in k.unknown : u[2] \notin Models[u[1]]


\* The converter counts as the module of finite sets does.
LEMMA SameCardinality == \A S : convert!Cardinality(S) = Cardinality(S)
BY DEF convert!Cardinality, Cardinality

LEMMA EmptyKept == Kept(convert!Empty)
<1> DEFINE k == convert!Empty
<1>1. /\ k.pending = {} /\ k.expectedCount = 0 /\ k.processedCount = 0
      /\ k.paths = [e \in Endpoint |-> None] /\ k.unknown = {} /\ k.read = {} /\ ~ k.called
  BY DEF convert!Empty
<1>2. k \in Conversion
  BY DEF convert!Empty, Conversion, MediaType
<1>3. AllCounted(k)
  BY <1>1, FS_EmptySet DEF AllCounted
<1>4. {e \in Endpoint : k.paths[e] # None} = UNION {Endpoints[a] : a \in k.read}
  BY <1>1
<1>5. QED
  BY <1>1, <1>2, <1>3, <1>4 DEF Kept

\* A declaration finds its own models and adds its endpoints to those that are there.
LEMMA DeclarationKept ==
  ASSUME NEW k, Kept(k), NEW a \in Api
  PROVE  /\ Kept(convert!declaration(k, a))
         /\ convert!declaration(k, a).pending = k.pending
         /\ convert!declaration(k, a).called = k.called
<1> DEFINE d == convert!declaration(k, a)
           media == convert!consumesAfter(k, a)
<1>1. k \in Conversion
  BY DEF Kept
<1>2. media \in MediaType
  BY <1>1 DEF convert!consumesAfter, Conversion, MediaType
<1>3. Endpoints[a] \subseteq Endpoint /\ Models[a] \subseteq Model
  BY DeclarationAssumption
<1>4. convert!pathsAfter(k, a) \in [Endpoint -> Api \cup {None}]
  BY <1>1 DEF convert!pathsAfter, Conversion
<1>5. convert!definitionsAfter(k, a) \in [Model -> Api \cup {None}]
  BY <1>1 DEF convert!definitionsAfter, Conversion
<1>6. convert!dataType(a) \subseteq Model
  BY DeclarationAssumption DEF convert!dataType
<1>7. convert!unknownAfter(k, a) \in SUBSET (Api \X Model)
  BY <1>1, <1>6 DEF convert!unknownAfter, Conversion
<1>8. [e \in Endpoint |-> IF e \in Endpoints[a] THEN media ELSE k.media[e]] \in [Endpoint -> MediaType]
  BY <1>1, <1>2 DEF Conversion
<1>9. /\ d.pending = k.pending /\ d.expectedCount = k.expectedCount
      /\ d.processedCount = k.processedCount /\ d.called = k.called
      /\ d.paths = convert!pathsAfter(k, a) /\ d.unknown = convert!unknownAfter(k, a)
      /\ d.read = k.read \cup {a}
  BY <1>1 DEF convert!declaration, Conversion
<1>10. d \in Conversion
  BY <1>1, <1>2, <1>3, <1>4, <1>5, <1>7, <1>8 DEF convert!declaration, Conversion
<1>11. {e \in Endpoint : d.paths[e] # None} = UNION {Endpoints[b] : b \in d.read}
  <2>1. \A e \in Endpoint : d.paths[e] # None <=> e \in Endpoints[a] \/ k.paths[e] # None
    BY <1>9, ConsoleAssumption DEF convert!pathsAfter
  <2>2. {e \in Endpoint : k.paths[e] # None} = UNION {Endpoints[b] : b \in k.read}
    BY DEF Kept
  <2>3. QED
    BY <1>3, <1>9, <2>1, <2>2
<1>12. ASSUME NEW u \in d.unknown
       PROVE  u[2] \notin Models[u[1]]
  <2>1. CASE u \in k.unknown
    BY <2>1 DEF Kept
  <2>2. CASE u \notin k.unknown
    <3>1. PICK m \in convert!dataType(a) :
            u = <<a, m>> /\ convert!toJsonSchema(convert!mapFirst(k, a), m) = "bare"
      BY <1>9, <1>12, <2>2 DEF convert!unknownAfter
    <3>2. m \notin Models[a]
      BY <3>1 DEF convert!toJsonSchema, convert!mapFirst
    <3>3. QED
      BY <3>1, <3>2
  <2>3. QED
    BY <2>1, <2>2
<1>13. QED
  BY <1>9, <1>10, <1>11, <1>12 DEF Kept, AllCounted

\* An answer counts once; before it has, the callback cannot have been called.
LEMMA CountedKept ==
  ASSUME NEW k, Kept(k), NEW a \in k.pending
  PROVE  /\ Kept(convert!Counted(k, a)) /\ a \in Api
         /\ convert!Counted(k, a).called = FALSE
<1> DEFINE d == convert!Counted(k, a)
<1>1. k \in Conversion /\ a \in Api /\ k.called = FALSE
  BY DEF Kept, Conversion
<1>2. /\ d.pending = k.pending \ {a} /\ d.expectedCount = k.expectedCount
      /\ d.processedCount = k.processedCount + 1 /\ d.called = FALSE
      /\ d.paths = k.paths /\ d.unknown = k.unknown /\ d.read = k.read
  BY <1>1 DEF convert!Counted, Conversion
<1>3. d \in Conversion
  <2>1. k.pending \ {a} \in SUBSET Api /\ k.processedCount + 1 \in Nat
    BY <1>1 DEF Conversion
  <2>2. [k EXCEPT !.pending = k.pending \ {a}, !.processedCount = k.processedCount + 1] \in Conversion
    BY <1>1, <2>1 DEF Conversion
  <2>3. QED
    BY <2>2 DEF convert!Counted
<1>4. AllCounted(d)
  <2>1. IsFiniteSet(k.pending) /\ k.processedCount \in Nat
        /\ k.processedCount + Cardinality(k.pending) = k.expectedCount
    BY <1>1 DEF Kept, AllCounted, Conversion
  <2>2. /\ IsFiniteSet(d.pending) /\ Cardinality(d.pending) = Cardinality(k.pending) - 1
        /\ Cardinality(k.pending) \in Nat
    BY <1>2, <2>1, FS_RemoveElement, FS_CardinalityType
  <2>3. QED
    BY <1>2, <2>1, <2>2 DEF AllCounted
<1>5. QED
  BY <1>1, <1>2, <1>3, <1>4 DEF Kept

\* The last one to count finds that all have been counted, and only it.
LEMMA FinishKept ==
  ASSUME NEW k, Kept(k)
  PROVE  Kept(convert!finishIfLast(k))
<1> DEFINE d == convert!finishIfLast(k)
<1>1. k \in Conversion
  BY DEF Kept
<1>2. /\ d.pending = k.pending /\ d.expectedCount = k.expectedCount
      /\ d.processedCount = k.processedCount
      /\ d.called <=> k.processedCount = k.expectedCount
      /\ d.paths = k.paths /\ d.unknown = k.unknown /\ d.read = k.read
  BY <1>1 DEF convert!finishIfLast, convert!isLast, Conversion
<1>3. d \in Conversion
  BY <1>1 DEF convert!finishIfLast, convert!isLast, Conversion
<1>4. k.processedCount = k.expectedCount => k.pending = {}
  <2>1. IsFiniteSet(k.pending) /\ k.processedCount \in Nat
        /\ k.processedCount + Cardinality(k.pending) = k.expectedCount
    BY <1>1 DEF Kept, AllCounted, Conversion
  <2>2. Cardinality(k.pending) \in Nat
    BY <2>1, FS_CardinalityType
  <2>3. QED
    BY <2>1, <2>2, FS_EmptySet
<1>5. QED
  BY <1>2, <1>3, <1>4 DEF Kept, AllCounted

LEMMA StartedKept ==
  ASSUME NEW apis \in SUBSET Api, IsFiniteSet(apis)
  PROVE  Kept([convert!Empty EXCEPT !.pending = apis,
                                    !.expectedCount = Cardinality(apis),
                                    !.called = apis = {}])
<1> DEFINE k == convert!Empty
           d == [k EXCEPT !.pending = apis, !.expectedCount = Cardinality(apis),
                          !.called = apis = {}]
<1>1. k \in Conversion /\ Cardinality(apis) \in Nat
  BY EmptyKept, FS_CardinalityType DEF Kept
<1>2. /\ d.pending = apis /\ d.expectedCount = Cardinality(apis) /\ d.processedCount = 0
      /\ d.called <=> apis = {}
      /\ d.paths = k.paths /\ d.unknown = k.unknown /\ d.read = k.read
  BY DEF convert!Empty
<1>3. d \in Conversion
  BY <1>1 DEF Conversion
<1>4. QED
  BY <1>1, <1>2, <1>3, EmptyKept DEF Kept, AllCounted

\* Whatever a request ends with, the conversion stays what it should be.
LEMMA ConverterStep ==
  ASSUME NEW c \in Client, conv \in [Client -> Conversion], \A b \in Client : Kept(conv[b]),
         \/ \E a : convert!error(c, a)
         \/ \E a, isObject : convert!response(c, a, isObject)
         \/ \E a \in Api : convert!singleFile(c, a)
         \/ \E apis \in SUBSET Api : IsFiniteSet(apis) /\ convert!resourceListing(c, apis)
  PROVE  conv' \in [Client -> Conversion] /\ \A b \in Client : Kept(conv'[b])
<1>1. PICK k : Kept(k) /\ conv' = [conv EXCEPT ![c] = k]
  <2>1. CASE \E a : convert!error(c, a)
    <3>1. PICK a : convert!error(c, a)
      BY <2>1
    <3>2. a \in conv[c].pending /\ Kept(conv[c])
      BY <3>1 DEF convert!error
    <3>3. Kept(convert!errorCounted(conv[c], a))
      BY <3>2, CountedKept, FinishKept DEF convert!errorCounted
    <3>4. conv' = [conv EXCEPT ![c] = convert!errorCounted(conv[c], a)]
      BY <3>1 DEF convert!error
    <3>5. QED
      BY <3>3, <3>4
  <2>2. CASE \E a, isObject : convert!response(c, a, isObject)
    <3>1. PICK a, isObject : convert!response(c, a, isObject)
      BY <2>2
    <3>2. a \in conv[c].pending /\ Kept(conv[c])
      BY <3>1 DEF convert!response
    <3> DEFINE n == convert!Counted(conv[c], a)
    <3>3. Kept(n) /\ a \in Api
      BY <3>2, CountedKept
    <3>4. /\ Kept(convert!finishIfLast(n))
          /\ Kept(convert!finishIfLast(convert!declaration(n, a)))
      BY <3>3, DeclarationKept, FinishKept
    <3>5. conv' = [conv EXCEPT ![c] = IF ~ isObject THEN convert!finishIfLast(n)
                                      ELSE IF a \in HasBasePath
                                        THEN convert!finishIfLast(convert!declaration(n, a))
                                      ELSE n]
      BY <3>1 DEF convert!response
    <3>6. QED
      BY <3>3, <3>4, <3>5
  <2>3. CASE \E a \in Api : convert!singleFile(c, a)
    <3>1. PICK a \in Api : convert!singleFile(c, a)
      BY <2>3
    <3> DEFINE d == convert!declaration(convert!Empty, a)
    <3>2. Kept(d) /\ d.pending = {}
      BY EmptyKept, DeclarationKept DEF convert!Empty
    <3>3. Kept([d EXCEPT !.called = TRUE])
      BY <3>2 DEF Kept, AllCounted, Conversion
    <3>4. QED
      BY <3>1, <3>3 DEF convert!singleFile
  <2>4. CASE \E apis \in SUBSET Api : IsFiniteSet(apis) /\ convert!resourceListing(c, apis)
    <3>1. PICK apis \in SUBSET Api : IsFiniteSet(apis) /\ convert!resourceListing(c, apis)
      BY <2>4
    <3> DEFINE d == [convert!Empty EXCEPT !.pending = apis,
                                          !.expectedCount = Cardinality(apis),
                                          !.called = apis = {}]
    <3>2. Kept(d)
      BY <3>1, StartedKept
    <3>3. conv' = [conv EXCEPT ![c] = d]
      BY <3>1, SameCardinality DEF convert!resourceListing
    <3> HIDE DEF d
    <3>4. QED
      BY <3>2, <3>3
  <2>5. QED
    BY <2>1, <2>2, <2>3, <2>4
<1>2. k \in Conversion
  BY <1>1 DEF Kept
<1>3. conv' \in [Client -> Conversion]
  BY <1>1, <1>2
<1>4. \A b \in Client : conv'[b] = IF b = c THEN k ELSE conv[b]
  BY <1>1
<1>5. QED
  BY <1>1, <1>3, <1>4

-----------------------------------------------------------------------------
(* The console *)

Phase == {"unused", "fetching", "converting", "resolving", "built", "failed", "threw"}

TypeOK ==
  /\ api \in Client \cup {None}
  /\ url \in [Client -> Doc \cup {None}]
  /\ phase \in [Client -> Phase]
  /\ conv \in [Client -> Conversion]
  /\ authz \in [Client -> SUBSET Auth]
  /\ page \in [of : Client \cup {None}, complete : BOOLEAN]
  /\ mainView \in BOOLEAN
  /\ authView \in Client \cup {None}
  /\ leaked \in SUBSET Client
  /\ message \in {"", "fetching", "rendering", "failed"}
  /\ tokens \in SUBSET TokenAuth
  /\ OAuthSchemeKey \in TokenAuth \cup {None}
  /\ granted \in SUBSET KeyAuth

\* A client that is not made yet does nothing and is authorized for nothing.
NotMade(c) == api = None \/ c > api
Numbered == \A c \in Client : NotMade(c) => phase[c] = "unused" /\ authz[c] = {}

\* One that is made has been given an address.
Addressed == \A c \in Client : ~ NotMade(c) => url[c] \in Doc

\* Before the first load nothing has been entered, and no token asked for.
Fresh == api = None => granted = {} /\ tokens = {} /\ leaked = {}

\* A token that is under way has a name to be filed under.
TokenNamed == tokens # {} => OAuthSchemeKey \in TokenAuth

\* A page that has been completed once is cleared by the next load.
Clearable == page.complete => mainView

IInv ==
  /\ TypeOK /\ Numbered /\ Addressed /\ Fresh /\ TokenNamed /\ Clearable
  /\ ShownIffBuilt /\ KeysAsEntered
  /\ \A c \in Client : Kept(conv[c])

Busy(c) == phase[c] \in {"fetching", "converting", "resolving"}

LEMMA ClientNumbers == Client \subseteq Nat /\ 0 \notin Client /\ None \notin Client
<1>1. MaxLoads \in Nat \ {0} /\ None \notin Client
  BY ConsoleAssumption
<1>2. QED
  BY <1>1 DEF Client

\* The next client to be made is one that is not made yet.
LEMMA NewClientFacts ==
  ASSUME TypeOK, Numbered, NewClient \in Client
  PROVE  /\ NotMade(NewClient) /\ NewClient # api /\ NewClient # None
         /\ authz[NewClient] = {}
         /\ \A c \in Client : c > NewClient => NotMade(c) /\ c # NewClient
<1>1. api # None => api \in Nat /\ api \in Client
  BY ClientNumbers DEF TypeOK
<1>2. NotMade(NewClient) /\ NewClient # api /\ NewClient # None
  BY <1>1, ConsoleAssumption DEF NewClient, NotMade, Client
<1>3. \A c \in Client : c > NewClient => NotMade(c) /\ c # NewClient
  BY <1>1 DEF NewClient, NotMade, Client
<1>4. QED
  BY <1>2, <1>3 DEF Numbered

\* A load, with whatever is entered or withdrawn before it: the new client takes over
\* what the last one applies, and the page is cleared.
LEMMA LoadPreservesIInv ==
  ASSUME IInv, NEW d \in Doc, NEW az \in [Client -> SUBSET Auth], load(d, az),
         \A c \in Client : c # api => az[c] = authz[c],
         granted' = Carried(az) \cap KeyAuth,
         tokens' \in SUBSET TokenAuth, OAuthSchemeKey' \in TokenAuth \cup {None},
         TokenNamed'
  PROVE  IInv'
<1> DEFINE n == NewClient
<1>1. n \in Client /\ TypeOK /\ Numbered
  BY DEF load, IInv
<1>2. /\ NotMade(n) /\ n # api /\ n # None /\ authz[n] = {}
      /\ \A c \in Client : c > n => NotMade(c) /\ c # n
  BY <1>1, NewClientFacts
<1>3. az[n] = {}
  BY <1>1, <1>2
<1>4. Carried(az) \in SUBSET Auth
  BY <1>1 DEF Carried, TypeOK
<1>5. /\ api' = n /\ url' = [url EXCEPT ![n] = d]
      /\ authz' = [az EXCEPT ![n] = az[n] \cup Carried(az)]
      /\ phase' = [phase EXCEPT ![n] = "fetching"] /\ message' = "fetching"
      /\ page' = clear /\ authView' = None /\ UNCHANGED <<conv, mainView, leaked>>
  BY DEF load, SwaggerClient, add, build, showMessage
<1>6. page' \in [of : Client \cup {None}, complete : BOOLEAN] /\ ~ page'.complete
  BY <1>1, <1>5 DEF clear, Blank, TypeOK, IInv, Clearable
<1>7. phase' \in [Client -> Phase] /\ authz' \in [Client -> SUBSET Auth]
      /\ url' \in [Client -> Doc \cup {None}]
  BY <1>1, <1>4, <1>5 DEF TypeOK, Phase
<1>8. TypeOK'
  BY <1>1, <1>5, <1>6, <1>7 DEF TypeOK
<1>9. /\ phase'[n] = "fetching" /\ authz'[n] = Carried(az)
      /\ \A c \in Client \ {n} : phase'[c] = phase[c] /\ authz'[c] = az[c]
  BY <1>1, <1>3, <1>5 DEF TypeOK
<1>10. Numbered'
  <2>1. ASSUME NEW c \in Client, NotMade(c)'
        PROVE  phase'[c] = "unused" /\ authz'[c] = {}
    <3>1. c > n
      BY <1>2, <1>5, <2>1 DEF NotMade
    <3>2. NotMade(c) /\ c # n
      BY <1>2, <3>1
    <3>3. c # api
      <4>1. c \in Nat /\ c # None
        BY ClientNumbers
      <4>2. QED
        BY <3>2, <4>1 DEF NotMade
    <3>4. QED
      BY <1>1, <1>9, <3>2, <3>3 DEF Numbered
  <2>2. QED
    BY <2>1 DEF Numbered
<1>11. Addressed'
  <2>1. ASSUME NEW c \in Client, ~ NotMade(c)'
        PROVE  url'[c] \in Doc
    <3>1. CASE c = n
      BY <1>1, <1>5, <3>1 DEF TypeOK
    <3>2. CASE c # n
      <4>1. ~ NotMade(c)
        <5>1. c \in Nat \ {0} /\ c # n /\ ~ (c > n) /\ (api # None => api \in Nat)
          BY <1>1, <1>2, <1>5, <2>1, <3>2, ClientNumbers DEF NotMade, TypeOK
        <5>2. QED
          BY <5>1 DEF NotMade, NewClient
      <4>2. QED
        BY <1>1, <1>5, <3>2, <4>1 DEF TypeOK, IInv, Addressed
    <3>3. QED
      BY <3>1, <3>2
  <2>2. QED
    BY <2>1 DEF Addressed
<1>12. Fresh' /\ Clearable' /\ ShownIffBuilt'
  BY <1>2, <1>5, <1>6, <1>9 DEF Fresh, Clearable, ShownIffBuilt
<1>13. KeysAsEntered'
  BY <1>5, <1>9 DEF KeysAsEntered
<1>14. QED
  BY <1>5, <1>8, <1>10, <1>12, <1>13, <1>11 DEF IInv

\* A client that is at work goes on without showing anything.
LEMMA PhasePreservesIInv ==
  ASSUME IInv, NEW c \in Client, Busy(c),
         NEW p \in {"converting", "resolving", "threw", "failed"},
         phase' = [phase EXCEPT ![c] = p],
         UNCHANGED <<api, url, authz, page, mainView, authView, leaked, authVars>>,
         message' \in {message, "failed"},
         conv' \in [Client -> Conversion], \A b \in Client : Kept(conv'[b])
  PROVE  IInv'
<1>1. /\ phase'[c] = p /\ p # "built" /\ phase[c] # "built" /\ phase[c] # "unused"
      /\ \A b \in Client \ {c} : phase'[b] = phase[b]
  BY DEF IInv, TypeOK, Busy
<1>2. TypeOK'
  BY DEF IInv, TypeOK, Phase, authVars
<1>3. Numbered'
  BY <1>1 DEF IInv, Numbered, NotMade
<1>4. Addressed'
  BY DEF IInv, Addressed, NotMade
<1>5. ShownIffBuilt'
  BY <1>1 DEF IInv, TypeOK, ShownIffBuilt
<1>6. QED
  BY <1>2, <1>3, <1>5, <1>4 DEF IInv, Fresh, TokenNamed, Clearable, KeysAsEntered, authVars

\* A client that is built renders the page of the last one: it is complete if that
\* one is built, and just a frame otherwise.
LEMMA BuildPreservesIInv ==
  ASSUME IInv, NEW c \in Client, Busy(c), buildFromSpec(c), UNCHANGED <<api, url, authz, authVars>>,
         conv' \in [Client -> Conversion], \A b \in Client : Kept(conv'[b])
  PROVE  IInv'
<1>1. CASE TagsClash(c)
  BY <1>1, PhasePreservesIInv DEF buildFromSpec, viewVars
<1>2. CASE ~ TagsClash(c)
  <2>1. /\ phase' = [phase EXCEPT ![c] = "built"]
        /\ IF phase'[api] = "built" THEN MainView(api) ELSE MainViewThrows(api)
    BY <1>2 DEF buildFromSpec, render, Rendered
  <2>2. api # None /\ api \in Client
    BY DEF IInv, TypeOK, Numbered, NotMade, Busy
  <2>3. \A b \in Client : phase'[b] = IF b = c THEN "built" ELSE phase[b]
    BY <2>1 DEF IInv, TypeOK
  <2>4. /\ page' \in [of : Client \cup {None}, complete : BOOLEAN] /\ page'.of = api
        /\ page'.complete <=> phase'[api] = "built"
        /\ page'.complete => mainView'
        /\ mainView' \in BOOLEAN /\ message' \in {"", "rendering"}
    <3>1. main(api) = [of |-> api, complete |-> FALSE]
      BY DEF main
    <3>2. CASE phase'[api] = "built"
      <4>1. page' = [of |-> api, complete |-> TRUE]
        <5>1. page' = [[of |-> api, complete |-> FALSE] EXCEPT !.complete = TRUE]
          BY <2>1, <3>2 DEF MainView, main
        <5>2. QED
          BY <5>1
      <4>2. mainView' = TRUE /\ message' = ""
        BY <2>1, <3>2 DEF MainView, showMessage
      <4>3. QED
        BY <2>2, <3>2, <4>1, <4>2
    <3>3. CASE phase'[api] # "built"
      <4>1. page' = [of |-> api, complete |-> FALSE]
        BY <2>1, <3>1, <3>3 DEF MainViewThrows
      <4>2. mainView' = mainView /\ message' = "rendering" /\ mainView \in BOOLEAN
        BY <2>1, <3>3 DEF MainViewThrows, showMessage, IInv, TypeOK
      <4>3. QED
        BY <2>2, <3>3, <4>1, <4>2
    <3>4. QED
      BY <3>2, <3>3
  <2>5. authView' \in Client \cup {None} /\ leaked' \in SUBSET Client
    BY <2>1, <2>2 DEF MainView, MainViewThrows, IInv, TypeOK
  <2>6. phase' \in [Client -> Phase]
    BY <2>1 DEF IInv, TypeOK, Phase
  <2>7. TypeOK'
    BY <2>4, <2>5, <2>6 DEF IInv, TypeOK, authVars
  <2>8. Numbered'
    BY <2>3 DEF IInv, Numbered, NotMade, Busy
  <2>9. Addressed'
    BY DEF IInv, Addressed, NotMade
  <2>10. ShownIffBuilt' /\ Clearable'
    BY <2>2, <2>4 DEF ShownIffBuilt, Clearable
  <2>11. QED
    BY <2>2, <2>7, <2>8, <2>10, <2>9 DEF IInv, Fresh, TokenNamed, KeysAsEntered, authVars
<1>3. QED
  BY <1>1, <1>2

LEMMA ResolvePreservesIInv ==
  ASSUME IInv, NEW c \in Client, Busy(c), resolve(c), UNCHANGED <<api, url, authz, authVars>>,
         conv' \in [Client -> Conversion], \A b \in Client : Kept(conv'[b])
  PROVE  IInv'
BY BuildPreservesIInv, PhasePreservesIInv DEF resolve, viewVars

-----------------------------------------------------------------------------
(* The steps *)

LEMMA LoadingPreservesIInv ==
  ASSUME IInv, NEW c \in Client, Loading(c)
  PROVE  IInv'
<1>1. conv \in [Client -> Conversion] /\ \A b \in Client : Kept(conv[b])
  BY DEF IInv, TypeOK
<1>2. CASE error(c)
  <2>1. Busy(c) /\ phase' = [phase EXCEPT ![c] = "failed"] /\ message' = "failed"
    BY <1>2 DEF error, fail, onLoadFailure, Busy
  <2>2. UNCHANGED <<api, url, conv, authz, page, mainView, authView, leaked, authVars>>
    BY <1>2 DEF error, fail, onLoadFailure
  <2>3. QED
    BY <1>1, <2>1, <2>2, PhasePreservesIInv
<1>3. CASE response(c)
  BY <1>1, <1>3, ResolvePreservesIInv DEF response, Busy
<1>4. CASE Resolved(c)
  BY <1>1, <1>4, BuildPreservesIInv DEF Resolved, Busy
<1>5. CASE responseConverts(c)
  <2>1. Busy(c) /\ UNCHANGED <<api, url, authz, authVars>>
    BY <1>5 DEF responseConverts, Busy
  <2>2. CASE Throws(c) /\ UNCHANGED conv
    BY <1>1, <2>1, <2>2, PhasePreservesIInv DEF Throws, viewVars
  <2>3. CASE Shape[url[c]] = "listing"
    <3>1. convert!resourceListing(c, Lists[url[c]])
      BY <1>5, <2>3 DEF responseConverts
    <3>2. url[c] \in Doc => Lists[url[c]] \in SUBSET Api /\ IsFiniteSet(Lists[url[c]])
      BY ConsoleAssumption, DeclarationAssumption
    <3>3. url[c] \in Doc
      BY <2>1 DEF IInv, Numbered, Addressed, Busy
    <3>4. conv' \in [Client -> Conversion] /\ \A b \in Client : Kept(conv'[b])
      BY <1>1, <3>1, <3>2, <3>3, ConverterStep
    <3>5. CASE resolve(c)
      BY <2>1, <3>4, <3>5, ResolvePreservesIInv
    <3>6. CASE phase' = [phase EXCEPT ![c] = "converting"] /\ UNCHANGED viewVars
      BY <2>1, <3>4, <3>6, PhasePreservesIInv DEF viewVars
    <3>7. QED
      BY <1>5, <2>3, <3>5, <3>6 DEF responseConverts
  <2>4. CASE Shape[url[c]] = "single" /\ Lists[url[c]] \subseteq HasBasePath
    <3>1. (\E a \in Lists[url[c]] : convert!singleFile(c, a)) /\ resolve(c)
      BY <1>5, <2>4 DEF responseConverts
    <3>2. url[c] \in Doc
      BY <2>1 DEF IInv, Numbered, Addressed, Busy
    <3>3. \E a \in Api : convert!singleFile(c, a)
      BY <3>1, <3>2, ConsoleAssumption
    <3>4. conv' \in [Client -> Conversion] /\ \A b \in Client : Kept(conv'[b])
      BY <1>1, <3>3, ConverterStep
    <3>5. QED
      BY <2>1, <3>1, <3>4, ResolvePreservesIInv
  <2>5. QED
    BY <1>5, <2>2, <2>3, <2>4 DEF responseConverts
<1>6. ASSUME NEW a \in Api, Converted(c, a)
      PROVE  IInv'
  <2>1. Busy(c) /\ UNCHANGED <<api, url, authz, authVars>>
    BY <1>6 DEF Converted, Busy
  <2>2. conv' \in [Client -> Conversion] /\ \A b \in Client : Kept(conv'[b])
    BY <1>1, <1>6, ConverterStep DEF Converted
  <2>3. CASE resolve(c)
    BY <2>1, <2>2, <2>3, ResolvePreservesIInv
  <2>4. CASE UNCHANGED <<phase, viewVars>>
    <3>1. TypeOK'
      BY <2>1, <2>2, <2>4 DEF IInv, TypeOK, viewVars, authVars
    <3>2. Numbered' /\ Addressed' /\ ShownIffBuilt'
      BY <2>1, <2>4 DEF IInv, Numbered, Addressed, NotMade, ShownIffBuilt, viewVars
    <3>3. QED
      BY <2>1, <2>2, <2>4, <3>1, <3>2
      DEF IInv, Fresh, TokenNamed, Clearable, KeysAsEntered, authVars, viewVars
  <2>5. QED
    BY <1>6, <2>3, <2>4 DEF Converted
<1>7. QED
  BY <1>2, <1>3, <1>4, <1>5, <1>6 DEF Loading

\* A popup can be used only once a page has been shown, and so after the first load.
LEMMA FormsNeedPage ==
  ASSUME IInv, NEW form, form \in OpenForms \/ form \in LeakedForms
  PROVE  api # None /\ api \in Client
BY DEF OpenForms, LeakedForms, IInv, ShownIffBuilt, TypeOK, Fresh

LEMMA CurrentAddressed ==
  ASSUME IInv, api \in Client, api # None
  PROVE  url[api] \in Doc
BY ClientNumbers DEF IInv, Addressed, NotMade

LEMMA UserPreservesIInv ==
  ASSUME IInv, User
  PROVE  IInv'
<1> USE DEF IInv
<1>1. authz \in [Client -> SUBSET Auth] /\ url \in [Client -> Doc \cup {None}]
      /\ api \in Client \cup {None} /\ granted \in SUBSET KeyAuth
  BY DEF TypeOK
<1>2. Carried(authz) \cap KeyAuth = granted
  BY DEF Carried, KeysAsEntered, Fresh
<1>3. ASSUME NEW d \in Doc, start(d) \/ showCustom(d)
      PROVE  IInv'
  <2>1. load(d, authz) /\ UNCHANGED authVars
    BY <1>3 DEF start, showCustom, updateSwaggerUi
  <2>2. QED
    BY <1>1, <1>2, <2>1, LoadPreservesIInv DEF authVars, TypeOK, TokenNamed
<1>4. ASSUME NEW form \in SUBSET Auth, authorize(form)
      PROVE  IInv'
  <2> DEFINE az == add(authz, api, form \cap KeyAuth)
  <2>1. api \in Client /\ api # None
    BY <1>4, FormsNeedPage DEF authorize
  <2>2. az \in [Client -> SUBSET Auth]
    BY <1>1, <2>1 DEF add
  <2>3. az[api] = authz[api] \cup (form \cap KeyAuth) /\ \A c \in Client : c # api => az[c] = authz[c]
    BY <1>1, <2>1 DEF add
  <2>4. granted' = Carried(az) \cap KeyAuth
    BY <1>2, <1>4, <2>1, <2>3 DEF authorize, Carried
  <2>5. /\ tokens' \in SUBSET TokenAuth /\ OAuthSchemeKey' \in TokenAuth \cup {None}
        /\ TokenNamed'
    <3>1. tokens' = tokens \cup (form \cap TokenAuth)
      BY <1>4 DEF authorize, handleOauth2Login
    <3>2. CASE form \cap TokenAuth = {}
      <4>1. UNCHANGED <<tokens, OAuthSchemeKey>>
        BY <1>4, <3>1, <3>2 DEF authorize, handleOauth2Login
      <4>2. QED
        BY <4>1 DEF TypeOK, TokenNamed
    <3>3. CASE form \cap TokenAuth # {}
      BY <1>4, <3>1, <3>3 DEF authorize, handleOauth2Login, TypeOK, TokenNamed
    <3>4. QED
      BY <3>2, <3>3
  <2>6. load(url[api], az) /\ url[api] \in Doc
    BY <1>1, <1>4, <2>1, CurrentAddressed DEF authorize
  <2>7. QED
    BY <2>2, <2>3, <2>4, <2>5, <2>6, LoadPreservesIInv
<1>5. ASSUME NEW form \in SUBSET Auth, logoutClick(form)
      PROVE  IInv'
  <2> DEFINE az == remove(authz, api, form)
  <2>1. api \in Client /\ api # None
    BY <1>5, FormsNeedPage DEF logoutClick
  <2>2. az \in [Client -> SUBSET Auth]
    BY <1>1, <2>1 DEF remove
  <2>3. az[api] = authz[api] \ form /\ \A c \in Client : c # api => az[c] = authz[c]
    BY <1>1, <2>1 DEF remove
  <2>4. granted' = Carried(az) \cap KeyAuth
    BY <1>2, <1>5, <2>1, <2>3 DEF logoutClick, Carried
  <2>5. load(url[api], az) /\ url[api] \in Doc /\ UNCHANGED <<tokens, OAuthSchemeKey>>
    BY <1>1, <1>5, <2>1, CurrentAddressed DEF logoutClick
  <2>6. QED
    BY <2>2, <2>3, <2>4, <2>5, LoadPreservesIInv DEF TypeOK, TokenNamed
<1>6. ASSUME NEW n \in TokenAuth, onOAuthComplete(n)
      PROVE  IInv'
  <2> DEFINE az == add(authz, api, {OAuthSchemeKey})
  <2>1. OAuthSchemeKey \in TokenAuth /\ api # None /\ api \in Client
    BY <1>1, <1>6 DEF onOAuthComplete, TokenNamed, Fresh
  <2>2. az \in [Client -> SUBSET Auth]
    BY <1>1, <2>1 DEF add, Auth
  <2>3. az[api] = authz[api] \cup {OAuthSchemeKey} /\ \A c \in Client : c # api => az[c] = authz[c]
    BY <1>1, <2>1 DEF add
  <2>4. granted' = Carried(az) \cap KeyAuth
    BY <1>2, <1>6, <2>1, <2>3, ConsoleAssumption DEF onOAuthComplete, Carried
  <2>5. /\ load(url[api], az) /\ url[api] \in Doc
        /\ tokens' \in SUBSET TokenAuth /\ UNCHANGED OAuthSchemeKey
    BY <1>1, <1>6, <2>1, CurrentAddressed DEF onOAuthComplete, TypeOK
  <2>6. QED
    BY <2>1, <2>2, <2>3, <2>4, <2>5, LoadPreservesIInv DEF TokenNamed
<1>7. ASSUME NEW n \in TokenAuth, OAuthRefused(n)
      PROVE  IInv'
  <2>1. UNCHANGED <<clientVars, viewVars, OAuthSchemeKey, granted>> /\ tokens' = tokens \ {n}
    BY <1>7 DEF OAuthRefused
  <2>2. TypeOK'
    BY <2>1 DEF TypeOK, clientVars, viewVars
  <2>3. Numbered' /\ Addressed' /\ ShownIffBuilt' /\ KeysAsEntered' /\ Clearable'
    BY <2>1 DEF Numbered, Addressed, NotMade, ShownIffBuilt, KeysAsEntered, Clearable, clientVars, viewVars
  <2>4. Fresh' /\ TokenNamed'
    BY <2>1 DEF Fresh, TokenNamed, clientVars, viewVars
  <2>5. QED
    BY <2>1, <2>2, <2>3, <2>4 DEF clientVars
<1>8. QED
  BY <1>3, <1>4, <1>5, <1>6, <1>7 DEF User

\* The invariant holds in every reachable state.
THEOREM IInvCorrect == Spec => []IInv
<1>1. Init => IInv
  <2> SUFFICES ASSUME Init PROVE IInv
    OBVIOUS
  <2>1. \A c \in Client : conv[c] = convert!Empty
    BY DEF Init, convert!Init
  <2>2. conv \in [Client -> Conversion] /\ \A c \in Client : Kept(conv[c])
    BY <2>1, EmptyKept DEF Init, convert!Init, Kept
  <2>3. TypeOK
    BY <2>2 DEF Init, TypeOK, Phase, Blank
  <2>4. Numbered /\ Addressed /\ Fresh /\ TokenNamed /\ Clearable
    BY DEF Init, Numbered, NotMade, Addressed, Fresh, TokenNamed, Clearable, Blank
  <2>5. ShownIffBuilt /\ KeysAsEntered
    BY DEF Init, ShownIffBuilt, KeysAsEntered, Blank
  <2>6. QED
    BY <2>2, <2>3, <2>4, <2>5 DEF IInv
<1>2. IInv /\ [Next]_vars => IInv'
  <2>1. ASSUME IInv, UNCHANGED vars
        PROVE  IInv'
    <3>1. TypeOK' /\ Numbered' /\ Addressed' /\ Fresh' /\ TokenNamed' /\ Clearable'
      BY <2>1 DEF IInv, TypeOK, Numbered, Addressed, NotMade, Fresh, TokenNamed, Clearable,
                  vars, clientVars, viewVars, authVars
    <3>2. ShownIffBuilt' /\ KeysAsEntered' /\ \A c \in Client : Kept(conv'[c])
      BY <2>1 DEF IInv, ShownIffBuilt, KeysAsEntered, vars, clientVars, viewVars, authVars
    <3>3. QED
      BY <3>1, <3>2 DEF IInv
  <2>2. QED
    BY <2>1, LoadingPreservesIInv, UserPreservesIInv DEF Next
<1>3. QED
  BY <1>1, <1>2, PTL DEF Spec

\* Every variable of the console keeps its type.
THEOREM TypeCorrect == Spec => []TypeOK
<1>1. IInv => TypeOK
  BY DEF IInv
<1>2. QED
  BY <1>1, IInvCorrect, PTL

\* However many loads are under way and in whichever order they end, the page is
\* complete exactly when the last one has been built, and is that one's.
THEOREM ShownIffBuiltCorrect == Spec => []ShownIffBuilt
<1>1. IInv => ShownIffBuilt
  BY DEF IInv
<1>2. QED
  BY <1>1, IInvCorrect, PTL

\* Every load applies the keys that the user has entered and not withdrawn.
THEOREM KeysAsEnteredCorrect == Spec => []KeysAsEntered
<1>1. IInv => KeysAsEntered
  BY DEF IInv
<1>2. QED
  BY <1>1, IInvCorrect, PTL

\* A conversion calls back once all its requests have ended, with the endpoints of
\* every declaration that was read, whatever the order of the answers.
THEOREM DeclarationsKeptCorrect == Spec => []DeclarationsKept
<1>1. IInv => DeclarationsKept
  BY DEF IInv, Kept, DeclarationsKept, convert!DeclarationsKept
<1>2. QED
  BY <1>1, IInvCorrect, PTL

-----------------------------------------------------------------------------
(* An operation on the page: its requests and their callbacks *)

CONSTANTS Ops, MaxSubmissions, Submitted, Answers, Authz, OptionNames

VARIABLES op, timeouts, fields, requestType, responseType, marked, map, count, throbber,
          shown, left, sent, entered, args, pictures, heard, xhr, via, binary, timer

Operation == INSTANCE OperationView

\* HeardOnce is not inductive: it says nothing of what is still to end.  Nothing has
\* been heard of a request that is under way, and of one that is over nobody will
\* hear again; its timer, if that was forgotten, included.
Heard ==
  /\ xhr \in [Operation!Submission -> {"unsent", "open", "done", "aborted"}]
  /\ calls \in [Operation!Submission -> {0, 1}]
  /\ \A r \in Operation!Submission : xhr[r] \in {"unsent", "open"} => calls[r] = 0

\* What ends a request that is under way, with one callback or none.
LEMMA EndPreservesHeard ==
  ASSUME Heard, NEW r \in Operation!Submission, xhr[r] = "open",
         NEW x \in {"done", "aborted"}, xhr' = [xhr EXCEPT ![r] = x],
         calls' = calls \/ calls' = [calls EXCEPT ![r] = @ + 1]
  PROVE  Heard'
<1>1. calls[r] = 0
  BY DEF Heard
<1>2. calls' \in [Operation!Submission -> {0, 1}]
  BY <1>1 DEF Heard
<1>3. ASSUME NEW s \in Operation!Submission, xhr'[s] \in {"unsent", "open"}
      PROVE  calls'[s] = 0
  <2>1. s # r
    BY <1>3 DEF Heard
  <2>2. QED
    BY <1>3, <2>1 DEF Heard
<1>4. QED
  BY <1>2, <1>3 DEF Heard

LEMMA AnswerPreservesHeard ==
  ASSUME Heard, NEW r \in Operation!Submission, NEW a \in Answers, Operation!Answer(r, a)
  PROVE  Heard'
<1> DEFINE throws == Operation!Throws(Operation!http!Received(r, a))
                       \/ Operation!request!getMissingParams(op, map) # {}
<1>1. Operation!http!end(r, a, throws)
  BY DEF Operation!Answer
<1>2. xhr[r] = "open" /\ xhr' = [xhr EXCEPT ![r] = "done"]
  BY <1>1 DEF Operation!http!end
<1>3. calls' = calls \/ calls' = [calls EXCEPT ![r] = @ + 1]
  BY <1>1 DEF Operation!http!end, Operation!http!callback, Operation!http!Called
<1>4. QED
  BY <1>2, <1>3, EndPreservesHeard

LEMMA FailsPreservesHeard ==
  ASSUME Heard, NEW r \in Operation!Submission, Operation!Fails(r)
  PROVE  Heard'
<1>1. CASE Operation!http!crossDomainError(r)
  BY <1>1, EndPreservesHeard
     DEF Operation!http!crossDomainError, Operation!http!callback, Operation!http!Called
<1>2. CASE Operation!http!timeout(r)
  <2>1. xhr[r] = "open"
    BY DEF Operation!Fails
  <2>2. xhr' = [xhr EXCEPT ![r] = "aborted"] /\ calls' = [calls EXCEPT ![r] = @ + 1]
    BY <1>2, <2>1 DEF Operation!http!timeout, Operation!http!abort,
                      Operation!http!_timeoutError, Operation!http!callback,
                      Operation!http!Called
  <2>3. QED
    BY <2>1, <2>2, EndPreservesHeard
<1>3. QED
  BY <1>1, <1>2 DEF Operation!Fails

\* A submission is sent once, so that what was heard of it is of this request.
LEMMA SubmitPreservesHeard ==
  ASSUME Heard, Operation!submitOperation
  PROVE  Heard'
<1>1. CASE Operation!Sent
  <2>1. PICK r \in Operation!Submission :
          xhr[r] = "unsent" /\ xhr' = [xhr EXCEPT ![r] = "open"] /\ calls' = calls
    BY <1>1 DEF Operation!Sent, Operation!http!execute, Operation!http!send
  <2>2. QED
    BY <2>1 DEF Heard
<1>2. CASE Operation!Refused \/ Operation!Missing
  BY <1>2 DEF Heard, Operation!Refused, Operation!Missing, Operation!httpVars
<1>3. QED
  BY <1>1, <1>2 DEF Operation!submitOperation

\* For any operations, answers and number of submissions: whatever ends a request, an
\* answer, a failure or the timer, its callback is called at most once, even if it throws.
THEOREM HeardOnceCorrect == Operation!Spec => []HeardOnce
<1>1. Operation!Init => Heard
  BY DEF Operation!Init, Operation!http!Init, Heard
<1>2. Heard /\ [Operation!Next]_(Operation!vars) => Heard'
  <2> SUFFICES ASSUME Heard, [Operation!Next]_(Operation!vars) PROVE Heard'
    OBVIOUS
  <2>1. CASE Operation!Edit
    BY <2>1 DEF Operation!Edit, Operation!httpVars, Heard
  <2>2. ASSUME NEW r \in Operation!Submission, Operation!Late(r)
        PROVE  Heard'
    BY <2>2 DEF Operation!Late, Operation!http!timeout, Heard
  <2>3. CASE UNCHANGED Operation!vars
    BY <2>3 DEF Operation!vars, Operation!httpVars, Heard
  <2>4. QED
    BY <2>1, <2>2, <2>3, SubmitPreservesHeard, AnswerPreservesHeard, FailsPreservesHeard
       DEF Operation!Next, Operation!Ends
<1>3. Heard => HeardOnce
  BY DEF Heard, HeardOnce
<1>4. QED
  BY <1>1, <1>2, <1>3, PTL DEF Operation!Spec

=============================================================================
