------------------------------- MODULE Console -------------------------------
(***************************************************************************)
(* The console of the web application (webapp/index.html with              *)
(* swagger-ui.js): it loads the description of an API, builds a client for *)
(* it and shows its operations.  A user may enter another address, or      *)
(* enter and withdraw authorizations, at any time; each of these loads the *)
(* description once more, while earlier loads may still be under way.      *)
(*                                                                         *)
(* The browser runs one function at a time, to its end; answers of servers *)
(* arrive in any order.  A Client is one SwaggerClient object, numbered in *)
(* the order of the loads.  The resolver of references (SpecResolver) is   *)
(* here one that calls back at once or later.                              *)
(***************************************************************************)
EXTENDS Naturals, FiniteSets

CONSTANTS MaxLoads,    \* bound on the loads
          Doc,         \* addresses with what is found there
          Shape,       \* Doc -> "v2", "listing", "single", "notSpec", "clash"
          Lists,       \* Doc -> entries of a listing, or the document itself
          Forms,       \* Doc -> sets of authorizations entered together
          KeyAuth,     \* authorizations that are entered: keys and passwords
          TokenAuth,   \* authorizations that a server grants: oauth2
          OddAuth,     \* those of a type the console does not know
          Api, Endpoint, Path, Endpoints, Consumes, HasBasePath,
          Model, Models, Uses, None  \* see SpecConverter

Client == 1..MaxLoads
Auth == KeyAuth \cup TokenAuth \cup OddAuth

ASSUME ConsoleAssumption ==
  /\ MaxLoads \in Nat \ {0}
  /\ Shape \in [Doc -> {"v2", "listing", "single", "notSpec", "clash"}]
  /\ Lists \in [Doc -> SUBSET Api]
  /\ \A d \in Doc : Shape[d] = "single" => Cardinality(Lists[d]) = 1
  /\ Forms \in [Doc -> SUBSET SUBSET Auth]
  /\ KeyAuth \cap TokenAuth = {} /\ OddAuth \cap (KeyAuth \cup TokenAuth) = {}
  /\ None \notin Client /\ None \notin Api

VARIABLES api,      \* this.api: the client of the last load, or None
          url,      \* of each client: what it loads
          phase,    \* of each client: "unused", "fetching", "converting",
                    \* "resolving", "built", "failed" or "threw"
          conv,     \* of each client: its converter
          authz,    \* of each client: the authorizations it applies
          page,     \* what the main element shows
          mainView, \* has a page ever been rendered?
          authView, \* client whose button the router knows, or None
          leaked,   \* clients with a button that the router has forgotten
          message,  \* of the bar: "", "fetching", "rendering" or "failed"
          tokens,   \* token requests under way
          OAuthSchemeKey, \* window.swaggerUiAuth.OAuthSchemeKey
          granted   \* history: keys the user has entered and not withdrawn

convert == INSTANCE SpecConverter

ASSUME DeclarationAssumption ==
  /\ \A d \in Doc : IsFiniteSet(Lists[d])
  /\ Endpoints \in [Api -> SUBSET Endpoint]
  /\ Models \in [Api -> SUBSET Model]
  /\ Uses \in [Api -> [convert!Places -> SUBSET Model]]

clientVars == <<api, url, phase, conv, authz>>
viewVars == <<page, mainView, authView, leaked, message>>
authVars == <<tokens, OAuthSchemeKey, granted>>
vars == <<clientVars, viewVars, authVars>>

Blank == [of |-> None, complete |-> FALSE]

\* index.html has made the router and is about to call its first load().
Init ==
  /\ api = None
  /\ url = [c \in Client |-> None]
  /\ phase = [c \in Client |-> "unused"]
  /\ convert!Init
  /\ authz = [c \in Client |-> {}]
  /\ page = Blank
  /\ mainView = FALSE
  /\ authView = None
  /\ leaked = {}
  /\ message = ""
  /\ tokens = {}
  /\ OAuthSchemeKey = None
  /\ granted = {}

-----------------------------------------------------------------------------
(* Loading *)

\* The client the next load makes: they are numbered in that order.
NewClient == IF api = None THEN 1 ELSE api + 1

\* SwaggerAuthorizations: a map from names, which a client has of its own.
add(az, c, names) == [az EXCEPT ![c] = @ \cup names]
remove(az, c, names) == [az EXCEPT ![c] = @ \ names]

\* Mutant: the authorizations are taken from the client that is being made.
CarriesNothing(az) == {}

\* options.authorizations, which the new client copies.
Carried(az) == IF api = None THEN {} ELSE az[api]

showMessage(m) == message' = m

\* build: the message, and the request.
build(c) ==
  /\ phase' = [phase EXCEPT ![c] = "fetching"]
  /\ showMessage("fetching")

\* initialize of a new client, which goes on to build.
SwaggerClient(d, az) ==
  /\ api' = NewClient
  /\ url' = [url EXCEPT ![NewClient] = d]
  /\ authz' = add(az, NewClient, Carried(az))
  /\ build(NewClient)

\* mainView.clear(), if there is one: what a rendering that threw has left
\* behind stays.
clear == IF mainView THEN Blank ELSE page

\* load: az is what is known of authorizations when it is called.
load(d, az) ==
  /\ NewClient \in Client
  /\ page' = clear
  /\ authView' = None
  /\ SwaggerClient(d, az)
  /\ UNCHANGED <<conv, mainView, leaked>>

updateSwaggerUi(d) == load(d, authz)

\* The first load, which index.html asks for.
start(d) == api = None /\ updateSwaggerUi(d) /\ UNCHANGED authVars

\* The header: the address that the user enters, or the petstore's.
showCustom(d) == api # None /\ updateSwaggerUi(d) /\ UNCHANGED authVars

HasForms(c) == Forms[url[c]] # {}

\* Mutant: the page is rendered of the client whose answer it is.
RendersItsOwn(c) == c

\* success() calls that.render(), and render() takes this.api.
Rendered(c) == api

\* The frame of the page, with the title and what else is said of the whole, and
\* still without a group of operations.
main(a) == [of |-> a, complete |-> FALSE]

\* A page with its button, if there is something to authorize.  A button that
\* is there already, of an earlier rendering of the client, is forgotten.
MainView(a) ==
  /\ page' = [main(a) EXCEPT !.complete = TRUE]
  /\ mainView' = TRUE
  /\ showMessage("")
  /\ IF HasForms(a)
       THEN /\ authView' = a
            /\ leaked' = IF authView = None THEN leaked ELSE leaked \cup {authView}
       ELSE UNCHANGED <<authView, leaked>>

\* Of a client that is not built the frame of the page is shown, and the loop
\* over its apisArray throws.
MainViewThrows(a) ==
  /\ page' = main(a)
  /\ showMessage("rendering")
  /\ UNCHANGED <<mainView, authView, leaked>>

render(c) ==
  LET a == Rendered(c) IN
    IF phase'[a] = "built" THEN MainView(a) ELSE MainViewThrows(a)

\* A tag with the name of a field of the client that is not in the list of
\* reserved names is taken for a group of operations, and buildFromSpec throws.  A
\* null among the definitions makes the resolver throw instead of calling back.
TagsClash(c) == Shape[url[c]] = "clash"

buildFromSpec(c) ==
  IF TagsClash(c)
    THEN phase' = [phase EXCEPT ![c] = "threw"] /\ UNCHANGED viewVars
    ELSE phase' = [phase EXCEPT ![c] = "built"] /\ render(c)

\* new Resolver().resolve(...): without references to fetch it calls
\* buildFromSpec before it returns.
resolve(c) ==
  \/ buildFromSpec(c)
  \/ phase' = [phase EXCEPT ![c] = "resolving"] /\ UNCHANGED viewVars

\* The resolver calls back later.
Resolved(c) ==
  /\ phase[c] = "resolving"
  /\ buildFromSpec(c)
  /\ UNCHANGED <<api, url, conv, authz, authVars>>

\* The bar turns red, and whatever page is shown stays.
onLoadFailure == message' = "failed" /\ UNCHANGED page

\* fail, and with it onLoadFailure.
fail(c) ==
  /\ phase' = [phase EXCEPT ![c] = "failed"]
  /\ onLoadFailure
  /\ UNCHANGED <<mainView, authView, leaked>>

\* on.error of the description, or on.response with nothing that can be parsed.
error(c) ==
  /\ phase[c] = "fetching"
  /\ fail(c)
  /\ UNCHANGED <<api, url, conv, authz, authVars>>

\* on.response with a description of version 2.
response(c) ==
  /\ phase[c] = "fetching"
  /\ Shape[url[c]] \in {"v2", "clash"}
  /\ resolve(c)
  /\ UNCHANGED <<api, url, conv, authz, authVars>>

Throws(c) == phase' = [phase EXCEPT ![c] = "threw"] /\ UNCHANGED viewVars

\* on.response with anything else, which is converted: what is no description
\* is handed on as null, and the resolver throws; so does the conversion of a
\* single document without a basePath.
responseConverts(c) ==
  LET d == url[c] IN
    /\ phase[c] = "fetching"
    /\ CASE Shape[d] = "listing" ->
              /\ convert!resourceListing(c, Lists[d])
              /\ IF conv'[c].called
                   THEN resolve(c)
                   ELSE phase' = [phase EXCEPT ![c] = "converting"] /\ UNCHANGED viewVars
         [] Shape[d] = "single" /\ Lists[d] \subseteq HasBasePath ->
              (\E a \in Lists[d] : convert!singleFile(c, a)) /\ resolve(c)
         [] Shape[d] = "single" /\ ~ (Lists[d] \subseteq HasBasePath) ->
              Throws(c) /\ UNCHANGED conv
         [] Shape[d] = "notSpec" -> Throws(c) /\ UNCHANGED conv
         [] OTHER -> FALSE
    /\ UNCHANGED <<api, url, authz, authVars>>

\* A resource of a listing is answered; the last answer resolves.
Converted(c, a) ==
  /\ phase[c] = "converting"
  /\ convert!error(c, a) \/ \E isObject \in BOOLEAN : convert!response(c, a, isObject)
  /\ IF conv'[c].called THEN resolve(c) ELSE UNCHANGED <<phase, viewVars>>
  /\ UNCHANGED <<api, url, authz, authVars>>

-----------------------------------------------------------------------------
(* Authorizations *)

\* The forms a popup can be opened with.  The popup is part of the page.
OpenForms ==
  IF page.complete /\ authView # None THEN Forms[url[authView]] ELSE {}

\* Those of a forgotten button, which is in the header whatever page there is.
LeakedForms == UNION {Forms[url[c]] : c \in leaked}

\* Which buttons a form has is decided when the page is rendered, and what is
\* authorized changes with the next load only.
isAuthorized(form) == form \subseteq authz[api]
isPartiallyAuthorized(form) == form \cap authz[api] # {}

\* A form that is filled in can be sent, unless it has an entry of a type that
\* the collection takes for a bare model: that has no validate(), and throws.
isValid(form) == form \cap OddAuth = {}

\* handleOauth2Login of each in turn: the last one gives its name to the global
\* that all of them share.
handleOauth2Login(names) ==
  /\ tokens' = tokens \cup names
  /\ IF names = {} THEN UNCHANGED OAuthSchemeKey ELSE OAuthSchemeKey' \in names

\* authorizeClick of a valid form: keys and passwords are added at once, tokens
\* are requested, and in either case the description is loaded again.
authorize(form) ==
  /\ \/ form \in OpenForms /\ ~ isAuthorized(form)
     \/ form \in LeakedForms
  /\ isValid(form)
  /\ load(url[api], add(authz, api, form \cap KeyAuth))
  /\ handleOauth2Login(form \cap TokenAuth)
  /\ granted' = granted \cup (form \cap KeyAuth)

logoutClick(form) ==
  /\ \/ form \in OpenForms /\ isPartiallyAuthorized(form)
     \/ form \in LeakedForms
  /\ load(url[api], remove(authz, api, form))
  /\ granted' = granted \ form
  /\ UNCHANGED <<tokens, OAuthSchemeKey>>

\* A token arrives: it is filed under the global, and the description loaded.
onOAuthComplete(n) ==
  /\ n \in tokens
  /\ tokens' = tokens \ {n}
  /\ load(url[api], add(authz, api, {OAuthSchemeKey}))
  /\ UNCHANGED <<OAuthSchemeKey, granted>>

\* It is refused, or not what was expected.
OAuthRefused(n) ==
  /\ n \in tokens
  /\ tokens' = tokens \ {n}
  /\ UNCHANGED <<clientVars, viewVars, OAuthSchemeKey, granted>>

-----------------------------------------------------------------------------
User ==
  \/ \E d \in Doc : start(d) \/ showCustom(d)
  \/ \E form \in SUBSET Auth : authorize(form) \/ logoutClick(form)
  \/ \E n \in TokenAuth : onOAuthComplete(n) \/ OAuthRefused(n)

Loading(c) ==
  \/ error(c) \/ response(c) \/ responseConverts(c) \/ Resolved(c)
  \/ \E a \in Api : Converted(c, a)

Next == User \/ \E c \in Client : Loading(c)

\* Every request ends, with an error if need be, and the resolver calls back.
Fairness == \A c \in Client : WF_vars(Loading(c))

Spec == Init /\ [][Next]_vars /\ Fairness

-----------------------------------------------------------------------------
(* Properties *)

\* The page is complete exactly when the last load has succeeded, and it is
\* that one's, although the answers of earlier loads arrive at any time and
\* render as well.
ShownIffBuilt ==
  /\ page.complete => page.of = api
  /\ page.complete <=> api # None /\ phase[api] = "built"

\* The keys in use are those the user has entered and not withdrawn, through
\* every load, overlapping ones included.
KeysAsEntered == api # None => authz[api] \cap KeyAuth = granted

\* What is handed back by a conversion is complete and final.
DeclarationsKept == convert!DeclarationsKept

WellFormed(d) ==
  \/ Shape[d] = "v2"
  \/ Shape[d] \in {"listing", "single"} /\ Lists[d] \subseteq HasBasePath

\* A load of a well-formed description comes to an end, however its requests
\* end and whatever is loaded meanwhile.
LoadsEnd ==
  \A c \in Client :
    phase[c] = "fetching" /\ WellFormed(url[c]) ~> phase[c] \in {"built", "failed"}

=============================================================================
