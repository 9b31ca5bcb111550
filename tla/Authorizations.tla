----------------------------- MODULE Authorizations -----------------------------
(***************************************************************************)
(* The authorizations of the console of webapp/swagger-ui.js: the buttons  *)
(* of the page and of an operation, the popups they open, the forms in     *)
(* them, and the flows of OAuth (lib/swagger-oauth.js, o2c.html).  Console *)
(* has the loads; here one is what clears the page, and a rendering some   *)
(* time later what makes it again.  The answer of an earlier load that     *)
(* arrives after that renders the page once more, and the button that the  *)
(* page had stays in the header: the router has forgotten it.              *)
(*                                                                         *)
(* A description is a record [defs, security].  defs is a function from    *)
(* names to definitions [type, flow, scopes, tokenName]; scopes are those  *)
(* with a description.  security is what the operation requires: a         *)
(* sequence of alternatives, each a sequence of [name, scopes].            *)
(***************************************************************************)
EXTENDS Naturals, Sequences, FiniteSets

CONSTANTS Descriptions,
          Inputs,      \* what a user may type
          Clients,     \* what a user may type as the id of a client
          MaxPopups,   \* bound on the popups open at once
          MaxLogins,   \* bound on the logins
          MaxLate,     \* bound on the earlier loads without an answer
          Forgotten,   \* buttons that the router has forgotten; a bound
          None

ASSUME NoneAssumption == \A d \in Descriptions : None \notin DOMAIN d.defs
ASSUME AlternativesAssumption ==
         \A d \in Descriptions : \A i \in DOMAIN d.security :
           Len(d.security[i]) \in Nat /\ DOMAIN d.security[i] = 1..Len(d.security[i])
ASSUME BoundAssumption == MaxLate \in Nat

VARIABLES desc,        \* the description
          shown,       \* is the page rendered?
          late,        \* earlier loads whose answers are still to come
          authz,       \* clientAuthorizations: name -> credential
          auths,       \* of each button: the objects its forms are made of
          content,     \* of each button: $authEl, the forms of its next popup
          popups,      \* those that are open: number -> [button, forms, typed]
          swaggerUiAuth, \* the global that all logins share
          logins,      \* logins under way
          made,        \* number of logins
          entered,     \* history: credentials as the user typed them
          overlapped,  \* history: was there ever more than one login at once?
          lost         \* history: was a token ever granted and not used?

pageVars == <<shown, late, auths, content, popups>>
historyVars == <<entered, overlapped, lost>>
loginVars == <<swaggerUiAuth, logins, made>>
vars == <<desc, pageVars, authz, loginVars, historyVars>>

\* The buttons of the page that is shown, and the forgotten ones, of which those
\* that exist have forms.
PageButtons == {"page", "operation"}
Buttons == PageButtons \cup Forgotten

ASSUME ForgottenAssumption == PageButtons \cap Forgotten = {}
Empty == ""

\* A key, a token, or a user name and a password.
Credential(value, username, password) ==
  [value |-> value, username |-> username, password |-> password]
Blank == Credential(Empty, Empty, Empty)

Put(f, x, y) == [z \in DOMAIN f \cup {x} |-> IF z = x THEN y ELSE f[z]]
Without(f, S) == [z \in DOMAIN f \ S |-> f[z]]

-----------------------------------------------------------------------------
(* securityDefinitions of a description of version 1: [type, scopes,        *)
(* implicit, code].  The only scope of a definition is dropped, and a flow  *)
(* of code gives way to an implicit one.                                    *)

securityDefinition(old) ==
  [type |-> old.type,
   flow |-> IF old.type # "oauth2" THEN None
            ELSE IF old.implicit THEN "implicit" ELSE "accessCode",
   scopes |-> IF Cardinality(old.scopes) > 1 THEN old.scopes ELSE {},
   tokenName |-> "access_token"]

IsValidDefinition(old) ==
  \/ old.type \in {"apiKey", "basicAuth"}
  \/ old.type = "oauth2" /\ (old.implicit \/ old.code)

securityDefinitions(olds) ==
  [n \in {m \in DOMAIN olds : IsValidDefinition(olds[m])} |-> securityDefinition(olds[n])]

-----------------------------------------------------------------------------
(* Forms *)

\* What is unknown is skipped; of each alternative, the oauth2 schemes are one
\* form, and all others are another, without those that would be empty.  A form
\* is known by its kind and its alternative, an entry by its place there.
parseSecurityDefinitions(defs, security) ==
  LET Of(isOauth2, i) == {k \in DOMAIN security[i] :
                            /\ security[i][k].name \in DOMAIN defs
                            /\ (defs[security[i][k].name].type = "oauth2") = isOauth2}
      Known(r) == [name |-> r.name, scopes |-> r.scopes \cap defs[r.name].scopes]
      forms == {f \in BOOLEAN \X DOMAIN security : Of(f[1], f[2]) # {}}
  IN  [f \in forms |-> [k \in Of(f[1], f[2]) |-> Known(security[f[2]][k])]]

\* On the page each definition is a form.
Requirements(b) ==
  IF b = "operation" THEN desc.security
  ELSE [n \in DOMAIN desc.defs |-> <<[name |-> n, scopes |-> desc.defs[n].scopes]>>]

Forms(b) == parseSecurityDefinitions(desc.defs, Requirements(b))

Def(r) == desc.defs[r.name]

\* An entry of a form: the object it is made of, and what has been filled in.
Entry(r, isLogout, credential, checked) ==
  [name |-> r.name, scopes |-> r.scopes, isLogout |-> isLogout,
   credential |-> credential, checked |-> checked,
   client |-> [type |-> "none", id |-> Empty]]

Fresh(r) == Entry(r, FALSE, Blank, {})

Data(b) == [f \in DOMAIN Forms(b) |-> [k \in DOMAIN Forms(b)[f] |-> Fresh(Forms(b)[f][k])]]

\* AuthsCollection.parse: what is authorized is written into the object, where
\* it stays.
parse(e, az) ==
  IF e.name \notin DOMAIN az THEN e
  ELSE Entry(e, TRUE, az[e.name], e.checked)

renderAuths(data, az) ==
  [f \in DOMAIN data |-> [k \in DOMAIN data[f] |-> parse(data[f][k], az)]]

\* Only the first of several forms for user and password is shown.
IsShown(form, k) ==
  /\ Def(form[k]).type \in {"apiKey", "basic", "oauth2"}
  /\ Def(form[k]).type = "basic" => \A j \in DOMAIN form : j < k => Def(form[j]).type # "basic"

ApiKeyValid(e) == e.credential.value # Empty

BasicValid(e) == e.credential.username # Empty /\ e.credential.password # Empty

\* Nobody asks for the id of a client that has to prove itself.
Oauth2Valid(e) ==
  /\ Def(e).flow = "password" => e.credential.username # Empty
  /\ e.scopes = {} \/ e.checked # {}

\* validate, which an entry of another type does not have: the click throws.
validate(e) ==
  \/ Def(e).type = "apiKey" /\ ApiKeyValid(e)
  \/ Def(e).type = "basic" /\ BasicValid(e)
  \/ Def(e).type = "oauth2" /\ Oauth2Valid(e)

isValid(form) == \A k \in DOMAIN form : validate(form[k])

Names(form) == {form[k].name : k \in DOMAIN form}

isAuthorized(form) == \A k \in DOMAIN form : form[k].isLogout
isPartiallyAuthorized(form) == \E k \in DOMAIN form : form[k].isLogout

\* The buttons below a form.
OffersAuthorize(form) == ~ isAuthorized(form)
OffersLogout(form) == isPartiallyAuthorized(form)

-----------------------------------------------------------------------------
(* Buttons and popups *)

\* Mutant: popups outlive the page.
Outlived(ps) == ps

\* mainView.clear() takes the popups along.
Cleared(ps) == <<>>

\* A load of which nothing has been heard becomes one of the earlier ones.
load ==
  /\ shown' = FALSE
  /\ popups' = Cleared(popups)
  /\ late' \in (IF shown THEN {late} ELSE {late, late + 1}) \cap 0..MaxLate
  /\ UNCHANGED <<auths, content>>

\* What an operation's button says: is one of its forms authorized, in part?
SaysLogout(b) == \E f \in DOMAIN content[b] : isPartiallyAuthorized(content[b][f])

\* The page's buttons, made of new objects; f is what the forgotten ones have.
NewButtons(f) ==
  [b \in Buttons |-> IF b \in PageButtons THEN renderAuths(Data(b), authz) ELSE f[b]]

\* The client is built and its page rendered.
Render ==
  /\ ~ shown
  /\ shown' = TRUE
  /\ popups' = Cleared(popups)
  /\ auths' = NewButtons(auths)
  /\ content' = NewButtons(content)
  /\ UNCHANGED <<desc, late, authz, loginVars, historyVars>>

Exists(b) == IF b \in PageButtons THEN shown ELSE DOMAIN content[b] # {}

Forget(f, n) == [f EXCEPT ![n] = f["page"]]

\* An earlier load succeeds after the last one, and its success() renders the
\* client of the last.  The page's button is still in the header, if there was
\* anything to authorize.
RenderAgain ==
  /\ shown
  /\ late > 0
  /\ late' = late - 1
  /\ popups' = Cleared(popups)
  /\ \E n \in Forgotten :
       /\ ~ Exists(n)
       /\ auths' = NewButtons(Forget(auths, n))
       /\ content' = NewButtons(Forget(content, n))
  /\ UNCHANGED <<desc, shown, authz, loginVars, historyVars>>

\* It succeeds before the last one is built, of which only the frame of a page is
\* shown, or it fails.
LateAnswer ==
  /\ late > 0
  /\ late' = late - 1
  /\ popups' \in {popups} \cup (IF shown THEN {} ELSE {Cleared(popups)})
  /\ UNCHANGED <<desc, shown, auths, content, authz, loginVars, historyVars>>

\* The popup gets the forms that were rendered before, and the button new ones.
\* A forgotten button is in the header, whatever page there is.  (Forgotten ones of
\* one client would share the objects of keys; each has its own here.)
authorizeBtnClick(b) ==
  /\ Exists(b)
  /\ LET free == (1..MaxPopups) \ DOMAIN popups IN
       /\ free # {}
       /\ popups' = Put(popups, CHOOSE p \in free : TRUE,
                        [button |-> b, forms |-> content[b], typed |-> Data(b)])
  /\ auths' = [auths EXCEPT ![b] = renderAuths(@, authz)]
  /\ content' = [content EXCEPT ![b] = auths'[b]]
  /\ UNCHANGED <<desc, shown, late, authz, loginVars, historyVars>>

cancelClick(p) ==
  /\ popups' = Without(popups, {p})
  /\ UNCHANGED <<desc, shown, late, authz, auths, content, loginVars, historyVars>>

\* Mutant: what is checked is written into the object that the next form is
\* made of.
SharedScopes(data, f, k, checked) == [data EXCEPT ![f][k].checked = checked]

\* Oauth2Model has a deep copy of the scopes.
ClonedScopes(data, f, k, checked) == data

\* What an entry may become by an input: apikey_auth and basic_auth have one only
\* for what is not authorized yet.
apikey_auth(e) == ~ e.isLogout
basic_auth(e) == ~ e.isLogout

apiKeyChange(e) == {[e EXCEPT !.credential.value = v] : v \in Inputs}

\* User and password.
inputChange(e) ==
  {[e EXCEPT !.credential.username = v] : v \in Inputs}
    \cup {[e EXCEPT !.credential.password = v] : v \in Inputs}

setUsername(e) == {[e EXCEPT !.credential.username = v] : v \in Inputs}
setPassword(e) == {[e EXCEPT !.credential.password = v] : v \in Inputs}

scopeChange(e) ==
  {[e EXCEPT !.checked = (@ \ {s}) \cup ({s} \ @)] : s \in e.scopes}

\* "basic" stands for "request-body", too: where the client is sent, not whether.
setClientAuthenticationType(e) ==
  {[e EXCEPT !.client.type = c] : c \in {"none", "basic"}}

\* The fields of the client, id and secret, are hidden for "none", and keep what is
\* in them; the id stands for both.
setClientId(e) ==
  IF e.client.type = "none" THEN {} ELSE {[e EXCEPT !.client.id = v] : v \in Clients}

\* The template of a scheme asks for more in some flows.
oauth2(e) ==
  scopeChange(e)
    \cup (IF Def(e).flow = "password" THEN setUsername(e) \cup setPassword(e) ELSE {})
    \cup (IF Def(e).flow \in {"password", "application"}
            THEN setClientAuthenticationType(e) \cup setClientId(e) ELSE {})

Changes(e) ==
  CASE Def(e).type = "apiKey" -> IF apikey_auth(e) THEN apiKeyChange(e) ELSE {}
    [] Def(e).type = "basic" -> IF basic_auth(e) THEN inputChange(e) ELSE {}
    [] Def(e).type = "oauth2" -> oauth2(e)
    [] OTHER -> {}

\* History: what has been typed once an entry becomes e.  The user sees boxes that
\* are not checked when the popup opens.
Typed(t, before, e) ==
  [t EXCEPT !.credential = e.credential,
            !.client = e.client,
            !.checked = (@ \ (before.checked \ e.checked)) \cup (e.checked \ before.checked)]

\* An input changes.
Change(p, f, k) ==
  LET form == popups[p].forms[f]
      b == popups[p].button
  IN  /\ IsShown(form, k)
      /\ \E e \in Changes(form[k]) :
           /\ popups' = [popups EXCEPT ![p].forms[f][k] = e,
                                       ![p].typed[f][k] = Typed(@, form[k], e)]
           /\ auths' = [auths EXCEPT ![b] = ClonedScopes(@, f, k, e.checked)]
      /\ UNCHANGED <<desc, shown, late, authz, content, loginVars, historyVars>>

-----------------------------------------------------------------------------
(* Authorizing *)

isOauth2(e) == Def(e).type = "oauth2"

\* The entry of a form with a name: names are the keys of an object.
Named(form, n) == CHOOSE k \in DOMAIN form : form[k].name = n

\* Mutant: what was authorized by other forms is forgotten.
AddedAnew(az, form) ==
  [n \in {form[k].name : k \in {j \in DOMAIN form : ~ isOauth2(form[j])}} |->
     form[Named(form, n)].credential]

\* authorize: keys and passwords.
Added(az, form) ==
  LET added == {form[k].name : k \in {j \in DOMAIN form : ~ isOauth2(form[j])}} IN
    [n \in DOMAIN az \cup added |->
       IF n \in added THEN form[Named(form, n)].credential ELSE az[n]]

\* Mutant: the token endpoint of an earlier login stays.
TokenUrlKept(shared, e) ==
  IF Def(e).flow = "accessCode" THEN [shared EXCEPT !.tokenUrl = e.name] ELSE shared

\* Only the flows with a window set or clear the token endpoint; it is named
\* for the scheme here.
TokenUrl(shared, e) ==
  CASE Def(e).flow = "implicit" -> [shared EXCEPT !.tokenUrl = None]
    [] Def(e).flow = "accessCode" -> [shared EXCEPT !.tokenUrl = e.name]
    [] OTHER -> shared

\* handleOauth2Login.
handleOauth2Login(shared, e) ==
  TokenUrl([shared EXCEPT !.OAuthSchemeKey = e.name, !.tokenName = Def(e).tokenName], e)

OpensWindow(e) == Def(e).flow \in {"implicit", "accessCode"}

LastOf(places) == CHOOSE k \in places : \A j \in places \ {k} : j < k

\* One scheme of a form after the other: what is left is of the last one, and the
\* token endpoint of the last one with a window.
LoggedIn(shared, form, schemes) ==
  LET windows == {k \in schemes : OpensWindow(form[k])}
      opened == IF windows = {} THEN shared ELSE TokenUrl(shared, form[LastOf(windows)])
  IN  IF schemes = {} THEN shared ELSE handleOauth2Login(opened, form[LastOf(schemes)])

\* accessTokenRequest, or the address of a window: what a server is asked for, and
\* with what.  Fields of the client that are hidden are not sent.
Request(e) ==
  [checked |-> e.checked,
   client |-> IF e.client.type = "none" THEN <<>> ELSE e.client,
   user |-> IF Def(e).flow # "password" THEN <<>>
            ELSE <<e.credential.username, e.credential.password>>]

\* A login: who it is for and what is asked for; history: what was typed.
Login(e, typed, id) ==
  [id |-> id, name |-> e.name, at |-> None,
   stage |-> IF OpensWindow(e) THEN "window" ELSE "request",
   asked |-> Request(e), typed |-> Request(typed)]

\* authorizeClick of a valid form: what is asked of servers, and another load.
authorizeClick(p, f) ==
  LET form == popups[p].forms[f]
      typed == popups[p].typed[f]
      schemes == {k \in DOMAIN form : isOauth2(form[k])}
      new == {Login(form[k], typed[k], <<made, k>>) : k \in schemes}
      written == {form[k].name : k \in {j \in DOMAIN form \ schemes : ~ form[j].isLogout}}
  IN  /\ OffersAuthorize(form)
      /\ isValid(form)
      /\ made + Cardinality(schemes) <= MaxLogins
      /\ authz' = Added(authz, form)
      /\ swaggerUiAuth' = LoggedIn(swaggerUiAuth, form, schemes)
      /\ logins' = logins \cup new
      /\ made' = made + Cardinality(schemes)
      /\ load
      /\ entered' = [n \in DOMAIN entered \cup written |->
                       IF n \in written THEN typed[Named(form, n)].credential ELSE entered[n]]
      /\ overlapped' = (overlapped \/ \E l, m \in logins' : l # m)
      /\ UNCHANGED <<desc, lost>>

logoutClick(p, f) ==
  LET form == popups[p].forms[f]
      names == Names(form)
  IN  /\ OffersLogout(form)
      /\ authz' = Without(authz, names)
      /\ entered' = Without(entered, names)
      /\ load
      /\ UNCHANGED <<desc, loginVars, overlapped, lost>>

-----------------------------------------------------------------------------
(* Logins *)

Ends(l) == logins' = logins \ {l}

\* onOAuthComplete: the token of the scheme is found if it has the name that was
\* asked for last, and is filed under the scheme that was.
onOAuthComplete(l) ==
  IF swaggerUiAuth.tokenName = Def(l).tokenName
    THEN /\ authz' = Put(authz, swaggerUiAuth.OAuthSchemeKey,
                         Credential("token of " \o l.name, Empty, Empty))
         /\ load
         /\ UNCHANGED lost
    ELSE lost' = TRUE /\ UNCHANGED <<authz, pageVars>>

\* o2c.html, in the window: with a token endpoint, whatever came is taken for a
\* code to be exchanged there; without, for a token.
processOAuthCode(l) ==
  /\ logins' = (logins \ {l}) \cup {[l EXCEPT !.stage = "exchange",
                                              !.at = swaggerUiAuth.tokenUrl]}
  /\ UNCHANGED <<authz, pageVars, lost>>

Granted(l) ==
  /\ l.stage = "window"
  /\ IF swaggerUiAuth.tokenUrl # None THEN processOAuthCode(l)
     ELSE /\ Ends(l)
          /\ IF Def(l).flow = "implicit" THEN onOAuthComplete(l)
             ELSE lost' = TRUE /\ UNCHANGED <<authz, pageVars>>
  /\ UNCHANGED <<desc, swaggerUiAuth, made, entered, overlapped>>

\* The token endpoint answers: it knows its own codes, and no tokens.
Exchanged(l) ==
  /\ l.stage = "exchange"
  /\ Ends(l)
  /\ IF l.at = l.name /\ Def(l).flow = "accessCode" THEN onOAuthComplete(l)
     ELSE lost' = TRUE /\ UNCHANGED <<authz, pageVars>>
  /\ UNCHANGED <<desc, swaggerUiAuth, made, entered, overlapped>>

\* accessTokenRequest succeeds.
Answered(l) ==
  /\ l.stage = "request"
  /\ Ends(l)
  /\ onOAuthComplete(l)
  /\ UNCHANGED <<desc, swaggerUiAuth, made, entered, overlapped>>

\* Refused, or the window is closed.
Refused(l) ==
  /\ Ends(l)
  /\ UNCHANGED <<desc, pageVars, authz, swaggerUiAuth, made, historyVars>>

-----------------------------------------------------------------------------
Init ==
  /\ desc \in Descriptions
  /\ shown = FALSE
  /\ late = 0
  /\ authz = <<>>
  /\ auths = [b \in Buttons |-> <<>>]
  /\ content = [b \in Buttons |-> <<>>]
  /\ popups = <<>>
  /\ swaggerUiAuth = [OAuthSchemeKey |-> None, tokenName |-> None, tokenUrl |-> None]
  /\ logins = {} /\ made = 0
  /\ entered = <<>> /\ overlapped = FALSE /\ lost = FALSE

Next ==
  \/ Render
  \/ RenderAgain
  \/ LateAnswer
  \/ \E b \in Buttons : authorizeBtnClick(b)
  \/ \E p \in DOMAIN popups :
       \/ cancelClick(p)
       \/ \E f \in DOMAIN popups[p].forms :
            \/ \E k \in DOMAIN popups[p].forms[f] : Change(p, f, k)
            \/ authorizeClick(p, f) \/ logoutClick(p, f)
  \/ \E l \in logins : Granted(l) \/ Exchanged(l) \/ Answered(l) \/ Refused(l)

Spec == Init /\ [][Next]_vars

-----------------------------------------------------------------------------
(* Properties *)

Tells(forms) ==
  \A f \in DOMAIN forms : \A k \in DOMAIN forms[f] :
    forms[f][k].isLogout <=> forms[f][k].name \in DOMAIN authz

\* A form of the page that is shown says of each of its entries whether it is
\* authorized, and a button of that page whether anything of its forms is, although
\* logins end while popups are open and pages under way, and late answers render
\* the page again.  The forms of a forgotten button tell what once was so.
FormsTell ==
  shown =>
    /\ \A p \in DOMAIN popups : popups[p].button \in PageButtons => Tells(popups[p].forms)
    /\ \A b \in PageButtons :
         /\ Tells(content[b])
         /\ SaysLogout(b) <=> \E f \in DOMAIN Forms(b) : Names(Forms(b)[f]) \cap DOMAIN authz # {}

\* Keys and passwords in use are those that were typed last, whichever popup
\* they were typed in, and whatever else the form held when it was sent again.
CredentialsAsTyped ==
  LET names == {n \in DOMAIN desc.defs : desc.defs[n].type # "oauth2"} IN
    [n \in DOMAIN authz \cap names |-> authz[n]] = entered

\* A server is asked for what the user has checked and typed in that popup, and
\* for nothing that was checked in one before.
AskedAsTyped == \A l \in logins : l.asked = l.typed

\* Unless two logins were ever under way at once, each token that is granted
\* is used, and for the scheme that it was granted for.
TokensFiled ==
  ~ overlapped =>
    /\ ~ lost
    /\ \A n \in DOMAIN authz : desc.defs[n].type = "oauth2" => authz[n].value = "token of " \o n

=============================================================================
