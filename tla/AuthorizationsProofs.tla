-------------------------- MODULE AuthorizationsProofs --------------------------
(***************************************************************************)
(* Authorizations for any descriptions and inputs, and any number of       *)
(* popups and logins: what forms and buttons say, that credentials and     *)
(* requests are as the user typed them, and where tokens are filed.        *)
(*                                                                         *)
(* Most of what follows is said of values, given the definitions of the    *)
(* description (defs), the requirements of the forms of a button (reqs) or *)
(* of all (forms), and what is authorized (az), so that it can be used of  *)
(* the state before a step and of the one after it.                        *)
(***************************************************************************)
EXTENDS Authorizations, WellFoundedInduction, TLAPS

EntryFields == {"name", "scopes", "isLogout", "credential", "checked", "client"}
PopupFields == {"button", "forms", "typed"}
LoginFields == {"id", "name", "at", "stage", "asked", "typed"}
SharedFields == {"OAuthSchemeKey", "tokenName", "tokenUrl"}

AllForms == [b \in Buttons |-> Forms(b)]

\* Data, and what is rendered of it.
FreshForms(reqs) == [f \in DOMAIN reqs |-> [k \in DOMAIN reqs[f] |-> Fresh(reqs[f][k])]]
Rendered(reqs, az) == renderAuths(FreshForms(reqs), az)

\* An entry e of an open popup, made for r, and what t has been typed into it: they
\* differ only in what the user cannot change.
EntryOK(defs, r, e, t) ==
  /\ DOMAIN e = EntryFields /\ DOMAIN t = EntryFields
  /\ e.name = r.name /\ t.name = r.name
  /\ e.checked = t.checked /\ e.client = t.client
  /\ defs[r.name].type = "oauth2" => /\ e.credential.username = t.credential.username
                                     /\ e.credential.password = t.credential.password
  /\ defs[r.name].type # "oauth2" /\ ~ e.isLogout => e.credential = t.credential

\* What the entry says is so now, and not only when the button's forms were made.
Current(defs, az, e) ==
  /\ e.isLogout <=> e.name \in DOMAIN az
  /\ defs[e.name].type # "oauth2" /\ e.isLogout => e.credential = az[e.name]

FormOK(defs, az, b, req, form, typed) ==
  /\ DOMAIN form = DOMAIN req /\ DOMAIN typed = DOMAIN req
  /\ \A k \in DOMAIN req : /\ EntryOK(defs, req[k], form[k], typed[k])
                           /\ b \in PageButtons => Current(defs, az, form[k])

PopupOK(defs, forms, az, q) ==
  /\ DOMAIN q = PopupFields
  /\ q.button \in Buttons
  /\ DOMAIN q.forms = DOMAIN forms[q.button]
  /\ DOMAIN q.typed = DOMAIN forms[q.button]
  /\ \A f \in DOMAIN forms[q.button] :
       FormOK(defs, az, q.button, forms[q.button][f], q.forms[f], q.typed[f])

\* Forms that nobody has typed into, made for reqs at some time.
OnceMade(defs, reqs, forms) ==
  /\ DOMAIN forms = DOMAIN reqs
  /\ \A f \in DOMAIN reqs :
       /\ DOMAIN forms[f] = DOMAIN reqs[f]
       /\ \A k \in DOMAIN reqs[f] : EntryOK(defs, reqs[f][k], forms[f][k], Fresh(reqs[f][k]))

\* The forms of a forgotten button, if it exists, are those of some page.
ForgottenOK(defs, forms, f, n) == DOMAIN f[n] = {} \/ OnceMade(defs, forms[n], f[n])

\* The objects of a page that is shown are as they were when it was rendered.
PageInv ==
  /\ shown \in BOOLEAN
  /\ DOMAIN auths = Buttons /\ DOMAIN content = Buttons
  /\ shown => \A b \in PageButtons : /\ auths[b] = Rendered(AllForms[b], authz)
                                     /\ content[b] = Rendered(AllForms[b], authz)
  /\ \A n \in Forgotten : /\ DOMAIN auths[n] = DOMAIN content[n]
                          /\ ForgottenOK(desc.defs, AllForms, auths, n)
                          /\ ForgottenOK(desc.defs, AllForms, content, n)
  /\ \A p \in DOMAIN popups : PopupOK(desc.defs, AllForms, authz, popups[p])

\* A token is no user's name or password.
AuthzOK(defs, az) ==
  \A n \in DOMAIN az : defs[n].type = "oauth2" =>
    az[n].username = Empty /\ az[n].password = Empty

\* The scheme that was asked for last is one of the description's.
LoginInv ==
  /\ DOMAIN swaggerUiAuth = SharedFields
  /\ \A l \in logins : DOMAIN l = LoginFields
  /\ logins # {} => /\ swaggerUiAuth.OAuthSchemeKey \in DOMAIN desc.defs
                    /\ desc.defs[swaggerUiAuth.OAuthSchemeKey].type = "oauth2"

\* What logins share is of this one.
Shares(defs, shared, l) ==
  /\ l.name \in DOMAIN defs
  /\ shared.OAuthSchemeKey = l.name
  /\ shared.tokenName = defs[l.name].tokenName
  /\ l.stage = "window" =>
       \/ defs[l.name].flow = "implicit" /\ shared.tokenUrl = None
       \/ defs[l.name].flow = "accessCode" /\ shared.tokenUrl = l.name
  /\ l.stage = "exchange" => l.at = l.name /\ defs[l.name].flow = "accessCode"

SoleInv ==
  ~ overlapped =>
    /\ \A l, m \in logins : l = m
    /\ \A l \in logins : Shares(desc.defs, swaggerUiAuth, l)

IInv ==
  /\ desc \in Descriptions
  /\ PageInv /\ AuthzOK(desc.defs, authz) /\ LoginInv /\ SoleInv
  /\ AskedAsTyped /\ CredentialsAsTyped /\ TokensFiled

-----------------------------------------------------------------------------
(* Forms and what is rendered of them *)

\* A description does not change, and so the forms do not.
LEMMA SameForms == ASSUME desc' = desc PROVE AllForms' = AllForms
  BY DEF AllForms, Forms, Requirements

\* What is not defined is in no form.
LEMMA FormsAreDefined ==
  ASSUME NEW b \in Buttons, NEW f \in DOMAIN AllForms[b], NEW k \in DOMAIN AllForms[b][f]
  PROVE  AllForms[b][f][k].name \in DOMAIN desc.defs
<1>1. AllForms[b] = parseSecurityDefinitions(desc.defs, Requirements(b))
  BY DEF AllForms, Forms
<1>2. ASSUME NEW defs, NEW security, NEW g \in DOMAIN parseSecurityDefinitions(defs, security),
             NEW j \in DOMAIN parseSecurityDefinitions(defs, security)[g]
      PROVE  parseSecurityDefinitions(defs, security)[g][j].name \in DOMAIN defs
  BY <1>2 DEF parseSecurityDefinitions
<1>3. QED
  BY <1>1, <1>2

\* The objects of a button before anything is rendered.
LEMMA DataIsFresh == ASSUME NEW b \in Buttons PROVE Data(b) = FreshForms(AllForms[b])
  BY DEF Data, FreshForms, AllForms

\* To render again what was rendered for the same authorizations changes nothing.
LEMMA RenderedTwice ==
  ASSUME NEW reqs, NEW az
  PROVE  renderAuths(Rendered(reqs, az), az) = Rendered(reqs, az)
<1>1. ASSUME NEW r PROVE parse(parse(Fresh(r), az), az) = parse(Fresh(r), az)
  BY DEF parse, Fresh, Entry
<1>2. QED
  BY <1>1 DEF renderAuths, Rendered, FreshForms

\* A new form, and nothing typed.
LEMMA FreshIsOK ==
  ASSUME NEW defs, NEW az, AuthzOK(defs, az), NEW r
  PROVE  /\ EntryOK(defs, r, parse(Fresh(r), az), Fresh(r))
         /\ Current(defs, az, parse(Fresh(r), az))
  BY DEF EntryOK, Current, AuthzOK, parse, Fresh, Entry, EntryFields, Blank, Credential, Empty

\* One that is older, and rendered again.
LEMMA ParsedIsOK ==
  ASSUME NEW defs, NEW az, AuthzOK(defs, az), NEW r, NEW e, EntryOK(defs, r, e, Fresh(r))
  PROVE  EntryOK(defs, r, parse(e, az), Fresh(r))
  BY DEF EntryOK, AuthzOK, parse, Fresh, Entry, EntryFields, Blank, Credential, Empty

LEMMA RenderedIsMade ==
  ASSUME NEW defs, NEW az, AuthzOK(defs, az), NEW reqs
  PROVE  OnceMade(defs, reqs, Rendered(reqs, az))
  BY FreshIsOK DEF OnceMade, Rendered, renderAuths, FreshForms

LEMMA RenderedAgainIsMade ==
  ASSUME NEW defs, NEW az, AuthzOK(defs, az), NEW reqs, NEW forms, OnceMade(defs, reqs, forms)
  PROVE  OnceMade(defs, reqs, renderAuths(forms, az))
<1>1. ASSUME NEW f \in DOMAIN reqs
      PROVE  /\ DOMAIN renderAuths(forms, az)[f] = DOMAIN reqs[f]
             /\ \A k \in DOMAIN reqs[f] :
                  renderAuths(forms, az)[f][k] = parse(forms[f][k], az)
  BY DEF OnceMade, renderAuths
<1>2. ASSUME NEW f \in DOMAIN reqs, NEW k \in DOMAIN reqs[f]
      PROVE  EntryOK(defs, reqs[f][k], parse(forms[f][k], az), Fresh(reqs[f][k]))
  BY ParsedIsOK DEF OnceMade
<1>3. QED
  BY <1>1, <1>2 DEF OnceMade, renderAuths

\* A popup that opens.
LEMMA FreshPopup ==
  ASSUME NEW defs, NEW forms, NEW az, NEW b \in Buttons, NEW data,
         OnceMade(defs, forms[b], data),
         b \in PageButtons => AuthzOK(defs, az) /\ data = Rendered(forms[b], az)
  PROVE  PopupOK(defs, forms, az, [button |-> b, forms |-> data,
                                   typed |-> FreshForms(forms[b])])
<1>1. ASSUME NEW f \in DOMAIN forms[b]
      PROVE  FormOK(defs, az, b, forms[b][f], data[f], FreshForms(forms[b])[f])
  <2>1. ASSUME b \in PageButtons, NEW k \in DOMAIN forms[b][f]
        PROVE  Current(defs, az, data[f][k])
    <3>1. data = renderAuths(FreshForms(forms[b]), az)
      BY <2>1 DEF Rendered
    <3>2. data[f][k] = parse(Fresh(forms[b][f][k]), az)
      BY <1>1, <2>1, <3>1 DEF renderAuths, FreshForms
    <3>3. QED
      BY <2>1, <3>2, FreshIsOK
  <2>2. /\ DOMAIN FreshForms(forms[b])[f] = DOMAIN forms[b][f]
        /\ \A k \in DOMAIN forms[b][f] : FreshForms(forms[b])[f][k] = Fresh(forms[b][f][k])
    BY <1>1 DEF FreshForms
  <2>3. QED
    BY <1>1, <2>1, <2>2 DEF FormOK, OnceMade
<1>2. DOMAIN FreshForms(forms[b]) = DOMAIN forms[b]
  BY DEF FreshForms
<1>3. QED
  BY <1>1, <1>2 DEF PopupOK, PopupFields, OnceMade

-----------------------------------------------------------------------------
(* What an input does *)

\* What the user may change has been typed, and nothing else changes.
LEMMA ChangeKeepsEntry ==
  ASSUME NEW az, NEW r, NEW before, NEW t, EntryOK(desc.defs, r, before, t),
         NEW e \in Changes(before)
  PROVE  /\ EntryOK(desc.defs, r, e, Typed(t, before, e))
         /\ Current(desc.defs, az, before) => Current(desc.defs, az, e)
<1>1. /\ DOMAIN e = EntryFields /\ e.name = before.name
      /\ e.isLogout <=> before.isLogout
      /\ desc.defs[r.name].type # "oauth2" => ~ before.isLogout
  BY DEF Changes, EntryOK, EntryFields, Def, apikey_auth, basic_auth, apiKeyChange, inputChange,
         oauth2, scopeChange, setUsername, setPassword, setClientAuthenticationType, setClientId
<1>2. DOMAIN Typed(t, before, e) = EntryFields /\ Typed(t, before, e).name = t.name
  BY DEF Typed, EntryOK, EntryFields
<1>3. /\ Typed(t, before, e).credential = e.credential
      /\ Typed(t, before, e).client = e.client
      /\ Typed(t, before, e).checked
           = (t.checked \ (before.checked \ e.checked)) \cup (e.checked \ before.checked)
  BY DEF Typed, EntryOK, EntryFields
<1>4. Typed(t, before, e).checked = e.checked
  BY <1>3 DEF EntryOK
<1>5. EntryOK(desc.defs, r, e, Typed(t, before, e))
  BY <1>1, <1>2, <1>3, <1>4 DEF EntryOK
<1>6. Current(desc.defs, az, before) => Current(desc.defs, az, e)
  BY <1>1 DEF Current, EntryOK
<1>7. QED
  BY <1>5, <1>6

\* One entry of a popup is replaced, and so is what was typed into it.
LEMMA ReplacedEntry ==
  ASSUME NEW defs, NEW forms, NEW az, NEW q, PopupOK(defs, forms, az, q),
         NEW f \in DOMAIN q.forms, NEW k \in DOMAIN q.forms[f], NEW e, NEW t,
         EntryOK(defs, forms[q.button][f][k], e, t),
         q.button \in PageButtons => Current(defs, az, e)
  PROVE  PopupOK(defs, forms, az, [q EXCEPT !.forms[f][k] = e, !.typed[f][k] = t])
<1> DEFINE n == [q EXCEPT !.forms[f][k] = e, !.typed[f][k] = t]
<1>1. /\ DOMAIN n = PopupFields /\ n.button = q.button
      /\ n.forms = [q.forms EXCEPT ![f][k] = e]
      /\ n.typed = [q.typed EXCEPT ![f][k] = t]
  BY DEF PopupOK, PopupFields
<1>2. ASSUME NEW g \in DOMAIN forms[q.button]
      PROVE  FormOK(defs, az, q.button, forms[q.button][g], n.forms[g], n.typed[g])
  BY <1>1, <1>2 DEF PopupOK, FormOK
<1>3. QED
  BY <1>1, <1>2 DEF PopupOK

-----------------------------------------------------------------------------
(* The page, its buttons and its popups *)

\* New objects for the page, and old ones, of some page, for the forgotten buttons.
LEMMA NewPage ==
  ASSUME IInv, UNCHANGED <<desc, authz>>, shown', DOMAIN popups' = {},
         NEW f, auths' = NewButtons(f), NEW g, content' = NewButtons(g),
         \A n \in Forgotten : /\ DOMAIN f[n] = DOMAIN g[n]
                              /\ ForgottenOK(desc.defs, AllForms, f, n)
                              /\ ForgottenOK(desc.defs, AllForms, g, n),
         shown' \in BOOLEAN
  PROVE  PageInv'
<1>1. AllForms' = AllForms
  BY SameForms
<1>2. ASSUME NEW h
      PROVE  /\ DOMAIN NewButtons(h) = Buttons
             /\ \A b \in PageButtons : NewButtons(h)[b] = Rendered(AllForms[b], authz)
             /\ \A n \in Forgotten : NewButtons(h)[n] = h[n]
  <2>1. \A b \in PageButtons : b \in Buttons
    BY DEF Buttons
  <2>2. \A n \in Forgotten : n \in Buttons /\ n \notin PageButtons
    BY ForgottenAssumption DEF Buttons
  <2>3. \A b \in PageButtons : Data(b) = FreshForms(AllForms[b])
    BY <2>1, DataIsFresh
  <2>4. QED
    BY <2>1, <2>2, <2>3 DEF NewButtons, Rendered
<1>3. \A n \in Forgotten : /\ auths'[n] = f[n] /\ content'[n] = g[n]
  BY <1>2
<1>4. QED
  BY <1>1, <1>2, <1>3 DEF PageInv, ForgottenOK

LEMMA RenderKeepsPage == ASSUME IInv, Render PROVE PageInv'
<1>1. /\ shown' = TRUE /\ DOMAIN popups' = {} /\ UNCHANGED <<desc, authz>>
      /\ auths' = NewButtons(auths) /\ content' = NewButtons(content)
  BY DEF Render, Cleared
<1>2. \A n \in Forgotten : /\ DOMAIN auths[n] = DOMAIN content[n]
                           /\ ForgottenOK(desc.defs, AllForms, auths, n)
                           /\ ForgottenOK(desc.defs, AllForms, content, n)
  BY DEF IInv, PageInv
<1>3. QED
  BY <1>1, <1>2, NewPage

\* The button that the router forgets is that of a page.
LEMMA RenderAgainKeepsPage == ASSUME IInv, RenderAgain PROVE PageInv'
<1>1. /\ shown /\ shown' = shown /\ DOMAIN popups' = {} /\ UNCHANGED <<desc, authz>>
  BY DEF RenderAgain, Cleared
<1>2. PICK n \in Forgotten : /\ auths' = NewButtons(Forget(auths, n))
                             /\ content' = NewButtons(Forget(content, n))
  BY DEF RenderAgain
<1>3. /\ auths["page"] = Rendered(AllForms["page"], authz)
      /\ content["page"] = Rendered(AllForms["page"], authz)
  BY <1>1 DEF IInv, PageInv, PageButtons
<1>4. n \in Buttons /\ "page" \in Buttons /\ n # "operation"
  BY ForgottenAssumption DEF Buttons, PageButtons
<1>5. AllForms[n] = AllForms["page"]
  BY <1>4 DEF AllForms, Forms, Requirements
<1>6. OnceMade(desc.defs, AllForms[n], Rendered(AllForms["page"], authz))
  BY <1>5, RenderedIsMade DEF IInv
<1>7. /\ DOMAIN auths = Buttons /\ DOMAIN content = Buttons
      /\ \A m \in Forgotten : /\ DOMAIN auths[m] = DOMAIN content[m]
                              /\ ForgottenOK(desc.defs, AllForms, auths, m)
                              /\ ForgottenOK(desc.defs, AllForms, content, m)
  BY DEF IInv, PageInv
<1>8. ASSUME NEW f, DOMAIN f = Buttons
      PROVE  /\ Forget(f, n)[n] = f["page"]
             /\ \A m \in Buttons \ {n} : Forget(f, n)[m] = f[m]
  BY <1>4, <1>8 DEF Forget
<1>9. ASSUME NEW m \in Forgotten
      PROVE  /\ DOMAIN Forget(auths, n)[m] = DOMAIN Forget(content, n)[m]
             /\ ForgottenOK(desc.defs, AllForms, Forget(auths, n), m)
             /\ ForgottenOK(desc.defs, AllForms, Forget(content, n), m)
  <2>1. CASE m = n
    BY <1>3, <1>6, <1>7, <1>8, <2>1 DEF ForgottenOK
  <2>2. CASE m # n
    <3>1. m \in Buttons \ {n}
      BY <2>2 DEF Buttons
    <3>2. QED
      BY <1>7, <1>8, <3>1 DEF ForgottenOK
  <2>3. QED
    BY <2>1, <2>2
<1>10. QED
  BY <1>1, <1>2, <1>9, NewPage DEF IInv, PageInv

LEMMA LateAnswerKeepsPage == ASSUME IInv, LateAnswer PROVE PageInv'
<1>1. UNCHANGED <<desc, shown, authz, auths, content>> /\ AllForms' = AllForms
  BY SameForms DEF LateAnswer
<1>2. popups' = popups \/ DOMAIN popups' = {}
  BY DEF LateAnswer, Cleared
<1>3. QED
  BY <1>1, <1>2 DEF PageInv, IInv, ForgottenOK

\* A button that is there has forms that were once made, if they are not those of now.
LEMMA ButtonsForms ==
  ASSUME IInv, NEW b \in Buttons, Exists(b)
  PROVE  /\ OnceMade(desc.defs, AllForms[b], content[b])
         /\ OnceMade(desc.defs, AllForms[b], auths[b])
         /\ b \in PageButtons => /\ content[b] = Rendered(AllForms[b], authz)
                                 /\ auths[b] = Rendered(AllForms[b], authz)
<1>1. CASE b \in PageButtons
  BY <1>1, RenderedIsMade DEF Exists, IInv, PageInv
<1>2. CASE b \notin PageButtons
  <2>1. b \in Forgotten /\ DOMAIN content[b] # {}
    BY <1>2 DEF Buttons, Exists
  <2>2. QED
    BY <1>2, <2>1 DEF IInv, PageInv, ForgottenOK
<1>3. QED
  BY <1>1, <1>2

LEMMA ButtonKeepsPage == ASSUME IInv, NEW b \in Buttons, authorizeBtnClick(b) PROVE PageInv'
<1> DEFINE new == [button |-> b, forms |-> content[b], typed |-> Data(b)]
           again == renderAuths(auths[b], authz)
<1>1. /\ shown' = shown /\ Exists(b) /\ authz' = authz /\ desc' = desc /\ AllForms' = AllForms
      /\ auths' = [auths EXCEPT ![b] = again]
      /\ content' = [content EXCEPT ![b] = auths'[b]]
      /\ DOMAIN auths = Buttons /\ DOMAIN content = Buttons
  BY SameForms DEF authorizeBtnClick, IInv, PageInv
<1>2. PICK p : popups' = Put(popups, p, new)
  BY DEF authorizeBtnClick
<1>3. /\ DOMAIN auths' = Buttons /\ DOMAIN content' = Buttons
      /\ auths'[b] = again /\ content'[b] = again
      /\ \A c \in Buttons \ {b} : auths'[c] = auths[c] /\ content'[c] = content[c]
  BY <1>1
<1>4. /\ OnceMade(desc.defs, AllForms[b], again)
      /\ b \in PageButtons => again = Rendered(AllForms[b], authz)
  BY <1>1, ButtonsForms, RenderedAgainIsMade, RenderedTwice DEF IInv
<1>5. PopupOK(desc.defs, AllForms, authz, new)
  <2>1. new.typed = FreshForms(AllForms[b])
    BY DataIsFresh
  <2>2. QED
    BY <1>1, <2>1, ButtonsForms, FreshPopup DEF IInv
<1>6. \A r \in DOMAIN popups' : PopupOK(desc.defs, AllForms, authz, popups'[r])
  BY <1>2, <1>5 DEF IInv, PageInv, Put
<1>7. ASSUME shown, NEW c \in PageButtons
      PROVE  /\ auths'[c] = Rendered(AllForms[c], authz)
             /\ content'[c] = Rendered(AllForms[c], authz)
  <2>1. c \in Buttons
    BY DEF Buttons
  <2>2. QED
    BY <1>3, <1>4, <1>7, <2>1 DEF IInv, PageInv
<1>8. ASSUME NEW n \in Forgotten
      PROVE  /\ DOMAIN auths'[n] = DOMAIN content'[n]
             /\ ForgottenOK(desc.defs, AllForms, auths', n)
             /\ ForgottenOK(desc.defs, AllForms, content', n)
  <2>1. n \in Buttons
    BY DEF Buttons
  <2>2. QED
    BY <1>3, <1>4, <2>1 DEF IInv, PageInv, ForgottenOK
<1>9. QED
  BY <1>1, <1>3, <1>6, <1>7, <1>8 DEF PageInv, IInv, ForgottenOK

LEMMA CancelKeepsPage ==
  ASSUME IInv, NEW p \in DOMAIN popups, cancelClick(p) PROVE PageInv'
<1>1. UNCHANGED <<desc, shown, authz, auths, content>> /\ AllForms' = AllForms
  BY SameForms DEF cancelClick
<1>2. \A r \in DOMAIN popups' : r \in DOMAIN popups /\ popups'[r] = popups[r]
  BY DEF cancelClick, Without
<1>3. QED
  BY <1>1, <1>2 DEF PageInv, IInv, ForgottenOK

LEMMA ChangeKeepsPage ==
  ASSUME IInv, NEW p \in DOMAIN popups, NEW f \in DOMAIN popups[p].forms,
         NEW k \in DOMAIN popups[p].forms[f], Change(p, f, k)
  PROVE  PageInv'
<1> DEFINE before == popups[p].forms[f][k]
           t == popups[p].typed[f][k]
<1>1. UNCHANGED <<desc, shown, authz, content>> /\ AllForms' = AllForms
  BY SameForms DEF Change
<1>2. PICK e \in Changes(before) :
        /\ popups' = [popups EXCEPT ![p].forms[f][k] = e,
                                    ![p].typed[f][k] = Typed(@, before, e)]
        /\ auths' = [auths EXCEPT ![popups[p].button] = ClonedScopes(@, f, k, e.checked)]
  BY DEF Change
<1>3. PopupOK(desc.defs, AllForms, authz, popups[p])
  BY DEF IInv, PageInv
<1>4. DOMAIN popups' = DOMAIN popups /\ \A r \in DOMAIN popups \ {p} : popups'[r] = popups[r]
  BY <1>2
<1>5. popups'[p] = [popups[p] EXCEPT !.forms[f][k] = e, !.typed[f][k] = Typed(t, before, e)]
  BY <1>2, <1>3 DEF PopupOK, PopupFields
<1>6. /\ EntryOK(desc.defs, AllForms[popups[p].button][f][k], e, Typed(t, before, e))
      /\ popups[p].button \in PageButtons => Current(desc.defs, authz, e)
  <2>1. /\ EntryOK(desc.defs, AllForms[popups[p].button][f][k], before, t)
        /\ popups[p].button \in PageButtons => Current(desc.defs, authz, before)
    BY <1>3 DEF PopupOK, FormOK
  <2>2. QED
    BY <2>1, ChangeKeepsEntry
<1>7. PopupOK(desc.defs, AllForms, authz, popups'[p])
  <2>1. PopupOK(desc.defs, AllForms, authz,
                [popups[p] EXCEPT !.forms[f][k] = e, !.typed[f][k] = Typed(t, before, e)])
    BY <1>3, <1>6, ReplacedEntry
  <2>2. QED
    BY <1>5, <2>1
<1>8. DOMAIN auths' = DOMAIN auths /\ \A b \in DOMAIN auths : auths'[b] = auths[b]
  BY <1>2 DEF ClonedScopes
<1>9. \A r \in DOMAIN popups' : PopupOK(desc.defs, AllForms, authz, popups'[r])
  BY <1>4, <1>7 DEF PageInv, IInv
<1>10. \A b \in Buttons : auths'[b] = auths[b]
  BY <1>8 DEF PageInv, IInv
<1>11. QED
  BY <1>1, <1>8, <1>9, <1>10 DEF PageInv, IInv, ForgottenOK, Buttons

\* A page that is not shown.
LEMMA LoadKeepsPage == ASSUME IInv, load, desc' = desc PROVE PageInv'
<1>1. shown' = FALSE /\ DOMAIN popups' = {} /\ auths' = auths /\ content' = content
  BY DEF load, Cleared
<1>2. AllForms' = AllForms
  BY SameForms
<1>3. QED
  BY <1>1, <1>2 DEF PageInv, IInv, ForgottenOK

-----------------------------------------------------------------------------
(* The last of some entries *)

\* Some places of a sequence have a last one.
LEMMA SomeAreLast ==
  ASSUME NEW n \in Nat, NEW S \in SUBSET (1..n), S # {}
  PROVE  LastOf(S) \in S
<1> DEFINE T == {n - k : k \in S}
<1>1. T \subseteq Nat /\ T # {}
  <2>1. \A k \in S : n - k \in Nat
    <3>1. \A k \in 1..n : n - k \in Nat
      OBVIOUS
    <3>2. QED
      BY <3>1
  <2>2. QED
    BY <2>1
<1>2. PICK x \in T : \A y \in T : ~ (<<y, x>> \in OpToRel(<, Nat))
  BY <1>1, NatLessThanWellFounded, WFMin
<1>3. \A y \in T : ~ (y < x)
  BY <1>1, <1>2 DEF OpToRel
<1>4. PICK k \in S : x = n - k
  BY <1>2
<1>5. \A j \in S : n - j \in T
  OBVIOUS
<1>6. \A j \in S \ {k} : j < k
  <2>1. SUFFICES ASSUME NEW j \in S, j # k PROVE j < k
    OBVIOUS
  <2>2. ~ (n - j < n - k)
    BY <1>3, <1>4, <1>5, <2>1
  <2>3. j \in Nat /\ k \in Nat
    BY <1>4
  <2>4. QED
    BY <2>1, <2>2, <2>3
<1>7. QED
  BY <1>6 DEF LastOf

\* On the page, and on a forgotten button, a form has one entry.
LEMMA OneEntry ==
  ASSUME NEW b \in Buttons, b # "operation", NEW f \in DOMAIN AllForms[b]
  PROVE  DOMAIN AllForms[b][f] \subseteq {1}
<1>1. AllForms[b] = parseSecurityDefinitions(desc.defs, Requirements(b))
  BY DEF AllForms, Forms
<1>2. ASSUME NEW defs, NEW security, NEW g \in DOMAIN parseSecurityDefinitions(defs, security)
      PROVE  /\ g[2] \in DOMAIN security
             /\ DOMAIN parseSecurityDefinitions(defs, security)[g] \subseteq DOMAIN security[g[2]]
  BY <1>2 DEF parseSecurityDefinitions
<1>3. \A i \in DOMAIN Requirements(b) : DOMAIN Requirements(b)[i] = {1}
  BY DEF Requirements
<1>4. QED
  BY <1>1, <1>2, <1>3

\* Entries have places of a sequence.
LEMMA FormPlaces ==
  ASSUME desc \in Descriptions, NEW b \in Buttons, NEW f \in DOMAIN AllForms[b]
  PROVE  \E n \in Nat : DOMAIN AllForms[b][f] \subseteq 1..n
<1>1. AllForms[b] = parseSecurityDefinitions(desc.defs, Requirements(b))
  BY DEF AllForms, Forms
<1>2. ASSUME NEW defs, NEW security, NEW g \in DOMAIN parseSecurityDefinitions(defs, security)
      PROVE  /\ g[2] \in DOMAIN security
             /\ DOMAIN parseSecurityDefinitions(defs, security)[g] \subseteq DOMAIN security[g[2]]
  BY <1>2 DEF parseSecurityDefinitions
<1>3. \A i \in DOMAIN Requirements(b) : \E n \in Nat : DOMAIN Requirements(b)[i] = 1..n
  <2>1. CASE b = "operation"
    BY <2>1, AlternativesAssumption DEF Requirements
  <2>2. CASE b # "operation"
    <3>1. \A i \in DOMAIN Requirements(b) : DOMAIN Requirements(b)[i] = 1..1
      BY <2>2 DEF Requirements
    <3>2. QED
      BY <3>1
  <2>3. QED
    BY <2>1, <2>2
<1>4. /\ f[2] \in DOMAIN Requirements(b)
      /\ DOMAIN AllForms[b][f] \subseteq DOMAIN Requirements(b)[f[2]]
  BY <1>1, <1>2
<1>5. PICK n \in Nat : DOMAIN Requirements(b)[f[2]] = 1..n
  BY <1>3, <1>4
<1>6. QED
  BY <1>4, <1>5

-----------------------------------------------------------------------------
(* Authorizing *)

\* The last scheme of a form is one of the form.
LEMMA LastScheme ==
  ASSUME IInv, NEW p \in DOMAIN popups, NEW f \in DOMAIN popups[p].forms,
         NEW S, S \subseteq DOMAIN popups[p].forms[f], S # {}
  PROVE  LastOf(S) \in S
<1>1. PopupOK(desc.defs, AllForms, authz, popups[p])
  BY DEF IInv, PageInv
<1>2. f \in DOMAIN AllForms[popups[p].button]
      /\ DOMAIN popups[p].forms[f] = DOMAIN AllForms[popups[p].button][f]
  BY <1>1 DEF PopupOK, FormOK
<1>3. PICK n \in Nat : DOMAIN AllForms[popups[p].button][f] \subseteq 1..n
  BY <1>1, <1>2, FormPlaces DEF IInv, PopupOK
<1>4. QED
  BY <1>2, <1>3, SomeAreLast

\* An entry of a popup is of a definition, and fits what was typed.
LEMMA EntryFacts ==
  ASSUME IInv, NEW p \in DOMAIN popups, NEW f \in DOMAIN popups[p].forms,
         NEW k \in DOMAIN popups[p].forms[f]
  PROVE  LET e == popups[p].forms[f][k]
             t == popups[p].typed[f][k]
         IN  /\ e.name \in DOMAIN desc.defs
             /\ EntryOK(desc.defs, e, e, t)
             /\ \/ Current(desc.defs, authz, e)
                \/ DOMAIN popups[p].forms[f] \subseteq {1}
<1>1. PopupOK(desc.defs, AllForms, authz, popups[p])
  BY DEF IInv, PageInv
<1>2. /\ f \in DOMAIN AllForms[popups[p].button]
      /\ k \in DOMAIN AllForms[popups[p].button][f]
      /\ EntryOK(desc.defs, AllForms[popups[p].button][f][k],
                 popups[p].forms[f][k], popups[p].typed[f][k])
      /\ popups[p].button \in PageButtons => Current(desc.defs, authz, popups[p].forms[f][k])
      /\ DOMAIN popups[p].forms[f] = DOMAIN AllForms[popups[p].button][f]
  BY <1>1 DEF PopupOK, FormOK
<1>3. AllForms[popups[p].button][f][k].name \in DOMAIN desc.defs
  BY <1>1, <1>2, FormsAreDefined DEF PopupOK
<1>4. popups[p].button \notin PageButtons => DOMAIN popups[p].forms[f] \subseteq {1}
  BY <1>1, <1>2, OneEntry DEF PopupOK, PageButtons
<1>5. QED
  BY <1>2, <1>3, <1>4 DEF EntryOK

\* What is used of keys and passwords, one by one.
LEMMA AsTyped ==
  CredentialsAsTyped <=>
    /\ entered = [n \in DOMAIN entered |-> entered[n]]
    /\ DOMAIN entered = {n \in DOMAIN desc.defs :
                          n \in DOMAIN authz /\ desc.defs[n].type # "oauth2"}
    /\ \A n \in DOMAIN entered : entered[n] = authz[n]
  BY DEF CredentialsAsTyped

\* Keys and passwords are filed as they were typed, whether in this popup or before.
LEMMA AuthorizeKeepsCredentials ==
  ASSUME IInv, NEW p \in DOMAIN popups, NEW f \in DOMAIN popups[p].forms, authorizeClick(p, f)
  PROVE  /\ AuthzOK(desc.defs, authz)' /\ CredentialsAsTyped'
         /\ \A n \in DOMAIN authz' : desc.defs[n].type = "oauth2" =>
              n \in DOMAIN authz /\ authz'[n] = authz[n]
<1> DEFINE form == popups[p].forms[f]
           typed == popups[p].typed[f]
           plain == {j \in DOMAIN form : ~ isOauth2(form[j])}
           added == {form[k].name : k \in plain}
           written == {form[k].name : k \in {j \in plain : ~ form[j].isLogout}}
<1>1. /\ desc' = desc
      /\ authz' = [n \in DOMAIN authz \cup added |->
                     IF n \in added THEN form[Named(form, n)].credential ELSE authz[n]]
  BY DEF authorizeClick, Added
<1>2. entered' = [n \in DOMAIN entered \cup written |->
                    IF n \in written THEN typed[Named(form, n)].credential ELSE entered[n]]
  <2>1. (DOMAIN form) \ {k \in DOMAIN form : isOauth2(form[k])} = plain
    OBVIOUS
  <2>2. QED
    BY <2>1 DEF authorizeClick
<1>3. /\ OffersAuthorize(form)
      /\ \A k \in DOMAIN form : /\ form[k].name \in DOMAIN desc.defs
                                /\ EntryOK(desc.defs, form[k], form[k], typed[k])
                                /\ Current(desc.defs, authz, form[k]) \/ DOMAIN form \subseteq {1}
  BY EntryFacts DEF authorizeClick
<1>4. \A n \in added : n \in DOMAIN desc.defs /\ desc.defs[n].type # "oauth2"
  BY <1>3 DEF isOauth2, Def
<1>5. \A n \in added : Named(form, n) \in DOMAIN form /\ form[Named(form, n)].name = n
  BY DEF Named
<1>6. ASSUME NEW n \in added
      PROVE  IF n \in written
               THEN form[Named(form, n)].credential = typed[Named(form, n)].credential
               ELSE n \in DOMAIN authz /\ form[Named(form, n)].credential = authz[n]
  <2>1. CASE DOMAIN form \subseteq {1}
    <3>1. \A k \in DOMAIN form : k = Named(form, n) /\ ~ form[k].isLogout
      BY <1>3, <1>5, <2>1 DEF OffersAuthorize, isAuthorized
    <3>2. n \in written
      BY <3>1
    <3>3. QED
      BY <1>3, <1>4, <1>5, <3>1, <3>2 DEF EntryOK
  <2>2. CASE ~ (DOMAIN form \subseteq {1})
    <3>1. \A k \in DOMAIN form : Current(desc.defs, authz, form[k])
      BY <1>3, <2>2
    <3>2. n \in written <=> n \notin DOMAIN authz
      BY <3>1 DEF Current
    <3>3. QED
      BY <1>3, <1>4, <1>5, <3>1, <3>2 DEF EntryOK, Current
  <2>3. QED
    BY <2>1, <2>2
<1>7. AuthzOK(desc.defs, authz)'
  BY <1>1, <1>4 DEF AuthzOK, IInv
<1>8. /\ entered = [n \in DOMAIN entered |-> entered[n]]
      /\ DOMAIN entered = {n \in DOMAIN desc.defs :
                            n \in DOMAIN authz /\ desc.defs[n].type # "oauth2"}
      /\ \A n \in DOMAIN entered : entered[n] = authz[n]
  BY AsTyped DEF IInv
<1>9. DOMAIN entered'
        = {n \in DOMAIN desc.defs' : n \in DOMAIN authz' /\ desc.defs'[n].type # "oauth2"}
  BY <1>1, <1>2, <1>4, <1>6, <1>8
<1>10. ASSUME NEW n \in DOMAIN entered' PROVE entered'[n] = authz'[n]
  <2>1. CASE n \in written
    <3>1. n \in added
      BY <2>1
    <3>2. QED
      BY <1>1, <1>2, <1>6, <2>1, <3>1
  <2>2. CASE n \in added /\ n \notin written
    <3>1. n \in DOMAIN authz /\ n \in DOMAIN entered
      BY <1>4, <1>6, <1>8, <2>2
    <3>2. form[Named(form, n)].credential = authz[n]
      BY <1>6, <2>2
    <3>3. QED
      BY <1>1, <1>2, <1>8, <2>2, <3>1, <3>2
  <2>3. CASE n \notin added
    BY <1>1, <1>2, <1>8, <2>3
  <2>4. QED
    BY <2>1, <2>2, <2>3
<1>11. CredentialsAsTyped'
  <2>1. entered' = [n \in DOMAIN entered' |-> entered'[n]]
    BY <1>2
  <2>2. QED
    BY <1>9, <1>10, <2>1 DEF CredentialsAsTyped
<1>12. \A n \in DOMAIN authz' : desc.defs[n].type = "oauth2" =>
         n \in DOMAIN authz /\ authz'[n] = authz[n]
  BY <1>1, <1>4
<1>13. QED
  BY <1>7, <1>11, <1>12

\* What a form's schemes leave in what all logins share is of the last of them.
LEMMA AuthorizeShares ==
  ASSUME IInv, NEW p \in DOMAIN popups, NEW f \in DOMAIN popups[p].forms, authorizeClick(p, f)
  PROVE  LET form == popups[p].forms[f]
             schemes == {k \in DOMAIN form : isOauth2(form[k])}
         IN  /\ DOMAIN swaggerUiAuth' = SharedFields
             /\ schemes = {} => swaggerUiAuth' = swaggerUiAuth
             /\ schemes # {} => \E k \in schemes :
                                  swaggerUiAuth'.OAuthSchemeKey = form[k].name
             /\ \A k : schemes = {k} => swaggerUiAuth' = handleOauth2Login(
                                           IF OpensWindow(form[k])
                                             THEN TokenUrl(swaggerUiAuth, form[k])
                                           ELSE swaggerUiAuth, form[k])
<1> DEFINE form == popups[p].forms[f]
           schemes == {k \in DOMAIN form : isOauth2(form[k])}
           windows == {k \in schemes : OpensWindow(form[k])}
           opened == IF windows = {} THEN swaggerUiAuth
                     ELSE TokenUrl(swaggerUiAuth, form[LastOf(windows)])
<1>1. swaggerUiAuth' = IF schemes = {} THEN swaggerUiAuth
                       ELSE handleOauth2Login(opened, form[LastOf(schemes)])
  BY DEF authorizeClick, LoggedIn
<1>2. DOMAIN swaggerUiAuth = SharedFields
  BY DEF IInv, LoginInv
<1>3. ASSUME NEW shared, NEW e, DOMAIN shared = SharedFields
      PROVE  /\ DOMAIN TokenUrl(shared, e) = SharedFields
             /\ TokenUrl(shared, e).OAuthSchemeKey = shared.OAuthSchemeKey
             /\ TokenUrl(shared, e).tokenName = shared.tokenName
  BY <1>3 DEF TokenUrl, SharedFields
<1>4. DOMAIN opened = SharedFields
  BY <1>2, <1>3
<1>5. ASSUME NEW shared, NEW e, DOMAIN shared = SharedFields
      PROVE  /\ DOMAIN handleOauth2Login(shared, e) = SharedFields
             /\ handleOauth2Login(shared, e).OAuthSchemeKey = e.name
  <2>1. DOMAIN [shared EXCEPT !.OAuthSchemeKey = e.name,
                              !.tokenName = Def(e).tokenName] = SharedFields
        /\ [shared EXCEPT !.OAuthSchemeKey = e.name,
                          !.tokenName = Def(e).tokenName].OAuthSchemeKey = e.name
    BY <1>5 DEF SharedFields
  <2>2. QED
    BY <1>3, <2>1 DEF handleOauth2Login
<1>6. schemes # {} => LastOf(schemes) \in schemes
  BY LastScheme
<1>7. ASSUME NEW k, schemes = {k}
      PROVE  swaggerUiAuth' = handleOauth2Login(
               IF OpensWindow(form[k]) THEN TokenUrl(swaggerUiAuth, form[k])
               ELSE swaggerUiAuth, form[k])
  <2>1. LastOf(schemes) = k
    BY <1>6, <1>7
  <2>2. windows = IF OpensWindow(form[k]) THEN {k} ELSE {}
    BY <1>7
  <2>3. windows # {} => windows = schemes
    BY <1>7, <2>2
  <2>4. opened = IF OpensWindow(form[k]) THEN TokenUrl(swaggerUiAuth, form[k]) ELSE swaggerUiAuth
    BY <2>1, <2>2, <2>3
  <2>5. QED
    BY <1>1, <1>7, <2>1, <2>4
<1>8. QED
  BY <1>1, <1>2, <1>4, <1>5, <1>6, <1>7

\* What is asked for is what was typed.
LEMMA AuthorizeKeepsLogins ==
  ASSUME IInv, NEW p \in DOMAIN popups, NEW f \in DOMAIN popups[p].forms, authorizeClick(p, f)
  PROVE  LoginInv' /\ AskedAsTyped'
<1> DEFINE form == popups[p].forms[f]
           typed == popups[p].typed[f]
           schemes == {k \in DOMAIN form : isOauth2(form[k])}
<1>1. /\ desc' = desc
      /\ logins' = logins \cup {Login(form[k], typed[k], <<made, k>>) : k \in schemes}
  BY DEF authorizeClick
<1>2. ASSUME NEW k \in schemes
      PROVE  /\ DOMAIN Login(form[k], typed[k], <<made, k>>) = LoginFields
             /\ Login(form[k], typed[k], <<made, k>>).asked = Request(form[k])
             /\ Login(form[k], typed[k], <<made, k>>).typed = Request(typed[k])
  BY DEF Login, LoginFields
<1>3. ASSUME NEW k \in schemes
      PROVE  /\ form[k].name \in DOMAIN desc.defs
             /\ desc.defs[form[k].name].type = "oauth2"
             /\ Request(form[k]) = Request(typed[k])
  <2>1. form[k].name \in DOMAIN desc.defs /\ EntryOK(desc.defs, form[k], form[k], typed[k])
    BY EntryFacts
  <2>2. desc.defs[form[k].name].type = "oauth2"
    BY DEF isOauth2, Def
  <2>3. QED
    BY <2>1, <2>2 DEF Request, EntryOK, Def
<1>4. AskedAsTyped'
  BY <1>1, <1>2, <1>3 DEF AskedAsTyped, IInv
<1>5. \A l \in logins' : DOMAIN l = LoginFields
  BY <1>1, <1>2 DEF IInv, LoginInv
<1>6. logins' # {} => /\ swaggerUiAuth'.OAuthSchemeKey \in DOMAIN desc.defs
                      /\ desc.defs[swaggerUiAuth'.OAuthSchemeKey].type = "oauth2"
  <2>1. CASE schemes = {}
    <3>1. logins' = logins
      BY <1>1, <2>1
    <3>2. QED
      BY <2>1, <3>1, AuthorizeShares DEF IInv, LoginInv
  <2>2. CASE schemes # {}
    BY <1>3, <2>2, AuthorizeShares
  <2>3. QED
    BY <2>1, <2>2
<1>7. DOMAIN swaggerUiAuth' = SharedFields
  BY AuthorizeShares
<1>8. QED
  BY <1>1, <1>4, <1>5, <1>6, <1>7 DEF LoginInv

\* A login that is alone has left its own traces in what logins share.
LEMMA AuthorizeKeepsSole ==
  ASSUME IInv, NEW p \in DOMAIN popups, NEW f \in DOMAIN popups[p].forms, authorizeClick(p, f)
  PROVE  SoleInv' /\ TokensFiled'
<1> DEFINE form == popups[p].forms[f]
           typed == popups[p].typed[f]
           schemes == {k \in DOMAIN form : isOauth2(form[k])}
           login(k) == Login(form[k], typed[k], <<made, k>>)
<1>1. /\ desc' = desc /\ lost' = lost
      /\ logins' = logins \cup {login(k) : k \in schemes}
      /\ overlapped' = (overlapped \/ \E l, m \in logins' : l # m)
  BY DEF authorizeClick
<1>2. CASE overlapped'
  BY <1>2 DEF SoleInv, TokensFiled
<1>3. CASE ~ overlapped'
  <2>1. ~ overlapped /\ \A l, m \in logins' : l = m
    BY <1>1, <1>3
  <2>2. TokensFiled'
    BY <1>1, <2>1, AuthorizeKeepsCredentials DEF TokensFiled, IInv
  <2>3. CASE schemes = {}
    <3>1. logins' = logins /\ swaggerUiAuth' = swaggerUiAuth
      BY <1>1, <2>3, AuthorizeShares
    <3>2. QED
      BY <1>1, <2>1, <2>2, <3>1 DEF SoleInv, IInv
  <2>4. CASE schemes # {}
    <3>1. PICK k \in schemes : TRUE
      BY <2>4
    <3>2. \A j \in schemes : login(j).id = <<made, j>> /\ login(j) \in logins'
      BY <1>1 DEF Login
    <3>3. schemes = {k}
      <4>1. \A j \in schemes : login(j) = login(k)
        BY <2>1, <3>2
      <4>2. \A j \in schemes : <<made, j>> = <<made, k>>
        BY <3>2, <4>1
      <4>3. \A j \in schemes : j = k
        BY <4>2
      <4>4. QED
        BY <4>3
    <3>4. \A l \in logins' : l = login(k)
      BY <2>1, <3>2
    <3>5. \E shared : /\ DOMAIN shared = SharedFields
                     /\ swaggerUiAuth' = handleOauth2Login(shared, form[k])
      <4>1. swaggerUiAuth' = handleOauth2Login(
              IF OpensWindow(form[k]) THEN TokenUrl(swaggerUiAuth, form[k])
              ELSE swaggerUiAuth, form[k])
        BY <3>3, AuthorizeShares
      <4>2. DOMAIN swaggerUiAuth = SharedFields
        BY DEF IInv, LoginInv
      <4>3. DOMAIN TokenUrl(swaggerUiAuth, form[k]) = SharedFields
        BY <4>2 DEF TokenUrl, SharedFields
      <4>4. QED
        BY <4>1, <4>2, <4>3
    <3>6. PICK shared : /\ DOMAIN shared = SharedFields
                        /\ swaggerUiAuth' = handleOauth2Login(shared, form[k])
      BY <3>5
    <3>7. /\ swaggerUiAuth'.OAuthSchemeKey = form[k].name
          /\ swaggerUiAuth'.tokenName = Def(form[k]).tokenName
          /\ Def(form[k]).flow = "implicit" => swaggerUiAuth'.tokenUrl = None
          /\ Def(form[k]).flow = "accessCode" => swaggerUiAuth'.tokenUrl = form[k].name
      <4> DEFINE asked == [shared EXCEPT !.OAuthSchemeKey = form[k].name,
                                         !.tokenName = Def(form[k]).tokenName]
      <4>1. /\ DOMAIN asked = SharedFields
            /\ asked.OAuthSchemeKey = form[k].name
            /\ asked.tokenName = Def(form[k]).tokenName
        BY <3>6 DEF SharedFields
      <4>2. swaggerUiAuth' = TokenUrl(asked, form[k])
        BY <3>6 DEF handleOauth2Login
      <4>3. QED
        BY <4>1, <4>2 DEF TokenUrl, SharedFields
    <3>8. /\ login(k).name = form[k].name
          /\ login(k).stage = "window" => Def(form[k]).flow \in {"implicit", "accessCode"}
          /\ login(k).stage # "exchange"
      BY DEF Login, OpensWindow
    <3>9. form[k].name \in DOMAIN desc.defs
      BY EntryFacts
    <3>10. Shares(desc.defs, swaggerUiAuth', login(k))
      BY <3>7, <3>8, <3>9 DEF Shares, Def
    <3>11. QED
      BY <1>1, <2>1, <2>2, <3>4, <3>10 DEF SoleInv
  <2>5. QED
    BY <2>3, <2>4
<1>4. QED
  BY <1>2, <1>3

LEMMA AuthorizeKeepsIInv ==
  ASSUME IInv, NEW p \in DOMAIN popups, NEW f \in DOMAIN popups[p].forms, authorizeClick(p, f)
  PROVE  IInv'
<1>1. load /\ desc' = desc
  BY DEF authorizeClick
<1>2. QED
  BY <1>1, LoadKeepsPage, AuthorizeKeepsCredentials, AuthorizeKeepsLogins, AuthorizeKeepsSole
     DEF IInv

\* All entries of a form are logged out.
LEMMA LogoutKeepsIInv ==
  ASSUME IInv, NEW p \in DOMAIN popups, NEW f \in DOMAIN popups[p].forms, logoutClick(p, f)
  PROVE  IInv'
<1> DEFINE names == Names(popups[p].forms[f])
<1>1. /\ load /\ UNCHANGED <<desc, swaggerUiAuth, logins, overlapped, lost>>
      /\ authz' = [n \in DOMAIN authz \ names |-> authz[n]]
      /\ entered' = [n \in DOMAIN entered \ names |-> entered[n]]
  BY DEF logoutClick, Without, loginVars
<1>2. AuthzOK(desc.defs, authz)' /\ TokensFiled'
  BY <1>1 DEF IInv, AuthzOK, TokensFiled
<1>3. CredentialsAsTyped'
  <2>1. /\ DOMAIN entered = {n \in DOMAIN desc.defs :
                              n \in DOMAIN authz /\ desc.defs[n].type # "oauth2"}
        /\ \A n \in DOMAIN entered : entered[n] = authz[n]
    BY AsTyped DEF IInv
  <2>2. /\ entered' = [n \in DOMAIN entered' |-> entered'[n]]
        /\ DOMAIN entered'
             = {n \in DOMAIN desc.defs' : n \in DOMAIN authz' /\ desc.defs'[n].type # "oauth2"}
        /\ \A n \in DOMAIN entered' : entered'[n] = authz'[n]
    BY <1>1, <2>1
  <2>3. QED
    BY <2>2 DEF CredentialsAsTyped
<1>4. LoginInv' /\ SoleInv' /\ AskedAsTyped'
  BY <1>1 DEF IInv, LoginInv, SoleInv, AskedAsTyped
<1>5. QED
  BY <1>1, <1>2, <1>3, <1>4, LoadKeepsPage DEF IInv

-----------------------------------------------------------------------------
(* Logins *)

\* The token of l is filed, under the scheme that was asked for last.
Files(l) ==
  /\ swaggerUiAuth.tokenName = Def(l).tokenName
  /\ authz' = Put(authz, swaggerUiAuth.OAuthSchemeKey,
                  Credential("token of " \o l.name, Empty, Empty))
  /\ load
  /\ lost' = lost

\* It was granted in vain.
Loses == lost' = TRUE /\ UNCHANGED <<authz, pageVars>>

\* What may become of a login: its window closes and something goes on, or it ends,
\* with a token that is filed or lost, or without one.
LEMMA LoginSteps ==
  ASSUME NEW l \in logins, Granted(l) \/ Exchanged(l) \/ Answered(l) \/ Refused(l)
  PROVE  /\ UNCHANGED <<desc, swaggerUiAuth, entered, overlapped>>
         /\ \/ /\ l.stage = "window" /\ swaggerUiAuth.tokenUrl # None
               /\ processOAuthCode(l)
            \/ logins' = logins \ {l} /\ UNCHANGED <<authz, pageVars, lost>>
            \/ logins' = logins \ {l} /\ Files(l)
            \/ /\ logins' = logins \ {l} /\ Loses
               /\ \/ swaggerUiAuth.tokenName # Def(l).tokenName
                  \/ l.stage = "window" /\ swaggerUiAuth.tokenUrl = None /\ Def(l).flow # "implicit"
                  \/ l.stage = "exchange" /\ ~ (l.at = l.name /\ Def(l).flow = "accessCode")
<1>1. CASE Granted(l)
  BY <1>1 DEF Granted, processOAuthCode, onOAuthComplete, Ends, Files, Loses
<1>2. CASE Exchanged(l)
  BY <1>2 DEF Exchanged, onOAuthComplete, Ends, Files, Loses
<1>3. CASE Answered(l)
  BY <1>3 DEF Answered, onOAuthComplete, Ends, Files, Loses
<1>4. CASE Refused(l)
  BY <1>4 DEF Refused, Ends, historyVars
<1>5. QED
  BY <1>1, <1>2, <1>3, <1>4

\* Nothing of the page or of what is authorized has changed.
LEMMA IdlePage ==
  ASSUME IInv, UNCHANGED <<desc, authz, entered, pageVars>>
  PROVE  PageInv' /\ AuthzOK(desc.defs, authz)' /\ CredentialsAsTyped'
<1>1. PageInv'
  BY SameForms DEF IInv, PageInv, pageVars
<1>2. QED
  BY <1>1 DEF IInv, CredentialsAsTyped

\* A token goes to a scheme of OAuth: no key, and no password.
LEMMA FilingKeepsPage ==
  ASSUME IInv, NEW l \in logins, Files(l), UNCHANGED <<desc, entered>>
  PROVE  PageInv' /\ AuthzOK(desc.defs, authz)' /\ CredentialsAsTyped'
<1> DEFINE key == swaggerUiAuth.OAuthSchemeKey
           token == Credential("token of " \o l.name, Empty, Empty)
<1>1. desc.defs[key].type = "oauth2"
  BY DEF IInv, LoginInv
<1>2. /\ DOMAIN authz' = DOMAIN authz \cup {key}
      /\ \A n \in DOMAIN authz' : authz'[n] = IF n = key THEN token ELSE authz[n]
  BY DEF Files, Put
<1>3. token.username = Empty /\ token.password = Empty
  BY DEF Credential
<1>4. AuthzOK(desc.defs, authz)'
  BY <1>2, <1>3 DEF AuthzOK, IInv
<1>5. CredentialsAsTyped'
  <2>1. /\ entered = [n \in DOMAIN entered |-> entered[n]]
        /\ DOMAIN entered = {n \in DOMAIN desc.defs :
                              n \in DOMAIN authz /\ desc.defs[n].type # "oauth2"}
        /\ \A n \in DOMAIN entered : entered[n] = authz[n]
    BY AsTyped DEF IInv
  <2>2. /\ DOMAIN entered
             = {n \in DOMAIN desc.defs : n \in DOMAIN authz' /\ desc.defs[n].type # "oauth2"}
        /\ \A n \in DOMAIN entered : entered[n] = authz'[n]
    BY <1>1, <1>2, <2>1
  <2>3. QED
    BY <2>1, <2>2 DEF CredentialsAsTyped
<1>6. PageInv'
  BY LoadKeepsPage DEF Files
<1>7. QED
  BY <1>4, <1>5, <1>6

LEMMA LoginKeepsIInv ==
  ASSUME IInv, NEW l \in logins, Granted(l) \/ Exchanged(l) \/ Answered(l) \/ Refused(l)
  PROVE  IInv'
<1>1. UNCHANGED <<desc, swaggerUiAuth, entered, overlapped>>
  BY LoginSteps
<1>2. DOMAIN l = LoginFields /\ l.asked = l.typed
  BY DEF IInv, LoginInv, AskedAsTyped
<1>3. PageInv' /\ AuthzOK(desc.defs, authz)' /\ CredentialsAsTyped'
  BY <1>1, LoginSteps, IdlePage, FilingKeepsPage DEF Loses, processOAuthCode
<1>4. \/ logins' = logins \ {l}
      \/ /\ l.stage = "window" /\ swaggerUiAuth.tokenUrl # None
         /\ logins' = (logins \ {l})
                         \cup {[l EXCEPT !.stage = "exchange", !.at = swaggerUiAuth.tokenUrl]}
  BY LoginSteps DEF processOAuthCode
<1> DEFINE code == [l EXCEPT !.stage = "exchange", !.at = swaggerUiAuth.tokenUrl]
<1>5. /\ DOMAIN code = LoginFields /\ code.asked = code.typed
      /\ code.name = l.name /\ code.stage = "exchange" /\ code.at = swaggerUiAuth.tokenUrl
  BY <1>2 DEF LoginFields
<1>6. LoginInv' /\ AskedAsTyped'
  BY <1>1, <1>4, <1>5 DEF IInv, LoginInv, AskedAsTyped
<1>7. SoleInv' /\ TokensFiled'
  <2>1. CASE overlapped
    BY <1>1, <2>1 DEF SoleInv, TokensFiled
  <2>2. CASE ~ overlapped
    <3>1. /\ \A m \in logins : m = l
          /\ Shares(desc.defs, swaggerUiAuth, l)
          /\ ~ lost
          /\ \A n \in DOMAIN authz : desc.defs[n].type = "oauth2" =>
               authz[n].value = "token of " \o n
      BY <2>2 DEF IInv, SoleInv, TokensFiled
    <3>2. l.name # None
      BY <3>1, NoneAssumption DEF IInv, Shares
    <3>3. SoleInv'
      <4>1. CASE logins' = logins \ {l}
        BY <3>1, <4>1 DEF SoleInv
      <4>2. CASE /\ l.stage = "window" /\ swaggerUiAuth.tokenUrl # None
                 /\ logins' = (logins \ {l}) \cup {code}
        <5>1. \A m \in logins' : m = code
          BY <3>1, <4>2
        <5>2. Shares(desc.defs, swaggerUiAuth, code)
          BY <1>5, <3>1, <4>2 DEF Shares
        <5>3. QED
          BY <1>1, <5>1, <5>2 DEF SoleInv
      <4>3. QED
        BY <1>4, <4>1, <4>2
    <3>4. UNCHANGED <<authz, lost>> \/ Files(l)
      <4>1. /\ swaggerUiAuth.tokenName = Def(l).tokenName
            /\ ~ (l.stage = "window" /\ swaggerUiAuth.tokenUrl = None /\ Def(l).flow # "implicit")
            /\ ~ (l.stage = "exchange" /\ ~ (l.at = l.name /\ Def(l).flow = "accessCode"))
        BY <3>1, <3>2 DEF Shares, Def
      <4>2. QED
        BY <4>1, LoginSteps DEF processOAuthCode
    <3>5. CASE UNCHANGED <<authz, lost>>
      BY <1>1, <3>1, <3>3, <3>5 DEF TokensFiled
    <3>6. CASE Files(l)
      <4>1. /\ lost' = lost
            /\ authz' = Put(authz, l.name, Credential("token of " \o l.name, Empty, Empty))
        BY <3>1, <3>6 DEF Files, Shares
      <4>2. Credential("token of " \o l.name, Empty, Empty).value = "token of " \o l.name
        BY DEF Credential
      <4>3. \A n \in DOMAIN authz' : desc.defs[n].type = "oauth2" =>
               authz'[n].value = "token of " \o n
        BY <3>1, <4>1, <4>2 DEF Put
      <4>4. QED
        BY <1>1, <3>1, <3>3, <4>1, <4>3 DEF TokensFiled
    <3>7. QED
      BY <3>4, <3>5, <3>6
  <2>3. QED
    BY <2>1, <2>2
<1>8. QED
  BY <1>1, <1>3, <1>6, <1>7 DEF IInv

-----------------------------------------------------------------------------
(* The theorems *)

\* What the buttons and inputs of a page do, but for those that load another.
LEMMA PageStepsKeepIInv ==
  ASSUME IInv, PageInv', UNCHANGED <<desc, authz, loginVars, historyVars>>
  PROVE  IInv'
  BY DEF IInv, LoginInv, SoleInv, AskedAsTyped, CredentialsAsTyped, TokensFiled,
         loginVars, historyVars

\* The three facts about the inductive invariant.
THEOREM IInvCorrect == Spec => []IInv
<1>1. Init => IInv
  <2> SUFFICES ASSUME Init PROVE IInv
    OBVIOUS
  <2>1. DOMAIN authz = {} /\ DOMAIN entered = {} /\ DOMAIN popups = {}
    BY DEF Init
  <2>2. PageInv
    <3>1. \A n \in Forgotten : n \in Buttons /\ DOMAIN auths[n] = {} /\ DOMAIN content[n] = {}
      BY DEF Init, Buttons
    <3>2. QED
      BY <2>1, <3>1 DEF Init, PageInv, ForgottenOK
  <2>3. CredentialsAsTyped
    BY <2>1, AsTyped DEF Init
  <2>4. LoginInv
    BY DEF Init, LoginInv, SharedFields
  <2>5. QED
    BY <2>1, <2>2, <2>3, <2>4 DEF Init, IInv, AuthzOK, SoleInv, AskedAsTyped, TokensFiled
<1>2. IInv /\ [Next]_vars => IInv'
  <2> SUFFICES ASSUME IInv, [Next]_vars PROVE IInv'
    OBVIOUS
  <2>1. CASE Render
    BY <2>1, RenderKeepsPage, PageStepsKeepIInv DEF Render
  <2>9. CASE RenderAgain
    BY <2>9, RenderAgainKeepsPage, PageStepsKeepIInv DEF RenderAgain
  <2>10. CASE LateAnswer
    BY <2>10, LateAnswerKeepsPage, PageStepsKeepIInv DEF LateAnswer
  <2>2. ASSUME NEW b \in Buttons, authorizeBtnClick(b) PROVE IInv'
    BY <2>2, ButtonKeepsPage, PageStepsKeepIInv DEF authorizeBtnClick
  <2>3. ASSUME NEW p \in DOMAIN popups, cancelClick(p) PROVE IInv'
    BY <2>3, CancelKeepsPage, PageStepsKeepIInv DEF cancelClick
  <2>4. ASSUME NEW p \in DOMAIN popups, NEW f \in DOMAIN popups[p].forms,
               NEW k \in DOMAIN popups[p].forms[f], Change(p, f, k)
        PROVE  IInv'
    BY <2>4, ChangeKeepsPage, PageStepsKeepIInv DEF Change
  <2>5. ASSUME NEW p \in DOMAIN popups, NEW f \in DOMAIN popups[p].forms,
               authorizeClick(p, f) \/ logoutClick(p, f)
        PROVE  IInv'
    BY <2>5, AuthorizeKeepsIInv, LogoutKeepsIInv
  <2>6. ASSUME NEW l \in logins, Granted(l) \/ Exchanged(l) \/ Answered(l) \/ Refused(l)
        PROVE  IInv'
    BY <2>6, LoginKeepsIInv
  <2>7. CASE UNCHANGED vars
    BY <2>7, IdlePage, PageStepsKeepIInv DEF vars, historyVars
  <2>8. QED
    BY <2>1, <2>2, <2>3, <2>4, <2>5, <2>6, <2>7, <2>9, <2>10 DEF Next
<1>3. QED
  BY <1>1, <1>2, PTL DEF Spec

\* Whatever is authorized, by whichever login or popup, and whatever late answers do to
\* the page: each entry of a form of the page that is shown says whether it is, and each
\* button of that page whether anything of its forms is.
THEOREM FormsTellCorrect == Spec => []FormsTell
<1>1. IInv => FormsTell
  <2> SUFFICES ASSUME IInv, shown PROVE FormsTell
    BY DEF FormsTell
  <2>1. ASSUME NEW p \in DOMAIN popups, popups[p].button \in PageButtons
        PROVE  Tells(popups[p].forms)
    <3>1. PopupOK(desc.defs, AllForms, authz, popups[p])
      BY DEF IInv, PageInv
    <3>2. QED
      BY <2>1, <3>1 DEF Tells, PopupOK, FormOK, Current
  <2>2. ASSUME NEW b \in PageButtons
        PROVE  /\ DOMAIN content[b] = DOMAIN Forms(b)
               /\ \A f \in DOMAIN Forms(b) :
                    /\ DOMAIN content[b][f] = DOMAIN Forms(b)[f]
                    /\ \A k \in DOMAIN Forms(b)[f] :
                         content[b][f][k] = parse(Fresh(Forms(b)[f][k]), authz)
    <3>1. content[b] = renderAuths(FreshForms(Forms(b)), authz)
      BY <2>2 DEF Buttons, IInv, PageInv, Rendered, AllForms
    <3>2. QED
      BY <3>1 DEF renderAuths, FreshForms
  <2>3. ASSUME NEW r
        PROVE  /\ parse(Fresh(r), authz).name = r.name
               /\ parse(Fresh(r), authz).isLogout <=> r.name \in DOMAIN authz
    BY DEF parse, Fresh, Entry
  <2>4. ASSUME NEW b \in PageButtons PROVE Tells(content[b])
    BY <2>2, <2>3, <2>4 DEF Tells
  <2>5. ASSUME NEW b \in PageButtons
        PROVE  SaysLogout(b) <=>
                 \E f \in DOMAIN Forms(b) : Names(Forms(b)[f]) \cap DOMAIN authz # {}
    BY <2>2, <2>3, <2>5 DEF SaysLogout, isPartiallyAuthorized, Names
  <2>6. QED
    BY <2>1, <2>4, <2>5 DEF FormsTell
<1>2. QED
  BY <1>1, IInvCorrect, PTL

\* Keys and passwords in use are those that were typed last.
THEOREM CredentialsAsTypedCorrect == Spec => []CredentialsAsTyped
<1>1. IInv => CredentialsAsTyped
  BY DEF IInv
<1>2. QED
  BY <1>1, IInvCorrect, PTL

\* A server is asked for what was checked and typed in that popup, and for nothing else.
THEOREM AskedAsTypedCorrect == Spec => []AskedAsTyped
<1>1. IInv => AskedAsTyped
  BY DEF IInv
<1>2. QED
  BY <1>1, IInvCorrect, PTL

\* Unless two logins were ever under way at once, each token that is granted is used,
\* and for the scheme that it was granted for.
THEOREM TokensFiledCorrect == Spec => []TokensFiled
<1>1. IInv => TokensFiled
  BY DEF IInv
<1>2. QED
  BY <1>1, IInvCorrect, PTL

=============================================================================
