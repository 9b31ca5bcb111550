--------------------------- MODULE OperationRequest ---------------------------
(***************************************************************************)
(* How the console of webapp/swagger-ui.js makes a request of what is      *)
(* entered in the form of an operation: the map that is read from the      *)
(* fields, the types, headers, address and body made of the map, and the   *)
(* authorizations applied to the result.                                   *)
(*                                                                         *)
(* An operation is a record                                                *)
(*   [method, params, consumes, produces, typed, security, parent]         *)
(* with a sequence of parameters as in OperationParameter; its parent is   *)
(* the document [page, url, host, schemes, consumes, produces], where page *)
(* and url are the [scheme, host] of the page and of the document's own    *)
(* address.  Media types and names are abstract; what is written into a    *)
(* request is a sequence, of one element unless it is a list.              *)
(***************************************************************************)
EXTENDS OperationParameter

CONSTANTS Authz,        \* sequence of [id, type, name, value], in order of entry
          OptionNames   \* names of options of the page, which end up in opts

-----------------------------------------------------------------------------
(* What an operation has from its document *)

FirstOf(values) ==
  LET some == SelectSeq(values, LAMBDA v : v # None) IN
    IF some = <<>> THEN None ELSE some[1]

\* buildFromSpec: the scheme of the page if it is among those of the document or
\* there are none, and that of the document's address in an extension; a page
\* from https falls to http, any other takes https if it can.
scheme(parent) ==
  LET page == parent.page.scheme
      offered == ToSet(parent.schemes)
  IN  IF offered = {} THEN page
      ELSE IF page = "chrome-extension" THEN parent.url.scheme
      ELSE IF page \in offered THEN page
      ELSE IF page # "https" /\ "https" \in offered THEN "https" ELSE "http"

\* The document's address may be relative to the page.
Address(parent) ==
  [scheme |-> FirstOf(<<scheme(parent), "http">>),
   host |-> FirstOf(<<parent.host, parent.url.host, parent.page.host>>)]

\* A list of media types that is empty is none the less the operation's own.
Operation(parent, args) ==
  [args EXCEPT !.consumes = FirstOf(<<@, parent.consumes, <<"json">>>>),
               !.produces = FirstOf(<<@, parent.produces, <<"json">>>>)] @@ [parent |-> parent]

-----------------------------------------------------------------------------
(* The form *)

Elements(op, element) ==
  SelectSeq([i \in DOMAIN op.params |-> i],
            LAMBDA i : template(op.params[i], FALSE) = element)

BodyParams(op) == {i \in DOMAIN op.params : op.params[i].in = "body"}

\* A body has a select of its content type beside it, which is in the form.
ContentTypes(op) ==
  IF BodyParams(op) = {} THEN {None}
  ELSE IF op.consumes = <<>> THEN {"json"} ELSE ToSet(op.consumes)

\* That of the response is there when the operation has a type.
ResponseTypes(op) ==
  IF ~ op.typed THEN {None}
  ELSE IF op.produces = <<>> THEN {"json"} ELSE ToSet(op.produces)

Names(op) == {op.params[i].name : i \in DOMAIN op.params}

getParamByName(op, n) == op.params[SelectInSeq(op.params, LAMBDA p : p.name = n)]

\* What a field has to say of its name: nothing if it is blank.
Input(op, fields, n) ==
  FoldLeft(LAMBDA value, i :
             IF op.params[i].name # n THEN value
             ELSE IF Blank(fields[i])
               THEN IF op.params[i].type = "file" THEN None ELSE value
             ELSE Text(fields[i]),
           None, Elements(op, "input"))

\* A text area is read by the first parameter of its name.
TextArea(op, fields, n, input) ==
  FoldLeft(LAMBDA value, i :
             IF op.params[i].name # n \/ Blank(fields[i]) THEN value
             ELSE getTextAreaValue(getParamByName(op, n), fields[i]),
           input, Elements(op, "textarea"))

\* The map of names to values, of the inputs, then the text areas, then the
\* selects: of fields with one name the last one that is filled in counts, and a
\* file always does.
getInputMap(op, fields, chosen) ==
  [n \in Names(op) \cup {"parameterContentType"} |->
     IF n = "parameterContentType" THEN chosen
     ELSE FoldLeft(LAMBDA value, i :
                     IF op.params[i].name # n \/ Blank(fields[i]) THEN value
                     ELSE getSelectedValue(op.params[i], fields[i]),
                   TextArea(op, fields, n, Input(op, fields, n)), Elements(op, "select"))]

isFileUpload(op) == \E i \in DOMAIN op.params : op.params[i].type = "file"

\* The fields that submitOperation marks: of a select only one of which nothing is
\* selected, be it that the empty option is.
Unfilled(op, fields) ==
  {i \in DOMAIN op.params :
     /\ op.params[i].required
     /\ IF IsList(op.params[i]) THEN fields[i] = <<>> ELSE Blank(fields[i])}

\* Mutant: a file upload leaves the content type to the operation.
ArgsAsRead(op, map) == map

\* args of the operation: a file upload says what its content type is.
Args(op, map) ==
  IF isFileUpload(op) THEN [map EXCEPT !["parameterContentType"] = "multipart"] ELSE map

-----------------------------------------------------------------------------
(* Operation.execute *)

\* What is chosen beside the form, whether the options of the page are there as
\* well, under their names, and whether passwords are masked.
Opts(response, request, page, mask) ==
  [responseContentType |-> response, requestContentType |-> request, page |-> page,
   mask |-> mask]
NoOpts == Opts(None, None, FALSE, FALSE)

getMissingParams(op, args) ==
  {n \in Names(op) : /\ args[n] = None
                     /\ \E i \in DOMAIN op.params :
                          op.params[i].name = n /\ op.params[i].required}

itemByPriority(types, priority) ==
  LET found == SelectSeq(priority, LAMBDA t : t \in ToSet(types)) IN
    IF found # <<>> THEN found[1]
    ELSE IF types # <<>> THEN types[1] ELSE None

Preferred == <<"json", "yaml">>

FormParams(op) == {i \in DOMAIN op.params : op.params[i].in = "formData"}
FileParams(op) == {i \in FormParams(op) : op.params[i].type = "file"}

hasBody(op, args) ==
  \/ \E i \in BodyParams(op) : args[op.params[i].name] # None
  \/ FormParams(op) # {}

\* The last of the types of a form that the operation consumes.
FormType(op) ==
  FoldLeft(LAMBDA type, t : IF t \in {"form", "multipart"} THEN t ELSE type,
           "form", op.consumes)

consumes(op, args, opts) ==
  LET given == IF args.parameterContentType # None THEN args.parameterContentType
               ELSE itemByPriority(op.consumes, Preferred)
      sends == \/ op.method \in {"post", "put", "patch"}
               \/ op.method \in {"delete", "get"} /\ hasBody(op, args)
  IN  IF ~ sends THEN None
      ELSE IF opts.requestContentType # None THEN opts.requestContentType
      ELSE IF FormParams(op) = FileParams(op) THEN given
      ELSE IF FileParams(op) # {} THEN "multipart"
      ELSE FormType(op)

\* A header that has the name of an option gets the value of the option.
OptionHeaders(op, opts) ==
  {<<op.params[i].name, <<"option">>>> : i \in
     {j \in DOMAIN op.params : /\ opts.page
                               /\ op.params[j].in = "header"
                               /\ op.params[j].name \in OptionNames}}

Value(op, args, i) == args[op.params[i].name]

\* The parameters in a place that have a value.
Given(op, args, in) ==
  SelectSeq([i \in DOMAIN op.params |-> i],
            LAMBDA i : op.params[i].in = in /\ Value(op, args, i) # None)

\* Once a password has been met, in whatever place, what follows passes for one.
isPassword(op, args, i) ==
  \E j \in 1..i : op.params[j].password /\ Value(op, args, j) # None

HeaderParams(op, args) ==
  {AsHeader(op.params[i], Value(op, args, i)) : i \in ToSet(Given(op, args, "header"))}

\* Headers are pairs, at most one of each name; those of the first set prevail.
Over(upper, lower) == upper \cup {h \in lower : \A u \in upper : u[1] # h[1]}

setContentTypes(op, args, opts) ==
  LET type == consumes(op, args, opts)
      accepts == IF opts.responseContentType # None THEN opts.responseContentType
                 ELSE itemByPriority(op.produces, Preferred)
      sent == IF type # None THEN type
              ELSE IF op.consumes # <<>> /\ op.consumes[1] = "form" THEN "form" ELSE None
  IN  Over({<<"Content-Type", <<t>>>> : t \in {sent} \ {None}}
             \cup {<<"Accept", <<t>>>> : t \in {accepts} \ {None}},
           OptionHeaders(op, opts))

\* What is entered prevails over the types there are without options, and the
\* types that were chosen over both.
getHeaderParams(op, args) ==
  Over(HeaderParams(op, args), setContentTypes(op, args, NoOpts))

Headers(op, args, opts) ==
  Over(setContentTypes(op, args, opts), getHeaderParams(op, args))

Header(headers, n) ==
  IF \E h \in headers : h[1] = n THEN (CHOOSE h \in headers : h[1] = n)[2][1] ELSE None

\* The parameters whose values make a form: of those of one name the last one, in
\* the place of the first.
Form(op, args) ==
  LET given == Given(op, args, "formData")
      name(i) == op.params[i].name
      firsts == SelectSeq(given, LAMBDA i : \A j \in ToSet(given) : j < i => name(j) # name(i))
      last(n) == given[SelectLastInSeq(given, LAMBDA i : name(i) = n)]
  IN  [k \in DOMAIN firsts |-> last(name(firsts[k]))]

\* getBody: the value of a body, {} in place of none when JSON is sent, or the
\* form, encoded as its content type says.
getBody(op, args, type, mask) ==
  LET form == Form(op, args)
      body == Given(op, args, "body")
      Parts(in(_)) == FlattenSeq([k \in DOMAIN form |-> in(form[k])])
      multipart(i) == InMultipart(op.params[i], Value(op, args, i))
      encoded(i) == InForm(op.params[i], Value(op, args, i), mask /\ isPassword(op, args, i))
  IN  IF type = "multipart" THEN [kind |-> "multipart", parts |-> Parts(multipart)]
      ELSE IF form # <<>> THEN [kind |-> "urlencoded", parts |-> Parts(encoded)]
      ELSE IF body # <<>>
        THEN [kind |-> "raw", parts |-> <<<<None, Value(op, args, Last(body)).of>>>>]
      ELSE IF BodyParams(op) # {} /\ type = "json"
        THEN [kind |-> "raw", parts |-> <<<<None, <<"{}">>>>>>]
      ELSE [kind |-> "none", parts |-> <<>>]

\* urlify: the query in the order of the parameters, and what takes the place of
\* a name in the path.
Query(op, args, mask) ==
  FoldLeft(LAMBDA query, i :
             query \o InQuery(op.params[i], Value(op, args, i), mask /\ isPassword(op, args, i)),
           <<>>, Given(op, args, "query"))

Path(op, args, mask) ==
  FoldLeft(LAMBDA path, i :
             Over(path, {InPath(op.params[i], Value(op, args, i), mask /\ isPassword(op, args, i))}),
           {}, Given(op, args, "path"))

\* The request before any authorization.
Assembled(op, args, opts) ==
  [method |-> op.method,
   address |-> Address(op.parent),
   path |-> Path(op, args, opts.mask),
   query |-> Query(op, args, opts.mask),
   headers |-> Headers(op, args, opts),
   body |-> getBody(op, args, Header(setContentTypes(op, args, opts), "Content-Type"),
                    opts.mask)]

-----------------------------------------------------------------------------
(* Authorizations *)

\* Mutant: a key is appended whatever the query has.
KeyAppended(req, a) == [req EXCEPT !.query = Append(@, <<a.name, a.value>>)]

\* ApiKeyAuthorization in a query: nothing if there is a parameter of its name.
ApiKeyQuery(req, a) ==
  IF \E i \in DOMAIN req.query : req.query[i][1] = a.name THEN req
  ELSE [req EXCEPT !.query = Append(@, <<a.name, a.value>>)]

\* Mutant: an authorization in a header replaces what is there.
HeaderReplaced(req, a) == [req EXCEPT !.headers = Over({<<a.name, a.value>>}, @)]

\* In a header, or a PasswordAuthorization: what is there is left.
InHeader(req, a) == [req EXCEPT !.headers = Over(@, {<<a.name, a.value>>})]

Authorized(req, a) == IF a.type = "query" THEN ApiKeyQuery(req, a) ELSE InHeader(req, a)

\* SwaggerAuthorizations.apply: all of them if the operation names none.
apply(req, securities) ==
  FoldLeft(LAMBDA r, a : IF securities = None \/ a.id \in securities
                           THEN Authorized(r, a) ELSE r, req, Authz)

\* What execute sends.
execute(op, args, opts) == apply(Assembled(op, args, opts), op.security)

\* The parts of a multipart body that the command has.  Those of a file have no
\* name there, so it is left out; a list that is one part is escaped once more,
\* which the model does not tell apart.
Repeated(op, parts) ==
  LET named(n) == op.params[SelectLastInSeq(op.params, LAMBDA p : p.in = "formData" /\ p.name = n)]
  IN  FoldLeft(LAMBDA kept, q :
                 IF named(q[1]).type = "file" THEN kept
                 ELSE Append(kept, IF named(q[1]).password THEN <<q[1], Masked>> ELSE q),
               <<>>, parts)

\* asCurl executes once more without sending, with the type of the answer as
\* the one to accept and passwords masked, and applies the authorizations to the
\* result again.
asCurl(op, args, answered) ==
  LET r == apply(execute(op, args, Opts(answered, None, FALSE, TRUE)), op.security) IN
    IF r.body.kind # "multipart" THEN r
    ELSE [r EXCEPT !.body.parts = Repeated(op, @)]

=============================================================================
