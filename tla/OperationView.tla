----------------------------- MODULE OperationView -----------------------------
(***************************************************************************)
(* An operation on the page of the console (OperationView and the views    *)
(* inside it, webapp/swagger-ui.js): its form is filled in and submitted,  *)
(* again while earlier submissions are under way, and what is received is  *)
(* shown, with the curl command that would repeat the request.             *)
(*                                                                         *)
(* OperationRequest makes requests of entries, HttpClient sends them.  The *)
(* authorizations do not change while the view is on the page: a change    *)
(* loads a new page (Console).                                             *)
(***************************************************************************)
EXTENDS Callbacks, Sequences, SequencesExt

CONSTANTS Ops,             \* operations
          MaxSubmissions,  \* bound on what is sent
          Submitted,       \* methods that the page submits
          Answers,         \* see HttpClient
          Authz, OptionNames, None  \* see OperationRequest

Submission == 1..MaxSubmissions

VARIABLES op,          \* the operation
          timeouts,    \* is a timeout configured?
          fields,      \* of each parameter: what is in its field
          requestType, responseType, \* what is selected beside them
          marked,      \* parameters whose field is marked as missing
          map,         \* this.map
          count,       \* submissions sent
          throbber,    \* is it shown?
          shown,       \* [of, status, as, curl]: what is shown of a response
          left,        \* has the browser left the page?
          sent,        \* history: the request of each submission
          entered,     \* history: the fields of each submission
          args,        \* history: the map of each submission
          pictures,    \* history: submissions answered with an image
          heard,       \* history: submissions whose end was shown
          xhr, via, binary, timer  \* see HttpClient

request == INSTANCE OperationRequest
http == INSTANCE HttpClient WITH Request <- Submission

ASSUME AnswersAssumption == Answers \subseteq [code : http!Codes, type : http!Types]

httpVars == <<xhr, via, binary, timer, calls>>
formVars == <<fields, requestType, responseType, marked>>
sentVars == <<map, count, sent, entered, args>>
responseVars == <<throbber, shown, left, pictures, heard>>
vars == <<op, timeouts, formVars, sentVars, responseVars, httpVars>>

\* isReadOnly: the methods that the page does not submit have no button.
isReadOnly == op.method \notin Submitted

Values(i) == request!Enterable(op.params[i])

\* render: the fields with their defaults, and the first of the types selected.
Init ==
  /\ op \in Ops
  /\ timeouts \in BOOLEAN
  /\ fields = [i \in DOMAIN op.params |-> request!Initially(op.params[i])]
  /\ requestType = (IF request!BodyParams(op) # {} THEN op.consumes[1] ELSE None)
  /\ responseType = (IF op.typed THEN op.produces[1] ELSE None)
  /\ marked = {}
  /\ map = None
  /\ count = 0
  /\ throbber = FALSE /\ left = FALSE
  /\ shown = [of |-> None, status |-> None, as |-> None, curl |-> None]
  /\ sent = [s \in Submission |-> None]
  /\ entered = [s \in Submission |-> None]
  /\ args = [s \in Submission |-> None]
  /\ pictures = {}
  /\ heard = {}
  /\ http!Init

-----------------------------------------------------------------------------
(* The form *)

\* Nothing is entered where the template has only text.
Enter(i, v) ==
  /\ request!template(op.params[i], isReadOnly) \in {"input", "textarea", "select"}
  /\ fields' = [fields EXCEPT ![i] = v]
  /\ UNCHANGED <<requestType, responseType, marked>>

\* Which of the two samples is beside the field.
toggleSnippet(type) == IF type = "xml" THEN <<"<sample/>">> ELSE <<"{sample}">>

\* A click on the sample of a body puts it into the text area, if that is empty.
snippetToTextArea(i) ==
  /\ op.params[i].in = "body"
  /\ ~ request!IsList(op.params[i])
  /\ fields[i] = <<>>
  /\ Enter(i, toggleSnippet(requestType))

Select(requests, responses) ==
  /\ requestType' = requests
  /\ responseType' = responses
  /\ UNCHANGED <<fields, marked>>

Edit ==
  /\ \/ \E i \in DOMAIN op.params :
          \/ \E v \in Values(i) : Enter(i, v)
          \/ snippetToTextArea(i)
     \/ \E q \in request!ContentTypes(op), r \in request!ResponseTypes(op) : Select(q, r)
  /\ UNCHANGED <<op, timeouts, sentVars, responseVars, httpVars>>

-----------------------------------------------------------------------------
(* What is received *)

\* A string makes no image, and a blob no XML.
Throws(received) ==
  \/ received.type = "image" /\ ~ received.blob
  \/ received.type = "xml" /\ received.blob

\* What is made of the content: JSON that cannot be parsed is shown as it is, and
\* with a Location there is nothing to show.
Presented(type) ==
  CASE type = "none" -> "no content"
    [] type = "octet" -> "download"
    [] type = "badJson" -> "raw"
    [] type = "located" -> None
    [] OTHER -> type

\* asCurl takes the last map, of whichever submission, and throws if there was
\* something missing in it; the command that was there stays.
Curl(answered) ==
  IF request!getMissingParams(op, map) # {} THEN shown.curl
  ELSE request!asCurl(op, map, answered)

\* The content type of an answer, for asCurl.
AnsweredType(type) ==
  IF type \in {"none", "located"} THEN None ELSE IF type = "badJson" THEN "json" ELSE type

\* showCompleteStatus and showErrorStatus both end in showStatus.
HidesThrobber(received) == throbber' = FALSE

\* showStatus: unless it throws early, it shows the response and hides the
\* throbber, although another submission may be under way; a Location leaves
\* the page for the address of the request.
showStatus(s, received) ==
  IF Throws(received) THEN UNCHANGED <<throbber, shown, left, heard>>
  ELSE /\ HidesThrobber(received)
       /\ shown' = [of |-> s, status |-> received.status, as |-> Presented(received.type),
                    curl |-> Curl(AnsweredType(received.type))]
       /\ left' = (received.type = "located")
       /\ heard' = heard \cup {s}

Answer(s, a) ==
  LET received == http!Received(s, a)
      throws == Throws(received) \/ request!getMissingParams(op, map) # {}
  IN  /\ http!end(s, a, throws)
      /\ pictures' = IF a.type = "image" THEN pictures \cup {s} ELSE pictures
      /\ IF http!Dies(s, a) THEN UNCHANGED <<throbber, shown, left, heard>>
         ELSE showStatus(s, received)
      /\ UNCHANGED <<op, timeouts, formVars, sentVars>>

\* The request fails, or times out while it is under way.
Fails(s) ==
  /\ xhr[s] = "open"
  /\ http!crossDomainError(s) \/ http!timeout(s)
  /\ IF calls'[s] > calls[s]
       THEN showStatus(s, http!NoResponse) ELSE UNCHANGED <<throbber, shown, left, heard>>
  /\ UNCHANGED <<op, timeouts, formVars, sentVars, pictures>>

\* The timer of a request that is over.
Late(s) ==
  /\ xhr[s] # "open" /\ http!timeout(s)
  /\ UNCHANGED <<op, timeouts, formVars, sentVars, responseVars>>

-----------------------------------------------------------------------------
(* Submitting *)

\* What is missing is marked, and what was marked before no more.
Refused ==
  /\ request!Unfilled(op, fields) # {}
  /\ marked' = request!Unfilled(op, fields)
  /\ UNCHANGED <<op, timeouts, fields, requestType, responseType, sentVars,
                 responseVars, httpVars>>

\* A required select with an empty value gets past the marks; the operation
\* calls its error callback at once, with a message in place of a response.
Missing ==
  /\ request!getMissingParams(op, map') # {}
  /\ throbber' = FALSE
  /\ shown' = [shown EXCEPT !.of = None, !.status = None, !.as = Presented("none")]
  /\ UNCHANGED <<count, sent, entered, args, left, pictures, heard, httpVars>>

Accept(r) == request!Header(r.headers, "Accept")

Sent ==
  LET s == count + 1 IN
    /\ s \in Submission
    /\ request!getMissingParams(op, map') = {}
    /\ throbber' = TRUE
    /\ count' = s
    /\ sent' = [sent EXCEPT ![s] =
                 request!execute(op, map', request!Opts(responseType, requestType, TRUE, FALSE))]
    /\ entered' = [entered EXCEPT ![s] = fields]
    /\ args' = [args EXCEPT ![s] = map']
    /\ http!execute(s, op.method, request!isFileUpload(op), Accept(sent'[s]), timeouts)
    /\ UNCHANGED <<shown, left, pictures, heard>>

\* A click on "Try it out!": the button is there for the methods that the page is
\* configured to submit.
submitOperation ==
  /\ ~ isReadOnly
  /\ \/ Refused
     \/ /\ request!Unfilled(op, fields) = {}
        /\ marked' = {}
        /\ map' = request!Args(op, request!getInputMap(op, fields, requestType))
        /\ Missing \/ Sent
        /\ UNCHANGED <<op, timeouts, fields, requestType, responseType>>

-----------------------------------------------------------------------------
Ends(s) == (\E a \in Answers : Answer(s, a)) \/ Fails(s)

Next ==
  /\ ~ left
  /\ \/ Edit \/ submitOperation
     \/ \E s \in Submission : Ends(s) \/ Late(s)

\* Every request ends some time, if only by the browser's own timeout.  (A step
\* that ends s is one of Ends(s), which is enabled while s is open.)
Fairness == \A s \in Submission : WF_xhr(~ left /\ http!Over(s))

Spec == Init /\ [][Next]_vars /\ Fairness

-----------------------------------------------------------------------------
(* Properties *)

Separators == {",", "%20", "%09", "|", "%2C", "%0A", ""}

\* What a request has of a parameter, without the separators.
In(r, p) ==
  LET pairs == CASE p.in = "path" -> SetToSeq(r.path)
                 [] p.in = "query" -> r.query
                 [] p.in = "header" -> SetToSeq(r.headers)
                 [] p.in \in {"formData", "body"} -> r.body.parts
      own(q) == p.in = "body" \/ q[1] \in {p.name, p.name \o "[]"}
      kept == SelectSeq(pairs, own)
  IN  SelectSeq(FlattenSeq([j \in DOMAIN kept |-> kept[j][2]]),
                LAMBDA v : v \notin Separators)

\* Parameters share a name, or have that of an option or of a header that the
\* page chooses: these do not always get what was entered.  Nor does a list of a
\* multipart form that is written with a name for each of its values.
OnItsOwn(i) ==
  LET p == op.params[i] IN
    /\ \A j \in DOMAIN op.params : op.params[j].name = p.name => j = i
    /\ p.in = "header" => p.name \notin OptionNames \cup {"Accept", "Content-Type"}
    /\ ~ (request!IsArray(p) /\ p.in = "formData" /\ p.format \in {None, "brackets"}
            /\ request!isFileUpload(op))

Supplied == {Authz[i].value : i \in DOMAIN Authz} \cup {<<"{}">>, <<>>}

\* A scheme that the document offers, and not http from https if it offers both.
SchemeOffered(scheme) ==
  LET offered == ToSet(op.parent.schemes) IN
    offered \cap {"http", "https"} # {} =>
      /\ scheme \in offered \cup (IF op.parent.page.scheme = "chrome-extension"
                                    THEN {op.parent.url.scheme} ELSE {})
      /\ op.parent.page.scheme = "https" /\ "https" \in offered => scheme = "https"

\* A request has what was entered when it was submitted: the values of a list in
\* their order, each value once and where its parameter says; an authorization
\* never takes the place of an entered value, and nothing of an earlier
\* submission is left.  It goes to an address that the document offers.
EnteredIsSent ==
  /\ \A s \in 1..count, i \in DOMAIN op.params : OnItsOwn(i) =>
       LET values == In(sent[s], op.params[i]) IN
         IF request!Blank(entered[s][i]) THEN values \in Supplied
         ELSE values = SelectSeq(entered[s][i], LAMBDA v : v # "")
  /\ \A s \in 1..count : SchemeOffered(sent[s].address.scheme)

\* A form is declared as what it is encoded as, and a file is a part of a
\* multipart body.
FormsDeclared ==
  \A s \in 1..count :
    LET body == sent[s].body
        type == http!ContentType(request!Header(sent[s].headers, "Content-Type"), body.kind)
    IN  /\ body.kind \in {"urlencoded", "multipart"} =>
             type = (IF body.kind = "urlencoded" THEN "form" ELSE "multipart")
        /\ \A i \in DOMAIN op.params :
             op.params[i].type = "file" /\ ~ request!Blank(entered[s][i])
               => body.kind = "multipart"

\* Pairs of names and values with those of passwords hidden, and of what is declared
\* after one.
Hidden(pairs, in) ==
  LET passwords == {i \in DOMAIN op.params : op.params[i].password}
      names == {op.params[i].name : i \in {j \in DOMAIN op.params :
                  op.params[j].in = in /\ \E k \in passwords : k <= j}}
      hidden(q) == \E n \in names : q[1] \in {n, n \o "[]"}
  IN  [j \in DOMAIN pairs |->
         IF hidden(pairs[j]) THEN <<pairs[j][1], request!Masked>> ELSE pairs[j]]

\* Of a request, what the curl command is to repeat: neither the header that says
\* what to accept nor a file, and passwords without their values.
Repeated(r) ==
  LET files == {p.name : p \in {q \in ToSet(op.params) : q.type = "file"}} IN
    [r EXCEPT !.headers = {h \in @ : h[1] \notin OptionNames \cup {"Accept"}},
              !.path = ToSet(Hidden(SetToSeq(@), "path")),
              !.query = Hidden(@, "query"),
              !.body.parts = Hidden(SelectSeq(@, LAMBDA q : q[1] \notin files), "formData")]

\* Does a request show a password that was entered, in its query or form?
ShowsPassword(r, given) ==
  \E p \in ToSet(op.params) :
    /\ p.password /\ given[p.name] # None
    /\ \/ p.in = "query" /\ \E q \in ToSet(r.query) : q[1] = p.name /\ q[2] # request!Masked
       \/ p.in = "formData" /\ \E q \in ToSet(r.body.parts) : q[1] = p.name /\ q[2] # request!Masked

\* When a response is shown while the map is that of its submission, the
\* command beside it repeats the request, each authorization applied once, and
\* without the passwords that were entered.  (Of parameters declared after a
\* password it may have the mask as well.)
CurlRepeats ==
  [][\A s \in Submission :
       shown' # shown /\ shown'.of = s /\ map = args[s] =>
         /\ Repeated(shown'.curl) = Repeated(sent[s])
         /\ ~ ShowsPassword(shown'.curl, map)]_vars

\* An answer in text to a request that asked for text is shown in the end, and
\* so are failures and timeouts, whatever else is submitted meanwhile.
AnswersShown ==
  \A s \in Submission :
    xhr[s] = "open" ~> s \in heard \/ s \in pictures \/ binary[s] \/ left

=============================================================================
