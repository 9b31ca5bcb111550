------------------------------ MODULE HttpClient ------------------------------
(***************************************************************************)
(* How the console of webapp/swagger-ui.js sends a request and hears of    *)
(* its end: SwaggerHttp with its two clients, one on superagent and one on *)
(* jQuery.  A request may be answered, fail, or time out; its callback     *)
(* gets a status and what was received.                                    *)
(*                                                                         *)
(* An answer is a record [code, type] of a status and the media type of    *)
(* what it contains; 0 is the status of a request that got none.  The      *)
(* browser runs a handler to its end.                                      *)
(***************************************************************************)
EXTENDS Callbacks

CONSTANTS Request,     \* requests
          Answers,     \* answers there can be
          None

Codes == 100..599 \cup {1223}
\* "located" has a Location, and is of no type that is shown in a way of its own.
Types == {"none", "json", "badJson", "xml", "text", "image", "octet", "located"}

VARIABLES xhr,      \* of each request: "unsent", "open", "done" or "aborted"
          via,      \* of each request: the client
          binary,   \* of each request: is a blob to be received?
          timer     \* of each request: may it time out?

httpVars == <<xhr, via, binary, timer, calls>>

Init ==
  /\ xhr = [r \in Request |-> "unsent"]
  /\ via = [r \in Request |-> None]
  /\ binary = [r \in Request |-> FALSE]
  /\ timer = [r \in Request |-> FALSE]
  /\ calls = [r \in Request |-> 0]

binaryRequest(accept) == accept \in {"image", "octet"}

\* superagent sends a string as a form when no type is given, and leaves the
\* type of a multipart body to the browser; so does jQuery.
ContentType(given, body) ==
  IF body = "multipart" THEN "multipart"
  ELSE IF given = None /\ body # "none" THEN "form" ELSE given

\* SwaggerHttp takes the client on jQuery if it is told to, and for OPTIONS.
UsesJQuery(method, asked) == asked \/ method = "options"

\* The timer starts before the request is opened and sent.
send(r, asBlob, timeout) ==
  /\ xhr[r] = "unsent"
  /\ timer' = [timer EXCEPT ![r] = timeout]
  /\ binary' = [binary EXCEPT ![r] = asBlob]
  /\ xhr' = [xhr EXCEPT ![r] = "open"]

\* Of superagent a blob is asked when the request starts, of jQuery never.
execute(r, method, useJQuery, accept, timeout) ==
  LET jquery == UsesJQuery(method, useJQuery) IN
    /\ send(r, ~ jquery /\ binaryRequest(accept), timeout)
    /\ via' = [via EXCEPT ![r] = IF jquery THEN "jquery" ELSE "superagent"]
    /\ UNCHANGED calls

-----------------------------------------------------------------------------
(* What the callback gets *)

\* The class of a status, of which 1223 is what some browsers make of 204.
_setStatusProperties(code) ==
  LET status == IF code = 1223 THEN 204 ELSE code IN
    [status |-> status, ok |-> status \div 100 = 2]

\* A body of JSON is parsed by its type; what cannot be parsed is an exception.
_parseBody(type) ==
  CASE type = "json" -> "object" [] type = "badJson" -> "throws" [] OTHER -> "none"

NoResponse == [status |-> 0, type |-> "none", blob |-> FALSE, outcome |-> "error"]

\* superagent calls whatever is not a success an error, and what cannot be parsed
\* an error without response.
Superagent(r, a) ==
  LET properties == _setStatusProperties(a.code) IN
    IF _parseBody(a.type) = "throws" THEN NoResponse
    ELSE [status |-> properties.status, type |-> a.type, blob |-> binary[r],
          outcome |-> IF properties.ok THEN "response" ELSE "error"]

\* The client on jQuery calls only some an error, and parses what it can.  Of the
\* others those from 400 on are an error for SwaggerHttp.
JQuery(a) ==
  [status |-> a.code, type |-> a.type, blob |-> FALSE,
   outcome |-> IF a.code >= 400 THEN "error" ELSE "response"]

Received(r, a) == IF via[r] = "superagent" THEN Superagent(r, a) ELSE JQuery(a)

\* A blob cannot be parsed either, and there the handler of the exception reads
\* responseText, which is an exception itself: the callback is not called.
Dies(r, a) == binary[r] /\ _parseBody(a.type) # "none"

\* Mutant: an exception of the callback is caught, and is an error to call back.
CalledAgain(throws) == IF throws THEN 2 ELSE 1

\* The callback is not called again when it throws.
Called(throws) == 1

clearTimeout(r) == timer' = [timer EXCEPT ![r] = FALSE]

callback(r, throws) ==
  /\ clearTimeout(r)
  /\ calls' = [calls EXCEPT ![r] = @ + Called(throws)]

-----------------------------------------------------------------------------
(* The end of a request *)

\* onreadystatechange, "end" and complete with an answer.
end(r, a, throws) ==
  /\ xhr[r] = "open"
  /\ xhr' = [xhr EXCEPT ![r] = "done"]
  /\ IF Dies(r, a) THEN UNCHANGED <<timer, calls>> ELSE callback(r, throws)
  /\ UNCHANGED <<via, binary>>

\* Status 0: the network fails.
crossDomainError(r) ==
  /\ xhr[r] = "open"
  /\ xhr' = [xhr EXCEPT ![r] = "done"]
  /\ callback(r, FALSE)
  /\ UNCHANGED <<via, binary>>

\* Mutant: that it was aborted is asked before whether it timed out.
abortSilent(r) == clearTimeout(r) /\ UNCHANGED calls

_timeoutError(r) == callback(r, FALSE)

\* onreadystatechange of a request that is aborted asks first whether it timed
\* out, and calls back with that error.
abort(r) == _timeoutError(r)

\* The timer, which is forgotten if the handler of an answer died: a request
\* that is over can be aborted, but nothing hears of it.
timeout(r) ==
  /\ timer[r]
  /\ IF xhr[r] = "open"
       THEN xhr' = [xhr EXCEPT ![r] = "aborted"] /\ abort(r)
       ELSE clearTimeout(r) /\ UNCHANGED <<xhr, calls>>
  /\ UNCHANGED <<via, binary>>

\* The request is over, as an answer, a failure and the timer leave it.
Over(r) == xhr[r] = "open" /\ \E x \in {"done", "aborted"} : xhr' = [xhr EXCEPT ![r] = x]

=============================================================================
