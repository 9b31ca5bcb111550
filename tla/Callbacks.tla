------------------------------- MODULE Callbacks -------------------------------
(***************************************************************************)
(* What the callers of SwaggerHttp (webapp/swagger-ui.js) notice of it:    *)
(* its callbacks, which HttpClient calls and OperationView is given.       *)
(***************************************************************************)
EXTENDS Naturals

VARIABLE calls  \* of each request: how often its callback was called

\* Whatever ends a request, an answer, a failure or the timer, it is heard of
\* at most once, even if the one who hears of it throws.
HeardOnce == \A r \in DOMAIN calls : calls[r] <= 1

=============================================================================
