--------------------------- MODULE ControllerCalls ---------------------------
(***************************************************************************)
(* Signed requests to the controller: keepalive::send with execute_once    *)
(* (src/src/managed/keepalive.rs) and controller::fetch                    *)
(* (src/src/managed/controller.rs), the signature over them                *)
(* (src/src/managed/security.rs) and UreqTransport                         *)
(* (src/src/managed/http.rs).  Telemetry belongs to the application, so    *)
(* calls of several threads overlap.                                       *)
(*                                                                         *)
(* A body is serialized once for a call and stays the same; what a         *)
(* signature adds is its nonce.  The controller is external: it refuses a  *)
(* nonce it has seen and may revoke the bearer token.  Requests and        *)
(* answers can be lost, which the timeouts turn into errors.               *)
(***************************************************************************)
EXTENDS Integers

CONSTANTS
    Requests,   \* calls, each with a body of its own
    Keepalives  \* those of keepalive::send; the others are controller::fetch

ASSUME ControllerCallsAssumption == Keepalives \subseteq Requests

VARIABLES
    request,   \* call -> where it is, attempts made, the last nonce, its answer
               \* on the way, and the result
    drawn,     \* nonces drawn
    seen,      \* the controller's: nonces
    applied,   \* the controller's: call -> how often its body was acted on
    valid,     \* the controller's: the bearer token is accepted
    told       \* history: calls that were answered 401

controllerVars == <<seen, applied, valid>>
requestVars == <<request, drawn, controllerVars, told>>

\* The answers are those the handlers tell apart.
Unsent == [at |-> "new", attempt |-> 0, nonce |-> 0, answer |-> "none", result |-> "none"]
Answers == {"document", "garbled", "failed"}

AttemptsOf(c) == IF c \in Keepalives THEN 2 ELSE 1

-----------------------------------------------------------------------------

\* Mutant: a retry sends the headers of the first attempt again.
NonceFirst(c) == IF request[c].attempt = 0 THEN drawn + 1 ELSE request[c].nonce

\* random_nonce, for every signature.
NonceOf(c) == drawn + 1

\* fetch refuses empty IDs and an endpoint that is not HTTPS before it signs.
RefuseArguments(c) ==
    /\ request[c].at = "new" /\ c \notin Keepalives
    /\ request' = [request EXCEPT ![c] = [@ EXCEPT !.at = "done", !.result = "invalid"]]
    /\ UNCHANGED <<drawn, controllerVars, told>>

\* execute_once up to the request: timestamp, nonce and signature.
SendRequest(c) ==
    /\ request[c].at = "new"
    /\ request' = [request EXCEPT ![c] = [@ EXCEPT !.at = "sent", !.attempt = request[c].attempt + 1,
                                                   !.nonce = NonceOf(c), !.answer = "none"]]
    /\ drawn' = drawn + 1
    /\ UNCHANGED <<controllerVars, told>>

\* The loop of send, and fetch with its single attempt: the last error is the
\* result.
TryFails(c, error) ==
    request' = [request EXCEPT ![c] =
                  IF @.attempt < AttemptsOf(c) THEN [@ EXCEPT !.at = "new"]
                  ELSE [@ EXCEPT !.at = "done", !.result = error]]

\* The transport's error: no connection, a lost request or answer, a timeout,
\* or a clock before the epoch.
TransportFails(c) ==
    /\ request[c].at = "sent"
    /\ TryFails(c, "transport")
    /\ UNCHANGED <<drawn, controllerVars, told>>

\* The controller acts on a request it takes for new; its answer, or whatever
\* a proxy makes of it, is on the way.
ControllerReceives(c) ==
    /\ request[c].at = "sent" /\ request[c].answer = "none"
    /\ IF request[c].nonce \in seen \/ ~ valid
         THEN /\ request' = [request EXCEPT ![c].answer = "refused"]
              /\ UNCHANGED applied
         ELSE /\ \E a \in Answers : request' = [request EXCEPT ![c].answer = a]
              /\ applied' = [applied EXCEPT ![c] = @ + 1]
    /\ seen' = seen \cup {request[c].nonce}
    /\ UNCHANGED <<drawn, valid, told>>

Revoke == valid /\ valid' = FALSE /\ UNCHANGED <<request, drawn, seen, applied, told>>

\* Mutant: 401 is one more status to try again.
FinalNever(answer) == answer = "document"

\* The answers that end the call at once: a document, and 401.
Final(answer) == answer \in {"document", "refused"}

HandleAnswer(c) ==
    /\ request[c].at = "sent" /\ request[c].answer # "none"
    /\ IF Final(request[c].answer)
         THEN request' = [request EXCEPT ![c] = [@ EXCEPT !.at = "done",
                                                             !.result = request[c].answer]]
         ELSE TryFails(c, request[c].answer)
    /\ told' = IF request[c].answer = "refused" THEN told \cup {c} ELSE told
    /\ UNCHANGED <<drawn, controllerVars>>

-----------------------------------------------------------------------------

RequestsInit ==
    /\ request = [c \in Requests |-> Unsent] /\ drawn = 0
    /\ seen = {} /\ applied = [c \in Requests |-> 0] /\ valid \in BOOLEAN /\ told = {}

RequestsDone == (\A c \in Requests : request[c].at = "done") /\ UNCHANGED requestVars

RequestsNext ==
    \/ \E c \in Requests : \/ RefuseArguments(c) \/ SendRequest(c) \/ TransportFails(c)
                           \/ ControllerReceives(c) \/ HandleAnswer(c)
    \/ Revoke
    \/ RequestsDone

RequestsSpec == RequestsInit /\ [][RequestsNext]_requestVars

-----------------------------------------------------------------------------

\* A retry is never taken for a replay, and nothing is sent after a 401 ("HTTP
\* 401 is terminal; a retry receives a fresh timestamp, nonce, and signature
\* over the same serialized body", docs/MANAGED_CONNECTIONS.md): a call is
\* refused only if the token was revoked, returns the refusal if it got one and
\* a document only if the controller acted on it, which it does at most once
\* per attempt.
RequestsSound ==
    \A c \in Requests :
        /\ c \in told => request[c].result = "refused" /\ ~ valid
        /\ request[c].result = "document" => applied[c] > 0
        /\ applied[c] <= request[c].attempt /\ request[c].attempt <= AttemptsOf(c)
        /\ request[c].at = "done" /\ request[c].attempt < AttemptsOf(c)
               => request[c].result \in {"document", "refused", "invalid"}

=============================================================================
