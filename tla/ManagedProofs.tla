---------------------------- MODULE ManagedProofs ----------------------------
(***************************************************************************)
(* What a managed connection relies on before it has a line, for every     *)
(* number of processes, domains, calls, tokens, files and faults: the      *)
(* gates of a login, the signed requests, the session saved by a sign-in,  *)
(* the cache of looked-up domains, the file with the profiles, and the     *)
(* runtime IDs and the order in which lines are tried.                     *)
(***************************************************************************)
EXTENDS LookupCache, ManagedLogin, ControllerCalls, OidcLogin, StateFile, LineSelection,
        SumLemmas, WellFoundedInduction, TLAPS

-----------------------------------------------------------------------------
(* DomainClient: discovery and login. *)

LoginPlaces == {"discover", "call", "binding", "posture", "line", "credentials", "probe",
                "prepared", "refused"}

LoginTypes ==
    /\ login \in LoginPlaces
    /\ wants \in {"password", "oidc"} /\ method \in {"none", "credential", "oidc"}
    /\ answered \in {"none", "credential", "oidc"}
    /\ bound \in BOOLEAN /\ cached \in BOOLEAN
    /\ posture \in Postures

\* What is settled when a login has come as far as it has: the method is the
\* one answered and the one called, the device is not blocked, the posture was
\* evaluated.
LoginFollows ==
    /\ login = "discover" => answered = "none"
    /\ answered = "oidc" => method = "oidc"
    /\ login \in {"binding", "posture", "line", "credentials", "probe", "prepared"} => Matches
    /\ login \in {"posture", "line", "credentials", "probe", "prepared"} => ~ bound
    /\ login \in {"line", "credentials", "probe", "prepared"} /\ wants = "oidc" /\ PostureAsked =>
          verdict = "allow"
    /\ line # "none" =>
          /\ login \in {"credentials", "probe", "prepared", "refused"}
          /\ Matches /\ ~ bound
          /\ wants = "oidc" /\ PostureAsked => verdict = "allow"

\* The probe session is open only between its two steps.
ProbeFollows ==
    /\ probe \in {"none", "open", "closed"}
    /\ login \notin {"probe", "prepared", "refused"} => probe = "none"
    /\ login = "probe" => probe \in {"none", "open"} /\ wants = "password"
    /\ login \in {"prepared", "refused"} => probe # "open"
    /\ login = "prepared" /\ wants = "password" => probe = "closed"

LoginInv == LoginTypes /\ LoginFollows /\ ProbeFollows

\* The gates stand whatever the controller answers, in which order requests
\* fail and are tried again, and wherever a login returns early.
THEOREM GatesAlwaysPassed == LoginSpec => []GatesPassed
<1>1. LoginInit => LoginInv
  BY DEF LoginInit, LoginInv, LoginTypes, LoginPlaces, Postures, LoginFollows, ProbeFollows
<1>2. LoginInv /\ [LoginNext]_loginVars => LoginInv'
  <2> SUFFICES ASSUME LoginInv, [LoginNext]_loginVars PROVE LoginInv'
    OBVIOUS
  <2> USE DEF LoginInv, LoginTypes, LoginPlaces, LoginFollows, ProbeFollows, Matches,
              PostureAsked, domainVars, discoverVars, configVars
  <2>1. CASE NoController \/ AuthAnswers \/ AuthFails \/ AuthRefused
    BY <2>1 DEF NoController, AuthAnswers, AuthFails, AuthRefused
  <2>2. CASE WrongMethod \/ LoginFails
    BY <2>2 DEF WrongMethod, LoginFails
  <2>3. CASE FetchConfiguration
    BY <2>3 DEF FetchConfiguration
  <2>4. CASE EnforceDeviceBinding
    BY <2>4 DEF EnforceDeviceBinding
  <2>5. CASE PostureGate
    BY <2>5 DEF PostureGate, Postures
  <2>6. CASE SelectLine \/ CredentialsForIngress
    BY <2>6 DEF SelectLine, CredentialsForIngress
  <2>7. CASE OpenProbe \/ CloseProbe
    BY <2>7 DEF OpenProbe, CloseProbe
  <2>8. CASE UNCHANGED loginVars
    BY <2>8 DEF loginVars
  <2>9. QED
    BY <2>1, <2>2, <2>3, <2>4, <2>5, <2>6, <2>7, <2>8 DEF LoginNext, LoginEnded
<1>3. LoginInv => GatesPassed
  BY DEF LoginInv, LoginTypes, LoginFollows, ProbeFollows, Matches, PostureAsked, GatesPassed
<1>4. QED
  BY <1>1, <1>2, <1>3, PTL DEF LoginSpec

-----------------------------------------------------------------------------
(* Signed requests. *)

CallStates ==
    [at : {"new", "sent", "done"}, attempt : Nat, nonce : Nat,
     answer : {"none", "refused"} \cup Answers,
     result : {"none", "invalid", "transport", "refused"} \cup Answers]

RequestTypes ==
    /\ request \in [Requests -> CallStates]
    /\ drawn \in Nat /\ seen \subseteq Nat /\ applied \in [Requests -> Nat]
    /\ valid \in BOOLEAN /\ told \subseteq Requests

\* Nonces are drawn once, so the controller has not seen one whose request it
\* has not answered.
NoncesFresh ==
    /\ \A n \in seen : n <= drawn
    /\ \A c \in Requests :
          /\ request[c].nonce <= drawn
          /\ request[c].at = "sent" => request[c].nonce # 0
          /\ request[c].at = "sent" /\ request[c].answer = "none" =>
                request[c].nonce \notin seen
          /\ \A d \in Requests : c # d /\ request[c].nonce = request[d].nonce =>
                request[c].nonce = 0

\* Where a call is, how often it was sent and what it was told.
CallsAccounted ==
    \A c \in Requests :
        /\ request[c].at = "new" => request[c].attempt < AttemptsOf(c)
        /\ request[c].attempt <= AttemptsOf(c)
        /\ applied[c] <= request[c].attempt
        /\ request[c].at = "sent" /\ request[c].answer = "none" =>
              applied[c] < request[c].attempt
        /\ request[c].at = "sent" /\ request[c].answer = "refused" => ~ valid
        /\ request[c].at = "sent" /\ request[c].answer = "document" => applied[c] > 0
        /\ request[c].at # "done" => request[c].result = "none"
        /\ c \in told => request[c].at = "done" /\ request[c].result = "refused" /\ ~ valid
        /\ request[c].result = "document" => applied[c] > 0
        /\ request[c].at = "done" /\ request[c].attempt < AttemptsOf(c) =>
              request[c].result \in {"document", "refused", "invalid"}

RequestInv == RequestTypes /\ NoncesFresh /\ CallsAccounted

\* No call was sent at first.
LEMMA RequestsStart == RequestsInit => RequestInv
BY DEF RequestsInit, Unsent, RequestInv, RequestTypes, CallStates, NoncesFresh,
       CallsAccounted, AttemptsOf

\* A call's new state leaves the other calls alone.
LEMMA OneCall ==
    ASSUME RequestInv, NEW c \in Requests, NEW r \in CallStates,
           request' = [request EXCEPT ![c] = r]
    PROVE  /\ request' \in [Requests -> CallStates] /\ request'[c] = r
           /\ \A d \in Requests : d # c => request'[d] = request[d]
BY DEF RequestInv, RequestTypes

\* A call that is tried again or ends, with what may be known of its result.
LEMMA CallMoves ==
    ASSUME RequestInv, NEW c \in Requests, NEW r \in CallStates,
           request' = [request EXCEPT ![c] = r], UNCHANGED <<drawn, controllerVars>>,
           told' = told \/ (told' = told \cup {c} /\ r.at = "done" /\ r.result = "refused" /\ ~ valid),
           c \in told => r.at = "done" /\ r.result = "refused",
           r.nonce = request[c].nonce, r.attempt = request[c].attempt,
           \/ r.at = "new" /\ r.attempt < AttemptsOf(c) /\ r.result = "none"
           \/ /\ r.at = "done"
              /\ r.result = "document" => applied[c] > 0
              /\ r.attempt < AttemptsOf(c) => r.result \in {"document", "refused", "invalid"}
    PROVE  RequestInv'
<1>1. /\ request' \in [Requests -> CallStates] /\ request'[c] = r
      /\ \A d \in Requests : d # c => request'[d] = request[d]
  BY OneCall
<1> USE DEF controllerVars
<1>2. RequestTypes'
  BY <1>1 DEF RequestInv, RequestTypes
<1>3. NoncesFresh'
  BY <1>1 DEF RequestInv, NoncesFresh
<1>4. ASSUME NEW d \in Requests, d # c
      PROVE  (d \in told' <=> d \in told) /\ request'[d] = request[d]
  BY <1>1, <1>4
<1>5. CallsAccounted'
  BY <1>1, <1>4 DEF RequestInv, CallsAccounted
<1>6. QED
  BY <1>2, <1>3, <1>5 DEF RequestInv

\* An attempt that failed.
LEMMA TryFailsKeeps ==
    ASSUME RequestInv, NEW c \in Requests, request[c].at = "sent",
           NEW error \in {"transport", "garbled", "failed"},
           TryFails(c, error), UNCHANGED <<drawn, controllerVars, told>>
    PROVE  RequestInv'
<1>1. request[c] \in CallStates /\ request \in [Requests -> CallStates]
  BY DEF RequestInv, RequestTypes
<1>2. /\ request[c].result = "none" /\ c \notin told /\ request[c].attempt <= AttemptsOf(c)
      /\ AttemptsOf(c) \in Nat
  BY DEF RequestInv, CallsAccounted, AttemptsOf
<1>3. CASE request[c].attempt < AttemptsOf(c)
  <2> PICK r : r = [request[c] EXCEPT !.at = "new"]
    OBVIOUS
  <2>1. /\ r \in CallStates /\ r.at = "new" /\ r.result = "none"
        /\ r.nonce = request[c].nonce /\ r.attempt = request[c].attempt
    BY <1>1, <1>2 DEF CallStates
  <2>2. request' = [request EXCEPT ![c] = r]
    BY <1>1, <1>3 DEF TryFails
  <2>3. QED
    BY <1>2, <1>3, <2>1, <2>2, CallMoves
<1>4. CASE ~ (request[c].attempt < AttemptsOf(c))
  <2> PICK r : r = [request[c] EXCEPT !.at = "done", !.result = error]
    OBVIOUS
  <2>1. /\ r \in CallStates /\ r.at = "done" /\ r.result = error
        /\ r.nonce = request[c].nonce /\ r.attempt = request[c].attempt
    BY <1>1 DEF CallStates, Answers
  <2>2. request' = [request EXCEPT ![c] = r]
    BY <1>1, <1>4 DEF TryFails
  <2>3. QED
    BY <1>2, <1>4, <2>1, <2>2, CallMoves
<1>5. QED
  BY <1>3, <1>4

\* Every step of a call and of the controller keeps it.
LEMMA RequestsKeep == ASSUME RequestInv, [RequestsNext]_requestVars PROVE RequestInv'
<1> USE DEF controllerVars
<1>0. RequestTypes /\ NoncesFresh /\ CallsAccounted
  BY DEF RequestInv
<1>1. ASSUME NEW c \in Requests, RefuseArguments(c) PROVE RequestInv'
  <2> PICK r : r = [request[c] EXCEPT !.at = "done", !.result = "invalid"]
    OBVIOUS
  <2>1. request[c] \in CallStates /\ c \notin told /\ request[c].at = "new"
    BY <1>0, <1>1 DEF RequestTypes, CallsAccounted, RefuseArguments
  <2>2. /\ r \in CallStates /\ r.at = "done" /\ r.result = "invalid"
        /\ r.nonce = request[c].nonce /\ r.attempt = request[c].attempt
    BY <2>1 DEF CallStates
  <2>3. request' = [request EXCEPT ![c] = r] /\ UNCHANGED <<drawn, controllerVars, told>>
    BY <1>0, <1>1 DEF RefuseArguments, RequestTypes
  <2>4. QED
    BY <2>1, <2>2, <2>3, CallMoves
<1>2. ASSUME NEW c \in Requests, SendRequest(c) PROVE RequestInv'
  <2>1. request[c] \in CallStates /\ request[c].at = "new" /\ request[c].attempt \in Nat
        /\ drawn \in Nat /\ request[c].result = "none" /\ c \notin told
    BY <1>0, <1>2 DEF RequestTypes, CallsAccounted, SendRequest, CallStates
  <2> PICK n \in Nat : n = drawn + 1
    BY <2>1
  <2> PICK k \in Nat : k = request[c].attempt + 1
    BY <2>1
  <2> PICK r : r = [request[c] EXCEPT !.at = "sent", !.attempt = k, !.nonce = n, !.answer = "none"]
    OBVIOUS
  <2>2. /\ r \in CallStates /\ r.at = "sent" /\ r.attempt = k /\ r.nonce = n
        /\ r.answer = "none" /\ r.result = "none"
    BY <2>1 DEF CallStates
  <2>3. request' = [request EXCEPT ![c] = r] /\ drawn' = n /\ UNCHANGED <<controllerVars, told>>
    <3>1. request' = [request EXCEPT ![c] =
                        [request[c] EXCEPT !.at = "sent", !.attempt = request[c].attempt + 1,
                                           !.nonce = drawn + 1, !.answer = "none"]]
      BY <1>0, <1>2 DEF SendRequest, NonceOf, RequestTypes
    <3>2. r = [request[c] EXCEPT !.at = "sent", !.attempt = request[c].attempt + 1,
                                 !.nonce = drawn + 1, !.answer = "none"]
      OBVIOUS
    <3>3. request' = [request EXCEPT ![c] = r]
      BY <3>1, <3>2, Zenon
    <3>4. QED
      BY <1>2, <3>3 DEF SendRequest
  <2>4. /\ request' \in [Requests -> CallStates] /\ request'[c] = r
        /\ \A d \in Requests : d # c => request'[d] = request[d]
    BY <2>2, <2>3, OneCall
  <2>5. RequestTypes'
    BY <1>0, <2>3, <2>4 DEF RequestTypes
  <2>6. NoncesFresh'
    <3>1. \A m \in seen : m \in Nat /\ m < n
      BY <1>0, <2>1 DEF RequestTypes, NoncesFresh
    <3>2. \A d \in Requests : request[d].nonce \in Nat /\ request[d].nonce < n
      BY <1>0, <2>1 DEF RequestTypes, NoncesFresh, CallStates
    <3>3. QED
      BY <1>0, <2>2, <2>3, <2>4, <3>1, <3>2 DEF NoncesFresh
  <2>7. /\ applied[c] \in Nat /\ applied[c] <= request[c].attempt
        /\ request[c].attempt < AttemptsOf(c) /\ AttemptsOf(c) \in Nat
    BY <1>0, <2>1 DEF RequestTypes, CallsAccounted, AttemptsOf
  <2>8. CallsAccounted'
    BY <1>0, <2>1, <2>2, <2>3, <2>4, <2>7 DEF CallsAccounted
  <2>9. QED
    BY <2>5, <2>6, <2>8 DEF RequestInv
<1>3. ASSUME NEW c \in Requests, TransportFails(c) PROVE RequestInv'
  BY <1>3, TryFailsKeeps DEF TransportFails
<1>4. ASSUME NEW c \in Requests, ControllerReceives(c) PROVE RequestInv'
  <2>1. request[c] \in CallStates /\ request[c].at = "sent" /\ request[c].answer = "none"
        /\ request[c].nonce \notin seen /\ applied[c] < request[c].attempt
        /\ applied[c] \in Nat /\ request[c].attempt \in Nat /\ c \notin told
        /\ request[c].nonce # 0
    BY <1>0, <1>4 DEF RequestTypes, NoncesFresh, CallsAccounted, ControllerReceives, CallStates
  <2> PICK k \in Nat : k = applied[c] + 1
    BY <2>1
  <2>2. PICK a \in {"refused"} \cup Answers :
           /\ request' = [request EXCEPT ![c].answer = a]
           /\ a = "refused" => ~ valid /\ UNCHANGED applied
           /\ a # "refused" => applied' = [applied EXCEPT ![c] = k]
    BY <1>4, <2>1 DEF ControllerReceives, Answers
  <2> PICK r : r = [request[c] EXCEPT !.answer = a]
    OBVIOUS
  <2>3. /\ r \in CallStates /\ r.at = "sent" /\ r.answer = a /\ r.nonce = request[c].nonce
        /\ r.attempt = request[c].attempt /\ r.result = request[c].result
    BY <2>1 DEF CallStates
  <2>4. request' = [request EXCEPT ![c] = r]
    BY <1>0, <2>2 DEF RequestTypes
  <2>5. /\ request' \in [Requests -> CallStates] /\ request'[c] = r
        /\ \A d \in Requests : d # c => request'[d] = request[d]
    BY <2>3, <2>4, OneCall
  <2>6. seen' = seen \cup {request[c].nonce} /\ UNCHANGED <<drawn, valid, told>>
    BY <1>4 DEF ControllerReceives
  <2>7. /\ applied' \in [Requests -> Nat]
        /\ \A d \in Requests : d # c => applied'[d] = applied[d]
        /\ applied'[c] \in {applied[c], k} /\ (a # "refused" => applied'[c] = k)
    BY <1>0, <2>2 DEF RequestTypes
  <2>8. RequestTypes'
    BY <1>0, <2>1, <2>5, <2>6, <2>7 DEF RequestTypes, CallStates
  <2>9. NoncesFresh'
    <3>1. a # "none"
      BY DEF Answers
    <3>2. \A d \in Requests : d # c /\ request[d].at = "sent" => request[d].nonce # request[c].nonce
      BY <1>0, <2>1 DEF NoncesFresh
    <3>3. request[c].nonce <= drawn
      BY <1>0 DEF NoncesFresh
    <3>4. \A n \in seen' : n \in Nat /\ n <= drawn'
      BY <1>0, <2>1, <2>6, <3>3 DEF NoncesFresh, RequestTypes, CallStates
    <3>5. \A d \in Requests : request'[d].nonce = request[d].nonce /\ request'[d].at = request[d].at
      BY <2>1, <2>3, <2>5
    <3>6. \A d \in Requests : d # c => request'[d].answer = request[d].answer
      BY <2>5
    <3>7. request'[c].answer # "none"
      BY <2>3, <2>5, <3>1
    <3>8. QED
      BY <1>0, <2>6, <3>2, <3>4, <3>5, <3>6, <3>7 DEF NoncesFresh
  <2>10. applied'[c] \in Nat /\ applied'[c] <= r.attempt /\ (a # "refused" => applied'[c] > 0)
         /\ a # "none"
    BY <2>1, <2>3, <2>7 DEF Answers
  <2>11. CallsAccounted'
    BY <1>0, <2>1, <2>2, <2>3, <2>5, <2>6, <2>7, <2>10 DEF CallsAccounted
  <2>12. QED
    BY <2>8, <2>9, <2>11 DEF RequestInv
<1>5. CASE Revoke
  BY <1>0, <1>5 DEF Revoke, RequestInv, RequestTypes, NoncesFresh, CallsAccounted
<1>6. ASSUME NEW c \in Requests, HandleAnswer(c) PROVE RequestInv'
  <2>1. request[c] \in CallStates /\ request[c].at = "sent" /\ request[c].answer # "none"
        /\ c \notin told /\ UNCHANGED <<drawn, controllerVars>>
        /\ (request[c].answer = "refused" => ~ valid)
        /\ (request[c].answer = "document" => applied[c] > 0)
    BY <1>0, <1>6 DEF RequestTypes, CallsAccounted, HandleAnswer
  <2>2. CASE ~ Final(request[c].answer)
    <3>1. request[c].answer \in {"garbled", "failed"}
      BY <2>1, <2>2 DEF Final, CallStates, Answers
    <3>2. TryFails(c, request[c].answer) /\ UNCHANGED told
      BY <1>6, <2>2, <3>1 DEF HandleAnswer
    <3>3. QED
      BY <2>1, <3>1, <3>2, TryFailsKeeps
  <2>3. CASE Final(request[c].answer)
    <3> PICK a : a = request[c].answer
      OBVIOUS
    <3>1. a \in {"document", "refused"}
      BY <2>3 DEF Final
    <3> PICK r : r = [request[c] EXCEPT !.at = "done", !.result = a]
      OBVIOUS
    <3>2. /\ r \in CallStates /\ r.at = "done" /\ r.result = a
          /\ r.nonce = request[c].nonce /\ r.attempt = request[c].attempt
      BY <2>1, <3>1 DEF CallStates, Answers
    <3>3. request' = [request EXCEPT ![c] = r]
      BY <1>0, <1>6, <2>3 DEF HandleAnswer, RequestTypes
    <3>4. told' = told \/ (told' = told \cup {c} /\ a = "refused")
      BY <1>6 DEF HandleAnswer
    <3>5. QED
      BY <2>1, <3>1, <3>2, <3>3, <3>4, CallMoves
  <2>4. QED
    BY <2>2, <2>3
<1>7. CASE UNCHANGED requestVars
  BY <1>0, <1>7 DEF requestVars, RequestInv, RequestTypes, NoncesFresh, CallsAccounted
<1>8. QED
  BY <1>1, <1>2, <1>3, <1>4, <1>5, <1>6, <1>7 DEF RequestsNext, RequestsDone

\* For every number of overlapping calls: a retry is never taken for a replay,
\* since its nonce is new, and a 401 ends a call for good.
THEOREM RequestsAlwaysSound == RequestsSpec => []RequestsSound
<1>1. RequestsInit => RequestInv
  BY RequestsStart
<1>2. RequestInv /\ [RequestsNext]_requestVars => RequestInv'
  BY RequestsKeep
<1>3. RequestInv => RequestsSound
  BY DEF RequestInv, CallsAccounted, RequestsSound
<1>4. QED
  BY <1>1, <1>2, <1>3, PTL DEF RequestsSpec

-----------------------------------------------------------------------------
(* OIDC sign-in and the saved session. *)

ShellStates ==
    [pc : {"prompt", "browser", "redeem", "verify", "persist", "refresh", "save"},
     pending : Nat, code : Nat, loaded : Nat, token : Nat]

OidcTypes ==
    /\ rotates \in BOOLEAN /\ issued \in Nat /\ live \subseteq Nat \ {NoToken}
    /\ asked \in Seq(Shells) /\ account \in Nat /\ broken \in BOOLEAN
    /\ shell \in [Shells -> ShellStates]

\* A process waits for its own authorization and redeems no other's code.
SignInsFollow ==
    /\ \A x \in spent : x[1] \in 1..Len(asked) /\ asked[x[1]] = x[2]
    /\ \A p \in Shells :
          /\ shell[p].pc \in {"browser", "redeem"} =>
                /\ shell[p].pending \in 1..Len(asked) /\ asked[shell[p].pending] = p
                /\ shell[p].loaded = NoToken /\ shell[p].token = NoToken
          /\ shell[p].pc = "redeem" => shell[p].code = shell[p].pending

\* The next token is nobody's yet.
NoneAhead ==
    /\ account <= issued /\ \A t \in live : t <= issued
    /\ \A p \in Shells : shell[p].loaded <= issued /\ shell[p].token <= issued

VettedFollows ==
    /\ SavedVetted
    /\ \A p \in Shells :
          /\ shell[p].pc \in {"refresh", "save"} =>
                shell[p].loaded # NoToken /\ shell[p].loaded \in vetted
          /\ shell[p].pc = "save" => shell[p].token # NoToken /\ shell[p].token \in vetted
          /\ shell[p].pc = "persist" => shell[p].loaded = NoToken /\ shell[p].token \in vetted

\* The process has a token that nobody else can have read yet.
Own(p) ==
    /\ shell[p].token # NoToken
    /\ \/ shell[p].pc = "save" /\ rotates
       \/ shell[p].pc \in {"verify", "persist"} /\ shell[p].loaded = NoToken

\* So the provider takes it, and no refresh under way revokes it.
OwnTokens ==
    \A p \in Shells : Own(p) =>
        /\ shell[p].token \in live /\ shell[p].token # account
        /\ \A q \in Shells : shell[q].loaded # shell[p].token
        /\ \A q \in Shells : q # p /\ Own(q) => shell[q].token # shell[p].token

\* A provider that does not rotate revokes nothing.
Unrotated ==
    ~ rotates => /\ account # NoToken => account \in live
                 /\ \A p \in Shells : shell[p].pc = "save" =>
                       shell[p].token = shell[p].loaded /\ shell[p].token \in live

OidcInv ==
    /\ OidcTypes /\ SignInsFollow /\ NoneAhead /\ VettedFollows /\ OwnTokens
    /\ Unrotated /\ RotationKept

\* Nobody signed in at first.
LEMMA OidcStart == OidcInit => OidcInv
<1> SUFFICES ASSUME OidcInit PROVE OidcInv
  OBVIOUS
<1> USE DEF OidcInit, NoToken
<1>1. /\ AtPrompt \in ShellStates /\ AtPrompt.pc = "prompt" /\ AtPrompt.loaded = 0
      /\ AtPrompt.token = 0
  BY DEF AtPrompt, ShellStates
<1>2. OidcTypes
  <2>1. asked \in Seq(Shells) /\ live \subseteq Nat \ {NoToken} /\ issued \in Nat /\ account \in Nat
    OBVIOUS
  <2>2. shell \in [Shells -> ShellStates]
    BY <1>1
  <2>3. rotates \in BOOLEAN /\ broken \in BOOLEAN
    OBVIOUS
  <2>4. QED
    BY <2>1, <2>2, <2>3 DEF OidcTypes
<1>3. \A p \in Shells : shell[p].pc = "prompt" /\ shell[p].loaded = 0 /\ shell[p].token = 0
  BY <1>1
<1>4. SignInsFollow /\ NoneAhead /\ VettedFollows
  BY <1>3 DEF SignInsFollow, NoneAhead, VettedFollows, SavedVetted
<1>5. OwnTokens /\ Unrotated /\ RotationKept
  BY <1>3 DEF Own, OwnTokens, Unrotated, RotationKept
<1>6. QED
  BY <1>2, <1>4, <1>5 DEF OidcInv

\* A process's new state leaves the other processes alone.
LEMMA OneShell ==
    ASSUME OidcInv, NEW p \in Shells, NEW r \in ShellStates,
           shell' = [shell EXCEPT ![p] = r]
    PROVE  /\ shell' \in [Shells -> ShellStates] /\ shell'[p] = r
           /\ \A q \in Shells : q # p => shell'[q] = shell[q]
BY DEF OidcInv, OidcTypes

\* A command that ends, whether or not it saved a token of its own.
LEMMA CommandEnds ==
    ASSUME OidcInv, NEW p \in Shells, shell' = [shell EXCEPT ![p] = AtPrompt],
           UNCHANGED <<providerVars, asked, vetted>>,
           \A x \in spent' : x \in spent \/ (shell[p].pc = "redeem" /\ x = <<shell[p].code, p>>),
           \/ UNCHANGED account
           \/ Own(p) /\ shell[p].pc = "persist" /\ account' = shell[p].token,
           broken' \in BOOLEAN, broken => broken', shell[p].pc = "save" /\ rotates => broken'
    PROVE  OidcInv'
<1> USE DEF NoToken, providerVars
<1>0. /\ OidcTypes /\ SignInsFollow /\ NoneAhead /\ VettedFollows /\ OwnTokens
      /\ Unrotated /\ RotationKept
  BY DEF OidcInv
<1>1. /\ AtPrompt \in ShellStates /\ AtPrompt.pc = "prompt" /\ AtPrompt.loaded = 0
      /\ AtPrompt.token = 0
  BY DEF AtPrompt, ShellStates
<1>2. /\ shell' \in [Shells -> ShellStates] /\ shell'[p] = AtPrompt
      /\ \A q \in Shells : q # p => shell'[q] = shell[q]
  BY <1>1, OneShell
<1>3. OidcTypes'
  BY <1>0, <1>2 DEF OidcTypes, ShellStates
<1>4. SignInsFollow'
  BY <1>0, <1>1, <1>2 DEF SignInsFollow
<1>5. NoneAhead'
  BY <1>0, <1>1, <1>2 DEF NoneAhead, OidcTypes
<1>6. VettedFollows'
  BY <1>0, <1>1, <1>2 DEF VettedFollows, SavedVetted
<1>7. ~ Own(p)' /\ \A q \in Shells : q # p => (Own(q)' <=> Own(q))
  BY <1>1, <1>2 DEF Own
<1>8. OwnTokens'
  <2> SUFFICES ASSUME NEW q \in Shells, Own(q)'
               PROVE  /\ shell'[q].token \in live' /\ shell'[q].token # account'
                      /\ \A o \in Shells : shell'[o].loaded # shell'[q].token
                      /\ \A o \in Shells : o # q /\ Own(o)' => shell'[o].token # shell'[q].token
    BY DEF OwnTokens
  <2>1. q # p /\ Own(q) /\ shell'[q] = shell[q] /\ shell[q].token # 0
    BY <1>2, <1>7 DEF Own
  <2>2. /\ shell[q].token \in live /\ shell[q].token # account
        /\ \A o \in Shells : shell[o].loaded # shell[q].token
        /\ \A o \in Shells : o # q /\ Own(o) => shell[o].token # shell[q].token
    BY <1>0, <2>1 DEF OwnTokens
  <2>3. \A o \in Shells : shell'[o].loaded # shell'[q].token
    BY <1>1, <1>2, <2>1, <2>2
  <2>4. \A o \in Shells : o # q /\ Own(o)' => shell'[o].token # shell'[q].token
    BY <1>2, <1>7, <2>1, <2>2
  <2>5. shell'[q].token # account'
    BY <2>1, <2>2
  <2>6. QED
    BY <2>1, <2>2, <2>3, <2>4, <2>5
<1>9. Unrotated'
  BY <1>0, <1>1, <1>2 DEF Unrotated, OwnTokens
<1>10. RotationKept'
  BY <1>0, <1>1, <1>2 DEF RotationKept, OwnTokens, Unrotated
<1>11. QED
  BY <1>3, <1>4, <1>5, <1>6, <1>8, <1>9, <1>10 DEF OidcInv

\* A process that goes on with a token of its own or without a new one: what
\* the account, the provider and the other processes have stays as it was.
LEMMA CommandGoesOn ==
    ASSUME OidcInv, NEW p \in Shells, NEW r \in ShellStates,
           shell' = [shell EXCEPT ![p] = r], UNCHANGED <<rotates, account, broken>>,
           asked' \in Seq(Shells), issued' \in Nat, live' \subseteq Nat \ {NoToken},
           issued <= issued', live \subseteq live', vetted \subseteq vetted',
           \A t \in live' : t <= issued',
           Len(asked) <= Len(asked'), \A i \in 1..Len(asked) : asked'[i] = asked[i],
           \A x \in spent' : x \in spent \/ (shell[p].pc = "redeem" /\ x = <<shell[p].code, p>>),
           r.pc \in {"browser", "redeem"} =>
              /\ r.pending \in 1..Len(asked') /\ asked'[r.pending] = p /\ r.loaded = NoToken,
           r.pc = "redeem" => r.code = r.pending,
           r.loaded = NoToken \/ r.loaded = account,
           r.token <= issued', r.pc # "save",
           r.pc = "refresh" => r.loaded # NoToken /\ r.loaded \in vetted',
           r.pc = "persist" => r.loaded = NoToken /\ r.token \in vetted',
           r.token # NoToken =>
              /\ r.loaded = NoToken /\ r.pc \in {"verify", "persist"}
              /\ \/ Own(p) /\ r.token = shell[p].token
                 \/ r.token > issued /\ r.token \in live',
           shell[p].pc # "save"
    PROVE  OidcInv'
<1> USE DEF NoToken
<1>0. /\ OidcTypes /\ SignInsFollow /\ NoneAhead /\ VettedFollows /\ OwnTokens
      /\ Unrotated /\ RotationKept
  BY DEF OidcInv
<1>2. /\ shell' \in [Shells -> ShellStates] /\ shell'[p] = r
      /\ \A q \in Shells : q # p => shell'[q] = shell[q]
  BY OneShell
<1>a. /\ account \in Nat /\ issued \in Nat /\ issued' \in Nat /\ account <= issued
      /\ r.token \in Nat /\ r.loaded \in Nat
      /\ \A q \in Shells : /\ shell[q].loaded \in Nat /\ shell[q].token \in Nat
                            /\ shell[q].loaded <= issued /\ shell[q].token <= issued
  BY <1>0 DEF OidcTypes, NoneAhead, ShellStates
<1>3. OidcTypes'
  BY <1>0, <1>2 DEF OidcTypes
<1>4. SignInsFollow'
  <2>1. \A x \in spent' : x[1] \in 1..Len(asked) /\ asked[x[1]] = x[2]
    BY <1>0 DEF SignInsFollow
  <2>2. Len(asked) \in Nat /\ Len(asked') \in Nat
    BY <1>0 DEF OidcTypes
  <2>3. \A x \in spent' : x[1] \in 1..Len(asked') /\ asked'[x[1]] = x[2]
    BY <2>1, <2>2
  <2>4. ASSUME NEW q \in Shells, q # p, shell[q].pc \in {"browser", "redeem"}
        PROVE  /\ shell[q].pending \in 1..Len(asked') /\ asked'[shell[q].pending] = q
               /\ shell[q].loaded = NoToken /\ shell[q].token = NoToken
    BY <1>0, <2>2, <2>4 DEF SignInsFollow
  <2>5. QED
    BY <1>0, <1>2, <2>3, <2>4 DEF SignInsFollow
<1>5. NoneAhead'
  BY <1>2, <1>a DEF NoneAhead
<1>6. VettedFollows'
  BY <1>0, <1>2 DEF VettedFollows, SavedVetted
<1>7. \A q \in Shells : q # p => (Own(q)' <=> Own(q))
  BY <1>2 DEF Own
<1>b. Own(p)' => r.token # 0
  BY <1>2 DEF Own
<1>8. OwnTokens'
  <2>1. ASSUME NEW q \in Shells, q # p, Own(q)
        PROVE  /\ shell[q].token \in live' /\ shell[q].token # account'
               /\ r.loaded # shell[q].token
               /\ Own(p)' => r.token # shell[q].token
               /\ \A o \in Shells : shell[o].loaded # shell[q].token
               /\ \A o \in Shells : o # q /\ Own(o) => shell[o].token # shell[q].token
    <3>1. /\ shell[q].token \in live /\ shell[q].token # account /\ shell[q].token # 0
          /\ \A o \in Shells : shell[o].loaded # shell[q].token
          /\ \A o \in Shells : o # q /\ Own(o) => shell[o].token # shell[q].token
      BY <1>0, <2>1 DEF OwnTokens, Own
    <3>2. r.loaded # shell[q].token
      BY <3>1
    <3>3. Own(p)' => r.token # shell[q].token
      BY <1>a, <1>b, <2>1, <3>1
    <3>4. QED
      BY <3>1, <3>2, <3>3
  <2>2. Own(p)' => /\ r.token \in live' /\ r.token # account' /\ r.loaded # r.token
                   /\ \A q \in Shells : q # p => shell[q].loaded # r.token
    BY <1>0, <1>a, <1>b DEF OwnTokens
  <2>3. QED
    BY <1>2, <1>7, <2>1, <2>2 DEF OwnTokens
<1>9. Unrotated'
  BY <1>0, <1>2 DEF Unrotated
<1>10. RotationKept'
  <2>1. ASSUME NEW q \in Shells, shell[q].pc = "save"
        PROVE  shell'[q] = shell[q]
    BY <1>2, <2>1
  <2>2. QED
    BY <1>0, <2>1 DEF RotationKept
<1>11. QED
  BY <1>3, <1>4, <1>5, <1>6, <1>8, <1>9, <1>10 DEF OidcInv

\* A refresh whose answer arrives: the rotated token takes the place of the one
\* sent, which nobody else has for its own.
LEMMA RefreshKeeps == ASSUME OidcInv, NEW p \in Shells, Refresh(p) PROVE OidcInv'
<1> USE DEF NoToken
<1>0. /\ OidcTypes /\ SignInsFollow /\ NoneAhead /\ VettedFollows /\ OwnTokens
      /\ Unrotated /\ RotationKept
  BY DEF OidcInv
<1> PICK sent : sent = shell[p].loaded
  OBVIOUS
<1>1. /\ shell[p] \in ShellStates /\ shell[p].pc = "refresh" /\ sent \in live /\ sent # 0
      /\ sent \in vetted /\ sent \in Nat /\ sent <= issued /\ issued \in Nat
      /\ rotates \in BOOLEAN
  BY <1>0 DEF Refresh, OidcTypes, VettedFollows, NoneAhead, ShellStates
<1> PICK n \in Nat : n = issued + 1
  BY <1>1
<1> PICK t : t = IF rotates THEN n ELSE sent
  OBVIOUS
<1>2. /\ t \in Nat /\ t # 0 /\ (rotates => t = n) /\ (~ rotates => t = sent)
  BY <1>1
<1>3. /\ issued' = (IF rotates THEN n ELSE issued)
      /\ live' = (IF rotates THEN (live \ {sent}) \cup {n} ELSE live)
      /\ vetted' = vetted \cup {t}
      /\ UNCHANGED <<rotates, asked, spent, account>>
  BY <1>1, <1>2 DEF Refresh, TokenKept, signInVars
<1>4. /\ issued' \in Nat /\ t <= issued' /\ issued <= issued' /\ t \in live'
      /\ \A x \in live' : x \in Nat /\ x # 0 /\ x <= issued'
      /\ \A x \in live : x # sent => x \in live'
      /\ \A x \in live : ~ rotates => x \in live'
  BY <1>0, <1>1, <1>2, <1>3 DEF OidcTypes, NoneAhead
<1> PICK r : r = [shell[p] EXCEPT !.pc = "save", !.token = t]
  OBVIOUS
<1>5. /\ r \in ShellStates /\ r.pc = "save" /\ r.token = t /\ r.loaded = sent
  BY <1>1, <1>2 DEF ShellStates
<1>6. \/ shell' = [shell EXCEPT ![p] = r] /\ UNCHANGED broken
      \/ shell' = [shell EXCEPT ![p] = AtPrompt] /\ broken' = (broken \/ rotates)
  <2>1. TokenKept(IF rotates THEN issued + 1 ELSE 0, shell[p].loaded) = t
    BY <1>1, <1>2 DEF TokenKept
  <2>2. \/ /\ shell' = [shell EXCEPT ![p] = [shell[p] EXCEPT !.pc = "save",
                      !.token = TokenKept(IF rotates THEN issued + 1 ELSE 0, shell[p].loaded)]]
           /\ UNCHANGED broken
        \/ shell' = [shell EXCEPT ![p] = AtPrompt] /\ broken' = (broken \/ rotates)
    BY <1>0 DEF Refresh, OidcTypes
  <2>3. QED
    BY <2>1, <2>2, Zenon
<1>7. /\ AtPrompt \in ShellStates /\ AtPrompt.pc = "prompt" /\ AtPrompt.loaded = 0
      /\ AtPrompt.token = 0
  BY DEF AtPrompt, ShellStates
<1>8. PICK s \in {r, AtPrompt} :
         /\ shell' = [shell EXCEPT ![p] = s]
         /\ s = r => UNCHANGED broken
         /\ s = AtPrompt => broken' = (broken \/ rotates)
  BY <1>5, <1>6, <1>7
<1>9. /\ s \in ShellStates /\ s.pc \in {"save", "prompt"} /\ s.loaded \in {sent, 0}
      /\ s.token \in {t, 0} /\ (s.pc = "save" => s = r) /\ (s.pc = "prompt" => s = AtPrompt)
  BY <1>5, <1>7, <1>8
<1>10. /\ shell' \in [Shells -> ShellStates] /\ shell'[p] = s
       /\ \A q \in Shells : q # p => shell'[q] = shell[q]
  BY <1>8, <1>9, OneShell
<1>11. OidcTypes'
  <2>1. broken' \in BOOLEAN
    BY <1>0, <1>6 DEF OidcTypes
  <2>2. live' \subseteq Nat \ {NoToken}
    BY <1>4
  <2>3. QED
    BY <1>0, <1>3, <1>4, <1>10, <2>1, <2>2 DEF OidcTypes
<1>12. SignInsFollow'
  BY <1>0, <1>3, <1>9, <1>10 DEF SignInsFollow
<1>13. NoneAhead'
  <2>1. /\ account \in Nat /\ account <= issued
        /\ \A q \in Shells : /\ shell[q].loaded \in Nat /\ shell[q].token \in Nat
                              /\ shell[q].loaded <= issued /\ shell[q].token <= issued
    BY <1>0 DEF OidcTypes, NoneAhead, ShellStates
  <2>2. s.loaded <= issued' /\ s.token <= issued'
    BY <1>1, <1>2, <1>4, <1>9
  <2>3. \A q \in Shells : q # p => shell'[q].loaded <= issued' /\ shell'[q].token <= issued'
    BY <1>1, <1>4, <1>10, <2>1
  <2>4. account' <= issued'
    BY <1>1, <1>3, <1>4, <2>1
  <2>5. QED
    BY <1>4, <1>10, <2>2, <2>3, <2>4 DEF NoneAhead
<1>14. VettedFollows'
  <2>1. SavedVetted'
    BY <1>0, <1>3 DEF VettedFollows, SavedVetted
  <2>2. s.pc # "prompt" => s.pc = "save" /\ s.loaded = sent /\ s.token = t
    BY <1>5, <1>9
  <2>3. sent \in vetted' /\ t \in vetted' /\ vetted \subseteq vetted'
    BY <1>1, <1>3
  <2>4. \A q \in Shells : q # p =>
          /\ shell[q].pc \in {"refresh", "save"} =>
                shell[q].loaded # 0 /\ shell[q].loaded \in vetted'
          /\ shell[q].pc = "save" => shell[q].token # 0 /\ shell[q].token \in vetted'
          /\ shell[q].pc = "persist" => shell[q].loaded = 0 /\ shell[q].token \in vetted'
    BY <1>0, <2>3 DEF VettedFollows
  <2>5. QED
    BY <1>1, <1>2, <1>9, <1>10, <2>1, <2>2, <2>3, <2>4 DEF VettedFollows
<1>15. OwnTokens'
  <2>1. \A q \in Shells : q # p => (Own(q)' <=> Own(q))
    BY <1>3, <1>10 DEF Own
  <2>2. Own(p)' => rotates /\ s = r
    BY <1>3, <1>5, <1>7, <1>9, <1>10 DEF Own
  <2>3. ASSUME NEW q \in Shells, q # p, Own(q)
        PROVE  /\ shell[q].token \in live' /\ shell[q].token # account'
               /\ s.loaded # shell[q].token
               /\ Own(p)' => s.token # shell[q].token
               /\ \A o \in Shells : shell[o].loaded # shell[q].token
               /\ \A o \in Shells : o # q /\ Own(o) => shell[o].token # shell[q].token
    <3>1. /\ shell[q].token \in live /\ shell[q].token # account /\ shell[q].token # 0
          /\ \A o \in Shells : shell[o].loaded # shell[q].token
          /\ \A o \in Shells : o # q /\ Own(o) => shell[o].token # shell[q].token
      BY <1>0, <2>3 DEF OwnTokens, Own
    <3>2. shell[q].token # sent /\ s.loaded # shell[q].token
      BY <1>9, <3>1
    <3>a. shell[q].token \in Nat /\ shell[q].token <= issued
      BY <1>0, <3>1 DEF NoneAhead, OidcTypes
    <3>b. Own(p)' => s.token = t /\ t = n
      BY <1>2, <1>5, <2>2
    <3>3. Own(p)' => s.token # shell[q].token
      BY <1>1, <3>a, <3>b
    <3>4. QED
      BY <1>3, <1>4, <3>1, <3>2, <3>3
  <2>4. Own(p)' => /\ s.token \in live' /\ s.token # account' /\ s.loaded # s.token
                   /\ \A q \in Shells : q # p => shell[q].loaded # s.token
    <3> SUFFICES ASSUME Own(p)' PROVE /\ t \in live' /\ t # account /\ sent # t
                   /\ \A q \in Shells : q # p => shell[q].loaded # t
      BY <1>3, <1>5, <2>2
    <3>1. t = n /\ n = issued + 1
      BY <1>2, <2>2
    <3>2. \A q \in Shells : shell[q].loaded \in Nat /\ shell[q].loaded <= issued
      BY <1>0 DEF OidcTypes, NoneAhead, ShellStates
    <3>3. account \in Nat /\ account <= issued
      BY <1>0 DEF OidcTypes, NoneAhead
    <3>4. QED
      BY <1>1, <1>4, <3>1, <3>2, <3>3
  <2>5. QED
    BY <1>10, <2>1, <2>3, <2>4 DEF OwnTokens
<1>16. Unrotated'
  BY <1>0, <1>3, <1>4, <1>5, <1>9, <1>10 DEF Unrotated
<1>17. RotationKept'
  <2> SUFFICES ASSUME account # 0, account \notin live', ~ broken'
               PROVE  \E q \in Shells : shell'[q].pc = "save" /\ shell'[q].token \in live'
    BY <1>3 DEF RotationKept
  <2>1. rotates /\ s = r /\ ~ broken
    BY <1>0, <1>1, <1>4, <1>8, <1>9 DEF Unrotated
  <2>2. shell'[p].pc = "save" /\ shell'[p].token = t
    BY <1>5, <1>10, <2>1
  <2>3. QED
    BY <1>4, <2>2
<1>18. QED
  BY <1>11, <1>12, <1>13, <1>14, <1>15, <1>16, <1>17 DEF OidcInv

\* The token of a refresh is saved over whatever the account had.
LEMMA SaveRotatedKeeps == ASSUME OidcInv, NEW p \in Shells, SaveRotated(p) PROVE OidcInv'
<1> USE DEF NoToken, providerVars, signInVars
<1>0. /\ OidcTypes /\ SignInsFollow /\ NoneAhead /\ VettedFollows /\ OwnTokens
      /\ Unrotated /\ RotationKept
  BY DEF OidcInv
<1>1. /\ shell[p] \in ShellStates /\ shell[p].pc = "save" /\ shell[p].token # 0
      /\ shell[p].loaded # 0 /\ shell[p].token \in vetted
      /\ shell[p].token \in Nat /\ shell[p].token <= issued
  BY <1>0 DEF SaveRotated, OidcTypes, VettedFollows, NoneAhead, ShellStates
<1>2. shell[p].token \in live
  BY <1>0, <1>1 DEF OwnTokens, Own, Unrotated, OidcTypes
<1> PICK r : r = [shell[p] EXCEPT !.pc = "verify"]
  OBVIOUS
<1>3. /\ r \in ShellStates /\ r.pc = "verify" /\ r.token = shell[p].token
      /\ r.loaded = shell[p].loaded
  BY <1>1 DEF ShellStates
<1>4. /\ shell' = [shell EXCEPT ![p] = r] /\ account' = shell[p].token
      /\ UNCHANGED <<rotates, issued, live, asked, spent, vetted, broken>>
  BY <1>0 DEF SaveRotated, OidcTypes
<1>5. /\ shell' \in [Shells -> ShellStates] /\ shell'[p] = r
      /\ \A q \in Shells : q # p => shell'[q] = shell[q]
  BY <1>3, <1>4, OneShell
<1>6. OidcTypes' /\ SignInsFollow' /\ NoneAhead' /\ VettedFollows'
  <2>1. OidcTypes'
    BY <1>0, <1>1, <1>4, <1>5 DEF OidcTypes
  <2>2. SignInsFollow'
    BY <1>0, <1>3, <1>4, <1>5 DEF SignInsFollow
  <2>3. NoneAhead'
    BY <1>0, <1>1, <1>3, <1>4, <1>5 DEF NoneAhead
  <2>4. VettedFollows'
    BY <1>0, <1>1, <1>3, <1>4, <1>5 DEF VettedFollows, SavedVetted
  <2>5. QED
    BY <2>1, <2>2, <2>3, <2>4
<1>7. OwnTokens'
  <2>1. ~ Own(p)' /\ \A q \in Shells : q # p => (Own(q)' <=> Own(q))
    BY <1>1, <1>3, <1>4, <1>5 DEF Own
  <2>2. ASSUME NEW q \in Shells, q # p, Own(q)
        PROVE  /\ shell[q].token \in live /\ shell[q].token # shell[p].token
               /\ \A o \in Shells : shell[o].loaded # shell[q].token
               /\ \A o \in Shells : o # q /\ Own(o) => shell[o].token # shell[q].token
    <3>1. /\ shell[q].token \in live /\ shell[q].token # account
          /\ \A o \in Shells : shell[o].loaded # shell[q].token
          /\ \A o \in Shells : o # q /\ Own(o) => shell[o].token # shell[q].token
      BY <1>0, <2>2 DEF OwnTokens
    <3>2. CASE rotates
      BY <1>1, <2>2, <3>1, <3>2 DEF Own
    <3>3. CASE ~ rotates
      BY <1>0, <1>1, <3>1, <3>3 DEF Unrotated
    <3>4. QED
      BY <3>1, <3>2, <3>3
  <2>3. QED
    BY <1>3, <1>4, <1>5, <2>1, <2>2 DEF OwnTokens
<1>8. Unrotated' /\ RotationKept'
  BY <1>0, <1>2, <1>3, <1>4, <1>5 DEF Unrotated, RotationKept
<1>9. QED
  BY <1>6, <1>7, <1>8 DEF OidcInv

\* Every step of a process, of the browser and of the provider keeps it.
LEMMA OidcKeeps == ASSUME OidcInv, [OidcNext]_oidcVars PROVE OidcInv'
<1> USE DEF NoToken
<1>0. /\ OidcTypes /\ SignInsFollow /\ NoneAhead /\ VettedFollows /\ OwnTokens
      /\ Unrotated /\ RotationKept
  BY DEF OidcInv
<1>a. /\ issued \in Nat /\ asked \in Seq(Shells) /\ Len(asked) \in Nat /\ broken \in BOOLEAN
      /\ live \subseteq Nat \ {0} /\ account \in Nat /\ shell \in [Shells -> ShellStates]
      /\ \A t \in live : t <= issued
  BY <1>0 DEF OidcTypes, NoneAhead
<1>b. /\ AtPrompt \in ShellStates
      /\ AtPrompt = [pc |-> "prompt", pending |-> 0, code |-> 0, loaded |-> 0, token |-> 0]
  BY DEF AtPrompt, ShellStates
<1>1. ASSUME NEW p \in Shells, BeginOidc(p) PROVE OidcInv'
  <2> PICK k \in Nat : k = Len(asked) + 1
    BY <1>a
  <2>1. asked' = Append(asked, p) /\ shell[p].pc = "prompt"
        /\ UNCHANGED <<rotates, issued, live, spent, vetted, account, broken>>
    BY <1>1 DEF BeginOidc, providerVars
  <2>2. /\ asked' \in Seq(Shells) /\ Len(asked') = k /\ asked'[k] = p /\ Len(asked) <= k
        /\ \A i \in 1..Len(asked) : asked'[i] = asked[i]
    BY <1>a, <2>1
  <2> PICK r : r = [AtPrompt EXCEPT !.pc = "browser", !.pending = k]
    OBVIOUS
  <2>3. /\ r \in ShellStates /\ r.pc = "browser" /\ r.pending = k /\ r.loaded = 0 /\ r.token = 0
    BY <1>b DEF ShellStates
  <2>4. shell' = [shell EXCEPT ![p] = r]
    BY <1>1, <2>2 DEF BeginOidc
  <2>5. r.pending \in 1..Len(asked') /\ asked'[r.pending] = p
    BY <1>a, <2>2, <2>3
  <2>6. Len(asked) <= Len(asked') /\ r.token <= issued' /\ issued <= issued'
    BY <1>a, <2>1, <2>2, <2>3
  <2>7. QED
    BY <1>a, <2>1, <2>2, <2>3, <2>4, <2>5, <2>6, CommandGoesOn
<1>2. ASSUME NEW p \in Shells, NEW c \in callbacks, Paste(p, c) PROVE OidcInv'
  <2>1. UNCHANGED <<rotates, issued, live, asked, spent, vetted, account, broken>>
        /\ shell[p].pc = "browser"
    BY <1>2 DEF Paste, providerVars, signInVars
  <2>2. CASE Accepted(shell[p].pending, c)
    <3>1. /\ shell[p] \in ShellStates /\ c.state = shell[p].pending /\ shell[p].loaded = 0
          /\ shell[p].pending \in 1..Len(asked) /\ asked[shell[p].pending] = p
          /\ ~ Own(p)
      BY <1>0, <2>1, <2>2 DEF Accepted, SignInsFollow, OidcTypes, Own
    <3> PICK r : r = [shell[p] EXCEPT !.pc = "redeem", !.code = shell[p].pending]
      OBVIOUS
    <3>2. /\ r \in ShellStates /\ r.pc = "redeem" /\ r.code = r.pending
          /\ r.pending = shell[p].pending /\ r.loaded = 0 /\ r.token = shell[p].token
      BY <3>1 DEF ShellStates
    <3>3. shell' = [shell EXCEPT ![p] = r]
      BY <1>2, <1>a, <2>2, <3>1 DEF Paste
    <3>4. r.token = 0
      BY <1>0, <2>1, <3>2 DEF SignInsFollow
    <3>5. r.token <= issued /\ issued <= issued /\ Len(asked) <= Len(asked)
      BY <1>a, <3>4
    <3>6. QED
      BY <1>a, <2>1, <3>1, <3>2, <3>3, <3>4, <3>5, CommandGoesOn
  <2>3. CASE ~ Accepted(shell[p].pending, c)
    <3>1. shell' = [shell EXCEPT ![p] = AtPrompt]
      BY <1>2, <1>a, <2>3 DEF Paste
    <3>2. QED
      BY <1>a, <2>1, <3>1, CommandEnds DEF providerVars
  <2>4. QED
    BY <2>2, <2>3
<1>3. ASSUME NEW p \in Shells, Redeem(p) PROVE OidcInv'
  <2>1. /\ shell[p].pc = "redeem" /\ shell[p] \in ShellStates /\ shell[p].loaded = 0
        /\ UNCHANGED <<rotates, asked, vetted, account, broken>>
        /\ \A x \in spent' : x \in spent \/ x = <<shell[p].code, p>>
    BY <1>0, <1>3 DEF Redeem, OidcTypes, SignInsFollow
  <2> PICK n \in Nat : n = issued + 1
    BY <1>a
  <2>2. CASE shell' = [shell EXCEPT ![p] = AtPrompt] /\ UNCHANGED <<issued, live>>
    BY <1>a, <2>1, <2>2, CommandEnds DEF providerVars
  <2>3. CASE \E token \in {0, n} :
               /\ shell' = [shell EXCEPT ![p] = [@ EXCEPT !.pc = "verify", !.token = token]]
               /\ IF token = 0 THEN UNCHANGED <<issued, live>>
                  ELSE issued' = token /\ live' = live \cup {token}
    <3> PICK token \in {0, n} :
               /\ shell' = [shell EXCEPT ![p] = [@ EXCEPT !.pc = "verify", !.token = token]]
               /\ IF token = 0 THEN UNCHANGED <<issued, live>>
                  ELSE issued' = token /\ live' = live \cup {token}
      BY <2>3
    <3> PICK r : r = [shell[p] EXCEPT !.pc = "verify", !.token = token]
      OBVIOUS
    <3>1. /\ r \in ShellStates /\ r.pc = "verify" /\ r.token = token /\ r.loaded = 0
      BY <2>1 DEF ShellStates
    <3>2. shell' = [shell EXCEPT ![p] = r]
      BY <1>a
    <3>3. /\ issued' \in Nat /\ issued <= issued' /\ live' \subseteq Nat \ {0}
          /\ live \subseteq live' /\ \A t \in live' : t <= issued'
          /\ token <= issued' /\ (token # 0 => token > issued /\ token \in live')
      BY <1>a
    <3>4. Len(asked) <= Len(asked') /\ asked' \in Seq(Shells)
          /\ \A i \in 1..Len(asked) : asked'[i] = asked[i]
      BY <1>a, <2>1
    <3>5. QED
      BY <2>1, <3>1, <3>2, <3>3, <3>4, CommandGoesOn
  <2>4. QED
    BY <1>3, <2>2, <2>3 DEF Redeem
<1>4. ASSUME NEW p \in Shells, Vetted(p) PROVE OidcInv'
  <2>1. /\ shell[p].pc = "verify" /\ shell[p] \in ShellStates /\ shell[p].loaded = 0
        /\ UNCHANGED <<rotates, issued, live, asked, spent, account, broken>>
        /\ vetted' = vetted \cup {shell[p].token}
        /\ shell[p].token \in Nat /\ shell[p].token <= issued
        /\ (shell[p].token # 0 => Own(p))
    BY <1>0, <1>4 DEF Vetted, OidcTypes, NoneAhead, ShellStates, providerVars, signInVars, Own
  <2> PICK r : r = [shell[p] EXCEPT !.pc = "persist"]
    OBVIOUS
  <2>2. /\ r \in ShellStates /\ r.pc = "persist" /\ r.token = shell[p].token /\ r.loaded = 0
    BY <2>1 DEF ShellStates
  <2>3. shell' = [shell EXCEPT ![p] = r]
    BY <1>4, <1>a DEF Vetted
  <2>4. /\ issued <= issued /\ Len(asked) <= Len(asked)
        /\ vetted \subseteq vetted' /\ r.token \in vetted'
    BY <1>a, <2>1, <2>2
  <2>5. QED
    BY <1>a, <2>1, <2>2, <2>3, <2>4, CommandGoesOn
<1>5. ASSUME NEW p \in Shells, Persist(p) PROVE OidcInv'
  <2>1. /\ shell[p].pc = "persist" /\ shell' = [shell EXCEPT ![p] = AtPrompt]
        /\ UNCHANGED <<rotates, issued, live, asked, spent, vetted, broken>>
        /\ \/ UNCHANGED account
           \/ shell[p].token # 0 /\ account' = shell[p].token
    BY <1>5 DEF Persist, Savable, providerVars, signInVars
  <2>2. shell[p].token # 0 => Own(p)
    BY <1>0, <2>1 DEF VettedFollows, Own
  <2>3. QED
    BY <1>a, <2>1, <2>2, CommandEnds DEF providerVars
<1>6. ASSUME NEW p \in Shells, LoadStored(p) PROVE OidcInv'
  <2>1. /\ shell[p].pc = "prompt" /\ account # 0
        /\ UNCHANGED <<rotates, issued, live, asked, spent, vetted, account, broken>>
    BY <1>6 DEF LoadStored, providerVars, signInVars
  <2> PICK r : r = [AtPrompt EXCEPT !.pc = "refresh", !.loaded = account]
    OBVIOUS
  <2>2. /\ r \in ShellStates /\ r.pc = "refresh" /\ r.token = 0 /\ r.loaded = account
    BY <1>a, <1>b DEF ShellStates
  <2>3. shell' = [shell EXCEPT ![p] = r]
    BY <1>6 DEF LoadStored
  <2>4. account \in vetted
    BY <1>0, <2>1 DEF VettedFollows, SavedVetted
  <2>5. /\ r.token <= issued' /\ issued <= issued' /\ Len(asked) <= Len(asked')
        /\ r.loaded # NoToken /\ r.loaded \in vetted' /\ r.token = NoToken
        /\ \A t \in live' : t <= issued'
    BY <1>a, <2>1, <2>2, <2>4
  <2>6. QED
    BY <1>a, <2>1, <2>2, <2>3, <2>4, <2>5, CommandGoesOn
<1>7. ASSUME NEW p \in Shells, RefreshRefused(p) \/ Connected(p) \/ Aborted(p) PROVE OidcInv'
  <2>1. /\ shell' = [shell EXCEPT ![p] = AtPrompt] /\ UNCHANGED <<providerVars, signInVars, vetted, account>>
        /\ broken' \in BOOLEAN /\ (broken => broken') /\ (shell[p].pc = "save" /\ rotates => broken')
    BY <1>7, <1>a DEF RefreshRefused, Connected, Aborted
  <2>2. QED
    BY <2>1, CommandEnds DEF signInVars
<1>8. ASSUME NEW a \in DOMAIN asked, Browse(a) PROVE OidcInv'
  BY <1>0, <1>8 DEF Browse, providerVars, OidcInv, OidcTypes, SignInsFollow, NoneAhead, VettedFollows,
                    SavedVetted, Own, OwnTokens, Unrotated, RotationKept
<1>9. CASE UNCHANGED oidcVars
  BY <1>0, <1>9 DEF oidcVars, providerVars, signInVars, OidcInv, OidcTypes, SignInsFollow, NoneAhead,
                    VettedFollows, SavedVetted, Own, OwnTokens, Unrotated, RotationKept
<1>10. QED
  BY <1>1, <1>2, <1>3, <1>4, <1>5, <1>6, <1>7, <1>8, <1>9, RefreshKeeps, SaveRotatedKeeps
     DEF OidcNext, OidcDone

\* For every number of processes, commands and tokens: nothing that another
\* process does in between breaks a sign-in or the session it saved.
THEOREM SavedSessionAlwaysSound == OidcSpec => []SavedSessionSound
<1>1. OidcInit => OidcInv
  BY OidcStart
<1>2. OidcInv /\ [OidcNext]_oidcVars => OidcInv'
  BY OidcKeeps
<1>3. OidcInv => SavedSessionSound
  BY DEF OidcInv, SignInsFollow, VettedFollows, SavedSessionSound, CodesKept
<1>4. QED
  BY <1>1, <1>2, <1>3, PTL DEF OidcSpec

-----------------------------------------------------------------------------
(* The cache of looked-up domains. *)

Named == LookupDomains \cup {Nobody}
GivenAnswers == [domain : Named, active : Named, at : Nat]
WritingPcs == {"open", "write", "rename", "open_active", "write_active", "rename_active"}
LookerStates ==
    [pc : {"idle", "ask", "read"} \cup WritingPcs, domain : Named, now : Nat, failed : Nat,
     answer : GivenAnswers, file : Nat]

LookupTypes ==
    /\ clock \in Nat /\ created \in Nat /\ created <= MaxInodes
    /\ looker \in [Lookers -> LookerStates]
    /\ temporary \in [LookupDomains -> Nat] /\ entry \in [LookupDomains -> Nat]
    /\ \A d \in LookupDomains : temporary[d] <= created /\ entry[d] <= created
    /\ content \in [Inodes -> [form : {"empty", "torn", "whole"}, answer : GivenAnswers,
                               cachedAt : Nat]]

\* A process writes what it was answered, for the domain it asked for or for
\* the other one the answer names, and never before it asked.
LookerFollows(r) ==
    /\ r.pc # "idle" => r.domain \in LookupDomains /\ r.now <= clock
    /\ r.pc \in WritingPcs =>
          r.answer.domain = r.domain /\ r.answer.active \in LookupDomains /\ r.now <= r.answer.at
    /\ r.pc \in {"open_active", "write_active", "rename_active"} => r.answer.active # r.domain
    /\ r.pc \in {"write", "write_active"} => r.file # NoFile
    /\ r.file <= created

LookersFollow == \A p \in Lookers : LookerFollows(looker[p])

\* The inode has a name of the domain, or a process has it open to write it.
UsesOf(i, d) ==
    \/ temporary[d] = i \/ entry[d] = i
    \/ \E p \in Lookers :
          looker[p].pc \in {"write", "write_active"} /\ looker[p].file = i /\ Target(p) = d

\* Two domains never share one.
OneDomain ==
    \A i \in Inodes : \A d, e \in LookupDomains : UsesOf(i, d) /\ UsesOf(i, e) => d = e

Fitting ==
    \A i \in Inodes : \A d \in LookupDomains :
        UsesOf(i, d) /\ content[i].form = "whole" =>
            /\ d \in {content[i].answer.domain, content[i].answer.active}
            /\ content[i].cachedAt <= content[i].answer.at

LookupInv == LookupTypes /\ LookersFollow /\ OneDomain /\ Fitting /\ CacheHonest

\* There are no files at first.
LEMMA LookupStart == LookupInit => LookupInv
<1> SUFFICES ASSUME LookupInit PROVE LookupInv
  OBVIOUS
<1> USE DEF LookupInit, NoFile
<1>1. NoAnswer \in GivenAnswers
  BY DEF NoAnswer, GivenAnswers, Named
<1>2. /\ Idle \in LookerStates /\ Idle.pc = "idle" /\ Idle.file = 0
  BY <1>1 DEF Idle, LookerStates, Named
<1>3. Empty \in [form : {"empty", "torn", "whole"}, answer : GivenAnswers, cachedAt : Nat]
      /\ Empty.form = "empty"
  BY <1>1 DEF Empty
<1>4. LookupTypes
  BY <1>2, <1>3, LookupAssumption DEF LookupTypes
<1>5. LookersFollow
  <2>1. \A p \in Lookers : looker[p] = Idle
    OBVIOUS
  <2>2. LookerFollows(Idle)
    BY <1>2 DEF LookerFollows, WritingPcs
  <2>3. QED
    BY <2>1, <2>2 DEF LookersFollow
<1>6. \A i \in Inodes : content[i].form = "empty"
  BY <1>3
<1>7. \A i \in Inodes, d \in LookupDomains : ~ UsesOf(i, d)
  BY <1>2, LookupAssumption DEF UsesOf, Inodes
<1>8. OneDomain /\ Fitting
  BY <1>7 DEF OneDomain, Fitting
<1>9. CacheHonest
  BY DEF CacheHonest
<1>10. QED
  BY <1>4, <1>5, <1>8, <1>9 DEF LookupInv

\* A process's new state leaves the other processes alone.
LEMMA OneLooker ==
    ASSUME LookupInv, NEW p \in Lookers, NEW r \in LookerStates, Set(p, r)
    PROVE  /\ looker' \in [Lookers -> LookerStates] /\ looker'[p] = r
           /\ \A q \in Lookers : q # p => looker'[q] = looker[q] /\ Target(q)' = Target(q)
BY DEF LookupInv, LookupTypes, Set, Target

\* A process that goes on without an open file, whatever it renamed.
LEMMA LookerMoves ==
    ASSUME LookupInv, NEW p \in Lookers, NEW r \in LookerStates, Set(p, r),
           UNCHANGED <<clock, created, content>>,
           temporary' \in [LookupDomains -> Nat], entry' \in [LookupDomains -> Nat],
           \A d \in LookupDomains : /\ temporary'[d] \in {temporary[d], NoFile}
                                    /\ entry'[d] \in {entry[d], temporary[d]},
           LookerFollows(r), r.pc \notin {"write", "write_active"}, CacheHonest'
    PROVE  LookupInv'
<1> USE DEF NoFile
<1>0. LookupTypes /\ LookersFollow /\ OneDomain /\ Fitting
  BY DEF LookupInv
<1>1. /\ looker' \in [Lookers -> LookerStates] /\ looker'[p] = r
      /\ \A q \in Lookers : q # p => looker'[q] = looker[q] /\ Target(q)' = Target(q)
  BY OneLooker
<1>2. LookupTypes'
  BY <1>0, <1>1 DEF LookupTypes
<1>3. LookersFollow'
  BY <1>0, <1>1 DEF LookersFollow, LookerFollows
<1>4. ASSUME NEW i \in Inodes, NEW d \in LookupDomains, UsesOf(i, d)' PROVE UsesOf(i, d)
  <2>1. i # 0
    BY LookupAssumption DEF Inodes
  <2>2. CASE temporary'[d] = i \/ entry'[d] = i
    BY <2>1, <2>2 DEF UsesOf
  <2>3. CASE \E q \in Lookers : /\ looker'[q].pc \in {"write", "write_active"}
                                /\ looker'[q].file = i /\ Target(q)' = d
    BY <1>1, <2>3 DEF UsesOf
  <2>4. QED
    BY <1>4, <2>2, <2>3 DEF UsesOf
<1>5. OneDomain' /\ Fitting'
  BY <1>0, <1>4 DEF OneDomain, Fitting
<1>6. QED
  BY <1>2, <1>3, <1>5 DEF LookupInv

\* The file a process opens is its target's: a new one, or the one that has
\* the temporary name.
LEMMA OpenKeeps == ASSUME LookupInv, NEW p \in Lookers, OpenTemporary(p) PROVE LookupInv'
<1> USE DEF NoFile
<1>0. LookupTypes /\ LookersFollow /\ OneDomain /\ Fitting /\ CacheHonest
  BY DEF LookupInv
<1> PICK d : d = Target(p)
  OBVIOUS
<1> PICK i : i = IF temporary[d] = 0 THEN created + 1 ELSE temporary[d]
  OBVIOUS
<1> PICK c : c = IF temporary[d] = 0 THEN created + 1 ELSE created
  OBVIOUS
<1> PICK pc : pc = PcFor(p, "write", "write_active")
  OBVIOUS
<1>1. /\ looker[p] \in LookerStates /\ looker[p].pc \in {"open", "open_active"}
      /\ LookerFollows(looker[p])
  BY <1>0 DEF OpenTemporary, LookupTypes, LookersFollow
<1>2. /\ d \in LookupDomains
      /\ pc = "write" => d = looker[p].domain
      /\ pc = "write_active" => d = looker[p].answer.active /\ looker[p].answer.active # looker[p].domain
      /\ pc \in {"write", "write_active"}
      /\ looker[p].domain \in LookupDomains /\ looker[p].now <= clock
      /\ looker[p].answer.domain = looker[p].domain
      /\ looker[p].answer.active \in LookupDomains /\ looker[p].now <= looker[p].answer.at
  BY <1>1 DEF Target, PcFor, LookerFollows, WritingPcs
<1>3. /\ created \in Nat /\ temporary[d] \in Nat /\ temporary[d] <= created
  BY <1>0, <1>2 DEF LookupTypes
<1>4. /\ i \in Nat /\ c \in Nat /\ i # 0 /\ i <= c /\ created <= c
      /\ \/ i = temporary[d]
         \/ i > created
  BY <1>3
<1> PICK r : r = [looker[p] EXCEPT !.pc = pc, !.file = i]
  OBVIOUS
<1>5. /\ r \in LookerStates /\ r.pc = pc /\ r.file = i /\ r.domain = looker[p].domain
      /\ r.answer = looker[p].answer /\ r.now = looker[p].now
  BY <1>1, <1>2, <1>4 DEF LookerStates, WritingPcs
<1>6. /\ created' = c /\ i <= MaxInodes
      /\ temporary' = [temporary EXCEPT ![d] = i] /\ content' = [content EXCEPT ![i] = Empty]
      /\ Set(p, r) /\ UNCHANGED <<clock, entry, served>>
  BY DEF OpenTemporary
<1>7. /\ looker' \in [Lookers -> LookerStates] /\ looker'[p] = r
      /\ \A q \in Lookers : q # p => looker'[q] = looker[q] /\ Target(q)' = Target(q)
  BY <1>5, <1>6, OneLooker
<1>8. Target(p)' = d
  BY <1>2, <1>5, <1>7 DEF Target
<1>9. /\ temporary' \in [LookupDomains -> Nat] /\ temporary'[d] = i
      /\ \A e \in LookupDomains : e # d => temporary'[e] = temporary[e]
  BY <1>0, <1>2, <1>4, <1>6 DEF LookupTypes
<1>10. i \in Inodes
  BY <1>4, <1>6, LookupAssumption DEF Inodes
<1>11. /\ Empty \in [form : {"empty", "torn", "whole"}, answer : GivenAnswers, cachedAt : Nat]
       /\ Empty.form = "empty"
  BY DEF Empty, NoAnswer, GivenAnswers, Named
<1>12. /\ content' \in [Inodes -> [form : {"empty", "torn", "whole"}, answer : GivenAnswers,
                                   cachedAt : Nat]]
       /\ content'[i] = Empty /\ \A j \in Inodes : j # i => content'[j] = content[j]
  BY <1>0, <1>6, <1>10, <1>11 DEF LookupTypes
<1>13. LookupTypes'
  <2>1. \A e \in LookupDomains : temporary'[e] <= c /\ entry[e] <= c
    BY <1>0, <1>3, <1>4, <1>9 DEF LookupTypes
  <2>2. c <= MaxInodes
    BY <1>0, <1>6 DEF LookupTypes
  <2>3. QED
    BY <1>0, <1>4, <1>6, <1>7, <1>9, <1>12, <2>1, <2>2 DEF LookupTypes
<1>14. LookersFollow'
  <2>1. LookerFollows(r)'
    BY <1>2, <1>4, <1>5, <1>6 DEF LookerFollows, WritingPcs
  <2>2. ASSUME NEW q \in Lookers, q # p PROVE LookerFollows(looker[q])'
    <3>1. LookerFollows(looker[q]) /\ looker[q].file \in Nat
      BY <1>0, <2>2 DEF LookersFollow, LookupTypes, LookerStates
    <3>2. looker'[q] = looker[q]
      BY <1>7, <2>2
    <3>3. looker[q].file <= created'
      BY <1>3, <1>4, <1>6, <3>1 DEF LookerFollows
    <3>4. QED
      BY <1>6, <3>1, <3>2, <3>3 DEF LookerFollows
  <2>3. QED
    BY <1>5, <1>7, <2>1, <2>2 DEF LookersFollow, LookerFollows
<1>15. ASSUME NEW j \in Inodes, NEW e \in LookupDomains, UsesOf(j, e)'
       PROVE  UsesOf(j, e) \/ (j = i /\ e = d)
  <2>1. CASE temporary'[e] = j \/ entry'[e] = j
    BY <1>6, <1>9, <2>1 DEF UsesOf
  <2>2. CASE \E q \in Lookers : /\ looker'[q].pc \in {"write", "write_active"}
                                /\ looker'[q].file = j /\ Target(q)' = e
    <3>1. PICK q \in Lookers : /\ looker'[q].pc \in {"write", "write_active"}
                               /\ looker'[q].file = j /\ Target(q)' = e
      BY <2>2
    <3>2. CASE q = p
      <4>1. looker'[q] = r /\ Target(q)' = d
        BY <1>7, <1>8, <3>2
      <4>2. QED
        BY <1>5, <3>1, <4>1
    <3>3. CASE q # p
      BY <1>7, <3>1, <3>3 DEF UsesOf
    <3>4. QED
      BY <3>2, <3>3
  <2>3. QED
    BY <1>15, <2>1, <2>2 DEF UsesOf
<1>16. ASSUME NEW e \in LookupDomains, UsesOf(i, e) PROVE e = d
  <2>1. CASE i = temporary[d]
    BY <1>0, <1>2, <1>10, <1>16, <2>1 DEF OneDomain, UsesOf
  <2>2. CASE i > created
    <3>1. temporary[e] # i /\ entry[e] # i
      BY <1>0, <1>4, <2>2 DEF LookupTypes
    <3>2. \A q \in Lookers : looker[q].file # i
      BY <1>0, <1>3, <1>4, <2>2 DEF LookersFollow, LookerFollows, LookupTypes, LookerStates
    <3>3. QED
      BY <1>16, <3>1, <3>2 DEF UsesOf
  <2>3. QED
    BY <1>4, <2>1, <2>2
<1>17. OneDomain'
  BY <1>0, <1>15, <1>16 DEF OneDomain
<1>18. Fitting'
  BY <1>0, <1>11, <1>12, <1>15 DEF Fitting
<1>19. CacheHonest'
  BY <1>0, <1>6 DEF CacheHonest
<1>20. QED
  BY <1>13, <1>14, <1>17, <1>18, <1>19 DEF LookupInv

\* What a process writes is an answer for its target, and what two leave
\* together does not parse.
LEMMA WriteKeeps == ASSUME LookupInv, NEW p \in Lookers, WriteTemporary(p) PROVE LookupInv'
<1> USE DEF NoFile
<1>0. LookupTypes /\ LookersFollow /\ OneDomain /\ Fitting /\ CacheHonest
  BY DEF LookupInv
<1> PICK i : i = looker[p].file
  OBVIOUS
<1> PICK d : d = Target(p)
  OBVIOUS
<1> PICK pc : pc = PcFor(p, "rename", "rename_active")
  OBVIOUS
<1>1. /\ looker[p] \in LookerStates /\ looker[p].pc \in {"write", "write_active"}
      /\ LookerFollows(looker[p]) /\ i \in Nat /\ i # 0
  BY <1>0 DEF WriteTemporary, LookupTypes, LookersFollow, LookerFollows, LookerStates
<1>2. /\ d \in LookupDomains /\ d \in {looker[p].answer.domain, looker[p].answer.active}
      /\ pc = "rename_active" => looker[p].answer.active # looker[p].domain
      /\ pc \in {"rename", "rename_active"}
      /\ looker[p].answer \in GivenAnswers /\ looker[p].now \in Nat
      /\ looker[p].now <= looker[p].answer.at
  BY <1>1 DEF Target, PcFor, LookerFollows, LookerStates, WritingPcs
<1> PICK r : r = [looker[p] EXCEPT !.pc = pc]
  OBVIOUS
<1>3. /\ r \in LookerStates /\ r.pc = pc /\ r.file = i /\ r.domain = looker[p].domain
      /\ r.answer = looker[p].answer /\ r.now = looker[p].now
  BY <1>1, <1>2 DEF LookerStates, WritingPcs
<1> PICK mine : mine = [form |-> "whole", answer |-> looker[p].answer, cachedAt |-> looker[p].now]
  OBVIOUS
<1>4. /\ content' = [content EXCEPT ![i] = mine] \/ content' = [content EXCEPT ![i] = Torn]
      /\ Set(p, r) /\ UNCHANGED <<clock, temporary, entry, created, served>>
  BY DEF WriteTemporary
<1>5. /\ looker' \in [Lookers -> LookerStates] /\ looker'[p] = r
      /\ \A q \in Lookers : q # p => looker'[q] = looker[q] /\ Target(q)' = Target(q)
  BY <1>3, <1>4, OneLooker
<1>6. Torn \in [form : {"empty", "torn", "whole"}, answer : GivenAnswers, cachedAt : Nat]
      /\ Torn.form = "torn"
  BY DEF Torn, Empty, NoAnswer, GivenAnswers, Named
<1>7. PICK new : /\ new \in [form : {"empty", "torn", "whole"}, answer : GivenAnswers, cachedAt : Nat]
                 /\ new \in {mine, Torn} /\ content' = [content EXCEPT ![i] = new]
  BY <1>2, <1>4, <1>6
<1>8. /\ content' \in [Inodes -> [form : {"empty", "torn", "whole"}, answer : GivenAnswers,
                                  cachedAt : Nat]]
      /\ \A j \in Inodes : content'[j] = IF j = i THEN new ELSE content[j]
  BY <1>0, <1>7 DEF LookupTypes
<1>9. LookupTypes'
  BY <1>0, <1>4, <1>5, <1>8 DEF LookupTypes
<1>10. LookersFollow'
  <2>1. LookerFollows(r)'
    BY <1>1, <1>2, <1>3, <1>4 DEF LookerFollows, WritingPcs
  <2>2. QED
    BY <1>0, <1>4, <1>5, <2>1 DEF LookersFollow, LookerFollows
<1>11. ASSUME NEW j \in Inodes, NEW e \in LookupDomains, UsesOf(j, e)' PROVE UsesOf(j, e)
  BY <1>2, <1>3, <1>4, <1>5, <1>11 DEF UsesOf
<1>12. ASSUME NEW e \in LookupDomains, UsesOf(i, e), i \in Inodes PROVE e = d
  BY <1>0, <1>1, <1>2, <1>12 DEF OneDomain, UsesOf
<1>13. OneDomain'
  BY <1>0, <1>11 DEF OneDomain
<1>14. Fitting'
  <2> SUFFICES ASSUME NEW j \in Inodes, NEW e \in LookupDomains, UsesOf(j, e)',
                      content'[j].form = "whole"
               PROVE  /\ e \in {content'[j].answer.domain, content'[j].answer.active}
                      /\ content'[j].cachedAt <= content'[j].answer.at
    BY DEF Fitting
  <2>1. UsesOf(j, e)
    BY <1>11
  <2>2. CASE j # i
    BY <1>0, <1>8, <2>1, <2>2 DEF Fitting
  <2>3. CASE j = i
    <3>1. e = d
      BY <1>12, <2>1, <2>3
    <3>2. content'[j] = mine
      BY <1>6, <1>7, <1>8, <2>3
    <3>3. QED
      BY <1>2, <3>1, <3>2
  <2>4. QED
    BY <2>2, <2>3
<1>15. CacheHonest'
  BY <1>0, <1>4 DEF CacheHonest
<1>16. QED
  BY <1>9, <1>10, <1>13, <1>14, <1>15 DEF LookupInv

\* Every step of a lookup keeps it, and the clock.
LEMMA LookupKeeps == ASSUME LookupInv, [LookupNext]_lookupVars PROVE LookupInv'
<1> USE DEF NoFile
<1>0. LookupTypes /\ LookersFollow /\ OneDomain /\ Fitting /\ CacheHonest
  BY DEF LookupInv
<1>a. /\ Idle \in LookerStates /\ LookerFollows(Idle) /\ Idle.pc = "idle"
      /\ Idle = [pc |-> "idle", domain |-> Nobody, now |-> 0, failed |-> 0, answer |-> NoAnswer, file |-> 0]
  BY <1>0 DEF Idle, NoAnswer, GivenAnswers, LookerStates, Named, LookerFollows, WritingPcs, LookupTypes
<1>b. /\ temporary \in [LookupDomains -> Nat] /\ entry \in [LookupDomains -> Nat] /\ clock \in Nat
      /\ created \in Nat /\ \A p \in Lookers : looker[p] \in LookerStates /\ LookerFollows(looker[p])
  BY <1>0 DEF LookupTypes, LookersFollow
<1>1. ASSUME NEW p \in Lookers, Begin(p) PROVE LookupInv'
  <2> PICK d \in LookupDomains : Set(p, [Idle EXCEPT !.pc = "ask", !.domain = d, !.now = clock])
    BY <1>1 DEF Begin
  <2> PICK r : r = [Idle EXCEPT !.pc = "ask", !.domain = d, !.now = clock]
    OBVIOUS
  <2>1. r \in LookerStates /\ r.pc = "ask" /\ r.domain = d /\ r.now = clock /\ r.file = 0
    BY <1>a, <1>b DEF LookerStates, Named
  <2>2. LookerFollows(r)
    BY <1>b, <2>1 DEF LookerFollows, WritingPcs
  <2>3. Set(p, r) /\ UNCHANGED <<clock, temporary, entry, content, created, served>> /\ CacheHonest'
    BY <1>0, <1>1 DEF Begin, CacheHonest
  <2>4. QED
    BY <1>b, <2>1, <2>2, <2>3, LookerMoves
<1>2. ASSUME NEW p \in Lookers, AttemptOk(p) PROVE LookupInv'
  <2> PICK a \in LookupDomains :
         Set(p, [looker[p] EXCEPT !.pc = "open", !.failed = 0,
                   !.answer = [domain |-> looker[p].domain, active |-> a, at |-> clock]])
    BY <1>2 DEF AttemptOk
  <2> PICK g : g = [domain |-> looker[p].domain, active |-> a, at |-> clock]
    OBVIOUS
  <2> PICK r : r = [looker[p] EXCEPT !.pc = "open", !.failed = 0, !.answer = g]
    OBVIOUS
  <2>0. /\ looker[p].pc = "ask" /\ looker[p] \in LookerStates /\ LookerFollows(looker[p])
    BY <1>2, <1>b DEF AttemptOk
  <2>a. g \in GivenAnswers /\ g.domain = looker[p].domain /\ g.active = a /\ g.at = clock
    BY <1>b, <2>0 DEF GivenAnswers, LookerStates, Named
  <2>1. r \in LookerStates /\ r.pc = "open" /\ r.domain = looker[p].domain
        /\ r.now = looker[p].now /\ r.answer = g /\ r.file = looker[p].file
    BY <2>0, <2>a DEF LookerStates, WritingPcs
  <2>2. LookerFollows(r)
    BY <2>0, <2>a, <2>1 DEF LookerFollows, WritingPcs
  <2>3. Set(p, r) /\ UNCHANGED <<clock, temporary, entry, content, created, served>> /\ CacheHonest'
    BY <1>0, <1>2 DEF AttemptOk, CacheHonest
  <2>4. QED
    BY <1>b, <2>1, <2>2, <2>3, LookerMoves
<1>3. ASSUME NEW p \in Lookers, AttemptFails(p) PROVE LookupInv'
  <2>0. /\ looker[p].pc = "ask" /\ looker[p] \in LookerStates /\ LookerFollows(looker[p])
        /\ looker[p].failed \in Nat
    BY <1>3, <1>b DEF AttemptFails, LookerStates
  <2> PICK k \in Nat : k = looker[p].failed + 1
    BY <2>0
  <2>1. \E pc \in {"ask", "read"} : \E f \in Nat : Set(p, [looker[p] EXCEPT !.pc = pc, !.failed = f])
    <3>1. CASE looker[p].failed + 1 < Endpoints * PerServer
      <4>1. [looker[p] EXCEPT !.failed = k] = [looker[p] EXCEPT !.pc = "ask", !.failed = k]
        BY <2>0 DEF LookerStates
      <4>2. Set(p, [looker[p] EXCEPT !.failed = k])
        BY <1>3, <3>1 DEF AttemptFails
      <4>3. Set(p, [looker[p] EXCEPT !.pc = "ask", !.failed = k])
        BY <4>1, <4>2, Zenon
      <4>4. QED
        BY <4>3
    <3>2. CASE ~ (looker[p].failed + 1 < Endpoints * PerServer)
      <4>1. Set(p, [looker[p] EXCEPT !.pc = "read", !.failed = 0])
        BY <1>3, <3>2 DEF AttemptFails
      <4>2. QED
        BY <4>1
    <3>3. QED
      BY <3>1, <3>2
  <2>2. PICK r : \E pc \in {"ask", "read"} : \E f \in Nat :
           Set(p, r) /\ r = [looker[p] EXCEPT !.pc = pc, !.failed = f]
    BY <2>1
  <2>3. /\ r \in LookerStates /\ r.pc \in {"ask", "read"} /\ r.domain = looker[p].domain
        /\ r.now = looker[p].now /\ r.answer = looker[p].answer /\ r.file = looker[p].file
    BY <2>0, <2>2 DEF LookerStates
  <2>4. LookerFollows(r)
    BY <2>0, <2>3 DEF LookerFollows, WritingPcs
  <2>5. Set(p, r) /\ UNCHANGED <<clock, temporary, entry, content, created, served>> /\ CacheHonest'
    BY <1>0, <1>3, <2>2 DEF AttemptFails, CacheHonest
  <2>6. QED
    BY <1>b, <2>3, <2>4, <2>5, LookerMoves
<1>c. ASSUME NEW p \in Lookers, looker[p].pc \in WritingPcs
      PROVE  /\ Done(p) \in LookerStates /\ LookerFollows(Done(p))
             /\ Done(p).pc \notin {"write", "write_active"} /\ Target(p) \in LookupDomains
  <2>0. looker[p] \in LookerStates /\ LookerFollows(looker[p])
    BY <1>b
  <2>1. Target(p) \in LookupDomains
    BY <1>c, <2>0 DEF Target, LookerFollows, WritingPcs
  <2>2. CASE ~ (Target(p) = looker[p].domain /\ looker[p].answer.active # looker[p].domain)
    <3>1. Done(p) = Idle
      BY <2>2 DEF Done
    <3>2. QED
      BY <1>a, <2>1, <3>1
  <2>3. CASE Target(p) = looker[p].domain /\ looker[p].answer.active # looker[p].domain
    <3> PICK r : r = [looker[p] EXCEPT !.pc = "open_active", !.file = 0]
      OBVIOUS
    <3>1. Done(p) = r
      BY <2>3 DEF Done
    <3>2. /\ r \in LookerStates /\ r.pc = "open_active" /\ r.domain = looker[p].domain
          /\ r.now = looker[p].now /\ r.answer = looker[p].answer /\ r.file = 0
      BY <2>0 DEF LookerStates, WritingPcs
    <3>3. LookerFollows(r)
      BY <1>b, <1>c, <2>0, <2>3, <3>2 DEF LookerFollows, WritingPcs
    <3>4. QED
      BY <2>1, <3>1, <3>2, <3>3
  <2>4. QED
    BY <2>2, <2>3
<1>4. ASSUME NEW p \in Lookers, RenameTemporary(p) PROVE LookupInv'
  <2>1. looker[p].pc \in WritingPcs
    BY <1>4 DEF RenameTemporary, WritingPcs
  <2>2. /\ temporary' \in [LookupDomains -> Nat] /\ entry' \in [LookupDomains -> Nat]
        /\ \A d \in LookupDomains : /\ temporary'[d] \in {temporary[d], NoFile}
                                    /\ entry'[d] \in {entry[d], temporary[d]}
    BY <1>4, <1>b, <1>c, <2>1 DEF RenameTemporary
  <2>3. Set(p, Done(p)) /\ UNCHANGED <<clock, created, content>> /\ CacheHonest'
    BY <1>0, <1>4 DEF RenameTemporary, CacheHonest
  <2>4. QED
    BY <1>c, <2>1, <2>2, <2>3, LookerMoves
<1>5. ASSUME NEW p \in Lookers, CacheWriteFails(p) PROVE LookupInv'
  <2>1. looker[p].pc \in WritingPcs
    BY <1>5 DEF CacheWriteFails, WritingPcs
  <2>2. Set(p, Done(p)) /\ UNCHANGED <<clock, temporary, entry, created, content>> /\ CacheHonest'
    BY <1>0, <1>5 DEF CacheWriteFails, CacheHonest
  <2>3. QED
    BY <1>b, <1>c, <2>1, <2>2, LookerMoves
<1>6. ASSUME NEW p \in Lookers, ReadCache(p) PROVE LookupInv'
  <2>1. Set(p, Idle) /\ UNCHANGED <<clock, temporary, entry, created, content>>
        /\ looker[p].pc = "read" /\ looker[p].domain \in LookupDomains /\ looker[p].now \in Nat
    BY <1>6, <1>b DEF ReadCache, LookerFollows, LookerStates
  <2> PICK i : i = entry[looker[p].domain]
    OBVIOUS
  <2>2. CacheHonest'
    <3>1. CASE ~ Usable(i, looker[p].now)
      BY <1>0, <1>6, <3>1 DEF ReadCache, CacheHonest
    <3>2. CASE Usable(i, looker[p].now)
      <4>1. served' = [answer |-> content[i].answer, domain |-> looker[p].domain, now |-> looker[p].now]
        BY <1>6, <3>2 DEF ReadCache
      <4>2. i \in Nat /\ i # 0 /\ content[i].form = "whole" /\ looker[p].now - content[i].cachedAt <= Ttl
        BY <1>b, <2>1, <3>2 DEF Usable
      <4>3. CASE i \in Inodes
        <5>1. UsesOf(i, looker[p].domain)
          BY DEF UsesOf
        <5>2. /\ looker[p].domain \in {content[i].answer.domain, content[i].answer.active}
              /\ content[i].cachedAt <= content[i].answer.at
          BY <1>0, <2>1, <4>2, <4>3, <5>1 DEF Fitting
        <5>3. content[i].cachedAt \in Nat /\ content[i].answer.at \in Nat
          BY <1>0, <4>3 DEF LookupTypes, GivenAnswers
        <5>4. looker[p].now - content[i].answer.at <= Ttl
          BY <2>1, <4>2, <5>2, <5>3, LookupAssumption
        <5>5. QED
          BY <4>1, <5>2, <5>4 DEF CacheHonest
      <4>4. i \in Inodes
        BY <1>0, <1>b, <2>1, <4>2, LookupAssumption DEF Inodes, LookupTypes
      <4>5. QED
        BY <4>3, <4>4
    <3>3. QED
      BY <3>1, <3>2
  <2>3. QED
    BY <1>a, <1>b, <2>1, <2>2, LookerMoves
<1>7. ASSUME NEW p \in Lookers, Killed(p) PROVE LookupInv'
  <2>1. Set(p, Idle) /\ UNCHANGED <<clock, temporary, entry, created, content>> /\ CacheHonest'
    BY <1>0, <1>7 DEF Killed, CacheHonest
  <2>2. QED
    BY <1>a, <1>b, <2>1, LookerMoves
<1>8. CASE ClockTick
  <2>1. clock' = clock + 1 /\ UNCHANGED <<looker, temporary, entry, content, created, served>>
    BY <1>8 DEF ClockTick
  <2>2. LookupTypes'
    BY <1>0, <2>1 DEF LookupTypes
  <2>3. LookersFollow'
    BY <1>0, <1>b, <2>1 DEF LookersFollow, LookerFollows, LookerStates
  <2>4. OneDomain' /\ Fitting' /\ CacheHonest'
    BY <1>0, <2>1 DEF OneDomain, Fitting, UsesOf, Target, CacheHonest
  <2>5. QED
    BY <2>2, <2>3, <2>4 DEF LookupInv
<1>9. CASE UNCHANGED lookupVars
  BY <1>0, <1>9 DEF lookupVars, LookupInv, LookupTypes, LookersFollow, LookerFollows, OneDomain, Fitting,
                    UsesOf, Target, CacheHonest
<1>10. QED
  BY <1>1, <1>2, <1>3, <1>4, <1>5, <1>6, <1>7, <1>8, <1>9, OpenKeeps, WriteKeeps
     DEF LookupNext, LookupStep, LookupEnded

\* For every number of processes and domains, every lifetime and every
\* interleaving of their writes: a cached answer that is used is one that was
\* given, for that domain, within the lifetime.
THEOREM CacheAlwaysHonest == LookupSpec => []CacheHonest
<1>1. LookupInit => LookupInv
  BY LookupStart
<1>2. LookupInv /\ [LookupNext]_lookupVars => LookupInv'
  BY LookupKeeps
<1>3. LookupInv => CacheHonest
  BY DEF LookupInv
<1>4. QED
  BY <1>1, <1>2, <1>3, PTL DEF LookupSpec

-----------------------------------------------------------------------------
(* The file with the profiles. *)

AllNames == TempNames \cup {State}
Replacing == {"write", "sync", "replace"}
HasFile == {"sync_directory"} \cup Replacing
Held == {"open"} \cup HasFile
WriteStates == [file : Nat, name : AllNames, version : Nat]

FileTypes ==
    /\ files \in Nat /\ files <= MaxFiles /\ acked \in Nat /\ through \in BOOLEAN
    /\ names \in [AllNames -> 0..files] /\ namesKept \in [AllNames -> 0..files]
    /\ text \in [1..MaxFiles -> Int] /\ textKept \in [1..MaxFiles -> Int]
    /\ step \in [Writers -> {"off", "idle"} \cup Held]
    /\ tempCount \in [Writers -> Nat] /\ pid \in [Writers -> Pids \cup {NoPid}]
    /\ writes \in [Writers -> WriteStates]

\* The lock is held by the process that is at work, whose file is one it
\* created and whose document is later than what was acknowledged.
StepsFollow ==
    \A p \in Writers :
        /\ step[p] \in Held => holder = p
        /\ step[p] # "off" => pid[p] \in Pids
        /\ step[p] = "open" => tempCount[p] < MaxNames /\ files < MaxFiles
        /\ step[p] \notin HasFile => writes[p].file = 0
        /\ step[p] \in Held => acked <= writes[p].version
        /\ step[p] \in HasFile =>
              writes[p].file \in 1..files /\ writes[p].name \in TempNames

\* What is on the disk at each step of a replacement.
WritesFollow ==
    \A p \in Writers :
        /\ step[p] \in Replacing =>
              /\ writes[p].file # names[State] /\ writes[p].file # namesKept[State]
              /\ names[writes[p].name] = writes[p].file
        /\ step[p] = "sync" => text[writes[p].file] = writes[p].version
        /\ step[p] \in {"replace", "sync_directory"} =>
              /\ text[writes[p].file] = writes[p].version
              /\ textKept[writes[p].file] = writes[p].version
        /\ step[p] = "sync_directory" =>
              /\ names[State] = writes[p].file
              /\ through => namesKept[State] = writes[p].file

\* A file that has the document's name, in memory or on the disk, is written
\* and synced.
Settled(f) ==
    IF f = 0 THEN acked = 0 ELSE text[f] = textKept[f] /\ text[f] \in Nat /\ acked <= text[f]

DocumentSettled == Settled(names[State]) /\ Settled(namesKept[State])

StateFileInv == FileTypes /\ StepsFollow /\ WritesFollow /\ DocumentSettled

\* The document's name is not one of a temporary file.
LEMMA StateIsNoTemporary == State \notin TempNames
BY DEF State, TempNames

\* A name that open_temporary settles on is free and a temporary one.
LEMMA FirstFreeIsFree ==
    ASSUME FileTypes, NEW p \in Writers, FreeNames(p) # {}, pid[p] \in Pids, tempCount[p] < MaxNames
    PROVE  /\ FirstFree(p) \in Nat /\ Temporary(p, FirstFree(p)) \in TempNames
           /\ names[Temporary(p, FirstFree(p))] = 0
<1>1. tempCount[p] \in Nat /\ OpenTries \in Nat /\ MaxNames \in Nat
  BY StateFileAssumption DEF FileTypes
<1>2. FreeNames(p) \subseteq Nat
  BY <1>1 DEF FreeNames
<1>3. \E x \in FreeNames(p) : \A y \in FreeNames(p) : x <= y
  BY <1>2, LeastNatural
<1>4. FirstFree(p) \in FreeNames(p)
  BY <1>3 DEF FirstFree
<1>5. /\ FirstFree(p) \in tempCount[p] .. (tempCount[p] + OpenTries - 1)
      /\ names[Temporary(p, FirstFree(p))] = 0
  BY <1>4 DEF FreeNames
<1> HIDE DEF FirstFree
<1>6. FirstFree(p) \in 0 .. (MaxNames + OpenTries) /\ FirstFree(p) \in Nat
  BY <1>1, <1>5
<1>7. QED
  BY <1>5, <1>6 DEF Temporary, TempNames

\* Nothing was written at first.
LEMMA StateFileStart == StateFileInit => StateFileInv
<1> SUFFICES ASSUME StateFileInit PROVE StateFileInv
  OBVIOUS
<1>1. NoWrite \in WriteStates /\ NoWrite.file = 0
  BY DEF NoWrite, AllNames, WriteStates
<1>2. FileTypes
  BY <1>1, StateFileAssumption DEF StateFileInit, FileTypes, AllNames, Partial, Held
<1>3. \A p \in Writers : step[p] = "off" /\ writes[p].file = 0
  BY <1>1 DEF StateFileInit
<1>4. StepsFollow /\ WritesFollow
  BY <1>3 DEF StepsFollow, WritesFollow, Held, HasFile, Replacing
<1>5. DocumentSettled
  BY DEF StateFileInit, DocumentSettled, Settled
<1>6. QED
  BY <1>2, <1>4, <1>5 DEF StateFileInv

\* Only one process is at work.
LEMMA OneAtWork ==
    ASSUME StateFileInv, NEW p \in Writers, step[p] \in Held, NEW q \in Writers, q # p
    PROVE  step[q] \in {"off", "idle"} /\ writes[q].file = 0
BY DEF StateFileInv, StepsFollow, FileTypes, Held, HasFile, Replacing

\* An update that ends, or a process: what it left behind has a temporary name.
LEMMA WriterQuits ==
    ASSUME StateFileInv, NEW p \in Writers, NEW at \in {"off", "idle"},
           step' = [step EXCEPT ![p] = at], writes' = [writes EXCEPT ![p] = NoWrite],
           UNCHANGED <<namesKept, text, textKept, files, acked, through>>,
           holder' = holder \/ holder = p, at = "idle" => pid'[p] \in Pids,
           tempCount' \in [Writers -> Nat], pid' \in [Writers -> Pids \cup {NoPid}],
           \A q \in Writers : q # p => tempCount'[q] = tempCount[q] /\ pid'[q] = pid[q],
           \/ UNCHANGED names
           \/ \E n \in TempNames : names' = [names EXCEPT ![n] = 0] /\ step[p] \in Held
    PROVE  StateFileInv'
<1>0. FileTypes /\ StepsFollow /\ WritesFollow /\ DocumentSettled
  BY DEF StateFileInv
<1>1. NoWrite \in WriteStates /\ NoWrite.file = 0
  BY DEF NoWrite, AllNames, WriteStates
<1>2. /\ step' \in [Writers -> {"off", "idle"} \cup Held] /\ step'[p] = at
      /\ writes' \in [Writers -> WriteStates]
      /\ writes'[p].file = 0
      /\ \A q \in Writers : q # p => step'[q] = step[q] /\ writes'[q] = writes[q]
  BY <1>0, <1>1 DEF FileTypes
<1>3. names' \in [AllNames -> 0..files] /\ names'[State] = names[State]
  <2>1. CASE UNCHANGED names
    BY <1>0, <2>1 DEF FileTypes
  <2>2. CASE \E n \in TempNames : names' = [names EXCEPT ![n] = 0] /\ step[p] \in Held
    BY <1>0, <2>2, StateIsNoTemporary DEF FileTypes, AllNames
  <2>3. QED
    BY <2>1, <2>2
<1>4. FileTypes'
  BY <1>0, <1>2, <1>3 DEF FileTypes
<1>5. ASSUME NEW q \in Writers, q # p, step[q] \in Held
      PROVE  UNCHANGED <<names, holder>>
  <2>1. step[p] \notin Held /\ holder = q
    BY <1>0, <1>5 DEF StepsFollow
  <2>2. QED
    BY <1>5, <2>1
<1>6. StepsFollow'
  <2>1. ASSUME NEW q \in Writers, q # p
        PROVE  step'[q] \in Held => holder' = q
    BY <1>0, <1>2, <1>5, <2>1 DEF StepsFollow
  <2>2. QED
    BY <1>0, <1>2, <2>1 DEF StepsFollow, Held, HasFile, Replacing
<1>7. WritesFollow'
  <2>1. ASSUME NEW q \in Writers, q # p, step[q] \in Held PROVE names' = names
    BY <1>5, <2>1
  <2>2. QED
    BY <1>0, <1>2, <1>3, <2>1 DEF WritesFollow, Held, HasFile, Replacing
<1>8. DocumentSettled'
  BY <1>0, <1>3 DEF DocumentSettled, Settled
<1>9. QED
  BY <1>4, <1>6, <1>7, <1>8 DEF StateFileInv

\* A step of the process at work once it has a file; the other processes are
\* idle.
LEMMA WriterMoves ==
    ASSUME StateFileInv, NEW p \in Writers, step[p] \in Held, holder' = p, FileTypes',
           NEW at \in HasFile,
           NEW w \in WriteStates,
           step' = [step EXCEPT ![p] = at], writes' = [writes EXCEPT ![p] = w],
           UNCHANGED <<acked, pid>>, w.file \in 1..files', w.name \in TempNames,
           acked <= w.version
    PROVE  /\ StepsFollow' /\ step'[p] = at /\ writes'[p] = w
           /\ \A q \in Writers : q # p => step'[q] \in {"off", "idle"}
<1>0. FileTypes /\ StepsFollow
  BY DEF StateFileInv
<1>1. /\ step'[p] = at /\ writes'[p] = w
      /\ \A q \in Writers : q # p => step'[q] = step[q] /\ writes'[q] = writes[q]
  BY <1>0 DEF FileTypes
<1>2. ASSUME NEW q \in Writers, q # p PROVE step[q] \in {"off", "idle"} /\ writes[q].file = 0
  BY <1>2, OneAtWork
<1>3. pid[p] \in Pids
  BY <1>0 DEF StepsFollow, Held, HasFile, Replacing
<1>4. StepsFollow'
  BY <1>0, <1>1, <1>2, <1>3 DEF StepsFollow, Held, HasFile, Replacing
<1>5. QED
  BY <1>1, <1>2, <1>4

\* An update begins with a document that was acknowledged or is later.
LEMMA LockKeeps == ASSUME StateFileInv, NEW p \in Writers, Lock(p) PROVE StateFileInv'
<1> USE DEF fileVars, others
<1>0. FileTypes /\ StepsFollow /\ WritesFollow /\ DocumentSettled
  BY DEF StateFileInv
<1>1. State \in AllNames
  BY DEF AllNames
<1>2. Current \in Nat /\ acked <= Current
  <2>1. names[State] \in 0..files /\ files \in Nat /\ acked \in Nat
    BY <1>0, <1>1 DEF FileTypes
  <2>2. QED
    BY <1>0, <2>1 DEF Current, Document, DocumentSettled, Settled
<1> PICK v \in Nat : v = Current + 1
  BY <1>2
<1> PICK w : w = [writes[p] EXCEPT !.version = v]
  OBVIOUS
<1>3. writes[p] \in WriteStates /\ acked \in Nat
      /\ writes[p].file = 0 /\ step[p] = "idle" /\ holder = NoHolder
      /\ tempCount[p] < MaxNames /\ files < MaxFiles
  BY <1>0 DEF FileTypes, StepsFollow, Lock, To, HasFile, Replacing
<1>4. w \in WriteStates /\ w.file = 0 /\ w.version = v
  BY <1>3 DEF WriteStates
<1>5. /\ step' = [step EXCEPT ![p] = "open"] /\ writes' = [writes EXCEPT ![p] = w] /\ holder' = p
      /\ UNCHANGED <<names, namesKept, text, textKept, files, tempCount, acked, pid, through>>
  BY <1>0 DEF Lock, To, FileTypes
<1>6. FileTypes'
  BY <1>0, <1>4, <1>5 DEF FileTypes, Held
<1>7. acked <= w.version /\ "open" \in Held
  BY <1>2, <1>3, <1>4 DEF Held
<1>8. /\ StepsFollow' /\ step'[p] = "open" /\ writes'[p] = w
      /\ \A q \in Writers : q # p => step'[q] \in {"off", "idle"}
  <2>1. /\ step'[p] = "open" /\ writes'[p] = w
        /\ \A q \in Writers : q # p => step'[q] = step[q] /\ writes'[q] = writes[q]
    BY <1>0, <1>5 DEF FileTypes
  <2>2. ASSUME NEW q \in Writers, q # p PROVE step[q] \in {"off", "idle"} /\ writes[q].file = 0
    <3>1. step[q] \notin Held
      BY <1>0, <1>3, StateFileAssumption DEF StepsFollow
    <3>2. QED
      BY <1>0, <3>1 DEF StepsFollow, FileTypes, Held, HasFile, Replacing
  <2>3. StepsFollow'
    BY <1>0, <1>3, <1>4, <1>5, <1>7, <2>1, <2>2 DEF StepsFollow, Held, HasFile, Replacing
  <2>4. QED
    BY <2>1, <2>2, <2>3
<1>9. WritesFollow'
  BY <1>8 DEF WritesFollow, Replacing
<1>10. DocumentSettled'
  BY <1>0, <1>5 DEF DocumentSettled, Settled
<1>11. QED
  BY <1>6, <1>8, <1>9, <1>10 DEF StateFileInv

\* The temporary file is a new one, under a name nobody left behind.
LEMMA CreateKeeps == ASSUME StateFileInv, NEW p \in Writers, CreateTemporary(p) PROVE StateFileInv'
<1> USE DEF fileVars, others
<1>0. FileTypes /\ StepsFollow /\ WritesFollow /\ DocumentSettled
  BY DEF StateFileInv
<1>1. /\ step[p] = "open" /\ FreeNames(p) # {} /\ "open" \in Held /\ "write" \in Held
      /\ State \in AllNames /\ files \in Nat
  BY <1>0 DEF CreateTemporary, To, Held, HasFile, Replacing, AllNames, FileTypes
<1>2. /\ pid[p] \in Pids /\ tempCount[p] < MaxNames /\ files < MaxFiles /\ holder = p
      /\ acked <= writes[p].version
      /\ writes[p] \in WriteStates
  BY <1>0, <1>1 DEF StepsFollow, FileTypes
<1> PICK k : k = FirstFree(p)
  OBVIOUS
<1> PICK n : n = Temporary(p, k)
  OBVIOUS
<1>3. k \in Nat /\ n \in TempNames /\ names[n] = 0
  BY <1>0, <1>1, <1>2, FirstFreeIsFree
<1> PICK f \in Nat : f = files + 1
  BY <1>1
<1> PICK c \in Nat : c = k + 1
  BY <1>3
<1> PICK w : w = [writes[p] EXCEPT !.file = f, !.name = n]
  OBVIOUS
<1>4. /\ w \in WriteStates /\ w.file = f /\ w.name = n
      /\ w.version = writes[p].version
  BY <1>2, <1>3 DEF AllNames, WriteStates
<1>5. /\ step' = [step EXCEPT ![p] = "write"] /\ names' = [names EXCEPT ![n] = f]
      /\ tempCount' = [tempCount EXCEPT ![p] = c] /\ files' = f
      /\ UNCHANGED <<namesKept, text, textKept, acked, pid, through>> /\ holder' = p
  BY <1>2 DEF CreateTemporary, To
<1>6. writes' = [writes EXCEPT ![p] = w]
  BY <1>0 DEF CreateTemporary, FileTypes
<1>7. /\ names' \in [AllNames -> 0..f] /\ names'[n] = f /\ names'[State] = names[State]
      /\ namesKept' \in [AllNames -> 0..f] /\ f <= MaxFiles
      /\ names[State] < f /\ namesKept[State] < f
      /\ names[State] \in Nat /\ namesKept[State] \in Nat
  <2>1. names \in [AllNames -> 0..files] /\ namesKept \in [AllNames -> 0..files] /\ MaxFiles \in Nat
    BY <1>0, StateFileAssumption DEF FileTypes
  <2>2. names[State] \in 0..files /\ namesKept[State] \in 0..files
    BY <1>1, <2>1
  <2>3. names[State] < f /\ namesKept[State] < f
    BY <1>1, <2>2
  <2>4. f <= MaxFiles
    BY <1>1, <1>2, <2>1
  <2>5. \A m \in AllNames : names[m] \in 0..f /\ namesKept[m] \in 0..f
    BY <1>1, <2>1
  <2>a. names \in [AllNames -> 0..f] /\ namesKept \in [AllNames -> 0..f] /\ f \in 0..f
    BY <1>1, <2>1, <2>5
  <2>6. names' \in [AllNames -> 0..f] /\ namesKept' \in [AllNames -> 0..f]
    BY <1>5, <2>a
  <2>7. names'[n] = f /\ names'[State] = names[State]
    BY <1>1, <1>3, <1>5, <2>1, StateIsNoTemporary DEF AllNames
  <2>8. QED
    BY <1>1, <2>2, <2>3, <2>4, <2>6, <2>7
<1>8. FileTypes'
  BY <1>0, <1>1, <1>4, <1>5, <1>6, <1>7 DEF FileTypes
<1>9. w.file \in 1..files'
  BY <1>1, <1>4, <1>5
<1>10. /\ StepsFollow' /\ step'[p] = "write" /\ writes'[p] = w
       /\ \A q \in Writers : q # p => step'[q] \in {"off", "idle"}
  <2>1. "write" \in HasFile /\ w.name \in TempNames /\ acked <= w.version
    BY <1>2, <1>3, <1>4 DEF HasFile, Replacing
  <2>2. QED
    BY <1>1, <1>4, <1>5, <1>6, <1>8, <1>9, <2>1, WriterMoves
<1>11. WritesFollow'
  <2>1. w.file # names'[State] /\ w.file # namesKept'[State] /\ names'[w.name] = w.file
    BY <1>4, <1>5, <1>7
  <2>2. QED
    BY <1>10, <2>1 DEF WritesFollow, Replacing
<1>12. DocumentSettled'
  BY <1>0, <1>5, <1>7 DEF DocumentSettled, Settled
<1>13. QED
  BY <1>8, <1>10, <1>11, <1>12 DEF StateFileInv

\* The file that is written, and then synced, is not the document's.
LEMMA WriteSyncKeeps ==
    ASSUME StateFileInv, NEW p \in Writers, WriteAll(p) \/ SyncAll(p) PROVE StateFileInv'
<1> USE DEF fileVars, others
<1>0. FileTypes /\ StepsFollow /\ WritesFollow /\ DocumentSettled
  BY DEF StateFileInv
<1> PICK w : w = writes[p]
  OBVIOUS
<1>a. PICK at \in {"sync", "replace"} :
       /\ step[p] = (IF at = "sync" THEN "write" ELSE "sync")
       /\ step' = [step EXCEPT ![p] = at]
       /\ at = "sync" => text' = [text EXCEPT ![w.file] = w.version] /\ textKept' = textKept
       /\ at = "replace" => textKept' = [textKept EXCEPT ![w.file] = text[w.file]] /\ text' = text
  BY DEF WriteAll, SyncAll, To
<1>1. /\ UNCHANGED <<names, namesKept, files, holder, tempCount, writes, acked, pid, through>>
  BY DEF WriteAll, SyncAll
<1>2. step[p] \in Replacing /\ step[p] \in HasFile /\ step[p] \in Held /\ at \in HasFile /\ at \in Held
  BY <1>a DEF Held, HasFile, Replacing
<1>3. /\ w \in WriteStates /\ w.file \in 1..files
      /\ w.name \in TempNames /\ holder = p /\ acked <= w.version
      /\ files \in Nat /\ files <= MaxFiles /\ MaxFiles \in Nat
      /\ w.file # names[State] /\ w.file # namesKept[State] /\ names[w.name] = w.file
      /\ at = "replace" => text[w.file] = w.version
  BY <1>0, <1>a, <1>2, StateFileAssumption DEF FileTypes, StepsFollow, WritesFollow
<1>4. w.file \in 1..MaxFiles /\ w.version \in Nat
  BY <1>3 DEF WriteStates
<1>5. /\ text' \in [1..MaxFiles -> Int] /\ textKept' \in [1..MaxFiles -> Int]
      /\ text'[w.file] = w.version /\ (at = "replace" => textKept'[w.file] = w.version)
      /\ \A f \in 1..MaxFiles : f # w.file => text'[f] = text[f] /\ textKept'[f] = textKept[f]
  <2>1. /\ text \in [1..MaxFiles -> Int] /\ textKept \in [1..MaxFiles -> Int]
        /\ text[w.file] \in Int /\ w.version \in Int
    BY <1>0, <1>4 DEF FileTypes
  <2>2. CASE at = "sync"
    BY <1>a, <1>4, <2>1, <2>2
  <2>3. CASE at = "replace"
    BY <1>a, <1>3, <1>4, <2>1, <2>3
  <2>4. QED
    BY <2>2, <2>3
<1>6. FileTypes'
  BY <1>0, <1>a, <1>1, <1>2, <1>5 DEF FileTypes
<1>7. writes' = [writes EXCEPT ![p] = w]
  BY <1>0, <1>1 DEF FileTypes
<1>8. /\ StepsFollow' /\ step'[p] = at /\ writes'[p] = w
      /\ \A q \in Writers : q # p => step'[q] \in {"off", "idle"}
  <2>1. holder' = p /\ w.file \in 1..files' /\ UNCHANGED <<acked, pid>>
        /\ step' = [step EXCEPT ![p] = at]
    BY <1>a, <1>1, <1>3
  <2>2. w \in WriteStates /\ w.name \in TempNames /\ acked <= w.version
    BY <1>3
  <2>3. step[p] \in Held /\ at \in HasFile
    BY <1>2
  <2>4. QED
    BY <1>6, <1>7, <2>1, <2>2, <2>3, WriterMoves
<1>9. WritesFollow'
  BY <1>1, <1>3, <1>5, <1>8 DEF WritesFollow, Replacing
<1>10. DocumentSettled'
  <2>1. names[State] \in 0..files /\ namesKept[State] \in 0..files
    BY <1>0 DEF FileTypes, AllNames
  <2>2. \A f \in 0..files : f # 0 => f \in 1..MaxFiles
    BY <1>3
  <2>3. QED
    BY <1>0, <1>1, <1>3, <1>5, <2>1, <2>2 DEF DocumentSettled, Settled
<1>11. QED
  BY <1>6, <1>8, <1>9, <1>10 DEF StateFileInv

\* The rename gives the document's name to a file that is synced.
LEMMA ReplaceKeeps == ASSUME StateFileInv, NEW p \in Writers, AtomicReplace(p) PROVE StateFileInv'
<1> USE DEF others
<1>0. FileTypes /\ StepsFollow /\ WritesFollow /\ DocumentSettled
  BY DEF StateFileInv
<1> PICK w : w = writes[p]
  OBVIOUS
<1>1. /\ step[p] = "replace" /\ step' = [step EXCEPT ![p] = "sync_directory"]
      /\ names' = [names EXCEPT ![State] = w.file, ![w.name] = 0]
      /\ through => namesKept' = [namesKept EXCEPT ![State] = w.file, ![w.name] = 0]
      /\ ~ through => namesKept' = namesKept
      /\ UNCHANGED <<text, textKept, files, holder, tempCount, writes, acked, pid, through>>
  BY DEF AtomicReplace, Renamed, To
<1>2. /\ step[p] \in Held /\ step[p] \in HasFile /\ "sync_directory" \in HasFile
      /\ "sync_directory" \in Held
  BY <1>1 DEF Held, HasFile, Replacing
<1>3. /\ w \in WriteStates /\ w.file \in 1..files /\ w.name \in TempNames
      /\ acked <= w.version /\ holder = p /\ w.version \in Nat
  BY <1>0, <1>2 DEF FileTypes, StepsFollow, WriteStates
<1>4. text[w.file] = w.version /\ textKept[w.file] = w.version
  BY <1>0, <1>1 DEF WritesFollow
<1>5. State \in AllNames /\ w.name \in AllNames /\ w.name # State
  BY <1>3, StateIsNoTemporary DEF AllNames
<1>6. /\ names' \in [AllNames -> 0..files] /\ names'[State] = w.file
      /\ namesKept' \in [AllNames -> 0..files] /\ namesKept'[State] \in {w.file, namesKept[State]}
      /\ through => namesKept'[State] = w.file
  <2>1. w.file \in 0..files /\ 0 \in 0..files
    BY <1>0, <1>3 DEF FileTypes
  <2>2. names \in [AllNames -> 0..files] /\ namesKept \in [AllNames -> 0..files]
    BY <1>0 DEF FileTypes
  <2>3. names' \in [AllNames -> 0..files] /\ names'[State] = w.file
    BY <1>1, <1>5, <2>1, <2>2
  <2>4. CASE through
    BY <1>1, <1>5, <2>1, <2>2, <2>3, <2>4
  <2>5. CASE ~ through
    BY <1>1, <2>2, <2>3, <2>5
  <2>6. QED
    BY <2>4, <2>5
<1>7. FileTypes'
  BY <1>0, <1>1, <1>2, <1>6 DEF FileTypes
<1>8. writes' = [writes EXCEPT ![p] = w]
  BY <1>0, <1>1 DEF FileTypes
<1>9. /\ StepsFollow' /\ step'[p] = "sync_directory" /\ writes'[p] = w
      /\ \A q \in Writers : q # p => step'[q] \in {"off", "idle"}
  <2>1. /\ holder' = p /\ w.file \in 1..files' /\ UNCHANGED <<acked, pid>>
        /\ step' = [step EXCEPT ![p] = "sync_directory"]
    BY <1>1, <1>3
  <2>2. w \in WriteStates /\ w.name \in TempNames /\ acked <= w.version
    BY <1>3
  <2>3. step[p] \in Held /\ "sync_directory" \in HasFile
    BY <1>2
  <2>4. QED
    BY <1>7, <1>8, <2>1, <2>2, <2>3, WriterMoves
<1>10. WritesFollow'
  BY <1>1, <1>4, <1>6, <1>9 DEF WritesFollow, Replacing
<1>11. DocumentSettled'
  <2>1. Settled(w.file)'
    BY <1>1, <1>3, <1>4 DEF Settled
  <2>2. Settled(namesKept[State]) /\ namesKept[State] \in 0..files
    BY <1>0, <1>5 DEF DocumentSettled, FileTypes
  <2>3. QED
    BY <1>1, <1>6, <2>1, <2>2 DEF DocumentSettled, Settled
<1>12. QED
  BY <1>7, <1>9, <1>10, <1>11 DEF StateFileInv

\* An update is acknowledged when the name on the disk is the new file's too.
LEMMA AckKeeps == ASSUME StateFileInv, NEW p \in Writers, SyncDirectory(p) PROVE StateFileInv'
<1> USE DEF others
<1>0. FileTypes /\ StepsFollow /\ WritesFollow /\ DocumentSettled
  BY DEF StateFileInv
<1>1. /\ step[p] = "sync_directory" /\ step' = [step EXCEPT ![p] = "idle"]
      /\ acked' = writes[p].version /\ writes' = [writes EXCEPT ![p] = NoWrite]
      /\ namesKept' = (IF through THEN namesKept ELSE names)
      /\ UNCHANGED <<names, text, textKept, files, tempCount, pid, through>>
  BY DEF SyncDirectory, To
<1>2. step[p] \in Held /\ step[p] \in HasFile
  BY <1>1 DEF Held, HasFile
<1>3. /\ writes[p] \in WriteStates /\ writes[p].version \in Nat /\ writes[p].file \in 1..files
      /\ text[writes[p].file] = writes[p].version /\ textKept[writes[p].file] = writes[p].version
      /\ names[State] = writes[p].file /\ namesKept'[State] = writes[p].file
  BY <1>0, <1>1, <1>2 DEF FileTypes, StepsFollow, WritesFollow, WriteStates
<1>4. NoWrite \in WriteStates /\ NoWrite.file = 0
  BY DEF NoWrite, AllNames, WriteStates
<1>5. FileTypes'
  BY <1>0, <1>1, <1>3, <1>4 DEF FileTypes
<1>6. /\ step'[p] = "idle" /\ writes'[p].file = 0
      /\ \A q \in Writers : q # p => /\ step'[q] = step[q] /\ writes'[q] = writes[q]
                                     /\ step[q] \in {"off", "idle"} /\ writes[q].file = 0
  BY <1>0, <1>1, <1>2, <1>4, OneAtWork DEF FileTypes
<1>7. \A q \in Writers : /\ step'[q] \in {"off", "idle"} /\ writes'[q].file = 0
                         /\ step'[q] # "off" => pid'[q] \in Pids
  BY <1>0, <1>1, <1>6 DEF StepsFollow
<1>8. StepsFollow' /\ WritesFollow'
  BY <1>7 DEF StepsFollow, WritesFollow, Held, HasFile, Replacing
<1>9. DocumentSettled'
  <2>1. writes[p].version <= writes[p].version /\ writes[p].file # 0
    BY <1>0, <1>3 DEF FileTypes
  <2>2. QED
    BY <1>1, <1>3, <2>1 DEF DocumentSettled, Settled
<1>10. QED
  BY <1>5, <1>8, <1>9 DEF StateFileInv

\* A power failure may undo what was not synced, and nothing else.
LEMMA PowerKeeps == ASSUME StateFileInv, PowerFails PROVE StateFileInv'
<1>0. FileTypes /\ DocumentSettled
  BY DEF StateFileInv
<1>1. /\ names' \in {names, namesKept} /\ namesKept' = names'
      /\ text' \in {text, textKept} /\ textKept' = text'
      /\ step' = [p \in Writers |-> "off"] /\ pid' = [p \in Writers |-> NoPid]
      /\ writes' = [p \in Writers |-> NoWrite] /\ tempCount' = [p \in Writers |-> 0]
      /\ UNCHANGED <<files, acked, through>>
  BY DEF PowerFails
<1>2. NoWrite \in WriteStates /\ NoWrite.file = 0
  BY DEF NoWrite, AllNames, WriteStates
<1>3. FileTypes'
  BY <1>0, <1>1, <1>2 DEF FileTypes
<1>4. \A p \in Writers : step'[p] = "off" /\ writes'[p].file = 0
  BY <1>1, <1>2
<1>5. StepsFollow' /\ WritesFollow'
  BY <1>4 DEF StepsFollow, WritesFollow, Held, HasFile, Replacing
<1>6. DocumentSettled'
  BY <1>0, <1>1 DEF DocumentSettled, Settled
<1>7. QED
  BY <1>3, <1>5, <1>6 DEF StateFileInv

\* Every step of a process and every fault keeps it.
LEMMA StateFileKeeps == ASSUME StateFileInv, [StateFileNext]_stateFileVars PROVE StateFileInv'
<1> USE DEF others, fileVars
<1>0. FileTypes /\ StepsFollow /\ WritesFollow /\ DocumentSettled
  BY DEF StateFileInv
<1>1. ASSUME NEW p \in Writers, CreateTemporaryFails(p) PROVE StateFileInv'
  <2>1. /\ step[p] = "open" /\ step[p] \in Held /\ step' = [step EXCEPT ![p] = "idle"]
        /\ writes' = [writes EXCEPT ![p] = NoWrite]
        /\ UNCHANGED <<names, namesKept, text, textKept, files, acked, through, pid>>
    BY <1>1 DEF CreateTemporaryFails, Quits, Held
  <2>2. holder = p /\ pid[p] \in Pids /\ tempCount[p] \in Nat /\ tempCount[p] < MaxNames
    BY <1>0, <2>1 DEF StepsFollow, FileTypes
  <2> PICK k : k = IF FreeNames(p) = {} THEN tempCount[p] + OpenTries ELSE FirstFree(p) + 1
    OBVIOUS
  <2>3. k \in Nat
    BY <1>0, <2>2, FirstFreeIsFree, StateFileAssumption
  <2>4. tempCount' = [tempCount EXCEPT ![p] = k]
    BY <1>0, <1>1 DEF CreateTemporaryFails, FileTypes
  <2>5. tempCount' \in [Writers -> Nat] /\ \A q \in Writers : q # p => tempCount'[q] = tempCount[q]
    BY <1>0, <2>3, <2>4 DEF FileTypes
  <2>6. pid' \in [Writers -> Pids \cup {NoPid}] /\ pid'[p] \in Pids
    BY <1>0, <2>1, <2>2 DEF FileTypes
  <2>7. QED
    BY <2>1, <2>2, <2>5, <2>6, WriterQuits
<1>2. ASSUME NEW p \in Writers, WriteBreaks(p) PROVE StateFileInv'
  <2>1. /\ step[p] \in HasFile /\ step[p] \in Held /\ step' = [step EXCEPT ![p] = "idle"]
        /\ writes' = [writes EXCEPT ![p] = NoWrite]
        /\ UNCHANGED <<namesKept, text, textKept, files, acked, through, pid, tempCount>>
        /\ (UNCHANGED names \/ names' = [names EXCEPT ![writes[p].name] = 0])
    BY <1>2 DEF WriteBreaks, Quits, Held, HasFile, Replacing
  <2>2. holder = p /\ pid[p] \in Pids /\ writes[p].name \in TempNames
    BY <1>0, <2>1 DEF StepsFollow, Held, HasFile, Replacing
  <2>3. UNCHANGED names \/ \E n \in TempNames : names' = [names EXCEPT ![n] = 0] /\ step[p] \in Held
    BY <2>1, <2>2
  <2>4. /\ pid' \in [Writers -> Pids \cup {NoPid}] /\ pid'[p] \in Pids
        /\ tempCount' \in [Writers -> Nat]
        /\ \A q \in Writers : q # p => tempCount'[q] = tempCount[q] /\ pid'[q] = pid[q]
    BY <1>0, <2>1, <2>2 DEF FileTypes
  <2>5. /\ step' = [step EXCEPT ![p] = "idle"] /\ writes' = [writes EXCEPT ![p] = NoWrite]
        /\ UNCHANGED <<namesKept, text, textKept, files, acked, through>> /\ holder = p
    BY <2>1, <2>2
  <2>6. QED
    BY <2>3, <2>4, <2>5, WriterQuits
<1>3. ASSUME NEW p \in Writers, Exits(p) PROVE StateFileInv'
  <2>1. /\ step' = [step EXCEPT ![p] = "off"] /\ writes' = [writes EXCEPT ![p] = NoWrite]
        /\ UNCHANGED <<names, namesKept, text, textKept, files, acked, through>>
        /\ (holder' = holder \/ holder = p)
        /\ pid' = [pid EXCEPT ![p] = NoPid] /\ tempCount' = [tempCount EXCEPT ![p] = 0]
    BY <1>3 DEF Exits
  <2>2. /\ pid' \in [Writers -> Pids \cup {NoPid}] /\ tempCount' \in [Writers -> Nat]
        /\ \A q \in Writers : q # p => tempCount'[q] = tempCount[q] /\ pid'[q] = pid[q]
    BY <1>0, <2>1 DEF FileTypes
  <2>3. QED
    BY <2>1, <2>2, WriterQuits
<1>4. ASSUME NEW p \in Writers, Starts(p) PROVE StateFileInv'
  <2>1. /\ step[p] = "off" /\ step' = [step EXCEPT ![p] = "idle"]
        /\ UNCHANGED <<names, namesKept, text, textKept, files, acked, through, holder, tempCount, writes>>
    BY <1>4 DEF Starts, To
  <2>2. PICK id \in Pids : pid' = [pid EXCEPT ![p] = id]
    BY <1>4 DEF Starts
  <2>3. FileTypes' /\ step'[p] = "idle" /\ \A q \in Writers : q # p => step'[q] = step[q]
    BY <1>0, <2>1, <2>2 DEF FileTypes
  <2>4. pid'[p] \in Pids /\ \A q \in Writers : q # p => pid'[q] = pid[q]
    BY <1>0, <2>2 DEF FileTypes
  <2>5. StepsFollow' /\ WritesFollow'
    <3>1. StepsFollow'
      BY <1>0, <2>1, <2>3, <2>4 DEF StepsFollow, Held, HasFile, Replacing
    <3>2. WritesFollow'
      BY <1>0, <2>1, <2>3 DEF WritesFollow, Replacing
    <3>3. QED
      BY <3>1, <3>2
  <2>6. DocumentSettled'
    BY <1>0, <2>1 DEF DocumentSettled, Settled
  <2>7. QED
    BY <2>3, <2>5, <2>6 DEF StateFileInv
<1>5. CASE UNCHANGED stateFileVars
  BY <1>0, <1>5 DEF stateFileVars, StateFileInv, FileTypes, StepsFollow, WritesFollow, DocumentSettled, Settled
<1>6. QED
  BY <1>1, <1>2, <1>3, <1>4, <1>5, LockKeeps, CreateKeeps, WriteSyncKeeps, ReplaceKeeps, AckKeeps,
     PowerKeeps DEF StateFileNext, WriterStep

\* For every number of processes, process IDs, names and faults: profiles.toml
\* is whole at every moment, in memory and after a power failure, what was
\* acknowledged stays, and a file has one writer.
THEOREM StateFileAlwaysSound == StateFileSpec => []StateFileSound
<1>1. StateFileInit => StateFileInv
  BY StateFileStart
<1>2. StateFileInv /\ [StateFileNext]_stateFileVars => StateFileInv'
  BY StateFileKeeps
<1>3. StateFileInv => StateFileSound
  <2> SUFFICES ASSUME StateFileInv PROVE StateFileSound
    OBVIOUS
  <2>1. FileTypes /\ StepsFollow /\ WritesFollow /\ DocumentSettled
    BY DEF StateFileInv
  <2>2. names[State] \in 0..files /\ namesKept[State] \in 0..files /\ acked \in Nat
    BY <2>1 DEF FileTypes, AllNames
  <2>3. WholeDocument /\ AckedSurvives
    BY <2>1, <2>2 DEF WholeDocument, AckedSurvives, Current, Document, Partial, DocumentSettled, Settled
  <2>4. OneWriterPerFile
    BY <2>1 DEF OneWriterPerFile, StepsFollow, WritesFollow, Held, HasFile, Replacing
  <2>5. QED
    BY <2>3, <2>4 DEF StateFileSound
<1>4. QED
  BY <1>1, <1>2, <1>3, PTL DEF StateFileSpec

-----------------------------------------------------------------------------
(* LineSelection. *)

\* The places of all entries of a list of groups.
PlacesIn(G) == UNION {{<<g, e>> : e \in DOMAIN G[g].entries} : g \in DOMAIN G}
EntryPlaces == PlacesIn(groups)

\* There are at most MaxEntries entries.
NumberedIn(G) ==
    \E at \in [PlacesIn(G) -> 1..MaxEntries] :
        \A p, q \in PlacesIn(G) : at[p] = at[q] => p = q
Numbered == NumberedIn(groups)

Groups == [id : LineIds, primary : Nat, entries : Seq(Entries)]

\* What is known of the runtime ID of an entry: it is its own ID or nobody's.
IdSound(g, e) ==
    LET own == Kept(g)[e].id
    IN  /\ runtimeIds[g][e] # 0
        /\ runtimeIds[g][e] = own \/ runtimeIds[g][e] \notin Reserved
        /\ own \in Reserved => runtimeIds[g][e] = own
        /\ \A h \in DOMAIN runtimeIds : \A f \in DOMAIN runtimeIds[h] :
              runtimeIds[h][f] = runtimeIds[g][e] => h = g /\ f = e

IdsInv ==
    /\ wanted \in Preferences
    /\ servers \in Seq(LineIds) /\ groups \in Seq(Groups) /\ Numbered
    /\ counter \in 0 .. (IdSpace - 1)
    /\ runtimeIds \in Seq(Seq(Int)) /\ Len(runtimeIds) <= Len(groups)
    /\ \A g \in DOMAIN runtimeIds :
          /\ Len(runtimeIds[g]) <= Len(Kept(g))
          /\ g < Len(runtimeIds) => Len(runtimeIds[g]) = Len(Kept(g))
          /\ \A e \in DOMAIN runtimeIds[g] : IdSound(g, e)
    /\ select = "lines" => runtimeIds = <<>> /\ groups = <<>>

LEMMA TotalsGrow ==
  ASSUME NEW s \in Seq(0..MaxEntries)
  PROVE  /\ \A n \in 0 .. Len(s) : Total(s, n) \in Nat
         /\ Total(s, 0) = 0
         /\ \A n \in 1 .. Len(s) : Total(s, n) = Total(s, n - 1) + s[n]
         /\ \A n, m \in 0 .. Len(s) : n <= m => Total(s, n) <= Total(s, m)
<1>0. MaxEntries \in Nat /\ Len(s) \in Nat /\ DOMAIN s = 1 .. Len(s)
      /\ \A i \in 1 .. Len(s) : s[i] \in 0..MaxEntries /\ s[i] \in Int
  BY LineSelectionAssumption
<1>1. ASSUME NEW n \in 0 .. Len(s)
      PROVE  IsFiniteSet(1..n) /\ 1..n \subseteq 1 .. Len(s)
  BY <1>0, FS_Interval
<1>2. ASSUME NEW K \in SUBSET (1 .. Len(s)), IsFiniteSet(K)
      PROVE  SumFunctionOnSet(s, K) \in Nat
  <2>1. SumFunctionOnSet(s, K) \in 0 .. (Cardinality(K) * MaxEntries)
    BY <1>0, <1>2, SumBound
  <2>2. QED
    BY <2>1
<1>3. \A n \in 0 .. Len(s) : Total(s, n) \in Nat
  BY <1>1, <1>2 DEF Total
<1>4. Total(s, 0) = 0
  <2>1. 1..0 = {}
    OBVIOUS
  <2>2. QED
    BY <2>1, SumEmpty DEF Total
<1>5. ASSUME NEW n \in 0 .. Len(s), NEW m \in 0 .. Len(s), n <= m
      PROVE  Total(s, n) <= Total(s, m)
  <2>1. IsFiniteSet(1..m) /\ 1..n \in SUBSET (1..m) /\ (\A i \in 1..m : s[i] \in Int)
    BY <1>0, <1>1, <1>5
  <2>2. Total(s, m) = Total(s, n) + SumFunctionOnSet(s, (1..m) \ (1..n))
    <3> DEFINE S == 1..m
               T == 1..n
    <3>1. IsFiniteSet(S) /\ (\A i \in S : s[i] \in Int) /\ T \in SUBSET S
      BY <2>1
    <3> HIDE DEF S, T
    <3>2. SumFunctionOnSet(s, S) = SumFunctionOnSet(s, T) + SumFunctionOnSet(s, S \ T)
      BY <3>1, SumSplit
    <3>3. QED
      BY <3>2 DEF Total, S, T
  <2>3. SumFunctionOnSet(s, (1..m) \ (1..n)) \in Nat
    <3>1. IsFiniteSet((1..m) \ (1..n))
      BY <2>1, FS_Subset
    <3>2. (1..m) \ (1..n) \in SUBSET (1 .. Len(s))
      BY <1>1
    <3>3. QED
      BY <1>2, <3>1, <3>2
  <2>4. QED
    BY <1>3, <2>2, <2>3
<1>6. ASSUME NEW n \in 1 .. Len(s) PROVE Total(s, n) = Total(s, n - 1) + s[n]
  <2>1. IsFiniteSet(1..n) /\ n \in 1..n /\ (\A i \in 1..n : s[i] \in Int)
        /\ (1..n) \ {n} = 1 .. (n - 1)
    BY <1>0, <1>1
  <2>2. Total(s, n) = s[n] + Total(s, n - 1)
    BY <2>1, SumRemove DEF Total
  <2>3. s[n] \in Int /\ Total(s, n - 1) \in Nat
    BY <1>0, <1>3
  <2>4. QED
    BY <2>2, <2>3
<1>7. QED
  BY <1>3, <1>4, <1>5, <1>6

LEMMA InOrderLists ==
  ASSUME NEW K \in SUBSET Nat, IsFiniteSet(K)
  PROVE  LET s == InOrder(K)
         IN  /\ s \in Seq(K) /\ Len(s) = Cardinality(K)
             /\ \A j, k \in DOMAIN s : j < k => s[j] < s[k]
             /\ \A i \in K : \E k \in DOMAIN s : s[k] = i
<1> DEFINE n == Cardinality(K)
           Id == [i \in K |-> i]
           s == InOrder(K)
<1>1. n \in Nat
  BY FS_CardinalityType
<1>2. \A i \in K : Id[i] = i /\ Id[i] \in Int
  OBVIOUS
<1>3. (\A x \in K : Id[x] \in Int) /\ (\A x, y \in K : Id[x] = Id[y] => x = y)
  BY <1>2
<1>4. \E r \in [1..n -> K] : \A j, k \in DOMAIN r : j < k => r[j] < r[k]
  <2>1. \E r \in [1 .. Cardinality(K) -> K] : Ascending(r, Id)
    <3> HIDE DEF Id
    <3>1. QED
      BY <1>3, AscendingExists
  <2>2. QED
    BY <1>2, <2>1 DEF Ascending
<1>5. s \in [1..n -> K] /\ \A j, k \in DOMAIN s : j < k => s[j] < s[k]
  BY <1>4 DEF InOrder
<1> HIDE DEF s
<1>6. \A i \in K : \E k \in 1..n : s[k] = i
  <2>1. Ascending(s, Id)
    BY <1>2, <1>5 DEF Ascending
  <2> HIDE DEF Id
  <2>2. QED
    BY <1>3, <1>5, <2>1, AscendingComplete
<1>7. s \in Seq(K) /\ Len(s) = n /\ DOMAIN s = 1..n
  <2> HIDE DEF n
  <2>1. QED
    BY <1>1, <1>5
<1>8. QED
  BY <1>5, <1>6, <1>7 DEF s

LEMMA AssignedIs ==
  ASSUME NEW v
  PROVE  v \in Assigned <=> \E g \in DOMAIN runtimeIds :
                               \E e \in DOMAIN runtimeIds[g] : runtimeIds[g][e] = v
BY DEF Assigned, Range

LEMMA PlaceIsIn ==
  ASSUME NEW G, NEW p
  PROVE  p \in PlacesIn(G) <=> \E g \in DOMAIN G :
                                  \E e \in DOMAIN G[g].entries : p = <<g, e>>
BY DEF PlacesIn

LEMMA PlaceIs ==
  ASSUME NEW p
  PROVE  p \in EntryPlaces <=> \E g \in DOMAIN groups :
                                  \E e \in DOMAIN Given(g) : p = <<g, e>>
BY PlaceIsIn DEF EntryPlaces, Given

LEMMA KeptIs ==
  ASSUME groups \in Seq(Groups), NEW g \in DOMAIN groups
  PROVE  /\ Given(g) \in Seq(Entries) /\ Kept(g) \in Seq(Entries)
         /\ Len(Kept(g)) <= Len(Given(g))
         /\ \A i \in DOMAIN Kept(g) : i \in DOMAIN Given(g) /\ Kept(g)[i] = Given(g)[i]
<1> DEFINE m == IF Len(Given(g)) < EntryLimit THEN Len(Given(g)) ELSE EntryLimit
<1>1. Given(g) \in Seq(Entries)
  <2>1. groups[g] \in Groups
    OBVIOUS
  <2>2. QED
    BY <2>1 DEF Given, Groups
<1>2. m \in Nat /\ m <= Len(Given(g)) /\ Len(Given(g)) \in Nat
  BY <1>1, LineSelectionAssumption
<1>3. Kept(g) = SubSeq(Given(g), 1, m)
  BY DEF Kept
<1> HIDE DEF m
<1>4. Kept(g) \in Seq(Entries) /\ Len(Kept(g)) = m
      /\ \A i \in 1..m : Kept(g)[i] = Given(g)[i]
  BY <1>1, <1>2, <1>3
<1>5. QED
  BY <1>1, <1>2, <1>4

\* A set of integers smaller than an interval misses one of its members.
LEMMA IntervalNotCovered ==
  ASSUME NEW n \in Nat, NEW S, IsFiniteSet(S), Cardinality(S) < n
  PROVE  \E v \in 0 .. (n - 1) : v \notin S
<1>1. IsFiniteSet(0 .. (n - 1)) /\ Cardinality(0 .. (n - 1)) = n /\ Cardinality(S) \in Nat
  <2>1. IsFiniteSet(0 .. (n - 1)) /\ Cardinality(0 .. (n - 1)) = IF 0 > n - 1 THEN 0 ELSE n - 1 - 0 + 1
    BY FS_Interval
  <2>2. QED
    BY <2>1, FS_CardinalityType
<1>2. SUFFICES ASSUME 0 .. (n - 1) \subseteq S PROVE FALSE
  OBVIOUS
<1>3. Cardinality(0 .. (n - 1)) <= Cardinality(S)
  <2> DEFINE I == 0 .. (n - 1)
  <2>1. I \in SUBSET S
    BY <1>2
  <2> HIDE DEF I
  <2>2. Cardinality(I) <= Cardinality(S)
    BY <2>1, FS_Subset
  <2>3. QED
    BY <2>2 DEF I
<1>4. QED
  BY <1>1, <1>3

\* There are fewer IDs in use than IDs, the one the counter looks for not
\* being assigned yet.
LEMMA FewInUse ==
  ASSUME IdsInv, NEW g \in DOMAIN runtimeIds, NEW e \in DOMAIN Kept(g), e > Len(runtimeIds[g])
  PROVE  /\ IsFiniteSet(Assigned \cup Reserved \cup {0})
         /\ Cardinality(Assigned \cup Reserved \cup {0}) < IdSpace
<1> DEFINE HeldIds(p) == p[1] \in DOMAIN runtimeIds /\ p[2] \in DOMAIN runtimeIds[p[1]]
           held == [p \in EntryPlaces |-> IF HeldIds(p) THEN runtimeIds[p[1]][p[2]] ELSE 0]
           used == [p \in EntryPlaces |-> Given(p[1])[p[2]].id]
           Used == {used[p] : p \in EntryPlaces}
<1>1. PICK at \in [EntryPlaces -> 1..MaxEntries] :
         \A p, q \in EntryPlaces : at[p] = at[q] => p = q
  BY DEF IdsInv, Numbered, NumberedIn, EntryPlaces
<1>2. MaxEntries \in Nat /\ IdSpace \in Nat /\ MaxEntries + MaxEntries < IdSpace
  BY LineSelectionAssumption
<1>3. IsFiniteSet(EntryPlaces) /\ Cardinality(EntryPlaces) <= MaxEntries
      /\ Cardinality(EntryPlaces) \in Nat
  <2>1. IsFiniteSet(1..MaxEntries) /\ Cardinality(1..MaxEntries) = MaxEntries
    BY <1>2, FS_Interval
  <2>2. at \in Injection(EntryPlaces, 1..MaxEntries)
    BY <1>1 DEF Injection, IsInjective
  <2>3. QED
    BY <2>1, <2>2, FS_Injection, FS_CardinalityType
<1>4. DOMAIN runtimeIds \subseteq DOMAIN groups /\ groups \in Seq(Groups)
  BY DEF IdsInv
<1>5. \A h \in DOMAIN runtimeIds : \A f \in DOMAIN runtimeIds[h] : <<h, f>> \in EntryPlaces
  <2>1. ASSUME NEW h \in DOMAIN runtimeIds, NEW f \in DOMAIN runtimeIds[h]
        PROVE  <<h, f>> \in EntryPlaces
    <3>1. h \in DOMAIN groups /\ Len(runtimeIds[h]) <= Len(Kept(h)) /\ runtimeIds[h] \in Seq(Int)
      BY <1>4 DEF IdsInv
    <3>2. f \in DOMAIN Given(h)
      BY <1>4, <3>1, KeptIs
    <3>3. QED
      BY <3>1, <3>2, PlaceIs
  <2>2. QED
    BY <2>1
<1>6. held \in Surjection(EntryPlaces, Assigned \cup {0})
  <2>1. \A p \in EntryPlaces : held[p] \in Assigned \cup {0}
    BY AssignedIs
  <2>2. ASSUME NEW v \in Assigned PROVE \E p \in EntryPlaces : held[p] = v
    <3>1. PICK h \in DOMAIN runtimeIds : \E f \in DOMAIN runtimeIds[h] : runtimeIds[h][f] = v
      BY <2>2, AssignedIs
    <3>2. PICK f \in DOMAIN runtimeIds[h] : runtimeIds[h][f] = v
      BY <3>1
    <3>3. <<h, f>> \in EntryPlaces /\ <<h, f>>[1] = h /\ <<h, f>>[2] = f
      BY <1>5
    <3>4. held[<<h, f>>] = v
      BY <3>2, <3>3
    <3>5. QED
      BY <3>3, <3>4
  <2>3. \E p \in EntryPlaces : held[p] = 0
    <3>1. <<g, e>> \in EntryPlaces
      BY <1>4, KeptIs, PlaceIs
    <3>2. e \notin DOMAIN runtimeIds[g]
      BY DEF IdsInv
    <3>3. ~ HeldIds(<<g, e>>)
      BY <3>2
    <3>4. held[<<g, e>>] = 0
      BY <3>1, <3>3
    <3>5. QED
      BY <3>1, <3>4
  <2>4. held \in [EntryPlaces -> Assigned \cup {0}]
    BY <2>1
  <2> HIDE DEF held
  <2>5. QED
    BY <2>2, <2>3, <2>4 DEF Surjection
<1>7. used \in Surjection(EntryPlaces, Used)
  <2>1. used \in [EntryPlaces -> Used]
    OBVIOUS
  <2> HIDE DEF used
  <2>2. QED
    BY <2>1 DEF Surjection
<1>8. Reserved \subseteq Used
  <2>1. ASSUME NEW id \in Reserved PROVE id \in Used
    <3>1. PICK h \in DOMAIN groups : \E i \in Uses(Given(h), id) : TRUE
      BY <2>1 DEF Reserved
    <3>2. PICK i \in DOMAIN Given(h) : Given(h)[i].id = id
      BY <3>1 DEF Uses
    <3>3. <<h, i>> \in EntryPlaces /\ <<h, i>>[1] = h /\ <<h, i>>[2] = i
      BY <3>2, PlaceIs
    <3>4. used[<<h, i>>] = id
      BY <3>2, <3>3
    <3> HIDE DEF used
    <3>5. QED
      BY <3>3, <3>4
  <2>2. QED
    BY <2>1
<1> HIDE DEF held, used, Used
<1>9. IsFiniteSet(Assigned \cup {0}) /\ Cardinality(Assigned \cup {0}) <= MaxEntries
      /\ Cardinality(Assigned \cup {0}) \in Nat
  <2>1. IsFiniteSet(Assigned \cup {0}) /\ Cardinality(Assigned \cup {0}) <= Cardinality(EntryPlaces)
    BY <1>3, <1>6, FS_Surjection
  <2>2. QED
    BY <1>2, <1>3, <2>1, FS_CardinalityType
<1>10. IsFiniteSet(Reserved) /\ Cardinality(Reserved) <= MaxEntries /\ Cardinality(Reserved) \in Nat
  <2>1. IsFiniteSet(Used) /\ Cardinality(Used) <= Cardinality(EntryPlaces)
    BY <1>3, <1>7, FS_Surjection
  <2>2. IsFiniteSet(Reserved) /\ Cardinality(Reserved) <= Cardinality(Used)
    BY <1>8, <2>1, FS_Subset
  <2>3. QED
    BY <1>2, <1>3, <2>1, <2>2, FS_CardinalityType
<1>11. QED
  <2> DEFINE A == Assigned \cup {0}
  <2>1. Assigned \cup Reserved \cup {0} = A \cup Reserved
    OBVIOUS
  <2>2. IsFiniteSet(A) /\ Cardinality(A) <= MaxEntries /\ Cardinality(A) \in Nat
    BY <1>9
  <2> HIDE DEF A
  <2>3. /\ IsFiniteSet(A \cup Reserved) /\ IsFiniteSet(A \cap Reserved)
        /\ Cardinality(A \cup Reserved) = Cardinality(A) + Cardinality(Reserved) - Cardinality(A \cap Reserved)
        /\ Cardinality(A \cap Reserved) \in Nat
    BY <1>10, <2>2, FS_Union, FS_Intersection, FS_CardinalityType
  <2> DEFINE B == A \cup Reserved
             C == A \cap Reserved
  <2>4. /\ Cardinality(B) = Cardinality(A) + Cardinality(Reserved) - Cardinality(C)
        /\ Cardinality(C) \in Nat
    BY <2>3
  <2> HIDE DEF B, C
  <2>5. Cardinality(B) < IdSpace
    BY <1>2, <1>10, <2>2, <2>4
  <2>6. QED
    BY <2>1, <2>3, <2>5 DEF B

LEMMA WrapsAround ==
  ASSUME NEW n \in Nat, NEW v \in 0 .. (n - 1)
  PROVE  v % n = v /\ (v + n) % n = v
OBVIOUS

\* next_local_sr_id ends, with an ID that nobody else has.
LEMMA NextIdIsFree ==
  ASSUME IdsInv, NEW g \in DOMAIN runtimeIds, NEW e \in DOMAIN Kept(g), e > Len(runtimeIds[g])
  PROVE  /\ NextLocalSrId \in 0 .. (IdSpace - 1)
         /\ NextLocalSrId \notin Assigned \cup Reserved \cup {0}
<1> DEFINE Bad == Assigned \cup Reserved \cup {0}
           Free(k) == (counter + k) % IdSpace \notin Bad
           First(k) == Free(k) /\ \A j \in 1 .. (k - 1) : ~ Free(j)
<1>1. IdSpace \in Nat /\ counter \in 0 .. (IdSpace - 1)
  BY LineSelectionAssumption DEF IdsInv
<1>2. IsFiniteSet(Bad) /\ Cardinality(Bad) < IdSpace
  BY FewInUse
<1>3. NextLocalSrId = (counter + CHOOSE k \in 1..IdSpace : First(k)) % IdSpace
  BY DEF NextLocalSrId
<1> HIDE DEF Bad
<1>4. PICK v \in 0 .. (IdSpace - 1) : v \notin Bad
  BY <1>1, <1>2, IntervalNotCovered
<1>5. \E k \in 1..IdSpace : Free(k)
  <2>1. CASE v > counter
    <3>1. v - counter \in 1..IdSpace /\ counter + (v - counter) = v /\ v % IdSpace = v
      BY <1>1, <2>1, WrapsAround
    <3>2. QED
      BY <1>4, <3>1
  <2>2. CASE v <= counter
    <3>1. /\ v - counter + IdSpace \in 1..IdSpace
          /\ counter + (v - counter + IdSpace) = v + IdSpace /\ (v + IdSpace) % IdSpace = v
      BY <1>1, <2>2, WrapsAround
    <3>2. QED
      BY <1>4, <3>1
  <2>3. QED
    BY <1>1, <2>1, <2>2
<1>6. \E k \in 1..IdSpace : First(k)
  <2> DEFINE T == {k \in 1..IdSpace : Free(k)}
  <2>1. T \in SUBSET Nat /\ T # {}
    BY <1>5
  <2>2. PICK k \in T : \A j \in T : k <= j
    BY <2>1, LeastNatural
  <2>3. \A j \in 1 .. (k - 1) : ~ Free(j)
    <3>1. SUFFICES ASSUME NEW j \in 1 .. (k - 1), Free(j) PROVE FALSE
      OBVIOUS
    <3>2. k \in 1..IdSpace /\ j \in 1..IdSpace /\ j < k
      BY <1>1, <2>1, <2>2, <3>1
    <3>3. j \in T
      BY <3>1, <3>2
    <3> HIDE DEF T
    <3>4. k <= j
      BY <2>2, <3>3
    <3>5. QED
      BY <3>2, <3>4
  <2>4. QED
    BY <2>2, <2>3
<1>7. PICK k \in 1..IdSpace : First(k) /\ NextLocalSrId = (counter + k) % IdSpace
  <2> DEFINE c == CHOOSE k \in 1..IdSpace : First(k)
  <2>1. c \in 1..IdSpace /\ First(c)
    <3> HIDE DEF First
    <3>1. QED
      BY <1>6
  <2>2. QED
    BY <1>3, <2>1
<1>8. counter + k \in Int /\ IdSpace > 0
  BY <1>1
<1>9. (counter + k) % IdSpace \in 0 .. (IdSpace - 1)
  BY <1>1, <1>8
<1>10. QED
  BY <1>7, <1>9 DEF Bad

LEMMA AppendedAt ==
  ASSUME NEW S, NEW s \in Seq(S), NEW x \in S
  PROVE  LET t == Append(s, x)
         IN  /\ t \in Seq(S) /\ Len(t) = Len(s) + 1 /\ DOMAIN t = 1 .. (Len(s) + 1)
             /\ t[Len(s) + 1] = x /\ \A i \in 1 .. Len(s) : t[i] = s[i]
OBVIOUS

LEMMA ExceptAt ==
  ASSUME NEW S, NEW s \in Seq(S), NEW n \in DOMAIN s, NEW x \in S
  PROVE  LET t == [s EXCEPT ![n] = x]
         IN  /\ t \in Seq(S) /\ Len(t) = Len(s) /\ DOMAIN t = DOMAIN s
             /\ t[n] = x /\ \A i \in DOMAIN s : i # n => t[i] = s[i]
OBVIOUS

LEMMA ReservedOnce ==
  ASSUME NEW id \in Reserved,
         NEW g \in DOMAIN groups, NEW i \in DOMAIN Given(g), Given(g)[i].id = id,
         NEW h \in DOMAIN groups, NEW j \in DOMAIN Given(h), Given(h)[j].id = id
  PROVE  g = h /\ i = j /\ id # 0
<1>1. PICK g0, i0 :
         \A f \in DOMAIN groups : Uses(Given(f), id) \subseteq (IF f = g0 THEN {i0} ELSE {})
  BY DEF Reserved
<1>2. i \in Uses(Given(g), id) /\ j \in Uses(Given(h), id)
  BY DEF Uses
<1>3. g = g0 /\ i = i0
  BY <1>1, <1>2
<1>4. h = g0 /\ j = i0
  BY <1>1, <1>2
<1>5. QED
  BY <1>3, <1>4 DEF Reserved

LEMMA IdsStay ==
  ASSUME IdsInv, UNCHANGED <<wanted, servers, groups, runtimeIds, counter>>,
         select' = select \/ select' # "lines"
  PROVE  IdsInv'
<1>2. Numbered'
  BY DEF Numbered, IdsInv
<1>3. \A g, e : IdSound(g, e)' <=> IdSound(g, e)
  BY DEF IdSound, Kept, Given, Reserved
<1>4. \A g : Kept(g)' = Kept(g)
  BY DEF Kept, Given
<1>5. QED
  BY <1>2, <1>3, <1>4 DEF IdsInv

LEMMA NextGroupKeepsIds == ASSUME IdsInv, NextGroup PROVE IdsInv'
<1>1. /\ runtimeIds' = Append(runtimeIds, <<>>) /\ select # "lines"
      /\ Len(runtimeIds) < Len(groups) /\ GroupDone
      /\ UNCHANGED <<wanted, servers, groups, counter, select>>
  BY DEF NextGroup
<1> DEFINE n == Len(runtimeIds)
<1>2. /\ runtimeIds \in Seq(Seq(Int)) /\ n \in Nat /\ groups \in Seq(Groups)
      /\ DOMAIN runtimeIds = 1..n
  BY DEF IdsInv
<1>3. /\ runtimeIds' \in Seq(Seq(Int)) /\ Len(runtimeIds') = n + 1
      /\ DOMAIN runtimeIds' = 1 .. (n + 1)
      /\ \A g \in 1..n : runtimeIds'[g] = runtimeIds[g]
      /\ runtimeIds'[n + 1] = <<>> /\ DOMAIN runtimeIds'[n + 1] = {}
  <2>1. <<>> \in Seq(Int)
    OBVIOUS
  <2>2. QED
    BY <1>1, <1>2, <2>1
<1>4. Numbered' /\ (\A g : Kept(g)' = Kept(g)) /\ Reserved' = Reserved
  <2>2. Numbered'
    BY <1>1 DEF Numbered, IdsInv
  <2>3. QED
    BY <1>1, <2>2 DEF Kept, Given, Reserved
<1>5. \A g \in 1..n : Len(runtimeIds[g]) = Len(Kept(g))
  <2>1. n # 0 => Len(Last(runtimeIds)) = Len(Kept(n)) /\ Last(runtimeIds) = runtimeIds[n]
    BY <1>1, <1>2 DEF GroupDone, Last
  <2>2. \A g \in 1..n : g < n => Len(runtimeIds[g]) = Len(Kept(g))
    BY <1>2 DEF IdsInv
  <2>3. QED
    BY <1>2, <2>1, <2>2
<1>6. n + 1 \in DOMAIN groups
  BY <1>1, <1>2
<1>7. Kept(n + 1) \in Seq(Entries)
  BY <1>2, <1>6, KeptIs
<1>8. ASSUME NEW g \in DOMAIN runtimeIds', NEW e \in DOMAIN runtimeIds'[g]
      PROVE  IdSound(g, e)'
  <2>1. g \in 1..n /\ e \in DOMAIN runtimeIds[g]
    <3> HIDE DEF n
    <3>1. g \in 1 .. (n + 1) /\ g # n + 1
      BY <1>3, <1>8
    <3>2. g \in 1..n
      BY <1>2, <3>1
    <3>3. QED
      BY <1>3, <1>8, <3>2
  <2>2. IdSound(g, e)
    BY <1>2, <2>1 DEF IdsInv
  <2>3. \A h \in DOMAIN runtimeIds' : \A f \in DOMAIN runtimeIds'[h] :
           h \in 1..n /\ f \in DOMAIN runtimeIds[h] /\ runtimeIds'[h][f] = runtimeIds[h][f]
    <3> HIDE DEF n
    <3>1. SUFFICES ASSUME NEW h \in DOMAIN runtimeIds', NEW f \in DOMAIN runtimeIds'[h]
                   PROVE  h \in 1..n /\ f \in DOMAIN runtimeIds[h]
                          /\ runtimeIds'[h][f] = runtimeIds[h][f]
      OBVIOUS
    <3>2. h \in 1 .. (n + 1) /\ h # n + 1
      BY <1>3, <3>1
    <3>3. h \in 1..n
      BY <1>2, <3>2
    <3>4. QED
      BY <1>3, <3>1, <3>3
  <2>4. QED
    BY <1>2, <1>3, <1>4, <2>1, <2>2, <2>3 DEF IdSound
<1>9. ASSUME NEW g \in DOMAIN runtimeIds'
      PROVE  /\ Len(runtimeIds'[g]) <= Len(Kept(g))
             /\ g < Len(runtimeIds') => Len(runtimeIds'[g]) = Len(Kept(g))
  <2>1. CASE g \in 1..n
    <3>1. Len(runtimeIds'[g]) = Len(Kept(g)) /\ Len(runtimeIds[g]) \in Nat
      BY <1>2, <1>3, <1>5, <2>1
    <3>2. QED
      BY <1>3, <3>1
  <2>2. CASE g = n + 1
    <3>1. Len(Kept(n + 1)) \in Nat /\ Len(<<>>) = 0
      BY <1>7
    <3>2. QED
      BY <1>2, <1>3, <2>2, <3>1
  <2>3. QED
    BY <1>2, <1>3, <2>1, <2>2
<1>10. /\ wanted' \in Preferences /\ servers' \in Seq(LineIds) /\ groups' \in Seq(Groups)
       /\ counter' \in 0 .. (IdSpace - 1) /\ Len(runtimeIds') <= Len(groups') /\ select' # "lines"
  BY <1>1, <1>2, <1>3 DEF IdsInv
<1>11. QED
  BY <1>3, <1>4, <1>8, <1>9, <1>10 DEF IdsInv

LEMMA AssignIdKeepsIds == ASSUME IdsInv, AssignId PROVE IdsInv'
<1> DEFINE n == Len(runtimeIds)
           e == Len(runtimeIds[n]) + 1
           own == Kept(n)[e].id
           keep == own # 0 /\ own \notin Assigned /\ Uses(Kept(n), own) = {e}
           v == IF keep THEN own ELSE counter'
<1>1. /\ select # "lines" /\ runtimeIds # <<>> /\ e <= Len(Kept(n))
      /\ counter' = IF keep THEN counter ELSE NextLocalSrId
      /\ runtimeIds' = [runtimeIds EXCEPT ![n] = Append(@, v)]
      /\ UNCHANGED <<select, wanted, servers, groups>>
  BY DEF AssignId
<1>2. /\ runtimeIds \in Seq(Seq(Int)) /\ n \in Nat /\ n # 0 /\ groups \in Seq(Groups)
      /\ DOMAIN runtimeIds = 1..n /\ n \in DOMAIN runtimeIds /\ n \in DOMAIN groups
      /\ DOMAIN runtimeIds \subseteq DOMAIN groups
      /\ runtimeIds[n] \in Seq(Int) /\ e \in Nat \ {0}
      /\ DOMAIN runtimeIds[n] = 1 .. (e - 1)
  BY <1>1 DEF IdsInv
<1>3. /\ Kept(n) \in Seq(Entries) /\ Given(n) \in Seq(Entries) /\ e \in DOMAIN Kept(n)
      /\ e \in DOMAIN Given(n) /\ Kept(n)[e] = Given(n)[e]
  BY <1>1, <1>2, KeptIs
<1>4. own \in SrIds /\ own \in 0 .. (IdSpace - 1)
  <2>1. Kept(n)[e] \in Entries
    BY <1>3
  <2>2. QED
    BY <2>1, LineSelectionAssumption DEF Entries
<1> HIDE DEF e
<1>5. own \in Reserved => keep
  <2>1. SUFFICES ASSUME own \in Reserved PROVE keep
    OBVIOUS
  <2>2. Given(n)[e].id = own
    BY <1>3
  <2> DEFINE id == own
  <2>3. id \in Reserved /\ Given(n)[e].id = id
    BY <2>1, <2>2
  <2> HIDE DEF id
  <2>4. id # 0
    BY <1>2, <1>3, <2>3, ReservedOnce
  <2>5. ASSUME NEW h \in DOMAIN runtimeIds, NEW f \in DOMAIN runtimeIds[h], runtimeIds[h][f] = id
        PROVE  FALSE
    <3>1. IdSound(h, f) /\ Len(runtimeIds[h]) <= Len(Kept(h)) /\ runtimeIds[h] \in Seq(Int)
          /\ h \in DOMAIN groups
      BY <1>2 DEF IdsInv
    <3>2. Kept(h)[f].id = id
      BY <2>3, <2>5, <3>1 DEF IdSound
    <3>3. f \in DOMAIN Given(h) /\ Given(h)[f].id = id
      BY <1>2, <3>1, <3>2, KeptIs
    <3>4. h = n /\ f = e
      BY <1>2, <1>3, <2>3, <3>1, <3>3, ReservedOnce
    <3>5. QED
      BY <1>2, <3>4
  <2>6. id \notin Assigned
    BY <2>5, AssignedIs
  <2>7. Uses(Kept(n), id) = {e}
    <3>1. e \in Uses(Kept(n), id)
      BY <1>3, <2>3 DEF Uses
    <3>2. ASSUME NEW j \in Uses(Kept(n), id) PROVE j = e
      <4>1. j \in DOMAIN Kept(n) /\ Kept(n)[j].id = id
        BY DEF Uses
      <4>2. j \in DOMAIN Given(n) /\ Given(n)[j].id = id
        BY <1>2, <4>1, KeptIs
      <4>3. QED
        BY <1>2, <1>3, <2>3, <4>2, ReservedOnce
    <3>3. QED
      BY <3>1, <3>2
  <2>8. QED
    BY <2>4, <2>6, <2>7 DEF id
<1>6. /\ v \in Int /\ v # 0 /\ v \notin Assigned /\ counter' \in 0 .. (IdSpace - 1)
      /\ v = own \/ v \notin Reserved
      /\ own \in Reserved => v = own
  <2>1. CASE keep
    BY <1>1, <1>4, <2>1 DEF IdsInv
  <2>2. CASE ~ keep
    <3>1. e > Len(runtimeIds[n])
      BY <1>2 DEF e
    <3>2. NextLocalSrId \in 0 .. (IdSpace - 1) /\ NextLocalSrId \notin Assigned \cup Reserved \cup {0}
      BY <1>2, <1>3, <3>1, NextIdIsFree
    <3> HIDE DEF keep
    <3>3. counter' = NextLocalSrId /\ v = NextLocalSrId
      BY <1>1, <2>2
    <3>4. QED
      BY <1>5, <2>2, <3>2, <3>3
  <2>3. QED
    BY <2>1, <2>2
<1> DEFINE old == own
<1> HIDE DEF keep, v
<1>7. /\ runtimeIds' \in Seq(Seq(Int)) /\ Len(runtimeIds') = n /\ DOMAIN runtimeIds' = 1..n
      /\ runtimeIds'[n] = Append(runtimeIds[n], v)
      /\ \A g \in 1..n : g # n => runtimeIds'[g] = runtimeIds[g]
  <2>1. Append(runtimeIds[n], v) \in Seq(Int)
    BY <1>2, <1>6, AppendedAt
  <2>2. runtimeIds' = [runtimeIds EXCEPT ![n] = Append(runtimeIds[n], v)]
    BY <1>1
  <2>3. QED
    BY <1>2, <2>1, <2>2, ExceptAt
<1>8. /\ Len(runtimeIds'[n]) = e /\ DOMAIN runtimeIds'[n] = 1..e /\ runtimeIds'[n][e] = v
      /\ \A f \in 1 .. (e - 1) : runtimeIds'[n][f] = runtimeIds[n][f]
  <2>1. e = Len(runtimeIds[n]) + 1 /\ Len(runtimeIds[n]) = e - 1
    BY <1>2 DEF e
  <2> DEFINE s == runtimeIds[n]
  <2>2. s \in Seq(Int) /\ v \in Int /\ Len(s) = e - 1 /\ Len(s) + 1 = e
        /\ runtimeIds'[n] = Append(s, v)
    BY <1>2, <1>6, <1>7, <2>1
  <2> HIDE DEF s
  <2>3. /\ Len(Append(s, v)) = e /\ DOMAIN Append(s, v) = 1..e /\ Append(s, v)[e] = v
        /\ \A f \in 1 .. (e - 1) : Append(s, v)[f] = s[f]
    BY <2>2, AppendedAt
  <2>4. QED
    BY <2>2, <2>3 DEF s
<1>9. \A h \in DOMAIN runtimeIds' : \A f \in DOMAIN runtimeIds'[h] :
         \/ h = n /\ f = e
         \/ /\ h \in DOMAIN runtimeIds /\ f \in DOMAIN runtimeIds[h]
            /\ runtimeIds'[h][f] = runtimeIds[h][f] /\ runtimeIds'[h][f] # v
  <2>1. ASSUME NEW h \in DOMAIN runtimeIds', NEW f \in DOMAIN runtimeIds'[h], ~ (h = n /\ f = e)
        PROVE  /\ h \in DOMAIN runtimeIds /\ f \in DOMAIN runtimeIds[h]
               /\ runtimeIds'[h][f] = runtimeIds[h][f]
    <3>1. CASE h # n
      BY <1>2, <1>7, <2>1, <3>1
    <3>2. CASE h = n
      <4>1. f \in 1 .. (e - 1)
        BY <1>2, <1>8, <2>1, <3>2
      <4>2. QED
        BY <1>2, <1>8, <3>2, <4>1
    <3>3. QED
      BY <3>1, <3>2
  <2>2. \A h \in DOMAIN runtimeIds : \A f \in DOMAIN runtimeIds[h] : runtimeIds[h][f] # v
    BY <1>6, AssignedIs
  <2>3. QED
    BY <2>1, <2>2
<1>10. Numbered' /\ (\A g : Kept(g)' = Kept(g)) /\ Reserved' = Reserved
  <2>2. Numbered'
    BY <1>1 DEF Numbered, IdsInv
  <2>3. QED
    BY <1>1, <2>2 DEF Kept, Given, Reserved
<1>11. ASSUME NEW g \in DOMAIN runtimeIds', NEW i \in DOMAIN runtimeIds'[g]
       PROVE  IdSound(g, i)'
  <2>1. CASE g = n /\ i = e
    <3>1. \A h \in DOMAIN runtimeIds' : \A f \in DOMAIN runtimeIds'[h] :
              runtimeIds'[h][f] = v => h = n /\ f = e
      BY <1>9
    <3>2. Kept(n)[e].id = own
      OBVIOUS
    <3> HIDE DEF own
    <3>3. QED
      BY <1>6, <1>8, <1>10, <2>1, <3>1, <3>2 DEF IdSound
  <2>2. CASE ~ (g = n /\ i = e)
    <3>1. /\ g \in DOMAIN runtimeIds /\ i \in DOMAIN runtimeIds[g]
          /\ runtimeIds'[g][i] = runtimeIds[g][i] /\ runtimeIds'[g][i] # v
      BY <1>9, <1>11, <2>2
    <3>2. IdSound(g, i)
      BY <1>2, <3>1 DEF IdsInv
    <3>3. \A h \in DOMAIN runtimeIds' : \A f \in DOMAIN runtimeIds'[h] :
              runtimeIds'[h][f] = runtimeIds'[g][i] => h = g /\ f = i
      BY <1>8, <1>9, <3>1, <3>2 DEF IdSound
    <3>4. QED
      BY <1>10, <3>1, <3>2, <3>3 DEF IdSound
  <2>3. QED
    BY <2>1, <2>2
<1>12. ASSUME NEW g \in DOMAIN runtimeIds'
       PROVE  /\ Len(runtimeIds'[g]) <= Len(Kept(g))
              /\ g < Len(runtimeIds') => Len(runtimeIds'[g]) = Len(Kept(g))
  <2>1. CASE g = n
    <3> HIDE DEF n
    <3>1. ~ (n < n)
      BY <1>2
    <3>2. QED
      BY <1>1, <1>7, <1>8, <2>1, <3>1
  <2>2. CASE g # n
    <3>1. g \in DOMAIN runtimeIds /\ runtimeIds'[g] = runtimeIds[g]
      BY <1>2, <1>7, <2>2
    <3>2. QED
      BY <1>7, <3>1 DEF IdsInv
  <2>3. QED
    BY <2>1, <2>2
<1>13. /\ wanted' \in Preferences /\ servers' \in Seq(LineIds) /\ groups' \in Seq(Groups)
       /\ counter' \in 0 .. (IdSpace - 1) /\ Len(runtimeIds') <= Len(groups') /\ select' # "lines"
  BY <1>1, <1>2, <1>6, <1>7 DEF IdsInv
<1>14. QED
  BY <1>7, <1>10, <1>11, <1>12, <1>13 DEF IdsInv

LEMMA ListIsSequence ==
  ASSUME NEW S, NEW n \in Nat, NEW s \in [1..n -> S]
  PROVE  s \in Seq(S) /\ Len(s) = n /\ \A i \in 1 .. Len(s) : s[i] \in S
OBVIOUS

LEMMA BoundedIsSeq ==
  ASSUME NEW S, NEW n \in Nat, NEW s \in BoundedSeq(S, n)
  PROVE  s \in Seq(S)
<1>1. PICK m \in 0..n : s \in [1..m -> S]
  BY DEF BoundedSeq, SeqOf
<1>2. QED
  BY <1>1

\* The entries read are the pieces of one sequence of at most MaxEntries.
LEMMA ReadEntriesNumbered ==
  ASSUME NEW sizes \in GroupSizes,
         NEW G, NEW all \in [1..Total(sizes, Len(sizes)) -> Entries],
         NEW idOf \in [DOMAIN sizes -> LineIds],
         NEW firsts \in {f \in [DOMAIN sizes -> 0..MaxEntries] :
                            \A g \in DOMAIN sizes : f[g] <= sizes[g]},
         G = [g \in DOMAIN sizes |->
                      [id |-> idOf[g], primary |-> firsts[g],
                       entries |-> SubSeq(all, 1 + Total(sizes, g - 1), Total(sizes, g))]]
  PROVE  G \in Seq(Groups) /\ NumberedIn(G)
<1> DEFINE n == Len(sizes)
           T(g) == Total(sizes, g)
           piece(g) == SubSeq(all, 1 + T(g - 1), T(g))
<1>1. MaxGroupCount \in Nat /\ MaxEntries \in Nat
  BY LineSelectionAssumption
<1>2. sizes \in Seq(0..MaxEntries) /\ T(n) <= MaxEntries /\ n \in Nat /\ DOMAIN sizes = 1..n
  <2>1. sizes \in BoundedSeq(0..MaxEntries, MaxGroupCount) /\ T(n) <= MaxEntries
    BY DEF GroupSizes
  <2>2. sizes \in Seq(0..MaxEntries)
    BY <1>1, <2>1, BoundedIsSeq
  <2>3. QED
    BY <2>1, <2>2
<1>3. /\ \A g \in 0..n : T(g) \in Nat
      /\ \A g \in 1..n : T(g) = T(g - 1) + sizes[g]
      /\ \A g, h \in 0..n : g <= h => T(g) <= T(h)
  BY <1>2, TotalsGrow
<1> DEFINE at(g, e) == T(g - 1) + e
<1> HIDE DEF T, n
<1>4. /\ all \in Seq(Entries) /\ Len(all) = T(n)
      /\ \A i \in 1 .. Len(all) : all[i] \in Entries
  <2>1. T(n) \in Nat
    BY <1>2, <1>3
  <2>2. all \in [1..T(n) -> Entries]
    BY DEF T, n
  <2> DEFINE m == T(n)
  <2>3. m \in Nat /\ all \in [1..m -> Entries] /\ T(n) = m
    BY <2>1, <2>2
  <2> HIDE DEF m
  <2>4. all \in Seq(Entries) /\ Len(all) = m /\ \A i \in 1 .. Len(all) : all[i] \in Entries
    BY <2>3, ListIsSequence
  <2>5. QED
    BY <2>3, <2>4
<1>5. ASSUME NEW g \in 1..n
      PROVE  /\ piece(g) \in Seq(Entries) /\ DOMAIN piece(g) = 1..sizes[g]
             /\ g - 1 \in 0..n /\ g \in 0..n /\ sizes[g] \in Nat
             /\ T(g - 1) \in Nat /\ T(g) \in Nat /\ T(g) <= T(n)
  <2>1. /\ g - 1 \in 0..n /\ g \in 0..n /\ n \in 0..n /\ g <= n /\ sizes[g] \in 0..MaxEntries
    BY <1>1, <1>2
  <2>2. /\ T(g - 1) \in Nat /\ T(g) \in Nat /\ T(g) <= T(n) /\ T(n) \in Nat
        /\ T(g) = T(g - 1) + sizes[g] /\ sizes[g] \in Nat
    BY <1>1, <1>3, <2>1
  <2> DEFINE a == 1 + T(g - 1)
             b == T(g)
  <2>3. a \in 1 .. (b + 1) /\ b <= Len(all) /\ b \in Nat /\ b - a + 1 = sizes[g]
    BY <1>4, <2>2
  <2> HIDE DEF a, b
  <2>4. SubSeq(all, a, b) \in Seq(Entries) /\ DOMAIN SubSeq(all, a, b) = 1 .. (b - a + 1)
    <3>1. \A i \in a..b : i \in 1 .. Len(all) /\ all[i] \in Entries
      <4>1. Len(all) \in Nat /\ a \in Int /\ 1 <= a /\ b \in Int
        BY <1>4, <2>3
      <4>2. \A i \in a..b : i \in 1 .. Len(all)
        BY <2>3, <4>1
      <4>3. QED
        BY <1>4, <4>2
    <3>2. SubSeq(all, a, b) = [i \in 1 .. (b - a + 1) |-> all[i + a - 1]]
      BY <1>4, <2>3
    <3>3. \A i \in 1 .. (b - a + 1) : i + a - 1 \in a..b
      BY <2>3
    <3>4. SubSeq(all, a, b) \in [1 .. (b - a + 1) -> Entries] /\ b - a + 1 \in Nat
      BY <2>2, <2>3, <3>1, <3>2, <3>3
    <3> DEFINE m == b - a + 1
               piece2 == SubSeq(all, a, b)
    <3>5. piece2 \in [1..m -> Entries] /\ m \in Nat
      BY <3>4
    <3> HIDE DEF m, piece2
    <3>6. piece2 \in Seq(Entries) /\ DOMAIN piece2 = 1..m
      BY <3>5
    <3>7. QED
      BY <3>6 DEF m, piece2
  <2>5. QED
    BY <2>1, <2>2, <2>3, <2>4 DEF a, b
<1>6. G = [g \in 1..n |-> [id |-> idOf[g], primary |-> firsts[g], entries |-> piece(g)]]
  BY <1>2 DEF T
<1> HIDE DEF piece
<1>7. G \in [1..n -> Groups]
  <2>1. \A g \in 1..n : idOf[g] \in LineIds /\ firsts[g] \in Nat /\ piece(g) \in Seq(Entries)
    BY <1>1, <1>2, <1>5
  <2>2. \A g \in 1..n :
           [id |-> idOf[g], primary |-> firsts[g], entries |-> piece(g)] \in Groups
    BY <2>1 DEF Groups
  <2>3. QED
    BY <1>6, <2>2
<1>8. G \in Seq(Groups)
  BY <1>2, <1>7
<1>9. \A p : p \in PlacesIn(G) <=> \E g \in 1..n : \E e \in 1..sizes[g] : p = <<g, e>>
  <2>1. DOMAIN G = 1..n /\ \A g \in 1..n : DOMAIN G[g].entries = 1..sizes[g]
    <3>1. DOMAIN G = 1..n
      BY <1>6
    <3>2. ASSUME NEW g \in 1..n PROVE DOMAIN G[g].entries = 1..sizes[g]
      <4>1. G[g].entries = piece(g)
        BY <1>6
      <4>2. QED
        BY <1>5, <4>1
    <3>3. QED
      BY <3>1, <3>2
  <2>3. ASSUME NEW p
        PROVE  p \in PlacesIn(G) <=> \E g \in 1..n : \E e \in 1..sizes[g] : p = <<g, e>>
    <3>1. p \in PlacesIn(G) <=> \E g \in DOMAIN G : \E e \in DOMAIN G[g].entries : p = <<g, e>>
      BY PlaceIsIn
    <3>2. \A g \in 1..n : DOMAIN G[g].entries = 1..sizes[g]
      BY <2>1
    <3>3. DOMAIN G = 1..n
      BY <2>1
    <3>4. QED
      BY <3>1, <3>2, <3>3, Zenon
  <2>4. QED
    BY <2>3
<1> DEFINE number == [p \in PlacesIn(G) |-> at(p[1], p[2])]
<1>10. ASSUME NEW g \in 1..n, NEW e \in 1..sizes[g]
       PROVE  at(g, e) \in T(g - 1) + 1 .. T(g) /\ at(g, e) \in 1..MaxEntries
  <2>1. /\ T(g - 1) \in Nat /\ T(g) \in Nat /\ T(g) <= T(n) /\ sizes[g] \in Nat /\ T(n) \in Nat
        /\ T(g) = T(g - 1) + sizes[g] /\ T(n) <= MaxEntries
    BY <1>2, <1>3, <1>5
  <2>2. e \in Int /\ 1 <= e /\ e <= sizes[g]
    BY <1>10, <2>1
  <2> DEFINE low == T(g - 1)
             high == T(g)
             total == T(n)
             size == sizes[g]
  <2>3. /\ low \in Nat /\ high \in Nat /\ total \in Nat /\ size \in Nat
        /\ high <= total /\ total <= MaxEntries /\ high = low + size /\ e <= size
    BY <2>1, <2>2
  <2>4. at(g, e) = low + e /\ T(g - 1) + 1 .. T(g) = low + 1 .. high
    OBVIOUS
  <2> HIDE DEF low, high, total, size, at
  <2>5. low + e \in low + 1 .. high /\ low + e \in 1..MaxEntries
    BY <1>1, <2>2, <2>3
  <2>6. QED
    BY <2>4, <2>5
<1>11. ASSUME NEW g \in 1..n, NEW e \in 1..sizes[g], NEW h \in 1..n, NEW f \in 1..sizes[h],
              at(g, e) = at(h, f)
       PROVE  g = h /\ e = f
  <2>1. /\ at(g, e) \in T(g - 1) + 1 .. T(g) /\ at(h, f) \in T(h - 1) + 1 .. T(h)
        /\ T(g - 1) \in Nat /\ T(g) \in Nat /\ T(h - 1) \in Nat /\ T(h) \in Nat
        /\ g \in 0..n /\ h \in 0..n /\ g - 1 \in 0..n /\ h - 1 \in 0..n
        /\ sizes[g] \in Nat /\ sizes[h] \in Nat
    BY <1>5, <1>10
  <2>2. ~ (g < h)
    <3>1. g < h => T(g) <= T(h - 1)
      BY <1>2, <1>3, <2>1
    <3>2. QED
      BY <1>11, <2>1, <3>1
  <2>3. ~ (h < g)
    <3>1. h < g => T(h) <= T(g - 1)
      BY <1>2, <1>3, <2>1
    <3>2. QED
      BY <1>11, <2>1, <3>1
  <2>4. g = h
    BY <1>2, <2>2, <2>3
  <2>5. T(g - 1) + e = T(g - 1) + f /\ e \in Int /\ f \in Int
    BY <1>11, <2>1, <2>4
  <2>6. QED
    BY <2>1, <2>4, <2>5
<1> HIDE DEF at
<1>12. /\ number \in [PlacesIn(G) -> 1..MaxEntries]
       /\ \A p, q \in PlacesIn(G) : number[p] = number[q] => p = q
  <2>1. ASSUME NEW p \in PlacesIn(G)
        PROVE  \E g \in 1..n : \E e \in 1..sizes[g] : p = <<g, e>> /\ number[p] = at(g, e)
    <3>1. PICK g \in 1..n : \E e \in 1..sizes[g] : p = <<g, e>>
      BY <1>9
    <3>2. PICK e \in 1..sizes[g] : p = <<g, e>>
      BY <3>1
    <3>3. p[1] = g /\ p[2] = e
      BY <3>2
    <3>4. QED
      BY <3>2, <3>3
  <2>2. \A p \in PlacesIn(G) : number[p] \in 1..MaxEntries
    BY <1>10, <2>1
  <2>3. ASSUME NEW p \in PlacesIn(G), NEW q \in PlacesIn(G), number[p] = number[q]
        PROVE  p = q
    <3>1. PICK g \in 1..n : \E e \in 1..sizes[g] : p = <<g, e>> /\ number[p] = at(g, e)
      BY <2>1
    <3>2. PICK e \in 1..sizes[g] : p = <<g, e>> /\ number[p] = at(g, e)
      BY <3>1
    <3>3. PICK h \in 1..n : \E f \in 1..sizes[h] : q = <<h, f>> /\ number[q] = at(h, f)
      BY <2>1
    <3>4. PICK f \in 1..sizes[h] : q = <<h, f>> /\ number[q] = at(h, f)
      BY <3>3
    <3>5. g = h /\ e = f
      BY <1>11, <2>3, <3>2, <3>4
    <3>6. QED
      BY <3>2, <3>4, <3>5
  <2>4. QED
    BY <2>2, <2>3
<1>13. NumberedIn(G)
  <2> HIDE DEF number
  <2>1. QED
    BY <1>12 DEF NumberedIn
<1>14. QED
  BY <1>8, <1>13

LEMMA NothingNumbered == NumberedIn(<<>>)
<1>1. PlacesIn(<<>>) = {}
  BY DEF PlacesIn
<1>2. [p \in {} |-> 1] \in [{} -> 1..MaxEntries]
  OBVIOUS
<1>3. QED
  BY <1>1, <1>2 DEF NumberedIn

LEMMA ReadLinesKeepsIds == ASSUME IdsInv, ReadLines PROVE IdsInv'
<1>1. /\ UNCHANGED <<wanted, runtimeIds, counter>> /\ select' = "sanitize" /\ runtimeIds = <<>>
  BY DEF ReadLines, IdsInv
<1>2. servers' \in Seq(LineIds) /\ groups' \in Seq(Groups) /\ Numbered'
  <2>1. CASE servers' \in BoundedSeq(LineIds, MaxServers) \ {<<>>} /\ groups' = <<>>
    <3>1. servers' \in Seq(LineIds)
      BY <2>1, BoundedIsSeq, LineSelectionAssumption
    <3>2. NumberedIn(<<>>)
      BY NothingNumbered
    <3>3. QED
      BY <2>1, <3>1, <3>2 DEF Numbered
  <2>2. CASE /\ servers' = <<>>
             /\ \E sizes \in GroupSizes :
                \E all \in [1..Total(sizes, Len(sizes)) -> Entries],
                   idOf \in [DOMAIN sizes -> LineIds],
                   firsts \in {f \in [DOMAIN sizes -> 0..MaxEntries] :
                                 \A g \in DOMAIN sizes : f[g] <= sizes[g]} :
                   groups' = [g \in DOMAIN sizes |->
                       [id |-> idOf[g], primary |-> firsts[g],
                        entries |-> SubSeq(all, 1 + Total(sizes, g - 1), Total(sizes, g))]]
    <3>1. groups' \in Seq(Groups) /\ NumberedIn(groups')
      BY <2>2, ReadEntriesNumbered
    <3>2. QED
      BY <2>2, <3>1 DEF Numbered
  <2>3. QED
    BY <2>1, <2>2 DEF ReadLines
<1>3. Len(runtimeIds') <= Len(groups') /\ DOMAIN runtimeIds' = {} /\ runtimeIds' \in Seq(Seq(Int))
  BY <1>1, <1>2
<1>4. wanted' \in Preferences /\ counter' \in 0 .. (IdSpace - 1)
  BY <1>1 DEF IdsInv
<1>5. QED
  BY <1>1, <1>2, <1>3, <1>4 DEF IdsInv

LEMMA IdsStart == ASSUME SelectInit PROVE IdsInv
<1>1. /\ wanted \in Preferences /\ servers = <<>> /\ groups = <<>> /\ runtimeIds = <<>>
      /\ counter \in 0 .. (IdSpace - 1)
  BY LineSelectionAssumption DEF SelectInit
<1>4. Numbered
  BY <1>1, NothingNumbered DEF Numbered
<1>5. QED
  BY <1>1, <1>4 DEF IdsInv

LEMMA IdsKept == ASSUME IdsInv, [SelectNext]_selectVars PROVE IdsInv'
<1>1. CASE ReadFails
  BY <1>1, IdsStay DEF ReadFails
<1>2. CASE ReadLines
  BY <1>2, ReadLinesKeepsIds
<1>3. CASE NextGroup
  BY <1>3, NextGroupKeepsIds
<1>4. CASE AssignId
  BY <1>4, AssignIdKeepsIds
<1>5. CASE SelectIngress
  BY <1>5, IdsStay DEF SelectIngress
<1>6. CASE Ping
  BY <1>6, IdsStay DEF Ping
<1>7. CASE ChooseLine
  BY <1>7, IdsStay DEF ChooseLine
<1>8. CASE UNCHANGED selectVars
  BY <1>8, IdsStay DEF selectVars
<1>9. QED
  BY <1>1, <1>2, <1>3, <1>4, <1>5, <1>6, <1>7, <1>8 DEF SelectNext, SelectEnded

LEMMA RuntimePlaces ==
  ASSUME NEW p \in Places
  PROVE  p[1] \in DOMAIN runtimeIds /\ p[2] \in DOMAIN runtimeIds[p[1]] /\ p = <<p[1], p[2]>>
<1>1. PICK g \in DOMAIN runtimeIds : \E e \in DOMAIN runtimeIds[g] : p = <<g, e>>
  BY DEF Places
<1>2. PICK e \in DOMAIN runtimeIds[g] : p = <<g, e>>
  BY <1>1
<1>3. QED
  BY <1>2

LEMMA IdsHold == ASSUME IdsInv PROVE RuntimeIdsSound
<1>1. \A g \in DOMAIN runtimeIds : \A e \in DOMAIN runtimeIds[g] : IdSound(g, e)
  BY DEF IdsInv
<1>2. 0 \notin Assigned
  BY <1>1, AssignedIs DEF IdSound
<1>3. ASSUME NEW p \in Places PROVE Kept(p[1])[p[2]].id \in Reserved =>
                                      runtimeIds[p[1]][p[2]] = Kept(p[1])[p[2]].id
  BY <1>1, RuntimePlaces DEF IdSound
<1>4. ASSUME NEW p \in Places, NEW q \in Places, runtimeIds[p[1]][p[2]] = runtimeIds[q[1]][q[2]]
      PROVE  p = q
  <2>1. q[1] = p[1] /\ q[2] = p[2]
    BY <1>1, <1>4, RuntimePlaces DEF IdSound
  <2>2. QED
    BY <2>1, RuntimePlaces
<1>5. QED
  BY <1>2, <1>3, <1>4 DEF RuntimeIdsSound

LEMMA SurvivorsAre ==
  ASSUME groups \in Seq(Groups), NEW g \in DOMAIN groups
  PROVE  LET s == Survivors(g)
         IN  /\ s \in Seq(Nat) /\ \A k \in DOMAIN s : s[k] \in 1 .. Len(Kept(g))
             /\ \A e \in 1 .. Len(Kept(g)) : Kept(g)[e].valid => \E k \in DOMAIN s : s[k] = e
<1> DEFINE K == {i \in DOMAIN Kept(g) : Kept(g)[i].valid}
           s == InOrder(K)
<1>1. Kept(g) \in Seq(Entries)
  BY KeptIs
<1>2. DOMAIN Kept(g) = 1 .. Len(Kept(g)) /\ Len(Kept(g)) \in Nat
  BY <1>1
<1>3. K \in SUBSET Nat /\ IsFiniteSet(K) /\ K \subseteq 1 .. Len(Kept(g))
  <2>1. K \in SUBSET (1 .. Len(Kept(g)))
    BY <1>2
  <2>2. IsFiniteSet(1 .. Len(Kept(g)))
    BY <1>2, FS_Interval
  <2>3. QED
    BY <1>2, <2>1, <2>2, FS_Subset
<1>4. \A e \in 1 .. Len(Kept(g)) : Kept(g)[e].valid => e \in K
  BY <1>2
<1> HIDE DEF K
<1>5. s \in Seq(K) /\ \A i \in K : \E k \in DOMAIN s : s[k] = i
  BY <1>3, InOrderLists
<1>6. s = Survivors(g)
  BY DEF Survivors, K
<1> HIDE DEF s
<1>7. s \in Seq(Nat) /\ \A k \in DOMAIN s : s[k] \in K
  <2>1. \A k \in DOMAIN s : s[k] \in K
    BY <1>5
  <2>2. Len(s) \in Nat /\ s \in [1 .. Len(s) -> K]
    BY <1>5
  <2>3. s \in [1 .. Len(s) -> Nat]
    BY <1>3, <2>2
  <2>4. QED
    BY <2>1, <2>2, <2>3
<1>8. QED
  BY <1>3, <1>4, <1>5, <1>6, <1>7

LEMMA SanitisedAll ==
  ASSUME IdsInv, Sanitised, NEW g \in DOMAIN groups
  PROVE  g \in DOMAIN runtimeIds /\ DOMAIN runtimeIds[g] = 1 .. Len(Kept(g))
<1>1. /\ groups \in Seq(Groups) /\ runtimeIds \in Seq(Seq(Int))
      /\ Len(runtimeIds) = Len(groups) /\ GroupDone
  BY DEF IdsInv, Sanitised
<1>2. g \in DOMAIN runtimeIds /\ g \in 1 .. Len(runtimeIds) /\ runtimeIds # <<>>
  BY <1>1
<1>3. Len(runtimeIds[g]) = Len(Kept(g))
  <2>1. CASE g = Len(runtimeIds)
    BY <1>1, <1>2, <2>1 DEF GroupDone, Last
  <2>2. CASE g < Len(runtimeIds)
    BY <1>2, <2>2 DEF IdsInv
  <2>3. QED
    BY <1>1, <1>2, <2>1, <2>2
<1>4. QED
  BY <1>1, <1>2, <1>3

\* The primary of a group, found again by its runtime ID, is tried first, and
\* every survivor after it.
LEMMA OrderedAre ==
  ASSUME IdsInv, Sanitised, NEW g \in DOMAIN groups, Survivors(g) # <<>>
  PROVE  LET o == OrderedSrEntries(g)
         IN  /\ o \in Seq(Nat) /\ Len(o) > 0
             /\ \A e \in ControllerPrimary(g) : o[1] = e
             /\ \A e \in 1 .. Len(Kept(g)) : Kept(g)[e].valid => \E j \in DOMAIN o : o[j] = e
<1> DEFINE s == Survivors(g)
           primary == IF groups[g].primary < Len(Kept(g)) THEN groups[g].primary + 1 ELSE 1
           places == {p \in DOMAIN s : runtimeIds[g][s[p]] = runtimeIds[g][primary]}
           p1 == PrimaryOf(g)
           o == OrderedSrEntries(g)
<1>1. groups \in Seq(Groups) /\ groups[g].primary \in Nat
  <2>1. groups \in Seq(Groups) /\ groups[g] \in Groups
    BY DEF IdsInv
  <2>2. QED
    BY <2>1 DEF Groups
<1>2. /\ s \in Seq(Nat) /\ \A k \in DOMAIN s : s[k] \in 1 .. Len(Kept(g))
      /\ \A e \in 1 .. Len(Kept(g)) : Kept(g)[e].valid => \E k \in DOMAIN s : s[k] = e
  BY <1>1, SurvivorsAre
<1>3. g \in DOMAIN runtimeIds /\ DOMAIN runtimeIds[g] = 1 .. Len(Kept(g))
  BY SanitisedAll
<1>4. p1 = IF places = {} THEN 1 ELSE CHOOSE p \in places : \A q \in places : p <= q
  BY DEF PrimaryOf
<1>5. o = [s EXCEPT ![1] = s[p1], ![p1] = s[1]]
  BY DEF OrderedSrEntries
<1>6. s # <<>>
  OBVIOUS
<1> HIDE DEF s, p1, o, primary
<1>7. 1 \in DOMAIN s /\ DOMAIN s \subseteq Nat /\ DOMAIN s = 1 .. Len(s)
  BY <1>2, <1>6
<1>8. p1 \in DOMAIN s /\ (places # {} => p1 \in places)
  <2>1. CASE places = {}
    BY <1>4, <1>7, <2>1
  <2>2. CASE places # {}
    <3>1. places \in SUBSET Nat
      BY <1>7
    <3>2. \E p \in places : \A q \in places : p <= q
      <4> HIDE DEF places
      <4>1. QED
        BY <2>2, <3>1, LeastNatural
    <3>3. p1 \in places
      <4> HIDE DEF places
      <4>1. QED
        BY <1>4, <2>2, <3>2
    <3>4. QED
      BY <3>3
  <2>3. QED
    BY <2>1, <2>2
<1>9. /\ o \in Seq(Nat) /\ DOMAIN o = DOMAIN s /\ Len(o) = Len(s) /\ o[1] = s[p1] /\ o[p1] = s[1]
      /\ \A k \in DOMAIN s : k # 1 /\ k # p1 => o[k] = s[k]
  BY <1>2, <1>5, <1>7, <1>8
<1>10. ASSUME NEW e \in ControllerPrimary(g) PROVE o[1] = e
  <2>1. e \in 1 .. Len(Kept(g)) /\ e = groups[g].primary + 1 /\ Kept(g)[e].valid
    BY DEF ControllerPrimary
  <2>2. primary = e
    <3>1. Len(Kept(g)) \in Nat
      BY <1>1, KeptIs
    <3>2. QED
      BY <1>1, <2>1, <3>1 DEF primary
  <2>3. PICK k \in DOMAIN s : s[k] = e
    BY <1>2, <2>1
  <2>4. k \in places
    BY <2>2, <2>3
  <2>5. p1 \in places
    BY <1>8, <2>4
  <2>6. runtimeIds[g][s[p1]] = runtimeIds[g][e] /\ s[p1] \in DOMAIN runtimeIds[g] /\ e \in DOMAIN runtimeIds[g]
    BY <1>2, <1>3, <2>1, <2>2, <2>5
  <2>7. s[p1] = e
    <3>1. IdSound(g, e)
      BY <1>3, <2>6 DEF IdsInv
    <3>2. QED
      BY <1>3, <2>6, <3>1 DEF IdSound
  <2>8. QED
    BY <1>9, <2>7
<1>11. ASSUME NEW e \in 1 .. Len(Kept(g)), Kept(g)[e].valid PROVE \E j \in DOMAIN o : o[j] = e
  <2>1. PICK k \in DOMAIN s : s[k] = e
    BY <1>2, <1>11
  <2>2. QED
    BY <1>7, <1>8, <1>9, <2>1
<1>12. Len(o) > 0
  BY <1>2, <1>7, <1>9
<1>13. QED
  BY <1>9, <1>10, <1>11, <1>12 DEF o

Targets == [kind : {"iwan", "sr"}, id : LineIds, group : Nat, order : Seq(Nat) \ {<<>>}]
PingsMade == [kind : {"iwan", "sr"}, id : LineIds, group : Nat, at : Nat, latency : Nat]

IsWanted(l) == wanted # AnyLine => l.kind = wanted.kind /\ l.id = wanted.id

SilentAt(g, e) == \E i \in PingedAt(g, e) : pings[i].latency = Silent

\* What is left of a line: the entries before it did not answer.
TargetSound(t) ==
    /\ t \in Targets /\ IsWanted(t)
    /\ t.kind = "iwan" => t.order = <<1>>
    /\ t.kind = "sr" =>
          /\ Sanitised /\ t.group \in DOMAIN groups /\ Survivors(t.group) # <<>>
          /\ LET o == OrderedSrEntries(t.group)
             IN  \E k \in Nat :
                    /\ Len(t.order) + k = Len(o)
                    /\ \A j \in 1 .. Len(t.order) : t.order[j] = o[k + j]
                    /\ \A j \in 1..k : SilentAt(t.group, o[j])

\* The primary of a group is pinged before its other entries.
PingSound(i) ==
    /\ IsWanted(pings[i])
    /\ pings[i].kind = "sr" =>
          \A e \in ControllerPrimary(pings[i].group) :
              \/ pings[i].at = e
              \/ \E j \in PingedAt(pings[i].group, e) : j < i /\ pings[j].latency = Silent

ServerTried(s) ==
    \/ PingedAt(s, 1) # {}
    \/ \E i \in DOMAIN targets : targets[i].kind = "iwan" /\ targets[i].group = s

EntryTried(g, e) ==
    \/ PingedAt(g, e) # {}
    \/ \E i \in Answered : pings[i].group = g
    \/ \E i \in DOMAIN targets : /\ targets[i].group = g
                                 /\ \E j \in DOMAIN targets[i].order : targets[i].order[j] = e

\* Every line and entry was pinged, or still is to be.
AllTried ==
    /\ \A s \in DOMAIN servers : ServerTried(s)
    /\ \A g \in DOMAIN groups : \A e \in 1 .. Len(Kept(g)) : Kept(g)[e].valid => EntryTried(g, e)

LinesInv ==
    /\ select \in {"lines", "sanitize"} => targets = <<>> /\ pings = <<>>
    /\ \A i \in DOMAIN targets : TargetSound(targets[i])
    /\ targets \in Seq(Targets) /\ pings \in Seq(PingsMade)
    /\ \A i \in DOMAIN pings : PingSound(i)
    /\ select = "ping" /\ wanted = AnyLine => AllTried
    /\ chosen # Nothing =>
          /\ select = "selected" /\ IsWanted(chosen)
          /\ \A i \in Answered : chosen.latency <= pings[i].latency

SelectInv == IdsInv /\ LinesInv

LEMMA LinesHold == ASSUME SelectInv PROVE BestLineChosen
<1>1. ASSUME select = "ping", targets = <<>>, wanted = AnyLine
      PROVE  /\ \A s \in DOMAIN servers : PingedAt(s, 1) # {}
             /\ \A g \in DOMAIN groups : \A e \in 1 .. Len(Kept(g)) :
                   Kept(g)[e].valid =>
                       PingedAt(g, e) # {} \/ \E i \in Answered : pings[i].group = g
  <2>1. AllTried /\ DOMAIN targets = {}
    BY <1>1 DEF SelectInv, LinesInv
  <2>2. QED
    BY <2>1 DEF AllTried, ServerTried, EntryTried
<1>2. \A i \in DOMAIN pings : pings[i].kind = "sr" =>
          \A e \in ControllerPrimary(pings[i].group) :
              \/ pings[i].at = e
              \/ \E j \in PingedAt(pings[i].group, e) : j < i /\ pings[j].latency = Silent
  BY DEF SelectInv, LinesInv, PingSound
<1>3. chosen # Nothing =>
          /\ wanted # AnyLine => chosen.kind = wanted.kind /\ chosen.id = wanted.id
          /\ \A i \in Answered : chosen.latency <= pings[i].latency
  BY DEF SelectInv, LinesInv, IsWanted
<1>4. QED
  BY <1>1, <1>2, <1>3 DEF BestLineChosen

LEMMA ConcatenatedAre ==
  ASSUME NEW S, NEW s \in Seq(S), NEW t \in Seq(S)
  PROVE  /\ s \o t \in Seq(S) /\ Len(s \o t) = Len(s) + Len(t)
         /\ \A k \in 1 .. (Len(s) + Len(t)) :
               (s \o t)[k] = IF k <= Len(s) THEN s[k] ELSE t[k - Len(s)]
OBVIOUS

\* A line nothing of which has been tried.
FreshTarget(t) ==
    /\ t \in Targets
    /\ t.kind = "iwan" => t.order = <<1>>
    /\ t.kind = "sr" => /\ t.group \in DOMAIN groups /\ Survivors(t.group) # <<>>
                        /\ t.order = OrderedSrEntries(t.group)

LEMMA ServerLinesAre ==
  ASSUME IdsInv
  PROVE  /\ ServerLines \in Seq(Targets)
         /\ \A i \in DOMAIN ServerLines : FreshTarget(ServerLines[i]) /\ ServerLines[i].kind = "iwan"
         /\ \A s \in DOMAIN servers : \E i \in DOMAIN ServerLines : ServerLines[i].group = s
<1> DEFINE l == ServerLines
           n == Len(servers)
<1>1. n \in Nat /\ DOMAIN servers = 1..n /\ \A i \in 1..n : servers[i] \in LineIds
  BY DEF IdsInv
<1>2. l = [i \in 1..n |-> [kind |-> "iwan", id |-> servers[i], group |-> i, order |-> <<1>>]]
  BY <1>1 DEF ServerLines
<1> HIDE DEF l, n
<1>3. <<1>> \in Seq(Nat) \ {<<>>}
  OBVIOUS
<1>4. ASSUME NEW i \in 1..n
      PROVE  /\ l[i] \in Targets /\ l[i].kind = "iwan" /\ l[i].group = i /\ l[i].order = <<1>>
  <2>1. l[i] = [kind |-> "iwan", id |-> servers[i], group |-> i, order |-> <<1>>]
    BY <1>2
  <2>2. i \in Nat /\ servers[i] \in LineIds
    BY <1>1
  <2>3. QED
    BY <1>3, <2>1, <2>2 DEF Targets
<1>5. l \in [1..n -> Targets]
  BY <1>2, <1>4
<1>6. l \in Seq(Targets) /\ DOMAIN l = 1..n
  BY <1>1, <1>5
<1>7. QED
  BY <1>1, <1>4, <1>6 DEF l, FreshTarget

LEMMA GroupLinesAre ==
  ASSUME IdsInv, Sanitised
  PROVE  /\ GroupLines \in Seq(Targets)
         /\ \A i \in DOMAIN GroupLines : FreshTarget(GroupLines[i]) /\ GroupLines[i].kind = "sr"
         /\ \A g \in DOMAIN groups : Survivors(g) # <<>> =>
               \E i \in DOMAIN GroupLines : GroupLines[i].group = g
                                            /\ GroupLines[i].order = OrderedSrEntries(g)
<1> DEFINE l == GroupLines
           U == {g \in DOMAIN groups : Survivors(g) # <<>>}
           usable == InOrder(U)
           n == Len(usable)
<1>1. /\ groups \in Seq(Groups) /\ \A g \in DOMAIN groups : groups[g] \in Groups
      /\ DOMAIN groups = 1 .. Len(groups) /\ Len(groups) \in Nat
  BY DEF IdsInv
<1>2. U \in SUBSET Nat /\ IsFiniteSet(U) /\ U \subseteq DOMAIN groups
  <2>1. IsFiniteSet(1 .. Len(groups)) /\ U \in SUBSET (1 .. Len(groups))
    BY <1>1, FS_Interval
  <2>2. QED
    BY <1>1, <2>1, FS_Subset
<1>3. \A g \in U : Survivors(g) # <<>>
  OBVIOUS
<1>4. \A g \in DOMAIN groups : Survivors(g) # <<>> => g \in U
  OBVIOUS
<1>5. l = [k \in DOMAIN usable |->
            [kind |-> "sr", id |-> groups[usable[k]].id, group |-> usable[k],
             order |-> OrderedSrEntries(usable[k])]]
  BY DEF GroupLines
<1> HIDE DEF l, U
<1>6. usable \in Seq(U) /\ \A i \in U : \E k \in DOMAIN usable : usable[k] = i
  BY <1>2, InOrderLists
<1> HIDE DEF usable
<1>7. n \in Nat /\ DOMAIN usable = 1..n /\ \A k \in 1..n : usable[k] \in U
  BY <1>6
<1> HIDE DEF n
<1>8. ASSUME NEW k \in 1..n
      PROVE  /\ l[k] \in Targets /\ FreshTarget(l[k]) /\ l[k].kind = "sr" /\ l[k].group = usable[k]
             /\ l[k].order = OrderedSrEntries(usable[k])
  <2>1. usable[k] \in DOMAIN groups /\ usable[k] \in Nat /\ Survivors(usable[k]) # <<>>
    BY <1>2, <1>3, <1>7
  <2>2. OrderedSrEntries(usable[k]) \in Seq(Nat) \ {<<>>}
    <3>1. OrderedSrEntries(usable[k]) \in Seq(Nat) /\ Len(OrderedSrEntries(usable[k])) > 0
      BY <2>1, OrderedAre
    <3>2. QED
      BY <3>1
  <2>3. groups[usable[k]].id \in LineIds
    <3>1. groups[usable[k]] \in Groups
      BY <1>1, <2>1
    <3>2. QED
      BY <3>1 DEF Groups
  <2>4. l[k] = [kind |-> "sr", id |-> groups[usable[k]].id, group |-> usable[k],
                order |-> OrderedSrEntries(usable[k])]
    BY <1>5, <1>7
  <2>5. l[k] \in Targets
    BY <2>1, <2>2, <2>3, <2>4 DEF Targets
  <2>6. l[k].kind = "sr" /\ l[k].group = usable[k] /\ l[k].order = OrderedSrEntries(usable[k])
    BY <2>4
  <2>7. QED
    BY <2>1, <2>5, <2>6 DEF FreshTarget
<1>9. l \in [1..n -> Targets]
  BY <1>5, <1>7, <1>8
<1>10. l \in Seq(Targets) /\ DOMAIN l = 1..n
  BY <1>7, <1>9
<1>11. ASSUME NEW g \in DOMAIN groups, Survivors(g) # <<>>
       PROVE  \E i \in 1..n : l[i].group = g /\ l[i].order = OrderedSrEntries(g)
  <2>1. PICK k \in 1..n : usable[k] = g
    BY <1>4, <1>6, <1>7, <1>11
  <2>2. QED
    BY <1>8, <2>1
<1>12. QED
  BY <1>8, <1>10, <1>11 DEF l

\* Nothing of a fresh line was tried.
LEMMA FreshIsSound ==
  ASSUME IdsInv, NEW t, FreshTarget(t), IsWanted(t), t.kind = "sr" => Sanitised
  PROVE  TargetSound(t)
<1>1. CASE t.kind # "sr"
  BY <1>1 DEF FreshTarget, TargetSound
<1>2. CASE t.kind = "sr"
  <2> DEFINE o == OrderedSrEntries(t.group)
  <2>1. o \in Seq(Nat) /\ t.order = o /\ Sanitised /\ t.group \in DOMAIN groups
        /\ Survivors(t.group) # <<>> /\ t \in Targets
    BY <1>2, OrderedAre DEF FreshTarget
  <2> HIDE DEF o
  <2>2. Len(t.order) + 0 = Len(o) /\ (\A j \in 1 .. Len(t.order) : t.order[j] = o[0 + j])
        /\ 1..0 = {} /\ 0 \in Nat
    BY <2>1
  <2>3. \E k \in Nat : /\ Len(t.order) + k = Len(o)
                       /\ \A j \in 1 .. Len(t.order) : t.order[j] = o[k + j]
                       /\ \A j \in 1..k : SilentAt(t.group, o[j])
    BY <2>2
  <2>4. QED
    BY <1>2, <2>1, <2>3 DEF TargetSound, o
<1>3. QED
  BY <1>1, <1>2

LEMMA EntriesStay ==
  ASSUME UNCHANGED <<groups, runtimeIds>>
  PROVE  /\ \A g : Kept(g)' = Kept(g)
         /\ \A g : Survivors(g)' = Survivors(g)
         /\ \A g : OrderedSrEntries(g)' = OrderedSrEntries(g)
         /\ \A g : ControllerPrimary(g)' = ControllerPrimary(g)
         /\ Sanitised' <=> Sanitised
<1>1. \A g : Kept(g)' = Kept(g)
  BY DEF Kept, Given
<1>2. \A g : Survivors(g)' = Survivors(g)
  BY DEF Survivors, Kept, Given
<1>3. \A g : PrimaryOf(g)' = PrimaryOf(g)
  BY DEF PrimaryOf, Survivors, Kept, Given
<1>4. \A g : OrderedSrEntries(g)' = OrderedSrEntries(g)
  BY <1>2, <1>3 DEF OrderedSrEntries
<1>5. \A g : ControllerPrimary(g)' = ControllerPrimary(g)
  BY <1>1 DEF ControllerPrimary
<1>6. Sanitised' <=> Sanitised
  BY <1>1 DEF Sanitised, GroupDone
<1>7. QED
  BY <1>1, <1>2, <1>4, <1>5, <1>6

LEMMA TriesStay ==
  ASSUME UNCHANGED <<wanted, servers, groups, runtimeIds, targets, pings>>
  PROVE  /\ \A t : TargetSound(t) => TargetSound(t)'
         /\ \A i : PingSound(i) => PingSound(i)'
         /\ AllTried => AllTried'
         /\ Answered' = Answered
<1>1. \A g, e : PingedAt(g, e)' = PingedAt(g, e)
  BY DEF PingedAt
<1>2. Answered' = Answered
  BY DEF Answered
<1>3. \A t : IsWanted(t)' <=> IsWanted(t)
  BY DEF IsWanted
<1>4. \A g, e : SilentAt(g, e)' <=> SilentAt(g, e)
  BY <1>1 DEF SilentAt
<1>5. \A t : TargetSound(t) => TargetSound(t)'
  BY <1>3, <1>4, EntriesStay DEF TargetSound
<1>6. \A i : PingSound(i) => PingSound(i)'
  <2>2. \A i : IsWanted(pings[i]) => IsWanted(pings[i])'
    BY DEF IsWanted
  <2>3. QED
    BY <1>1, <2>2, EntriesStay DEF PingSound
<1>7. AllTried => AllTried'
  BY <1>1, <1>2, EntriesStay DEF AllTried, ServerTried, EntryTried
<1>8. QED
  BY <1>2, <1>5, <1>6, <1>7

LEMMA NothingTried ==
  ASSUME targets' = <<>>, pings' = <<>>, chosen' = Nothing, select' # "ping"
  PROVE  LinesInv'
<1>1. DOMAIN targets' = {} /\ DOMAIN pings' = {} /\ targets' \in Seq(Targets) /\ pings' \in Seq(PingsMade)
  OBVIOUS
<1>2. QED
  BY <1>1 DEF LinesInv

LEMMA LinesAre ==
  ASSUME IdsInv, wanted.kind = "iwan" \/ Sanitised
  PROVE  /\ Lines \in Seq(Targets)
         /\ \A i \in DOMAIN Lines :
               /\ FreshTarget(Lines[i]) /\ (Lines[i].kind = "sr" => Sanitised)
               /\ wanted # AnyLine => Lines[i].kind = wanted.kind
         /\ wanted = AnyLine =>
               /\ \A s \in DOMAIN servers :
                     \E i \in DOMAIN Lines : Lines[i].kind = "iwan" /\ Lines[i].group = s
               /\ \A g \in DOMAIN groups : Survivors(g) # <<>> =>
                     \E i \in DOMAIN Lines : Lines[i].group = g
                                             /\ Lines[i].order = OrderedSrEntries(g)
<1>1. wanted \in {AnyLine} \cup [kind : {"iwan", "sr"}, id : LineIds]
  BY DEF IdsInv, Preferences
<1>2. CASE wanted.kind = "iwan"
  <2>1. Lines = ServerLines /\ wanted # AnyLine
    BY <1>2 DEF Lines, AnyLine
  <2>2. QED
    BY <1>2, <2>1, ServerLinesAre
<1>3. CASE wanted.kind = "sr"
  <2>1. Lines = GroupLines /\ wanted # AnyLine
    BY <1>3 DEF Lines, AnyLine
  <2>2. QED
    BY <1>3, <2>1, GroupLinesAre
<1>4. CASE wanted = AnyLine
  <2> DEFINE s == ServerLines
             t == GroupLines
             l == s \o t
  <2>1. Sanitised /\ Lines = l
    BY <1>4 DEF Lines, AnyLine
  <2>2. /\ s \in Seq(Targets) /\ \A i \in DOMAIN s : FreshTarget(s[i]) /\ s[i].kind = "iwan"
        /\ \A k \in DOMAIN servers : \E i \in DOMAIN s : s[i].group = k
    BY ServerLinesAre
  <2>3. /\ t \in Seq(Targets) /\ \A i \in DOMAIN t : FreshTarget(t[i]) /\ t[i].kind = "sr"
        /\ \A g \in DOMAIN groups : Survivors(g) # <<>> =>
              \E i \in DOMAIN t : t[i].group = g /\ t[i].order = OrderedSrEntries(g)
    BY <2>1, GroupLinesAre
  <2> HIDE DEF s, t
  <2> HIDE DEF l
  <2>4. s \in Seq(Targets) /\ t \in Seq(Targets) /\ Len(s) \in Nat /\ Len(t) \in Nat
    BY <2>2, <2>3
  <2>5. /\ l \in Seq(Targets) /\ Len(l) = Len(s) + Len(t)
        /\ \A k \in 1 .. (Len(s) + Len(t)) : l[k] = IF k <= Len(s) THEN s[k] ELSE t[k - Len(s)]
    BY <2>4, ConcatenatedAre DEF l
  <2>6. DOMAIN l = 1 .. (Len(s) + Len(t)) /\ DOMAIN s = 1 .. Len(s) /\ DOMAIN t = 1 .. Len(t)
    BY <2>4, <2>5
  <2>7. \A i \in DOMAIN s : i \in DOMAIN l /\ l[i] = s[i]
    BY <2>4, <2>5, <2>6
  <2>8. \A i \in DOMAIN t : Len(s) + i \in DOMAIN l /\ l[Len(s) + i] = t[i]
    BY <2>4, <2>5, <2>6
  <2>9. ASSUME NEW i \in DOMAIN l
        PROVE  (i \in DOMAIN s /\ l[i] = s[i]) \/ (i - Len(s) \in DOMAIN t /\ l[i] = t[i - Len(s)])
    BY <2>4, <2>5, <2>6
  <2>10. \A i \in DOMAIN l : FreshTarget(l[i])
    BY <2>2, <2>3, <2>9
  <2>11. \A k \in DOMAIN servers : \E i \in DOMAIN l : l[i].kind = "iwan" /\ l[i].group = k
    BY <2>2, <2>7
  <2>12. \A g \in DOMAIN groups : Survivors(g) # <<>> =>
              \E i \in DOMAIN l : l[i].group = g /\ l[i].order = OrderedSrEntries(g)
    BY <2>3, <2>8
  <2>13. QED
    BY <1>4, <2>1, <2>5, <2>10, <2>11, <2>12
<1>5. QED
  BY <1>1, <1>2, <1>3, <1>4

LEMMA SelectIngressKeepsLines == ASSUME SelectInv, SelectIngress PROVE LinesInv'
<1>1. /\ select = "sanitize" /\ pings = <<>> /\ targets = <<>> /\ chosen = Nothing /\ IdsInv
      /\ UNCHANGED <<wanted, servers, groups, runtimeIds, counter, pings, chosen>>
      /\ wanted.kind = "iwan" \/ Sanitised
  BY DEF SelectInv, LinesInv, SelectIngress
<1>2. /\ Lines \in Seq(Targets)
      /\ \A i \in DOMAIN Lines :
               /\ FreshTarget(Lines[i]) /\ (Lines[i].kind = "sr" => Sanitised)
               /\ wanted # AnyLine => Lines[i].kind = wanted.kind
  BY <1>1, LinesAre
<1>3. ASSUME NEW t, TargetSound(t) PROVE TargetSound(t)'
  <2>1. IsWanted(t)' <=> IsWanted(t)
    BY <1>1 DEF IsWanted
  <2>2. \A g, e : SilentAt(g, e)' <=> SilentAt(g, e)
    BY <1>1 DEF SilentAt, PingedAt
  <2>3. QED
    BY <1>1, <1>3, <2>1, <2>2, EntriesStay DEF TargetSound
<1>4. DOMAIN pings' = {} /\ pings' \in Seq(PingsMade)
  BY <1>1
<1>5. CASE wanted = AnyLine /\ targets' = Lines /\ select' = "ping"
  <2>1. \A i \in DOMAIN Lines : TargetSound(Lines[i])
    <3>1. \A i \in DOMAIN Lines : IsWanted(Lines[i])
      BY <1>5 DEF IsWanted
    <3>2. QED
      BY <1>1, <1>2, <3>1, FreshIsSound
  <2>2. \A s \in DOMAIN servers : ServerTried(s)'
    BY <1>1, <1>5, LinesAre DEF ServerTried
  <2>3. ASSUME NEW g \in DOMAIN groups, NEW e \in 1 .. Len(Kept(g)), Kept(g)[e].valid
        PROVE  EntryTried(g, e)'
    <3>1. Sanitised /\ groups \in Seq(Groups)
      BY <1>1, <1>5 DEF IdsInv, AnyLine
    <3>2. Survivors(g) # <<>>
      <4>1. \E k \in DOMAIN Survivors(g) : Survivors(g)[k] = e
        BY <2>3, <3>1, SurvivorsAre
      <4>2. QED
        BY <4>1
    <3>3. PICK i \in DOMAIN Lines : Lines[i].group = g /\ Lines[i].order = OrderedSrEntries(g)
      BY <1>1, <1>5, <3>2, LinesAre
    <3>4. \E j \in DOMAIN OrderedSrEntries(g) : OrderedSrEntries(g)[j] = e
      BY <1>1, <2>3, <3>1, <3>2, OrderedAre
    <3>5. i \in DOMAIN targets' /\ targets'[i].group = g
          /\ \E j \in DOMAIN targets'[i].order : targets'[i].order[j] = e
      BY <1>5, <3>3, <3>4
    <3>6. QED
      BY <3>5 DEF EntryTried
  <2>4. AllTried'
    BY <1>1, <2>2, <2>3, EntriesStay DEF AllTried
  <2>5. QED
    BY <1>1, <1>2, <1>3, <1>4, <1>5, <2>1, <2>4 DEF LinesInv
<1>6. ASSUME wanted # AnyLine, select' = "ping",
             NEW i \in Matching, targets' = <<Lines[i]>>
      PROVE  LinesInv'
  <2>1. i \in DOMAIN Lines /\ Lines[i].id = wanted.id
    BY DEF Matching
  <2>2. TargetSound(Lines[i]) /\ Lines[i] \in Targets
    <3>1. IsWanted(Lines[i])
      BY <1>2, <1>6, <2>1 DEF IsWanted
    <3>2. QED
      BY <1>1, <1>2, <2>1, <3>1, FreshIsSound DEF FreshTarget
  <2>3. targets' \in Seq(Targets) /\ \A k \in DOMAIN targets' : targets'[k] = Lines[i]
    BY <1>6, <2>2
  <2>4. QED
    BY <1>1, <1>3, <1>4, <1>6, <2>2, <2>3 DEF LinesInv
<1>7. CASE wanted # AnyLine /\ select' = "unselected" /\ UNCHANGED targets
  BY <1>1, <1>7, NothingTried
<1>8. QED
  BY <1>5, <1>6, <1>7 DEF SelectIngress

LEMMA TailAt ==
  ASSUME NEW S, NEW s \in Seq(S), s # <<>>
  PROVE  /\ Head(s) = s[1] /\ s[1] \in S /\ 1 \in DOMAIN s /\ Len(s) \in Nat
         /\ Tail(s) \in Seq(S) /\ Len(Tail(s)) = Len(s) - 1
         /\ \A i \in 1 .. (Len(s) - 1) : Tail(s)[i] = s[i + 1]
OBVIOUS

\* The record a ping of a line leaves.
PingOf(t, latency) ==
    [kind |-> t.kind, id |-> t.id, group |-> t.group, at |-> Head(t.order), latency |-> latency]

LEMMA PingOfIs ==
  ASSUME NEW t \in Targets, NEW latency \in Nat
  PROVE  LET r == PingOf(t, latency)
         IN  /\ r \in PingsMade /\ r.kind = t.kind /\ r.id = t.id /\ r.group = t.group
             /\ r.at = t.order[1] /\ r.latency = latency
<1>1. t.order \in Seq(Nat) /\ t.order # <<>> /\ t.kind \in {"iwan", "sr"} /\ t.id \in LineIds
      /\ t.group \in Nat
  BY DEF Targets
<1>2. Head(t.order) = t.order[1] /\ t.order[1] \in Nat
  BY <1>1, TailAt
<1>3. QED
  BY <1>1, <1>2 DEF PingOf, PingsMade

\* A line of which one more entry was tried.
Shortened(t) == [t EXCEPT !.order = Tail(@)]

LEMMA ShortenedIs ==
  ASSUME NEW t \in Targets, Tail(t.order) # <<>>
  PROVE  LET u == Shortened(t)
         IN  /\ u \in Targets /\ u.kind = t.kind /\ u.id = t.id /\ u.group = t.group
             /\ u.order = Tail(t.order)
<1>1. t.order \in Seq(Nat) /\ t.order # <<>>
  BY DEF Targets
<1>2. Tail(t.order) \in Seq(Nat) \ {<<>>}
  BY <1>1
<1> DEFINE tl == Tail(t.order)
<1> HIDE DEF tl
<1>3. Shortened(t) = [t EXCEPT !.order = tl]
  BY DEF Shortened, tl
<1>4. tl \in Seq(Nat) \ {<<>>}
  BY <1>2 DEF tl
<1>5. [t EXCEPT !.order = tl] \in Targets /\ [t EXCEPT !.order = tl].order = tl
      /\ [t EXCEPT !.order = tl].kind = t.kind /\ [t EXCEPT !.order = tl].id = t.id
      /\ [t EXCEPT !.order = tl].group = t.group
  BY <1>4 DEF Targets
<1>6. QED
  BY <1>3, <1>5 DEF tl

\* What a ping changes: one more ping is known, and nothing is forgotten.
LEMMA PingAdds ==
  ASSUME LinesInv, NEW t \in Targets, NEW latency \in Nat,
         pings' = Append(pings, PingOf(t, latency)),
         UNCHANGED <<wanted, servers, groups, runtimeIds>>
  PROVE  LET n == Len(pings)
         IN  /\ pings' \in Seq(PingsMade) /\ n \in Nat
             /\ DOMAIN pings = 1..n /\ DOMAIN pings' = 1 .. (n + 1)
             /\ \A i \in 1..n : pings'[i] = pings[i]
             /\ pings'[n + 1] = PingOf(t, latency)
             /\ \A g, e : PingedAt(g, e) \subseteq PingedAt(g, e)'
             /\ n + 1 \in PingedAt(t.group, t.order[1])'
             /\ \A g, e : SilentAt(g, e) => SilentAt(g, e)'
             /\ latency = Silent => SilentAt(t.group, t.order[1])'
             /\ Answered \subseteq Answered'
             /\ latency # Silent => n + 1 \in Answered'
<1> DEFINE n == Len(pings)
<1>1. pings \in Seq(PingsMade) /\ n \in Nat /\ DOMAIN pings = 1..n
  BY DEF LinesInv
<1>2. PICK r \in PingsMade : /\ r = PingOf(t, latency) /\ r.group = t.group
                             /\ r.at = t.order[1] /\ r.latency = latency
  BY PingOfIs
<1>3. /\ pings' \in Seq(PingsMade) /\ DOMAIN pings' = 1 .. (n + 1)
      /\ \A i \in 1..n : pings'[i] = pings[i]
      /\ pings'[n + 1] = r
  BY <1>1, <1>2
<1> HIDE DEF n
<1>4. (\A i \in 1..n : i \in DOMAIN pings') /\ n + 1 \in DOMAIN pings'
  BY <1>1, <1>3
<1>5. \A g, e : PingedAt(g, e) \subseteq PingedAt(g, e)'
  BY <1>1, <1>3, <1>4 DEF PingedAt
<1>6. n + 1 \in PingedAt(t.group, t.order[1])'
  BY <1>2, <1>3, <1>4 DEF PingedAt
<1>7. ASSUME NEW g, NEW e, SilentAt(g, e) PROVE SilentAt(g, e)'
  <2>1. PICK i \in PingedAt(g, e) : pings[i].latency = Silent
    BY <1>7 DEF SilentAt
  <2>2. i \in 1..n
    BY <1>1, <2>1 DEF PingedAt
  <2>3. QED
    BY <1>3, <1>5, <2>1, <2>2 DEF SilentAt
<1>8. latency = Silent => SilentAt(t.group, t.order[1])'
  BY <1>2, <1>3, <1>6 DEF SilentAt, Silent
<1>9. Answered \subseteq Answered' /\ (latency # Silent => n + 1 \in Answered')
  BY <1>1, <1>2, <1>3, <1>4 DEF Answered, Silent
<1>10. QED
  BY <1>1, <1>2, <1>3, <1>5, <1>6, <1>7, <1>8, <1>9 DEF n

\* The first line is done with, or shortened by an entry that did not answer.
LEMMA PingStep ==
  ASSUME Ping, LinesInv
  PROVE  \E t \in Targets, latency \in Nat :
            /\ t = targets[1] /\ 1 \in DOMAIN targets
            /\ pings' = Append(pings, PingOf(t, latency))
            /\ targets' \in Seq(Targets)
            /\ \/ /\ latency # Silent \/ Tail(t.order) = <<>>
                  /\ \A i \in DOMAIN targets' : i + 1 \in DOMAIN targets /\ targets'[i] = targets[i + 1]
                  /\ \A i \in DOMAIN targets : i # 1 => i - 1 \in DOMAIN targets'
                                                        /\ targets'[i - 1] = targets[i]
               \/ /\ latency = Silent /\ Tail(t.order) # <<>>
                  /\ DOMAIN targets' = DOMAIN targets /\ targets'[1] = Shortened(t)
                  /\ \A i \in DOMAIN targets : i # 1 => targets'[i] = targets[i]
<1>1. targets \in Seq(Targets) /\ targets # <<>>
  BY DEF LinesInv, Ping
<1> DEFINE t == targets[1]
<1>2. /\ Head(targets) = t /\ t \in Targets /\ 1 \in DOMAIN targets
      /\ Tail(targets) \in Seq(Targets) /\ Len(targets) \in Nat
      /\ Len(Tail(targets)) = Len(targets) - 1
      /\ \A i \in 1 .. (Len(targets) - 1) : Tail(targets)[i] = targets[i + 1]
  BY <1>1, TailAt
<1>3. PICK latency \in Latencies \cup {Silent} :
         /\ pings' = Append(pings, PingOf(t, latency))
         /\ targets' = IF latency # Silent \/ Tail(t.order) = <<>>
                       THEN Tail(targets) ELSE [targets EXCEPT ![1].order = Tail(@)]
  BY <1>2 DEF Ping, PingOf
<1>4. latency \in Nat
  BY <1>3, LineSelectionAssumption DEF Silent
<1>5. [targets EXCEPT ![1].order = Tail(@)] = [targets EXCEPT ![1] = Shortened(t)]
  BY DEF Shortened
<1>6. CASE latency # Silent \/ Tail(t.order) = <<>>
  <2>1. targets' = Tail(targets)
    BY <1>3, <1>6
  <2>2. DOMAIN targets' = 1 .. (Len(targets) - 1) /\ DOMAIN targets = 1 .. Len(targets)
    BY <1>1, <1>2, <2>1
  <2>3. \A i \in DOMAIN targets' : i + 1 \in DOMAIN targets /\ targets'[i] = targets[i + 1]
    BY <1>2, <2>1, <2>2
  <2>4. \A i \in DOMAIN targets : i # 1 => i - 1 \in DOMAIN targets' /\ targets'[i - 1] = targets[i]
    <3>1. ASSUME NEW i \in DOMAIN targets, i # 1
          PROVE  i - 1 \in 1 .. (Len(targets) - 1) /\ (i - 1) + 1 = i
      BY <1>2, <2>2, <3>1
    <3>2. QED
      BY <1>2, <2>1, <2>2, <3>1
  <2>5. QED
    BY <1>2, <1>3, <1>4, <1>6, <2>1, <2>3, <2>4
<1>7. CASE ~ (latency # Silent \/ Tail(t.order) = <<>>)
  <2>1. targets' = [targets EXCEPT ![1] = Shortened(t)]
    BY <1>3, <1>5, <1>7
  <2>2. Shortened(t) \in Targets
    BY <1>2, <1>7, ShortenedIs
  <2>3. /\ targets' \in Seq(Targets) /\ DOMAIN targets' = DOMAIN targets /\ targets'[1] = Shortened(t)
        /\ \A i \in DOMAIN targets : i # 1 => targets'[i] = targets[i]
    BY <1>1, <1>2, <2>1, <2>2, ExceptAt
  <2>4. QED
    BY <1>2, <1>3, <1>4, <1>7, <2>3
<1>8. QED
  BY <1>6, <1>7

LEMMA PingKeepsLines == ASSUME SelectInv, Ping PROVE LinesInv'
<1>1. /\ IdsInv /\ LinesInv /\ select = "ping" /\ chosen = Nothing
      /\ UNCHANGED <<select, wanted, servers, groups, runtimeIds, counter, chosen>>
  BY DEF SelectInv, LinesInv, Ping
<1>2. PICK t \in Targets, latency \in Nat :
         /\ t = targets[1] /\ 1 \in DOMAIN targets
         /\ pings' = Append(pings, PingOf(t, latency))
         /\ targets' \in Seq(Targets)
         /\ \/ /\ latency # Silent \/ Tail(t.order) = <<>>
               /\ \A i \in DOMAIN targets' : i + 1 \in DOMAIN targets /\ targets'[i] = targets[i + 1]
               /\ \A i \in DOMAIN targets : i # 1 => i - 1 \in DOMAIN targets'
                                                     /\ targets'[i - 1] = targets[i]
            \/ /\ latency = Silent /\ Tail(t.order) # <<>>
               /\ DOMAIN targets' = DOMAIN targets /\ targets'[1] = Shortened(t)
               /\ \A i \in DOMAIN targets : i # 1 => targets'[i] = targets[i]
  BY <1>1, PingStep
<1>3. TargetSound(t) /\ \A i \in DOMAIN targets : TargetSound(targets[i])
  BY <1>1, <1>2 DEF LinesInv
<1>20. PICK n : n = Len(pings)
  OBVIOUS
<1>4. /\ pings' \in Seq(PingsMade) /\ n \in Nat
      /\ DOMAIN pings = 1..n /\ DOMAIN pings' = 1 .. (n + 1)
      /\ \A i \in 1..n : pings'[i] = pings[i]
      /\ pings'[n + 1] = PingOf(t, latency)
      /\ \A g, e : PingedAt(g, e) \subseteq PingedAt(g, e)'
      /\ n + 1 \in PingedAt(t.group, t.order[1])'
      /\ \A g, e : SilentAt(g, e) => SilentAt(g, e)'
      /\ latency = Silent => SilentAt(t.group, t.order[1])'
      /\ Answered \subseteq Answered'
      /\ latency # Silent => n + 1 \in Answered'
  BY <1>1, <1>2, <1>20, PingAdds
<1>5. /\ PingOf(t, latency).kind = t.kind /\ PingOf(t, latency).id = t.id
      /\ PingOf(t, latency).group = t.group /\ PingOf(t, latency).at = t.order[1]
      /\ PingOf(t, latency).latency = latency
  BY PingOfIs
<1>6. /\ \A g : Kept(g)' = Kept(g)
      /\ \A g : Survivors(g)' = Survivors(g)
      /\ \A g : OrderedSrEntries(g)' = OrderedSrEntries(g)
      /\ \A g : ControllerPrimary(g)' = ControllerPrimary(g)
      /\ Sanitised' <=> Sanitised
      /\ \A x : IsWanted(x)' <=> IsWanted(x)
  BY <1>1, EntriesStay DEF IsWanted
<1>7. ASSUME NEW x, TargetSound(x) PROVE TargetSound(x)'
  BY <1>1, <1>4, <1>6, <1>7 DEF TargetSound
<1>8. ASSUME NEW i \in 1..n PROVE PingSound(i)'
  <2>1. PingSound(i) /\ pings'[i] = pings[i]
    BY <1>1, <1>4 DEF LinesInv
  <2>2. IsWanted(pings[i])'
    BY <1>1, <1>4, <2>1 DEF PingSound, IsWanted
  <2>3. \A g, e : \A j \in PingedAt(g, e) : j \in 1..n /\ pings'[j] = pings[j]
    BY <1>4 DEF PingedAt
  <2>4. QED
    BY <1>1, <1>4, <1>6, <2>1, <2>3 DEF PingSound, IsWanted
<1>9. PingSound(n + 1)'
  <2>1. IsWanted(PingOf(t, latency))
    BY <1>3, <1>5 DEF TargetSound, IsWanted
  <2>2. ASSUME t.kind = "sr", NEW e \in ControllerPrimary(t.group)
        PROVE  t.order[1] = e \/ SilentAt(t.group, e)
    <3>1. /\ Sanitised /\ t.group \in DOMAIN groups /\ Survivors(t.group) # <<>>
      BY <1>3, <2>2 DEF TargetSound
    <3> DEFINE o == OrderedSrEntries(t.group)
    <3>2. o[1] = e
      BY <1>1, <2>2, <3>1, OrderedAre
    <3>3. PICK k \in Nat : /\ \A j \in 1 .. Len(t.order) : t.order[j] = o[k + j]
                           /\ \A j \in 1..k : SilentAt(t.group, o[j])
      BY <1>3, <2>2 DEF TargetSound
    <3> HIDE DEF o
    <3>4. 1 \in 1 .. Len(t.order)
      <4>1. t.order \in Seq(Nat) /\ t.order # <<>>
        BY DEF Targets
      <4>2. QED
        BY <4>1
    <3>5. CASE k = 0
      BY <3>2, <3>3, <3>4, <3>5
    <3>6. CASE k # 0
      <4>1. 1 \in 1..k
        BY <3>6
      <4>2. QED
        BY <3>2, <3>3, <4>1
    <3>7. QED
      BY <3>5, <3>6
  <2>3. ASSUME t.kind = "sr", NEW e \in ControllerPrimary(t.group)
        PROVE  \/ t.order[1] = e
               \/ \E j \in PingedAt(t.group, e)' : j < n + 1 /\ pings'[j].latency = Silent
    <3>1. CASE t.order[1] = e
      BY <3>1
    <3>2. CASE SilentAt(t.group, e)
      <4>1. PICK j \in PingedAt(t.group, e) : pings[j].latency = Silent
        BY <3>2 DEF SilentAt
      <4>2. j \in 1..n
        BY <1>4, <4>1 DEF PingedAt
      <4>3. j < n + 1 /\ pings'[j].latency = Silent /\ j \in PingedAt(t.group, e)'
        BY <1>4, <4>1, <4>2
      <4>4. QED
        BY <4>3
    <3>3. QED
      BY <2>2, <2>3, <3>1, <3>2
  <2>4. pings'[n + 1] = PingOf(t, latency)
    BY <1>4
  <2>5. QED
    BY <1>1, <1>5, <1>6, <2>1, <2>3, <2>4 DEF PingSound, IsWanted
<1>10. \A i \in DOMAIN pings' : PingSound(i)'
  <2>1. ASSUME NEW i \in 1 .. (n + 1) PROVE i \in 1..n \/ i = n + 1
    BY <1>4
  <2>2. QED
    BY <1>4, <1>8, <1>9, <2>1
<1>11. ASSUME latency = Silent, Tail(t.order) # <<>> PROVE TargetSound(Shortened(t))'
  <2> DEFINE u == Shortened(t)
  <2>1. u \in Targets /\ u.kind = t.kind /\ u.id = t.id /\ u.group = t.group /\ u.order = Tail(t.order)
    BY <1>11, ShortenedIs
  <2> HIDE DEF u
  <2>2. t.order \in Seq(Nat) /\ t.order # <<>>
    BY DEF Targets
  <2> DEFINE m == Len(t.order)
  <2>3. /\ m \in Nat /\ Len(u.order) = m - 1 /\ u.order \in Seq(Nat)
        /\ \A i \in 1 .. (m - 1) : u.order[i] = t.order[i + 1]
        /\ 1 \in 1..m
    BY <2>1, <2>2, TailAt
  <2> HIDE DEF m
  <2>4. CASE t.kind = "iwan"
    <3>1. t.order = <<1>>
      BY <1>3, <2>4 DEF TargetSound
    <3>2. Tail(t.order) = <<>>
      BY <3>1
    <3>3. QED
      BY <1>11, <3>2
  <2>5. CASE t.kind = "sr"
    <3>10. PICK g, o : g = t.group /\ o = OrderedSrEntries(t.group)
      OBVIOUS
    <3>1. Sanitised /\ g \in DOMAIN groups /\ Survivors(g) # <<>>
      BY <1>3, <2>5, <3>10 DEF TargetSound
    <3>2. PICK k \in Nat : /\ m + k = Len(o)
                           /\ \A j \in 1..m : t.order[j] = o[k + j]
                           /\ \A j \in 1..k : SilentAt(g, o[j])
      BY <1>3, <2>5, <3>10 DEF TargetSound, m
    <3>3. k + 1 \in Nat /\ (m - 1) + (k + 1) = Len(o)
      BY <2>3, <3>2
    <3>4. ASSUME NEW j \in 1 .. (m - 1) PROVE u.order[j] = o[(k + 1) + j]
      <4>1. j + 1 \in 1..m /\ k + (j + 1) = (k + 1) + j
        BY <2>3, <3>2
      <4>2. u.order[j] = t.order[j + 1]
        BY <2>3
      <4>3. QED
        BY <3>2, <4>1, <4>2
    <3>5. ASSUME NEW j \in 1 .. (k + 1) PROVE SilentAt(g, o[j])'
      <4>1. CASE j \in 1..k
        BY <1>4, <3>2, <4>1
      <4>2. CASE j = k + 1
        <5>1. o[j] = t.order[1]
          BY <2>3, <3>2, <4>2
        <5>2. QED
          BY <1>4, <1>11, <3>10, <5>1
      <4>3. QED
        BY <3>2, <4>1, <4>2
    <3>6. \E p \in Nat : /\ Len(u.order) + p = Len(o)
                         /\ \A j \in 1 .. Len(u.order) : u.order[j] = o[p + j]
                         /\ \A j \in 1..p : SilentAt(g, o[j])'
      BY <2>3, <3>3, <3>4, <3>5
    <3>7. IsWanted(u)'
      BY <1>3, <1>6, <2>1 DEF TargetSound, IsWanted
    <3>8. o = OrderedSrEntries(u.group)' /\ u.group = g
      BY <1>6, <2>1, <3>10
    <3>9. QED
      BY <1>1, <1>6, <2>1, <2>5, <3>1, <3>6, <3>7, <3>8 DEF TargetSound, u
  <2>6. QED
    BY <2>4, <2>5 DEF Targets
<1>12. ASSUME NEW i \in DOMAIN targets' PROVE TargetSound(targets[i])'
  BY <1>2, <1>3, <1>7, <1>11, <1>12
\* A line that stays is found at another place, or at its own.
<1>13. ASSUME NEW i \in DOMAIN targets, i # 1
       PROVE  \E j \in DOMAIN targets' : targets'[j] = targets[i]
  BY <1>2, <1>13
<1>14. ASSUME AllTried PROVE AllTried'
  <2>1. ASSUME NEW s \in DOMAIN servers PROVE ServerTried(s)'
    <3>1. ServerTried(s)
      BY <1>14 DEF AllTried
    <3>2. CASE PingedAt(s, 1) # {}
      BY <1>4, <3>2 DEF ServerTried
    <3>3. ASSUME NEW i \in DOMAIN targets, targets[i].kind = "iwan", targets[i].group = s
          PROVE  ServerTried(s)'
      <4>1. CASE i # 1
        BY <1>13, <3>3, <4>1 DEF ServerTried
      <4>2. CASE i = 1
        <5>1. t.order = <<1>> /\ t.group = s
          BY <1>2, <1>3, <3>3, <4>2 DEF TargetSound
        <5>2. t.order[1] = 1
          BY <5>1
        <5>3. QED
          BY <1>4, <5>1, <5>2 DEF ServerTried
      <4>3. QED
        BY <4>1, <4>2
    <3>4. QED
      BY <3>1, <3>2, <3>3 DEF ServerTried
  <2>2. ASSUME NEW g \in DOMAIN groups, NEW e \in 1 .. Len(Kept(g)), Kept(g)[e].valid
        PROVE  EntryTried(g, e)'
    <3>1. EntryTried(g, e)
      BY <1>14, <2>2 DEF AllTried
    <3>2. CASE PingedAt(g, e) # {}
      BY <1>4, <3>2 DEF EntryTried
    <3>3. CASE \E i \in Answered : pings[i].group = g
      <4>1. PICK i \in Answered : pings[i].group = g
        BY <3>3
      <4>2. i \in 1..n /\ i \in Answered' /\ pings'[i].group = g
        BY <1>4, <4>1 DEF Answered
      <4>3. QED
        BY <4>2 DEF EntryTried
    <3>4. ASSUME NEW i \in DOMAIN targets, targets[i].group = g,
                 NEW j \in DOMAIN targets[i].order, targets[i].order[j] = e
          PROVE  EntryTried(g, e)'
      <4>1. CASE i # 1
        BY <1>13, <3>4, <4>1 DEF EntryTried
      <4>2. CASE i = 1 /\ latency # Silent
        <5>1. n + 1 \in Answered' /\ pings'[n + 1].group = g
          BY <1>2, <1>4, <1>5, <3>4, <4>2
        <5>2. QED
          BY <5>1 DEF EntryTried
      <4>3. CASE i = 1 /\ j = 1
        BY <1>2, <1>4, <3>4, <4>3 DEF EntryTried
      <4>4. CASE i = 1 /\ j # 1 /\ latency = Silent
        <5>1. t.order \in Seq(Nat) /\ t.order # <<>> /\ t.group = g /\ j \in DOMAIN t.order
              /\ t.order[j] = e
          BY <1>2, <3>4, <4>4 DEF Targets
        <5> DEFINE m == Len(t.order)
        <5>2. /\ m \in Nat /\ j \in 1..m /\ Tail(t.order) \in Seq(Nat) /\ Len(Tail(t.order)) = m - 1
              /\ \A p \in 1 .. (m - 1) : Tail(t.order)[p] = t.order[p + 1]
          BY <5>1, TailAt
        <5> HIDE DEF m
        <5>3. j - 1 \in 1 .. (m - 1) /\ (j - 1) + 1 = j
          BY <4>4, <5>2
        <5>4. Tail(t.order)[j - 1] = e /\ j - 1 \in DOMAIN Tail(t.order)
          BY <5>1, <5>2, <5>3
        <5>5. Tail(t.order) # <<>>
          BY <5>4
        <5>6. 1 \in DOMAIN targets' /\ targets'[1] = Shortened(t)
          BY <1>2, <4>4, <5>5
        <5>7. Shortened(t).group = g /\ Shortened(t).order = Tail(t.order)
          BY <5>1, <5>5, ShortenedIs
        <5>8. QED
          BY <5>4, <5>6, <5>7 DEF EntryTried
      <4>5. QED
        BY <4>1, <4>2, <4>3, <4>4
    <3>5. QED
      BY <3>1, <3>2, <3>3, <3>4 DEF EntryTried
  <2>3. QED
    BY <1>1, <1>6, <2>1, <2>2 DEF AllTried
<1>15. select' = "ping" /\ chosen' = Nothing /\ (wanted' = AnyLine => AllTried')
  BY <1>1, <1>14 DEF LinesInv
<1>16. QED
  BY <1>2, <1>4, <1>10, <1>12, <1>15 DEF LinesInv

LEMMA ChooseLineKeepsLines == ASSUME SelectInv, ChooseLine PROVE LinesInv'
<1>1. /\ LinesInv /\ select = "ping" /\ chosen = Nothing /\ select' # "ping"
      /\ select' \notin {"lines", "sanitize"}
      /\ UNCHANGED <<wanted, servers, groups, runtimeIds, targets, pings>>
  BY DEF SelectInv, LinesInv, ChooseLine
<1>2. /\ \A x : TargetSound(x) => TargetSound(x)'
      /\ \A i : PingSound(i) => PingSound(i)'
      /\ Answered' = Answered
  BY <1>1, TriesStay
<1>3. ASSUME chosen' # Nothing
      PROVE  /\ select' = "selected" /\ IsWanted(chosen)'
             /\ \A j \in Answered : chosen'.latency <= pings[j].latency
  <2>1. select' = "selected" /\ Answered # {}
    BY <1>1, <1>3 DEF ChooseLine
  <2>2. PICK i \in Answered :
           /\ chosen' = pings[i]
           /\ \A j \in Answered : \/ pings[i].latency < pings[j].latency
                                  \/ pings[i].latency = pings[j].latency /\ i <= j
    BY <2>1 DEF ChooseLine
  <2>3. \A j \in Answered : j \in DOMAIN pings /\ pings[j].latency \in Nat
    <3>1. pings \in Seq(PingsMade)
      BY <1>1 DEF LinesInv
    <3>2. \A j \in DOMAIN pings : pings[j] \in PingsMade
      BY <3>1
    <3>3. QED
      BY <3>2 DEF Answered, PingsMade
  <2>4. IsWanted(pings[i])
    BY <1>1, <2>3 DEF LinesInv, PingSound
  <2>5. IsWanted(chosen)'
    BY <1>1, <2>2, <2>4 DEF IsWanted
  <2>6. \A j \in Answered : chosen'.latency <= pings[j].latency
    BY <2>2, <2>3
  <2>7. QED
    BY <2>1, <2>5, <2>6
<1>4. QED
  BY <1>1, <1>2, <1>3 DEF LinesInv

LEMMA LinesStay ==
  ASSUME LinesInv, UNCHANGED <<select, wanted, servers, groups, runtimeIds, targets, pings, chosen>>
  PROVE  LinesInv'
<1>1. /\ \A x : TargetSound(x) => TargetSound(x)'
      /\ \A i : PingSound(i) => PingSound(i)'
      /\ AllTried => AllTried'
      /\ Answered' = Answered
  BY TriesStay
<1>2. IsWanted(chosen) => IsWanted(chosen)'
  BY DEF IsWanted
<1>3. QED
  BY <1>1, <1>2 DEF LinesInv

LEMMA LinesKept == ASSUME SelectInv, [SelectNext]_selectVars PROVE LinesInv'
<1>1. select \in {"lines", "sanitize"} => targets = <<>> /\ pings = <<>> /\ chosen = Nothing
  BY DEF SelectInv, LinesInv
<1>2. CASE ReadFails
  BY <1>1, <1>2, NothingTried DEF ReadFails
<1>3. CASE ReadLines
  BY <1>1, <1>3, NothingTried DEF ReadLines
<1>4. CASE NextGroup
  BY <1>1, <1>4, NothingTried DEF NextGroup
<1>5. CASE AssignId
  BY <1>1, <1>5, NothingTried DEF AssignId
<1>6. CASE SelectIngress
  BY <1>6, SelectIngressKeepsLines
<1>7. CASE Ping
  BY <1>7, PingKeepsLines
<1>8. CASE ChooseLine
  BY <1>8, ChooseLineKeepsLines
<1>9. CASE UNCHANGED selectVars
  BY <1>9, LinesStay DEF selectVars, SelectInv
<1>10. QED
  BY <1>2, <1>3, <1>4, <1>5, <1>6, <1>7, <1>8, <1>9 DEF SelectNext, SelectEnded

\* select_ingress and sanitize_sr_groups (workflow.rs): whatever the controller
\* lists, of whatever length, and wherever the process-wide counter stands, no
\* two entries share a runtime ID and an ID used once is kept; the line chosen
\* is the wanted one and no line that answered is faster, a group's primary is
\* pinged before its other entries, and no line is given up with a usable entry
\* untried.
THEOREM SelectionAlwaysSound == SelectSpec => []SelectionSound
<1>1. SelectInit => SelectInv
  <2>1. ASSUME SelectInit PROVE SelectInv
    <3>1. IdsInv
      BY <2>1, IdsStart
    <3>2. /\ targets = <<>> /\ pings = <<>> /\ chosen = Nothing /\ select = "lines"
      BY <2>1 DEF SelectInit
    <3>3. DOMAIN targets = {} /\ DOMAIN pings = {} /\ targets \in Seq(Targets) /\ pings \in Seq(PingsMade)
      BY <3>2
    <3>4. QED
      BY <3>1, <3>2, <3>3 DEF SelectInv, LinesInv
  <2>2. QED
    BY <2>1
<1>2. SelectInv /\ [SelectNext]_selectVars => SelectInv'
  <2>1. ASSUME SelectInv, [SelectNext]_selectVars PROVE SelectInv'
    <3>1. IdsInv' /\ LinesInv'
      BY <2>1, IdsKept, LinesKept DEF SelectInv
    <3>2. QED
      BY <3>1 DEF SelectInv
  <2>2. QED
    BY <2>1
<1>3. SelectInv => SelectionSound
  <2>1. ASSUME SelectInv PROVE SelectionSound
    <3>1. RuntimeIdsSound /\ BestLineChosen
      BY <2>1, IdsHold, LinesHold DEF SelectInv
    <3>2. QED
      BY <3>1 DEF SelectionSound
  <2>2. QED
    BY <2>1
<1>4. QED
  BY <1>1, <1>2, <1>3, PTL DEF SelectSpec

=============================================================================
