---------------------------- MODULE ManagedLogin ----------------------------
(***************************************************************************)
(* Discovering how a domain authenticates and logging in to it             *)
(* (DomainClient, src/src/managed/workflow.rs, with auth.rs and            *)
(* posture.rs): ask the controller for the method, fetch the               *)
(* configuration, pass the device binding and the posture gate, choose a   *)
(* line, find its credentials, and for a password prove them with a probe  *)
(* session.  Looking the domain up is module LookupCache, choosing the     *)
(* line module LineSelection, here one step.                               *)
(***************************************************************************)
EXTENDS Integers

CONSTANT AuthAttempts   \* AUTH_REQUEST_ATTEMPTS

ASSUME AuthAttemptsAssumption == AuthAttempts \in Nat \ {0}

VARIABLES
    login,      \* where the calls are; "prepared" and "refused" end them
    service,    \* ServiceType: "controller", or "other" for the two without one
    wants,      \* the login called: "password" or "oidc"
    method,     \* AuthMethod: "none" before discovery, "credential" or "oidc"
    answered,   \* the method of the controller's valid answer, or "none"
    authFailures, \* auth requests that failed
    bound,      \* the configuration has a device binding status
    posture,    \* what the configuration says of the posture
    cached,     \* the caller remembers a posture version other than 0
    verdict,    \* "none", or what posture::evaluate said
    line,       \* kind of the line selected, or "none"
    probe       \* "none", "open" or "closed"

domainVars == <<service, wants, cached>>
discoverVars == <<method, answered, authFailures>>
configVars == <<bound, posture>>
loginVars == <<login, domainVars, discoverVars, configVars, verdict, line, probe>>

-----------------------------------------------------------------------------
(* auth::fetch_or_credential. *)

\* Without a controller nothing is asked.
NoController ==
    /\ login = "discover" /\ service # "controller"
    /\ method' = "credential" /\ login' = "call"
    /\ UNCHANGED <<domainVars, answered, authFailures, configVars, verdict, line, probe>>

AuthAnswers ==
    /\ login = "discover" /\ service = "controller"
    /\ answered' \in {"credential", "oidc"} /\ method' = answered'
    /\ login' = "call"
    /\ UNCHANGED <<domainVars, authFailures, configVars, verdict, line, probe>>

\* A transport error, a server error or an answer that does not parse is tried
\* again; after the last attempt the method is credential.
AuthFails ==
    /\ login = "discover" /\ service = "controller"
    /\ authFailures' = authFailures + 1
    /\ IF authFailures' < AuthAttempts THEN UNCHANGED <<login, method>>
       ELSE method' = "credential" /\ login' = "call"
    /\ UNCHANGED <<domainVars, answered, configVars, verdict, line, probe>>

\* A 4xx answer, or a lookup without a usable endpoint, is not tried again.
AuthRefused ==
    /\ login = "discover" /\ service = "controller"
    /\ method' = "credential" /\ login' = "call"
    /\ UNCHANGED <<domainVars, answered, authFailures, configVars, verdict, line, probe>>

-----------------------------------------------------------------------------
(* password_login_with_line and oidc_login_with_options. *)

Matches == (wants = "oidc") = (method = "oidc")

WrongMethod ==
    /\ login = "call" /\ ~ Matches
    /\ login' = "refused"
    /\ UNCHANGED <<domainVars, discoverVars, configVars, verdict, line, probe>>

\* No posture, one whose version is not a natural number, version 0, another.
Postures == {"absent", "malformed", "zero", "version"}

\* fetch_configuration: the controller's /config for OIDC, the server list
\* otherwise.
FetchConfiguration ==
    /\ login = "call" /\ Matches
    /\ posture' \in Postures /\ bound' \in BOOLEAN
    /\ login' = "binding"
    /\ UNCHANGED <<domainVars, discoverVars, verdict, line, probe>>

\* enforce_device_binding: every status that is known is a refusal.
EnforceDeviceBinding ==
    /\ login = "binding"
    /\ login' = IF bound THEN "refused" ELSE IF method = "oidc" THEN "posture" ELSE "line"
    /\ UNCHANGED <<domainVars, discoverVars, configVars, verdict, line, probe>>

\* Mutant: a configuration without a posture needs no evaluation.
PostureAskedNow == posture = "version"

\* Whether a version is to be evaluated: the configuration's if it has a
\* posture, where 0 is none, the remembered one otherwise.
PostureAsked == posture = "version" \/ (posture = "absent" /\ cached)

\* posture_gate_version refuses a malformed version (LoginFails); evaluate
\* may fail (LoginFails too), and allows only if the local gate and the
\* controller do.
PostureGate ==
    /\ login = "posture" /\ posture # "malformed"
    /\ IF PostureAsked
         THEN \E locally, remotely \in {"allow", "deny"} :
                /\ verdict' = IF locally = "allow" THEN remotely ELSE "deny"
                /\ login' = IF verdict' = "allow" THEN "line" ELSE "refused"
         ELSE login' = "line" /\ UNCHANGED verdict
    /\ UNCHANGED <<domainVars, discoverVars, configVars, line, probe>>

\* select_ingress.  SR entries need passwords, which only what /config sent
\* can be decrypted for.
SelectLine ==
    /\ login = "line"
    /\ line' \in IF method = "oidc" THEN {"iwan", "sr"} ELSE {"iwan"}
    /\ login' = "credentials"
    /\ UNCHANGED <<domainVars, discoverVars, configVars, verdict, probe>>

\* credentials_for_ingress: the user's for a server when there is a password,
\* else what the controller generated for the server or the entry.
CredentialsForIngress ==
    /\ login = "credentials"
    /\ login' = IF wants = "oidc" THEN "prepared" ELSE "probe"
    /\ UNCHANGED <<domainVars, discoverVars, configVars, verdict, line, probe>>

\* authenticate_once.
OpenProbe ==
    /\ login = "probe" /\ probe = "none"
    /\ probe' = "open"
    /\ UNCHANGED <<login, domainVars, discoverVars, configVars, verdict, line>>

\* close_probe; a CLOSE that cannot be sent is an error.
CloseProbe ==
    /\ login = "probe" /\ probe = "open"
    /\ probe' = "closed"
    /\ login' \in {"prepared", "refused"}
    /\ UNCHANGED <<domainVars, discoverVars, configVars, verdict, line>>

\* An early return through `?` before anything was opened.
LoginFails ==
    /\ login \in {"call", "posture", "line", "credentials", "probe"} /\ probe = "none"
    /\ login' = "refused"
    /\ UNCHANGED <<domainVars, discoverVars, configVars, verdict, line, probe>>

LoginInit ==
    /\ login = "discover" /\ service \in {"controller", "other"}
    /\ wants \in {"password", "oidc"} /\ cached \in BOOLEAN
    /\ method = "none" /\ answered = "none" /\ authFailures = 0
    /\ bound = FALSE /\ posture = "absent"
    /\ verdict = "none" /\ line = "none" /\ probe = "none"

LoginEnded == login \in {"prepared", "refused"} /\ UNCHANGED loginVars

LoginNext ==
    \/ NoController \/ AuthAnswers \/ AuthFails \/ AuthRefused \/ WrongMethod
    \/ FetchConfiguration \/ EnforceDeviceBinding \/ PostureGate \/ SelectLine
    \/ CredentialsForIngress \/ OpenProbe \/ CloseProbe \/ LoginFails \/ LoginEnded

LoginSpec == LoginInit /\ [][LoginNext]_loginVars

-----------------------------------------------------------------------------

\* No line is contacted for a device the controller has blocked, nor before
\* the posture it asks for, or failing that the one remembered from an earlier
\* login, was evaluated and allowed.  A password is not tried on a domain whose
\* controller answered OIDC: "a successfully decoded explicit OIDC response is
\* never downgraded" (src/src/managed/auth.rs).  And however a login ends, it
\* leaves no probe session open on the server.
GatesPassed ==
    /\ line # "none" =>
          /\ ~ bound
          /\ answered = "oidc" => wants = "oidc"
          /\ wants = "oidc" /\ (posture = "version" \/ (posture = "absent" /\ cached)) =>
                 verdict = "allow"
    /\ login \in {"prepared", "refused"} => probe # "open"
    /\ login = "prepared" /\ wants = "password" => probe = "closed"

=============================================================================
