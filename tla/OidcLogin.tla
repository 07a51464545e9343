------------------------------ MODULE OidcLogin ------------------------------
(***************************************************************************)
(* OIDC sign-in and the saved session: begin, complete and refresh         *)
(* (src/src/managed/oidc.rs) as `managed login` and `connect` call them    *)
(* for one profile (prepare_managed_oidc, src/src/bin/openiwan.rs), in     *)
(* several processes that nothing serialises.                              *)
(*                                                                         *)
(* An authorization is a number: its state, nonce and PKCE verifier are    *)
(* random and never those of another one.  The provider and the browser    *)
(* are external: a code is redeemed once, with the verifier it was asked   *)
(* for; a provider that rotates refresh tokens revokes the one it          *)
(* replaces.  The credential account is one step to load or to save        *)
(* (CredentialStore has their insides).                                    *)
(***************************************************************************)
EXTENDS Integers, Sequences

CONSTANTS
    Shells,    \* processes
    MaxRuns,   \* bound: commands started
    MaxTokens  \* bound: refresh tokens issued

ASSUME OidcAssumption == MaxRuns \in Nat /\ MaxTokens \in Nat

VARIABLES
    rotates,   \* the provider replaces a refresh token when it is used
    asked,     \* the processes that began the authorizations, in order
    callbacks, \* callback URLs the browser ended at
    spent,     \* <<authorization, process that redeemed its code>>
    issued,    \* refresh tokens issued, numbered from 1
    live,      \* those the provider accepts
    vetted,    \* history: tokens of sign-ins that the controller accepted
    account,   \* the refresh token saved, NoToken when there is none
    shell,     \* process -> where its command is and its locals
    runs,      \* commands started
    broken     \* history: a rotated token was lost on its way to the account

providerVars == <<rotates, issued, live>>
signInVars == <<asked, callbacks, spent>>
oidcVars == <<providerVars, signInVars, vetted, account, shell, runs, broken>>

NoToken == 0

\* pending: the PendingAuthorization; code: the authorization whose code was
\* pasted; loaded: the token read from the account; token: the identity's.
AtPrompt == [pc |-> "prompt", pending |-> 0, code |-> 0, loaded |-> NoToken, token |-> NoToken]

-----------------------------------------------------------------------------
(* The browser and the provider. *)

\* A callback URL carries the state of its authorization and a code or an
\* error, or is not one of the redirect URI.
Browse(a) ==
    /\ \A c \in callbacks : c.state # a
    /\ \E with \in {"code", "error", "elsewhere"} :
         callbacks' = callbacks \cup {[state |-> a, with |-> with]}
    /\ UNCHANGED <<providerVars, asked, spent, vetted, account, shell, runs, broken>>

-----------------------------------------------------------------------------
(* A fresh sign-in, whose identity is saved after the controller took it. *)

\* begin_oidc, begin.
BeginOidc(p) ==
    /\ shell[p].pc = "prompt" /\ runs < MaxRuns
    /\ runs' = runs + 1 /\ asked' = Append(asked, p)
    /\ shell' = [shell EXCEPT ![p] = [AtPrompt EXCEPT !.pc = "browser",
                                                      !.pending = Len(asked')]]
    /\ UNCHANGED <<providerVars, callbacks, spent, vetted, account, broken>>

\* Mutant: the state is not compared.
AcceptedAnyState(pending, c) == c.with = "code"

\* complete, before anything is sent: validate_redirect_uri, no error, the
\* state of the pending authorization.
Accepted(pending, c) == c.with = "code" /\ c.state = pending

\* The user pastes one of the callback URLs there are.
Paste(p, c) ==
    /\ shell[p].pc = "browser"
    /\ shell' = [shell EXCEPT ![p] =
                   IF Accepted(@.pending, c)
                     THEN [@ EXCEPT !.pc = "redeem", !.code = c.state]
                     ELSE AtPrompt]
    /\ UNCHANGED <<providerVars, signInVars, vetted, account, runs, broken>>

\* parse_id_token: the ID token carries the nonce of the authorization whose
\* code was redeemed.
IdTokenAccepted(pending, code) == code = pending

\* complete, the token request: the code is spent whatever becomes of the
\* answer, which carries a new refresh token or none.
Redeem(p) ==
    /\ shell[p].pc = "redeem" /\ issued < MaxTokens
    /\ LET code == shell[p].code
           unspent == \A x \in spent : x[1] # code
       IN /\ spent' = IF unspent THEN spent \cup {<<code, p>>} ELSE spent
          /\ \/ /\ unspent /\ IdTokenAccepted(shell[p].pending, code)
                /\ \E token \in {NoToken, issued + 1} :
                     /\ shell' = [shell EXCEPT ![p] = [@ EXCEPT !.pc = "verify",
                                                              !.token = token]]
                     /\ IF token = NoToken THEN UNCHANGED <<issued, live>>
                        ELSE issued' = token /\ live' = live \cup {token}
             \/ /\ shell' = [shell EXCEPT ![p] = AtPrompt]
                /\ UNCHANGED <<issued, live>>
    /\ UNCHANGED <<rotates, asked, callbacks, vetted, account, runs, broken>>

\* oidc_login_with_options (module ManagedLogin) lets the login through.
Vetted(p) ==
    /\ shell[p].pc = "verify" /\ shell[p].loaded = NoToken
    /\ vetted' = vetted \cup {shell[p].token}
    /\ shell' = [shell EXCEPT ![p].pc = "persist"]
    /\ UNCHANGED <<providerVars, signInVars, account, runs, broken>>

\* save_oidc_identity refuses an identity that cannot be refreshed.
Savable(token) == token # NoToken

\* persist_oidc_identity; the account keeps what it had when the identity
\* cannot be saved or the save fails, and when `connect` asked for the sign-in.
Persist(p) ==
    /\ shell[p].pc = "persist"
    /\ \/ Savable(shell[p].token) /\ account' = shell[p].token
       \/ UNCHANGED account
    /\ shell' = [shell EXCEPT ![p] = AtPrompt]
    /\ UNCHANGED <<providerVars, signInVars, vetted, runs, broken>>

-----------------------------------------------------------------------------
(* A connection with the saved session. *)

\* load_stored_credential; without one the user signs in as above, or the
\* command fails.
LoadStored(p) ==
    /\ shell[p].pc = "prompt" /\ runs < MaxRuns /\ account # NoToken
    /\ runs' = runs + 1
    /\ shell' = [shell EXCEPT ![p] = [AtPrompt EXCEPT !.pc = "refresh",
                                                      !.loaded = account]]
    /\ UNCHANGED <<providerVars, signInVars, vetted, account, broken>>

\* Mutant: the refresh token that was sent is kept even if it was replaced.
TokenKeptAlways(returned, sent) == sent

\* An answer without a refresh token leaves the one that was sent in use.
TokenKept(returned, sent) == IF returned = NoToken THEN sent ELSE returned

\* refresh: the provider takes a live token only, and its answer may be lost.
Refresh(p) ==
    /\ shell[p].pc = "refresh" /\ shell[p].loaded \in live
    /\ rotates => issued < MaxTokens
    /\ LET sent == shell[p].loaded
           returned == IF rotates THEN issued + 1 ELSE NoToken
       IN /\ issued' = IF rotates THEN returned ELSE issued
          /\ live' = IF rotates THEN (live \ {sent}) \cup {returned} ELSE live
          /\ vetted' = IF sent \notin vetted THEN vetted
                       ELSE vetted \cup {TokenKept(returned, sent)}
          /\ \/ /\ shell' = [shell EXCEPT ![p] = [@ EXCEPT !.pc = "save",
                                                    !.token = TokenKept(returned, sent)]]
                /\ UNCHANGED broken
             \/ /\ shell' = [shell EXCEPT ![p] = AtPrompt]
                /\ broken' = (broken \/ rotates)
    /\ UNCHANGED <<rotates, signInVars, account, runs>>

\* The provider refuses a token that is not live; anything else than a usable
\* answer also ends the command.
RefreshRefused(p) ==
    /\ shell[p].pc = "refresh"
    /\ shell' = [shell EXCEPT ![p] = AtPrompt]
    /\ UNCHANGED <<providerVars, signInVars, vetted, account, runs, broken>>

\* save_oidc_identity in refresh_saved_oidc, before the controller is asked.
SaveRotated(p) ==
    /\ shell[p].pc = "save"
    /\ account' = shell[p].token
    /\ shell' = [shell EXCEPT ![p].pc = "verify"]
    /\ UNCHANGED <<providerVars, signInVars, vetted, runs, broken>>

\* The controller answers; a connection with the saved session saves nothing
\* more.
Connected(p) ==
    /\ shell[p].pc = "verify" /\ shell[p].loaded # NoToken
    /\ shell' = [shell EXCEPT ![p] = AtPrompt]
    /\ UNCHANGED <<providerVars, signInVars, vetted, account, runs, broken>>

\* `?`, or the process is killed.
Aborted(p) ==
    /\ shell[p].pc # "prompt"
    /\ broken' = (broken \/ (shell[p].pc = "save" /\ rotates))
    /\ shell' = [shell EXCEPT ![p] = AtPrompt]
    /\ UNCHANGED <<providerVars, signInVars, vetted, account, runs>>

-----------------------------------------------------------------------------

OidcInit ==
    /\ rotates \in BOOLEAN /\ issued = 0 /\ live = {}
    /\ asked = <<>> /\ callbacks = {} /\ spent = {}
    /\ vetted = {} /\ account = NoToken
    /\ shell = [p \in Shells |-> AtPrompt] /\ runs = 0 /\ broken = FALSE

OidcDone ==
    /\ \A p \in Shells :
          shell[p].pc = "prompt" \/ (shell[p].pc = "redeem" /\ issued = MaxTokens)
    /\ UNCHANGED oidcVars

OidcNext ==
    \/ \E p \in Shells :
          \/ BeginOidc(p) \/ Redeem(p) \/ Vetted(p) \/ Persist(p) \/ LoadStored(p)
          \/ Refresh(p) \/ RefreshRefused(p) \/ SaveRotated(p) \/ Connected(p) \/ Aborted(p)
          \/ \E c \in callbacks : Paste(p, c)
    \/ \E a \in DOMAIN asked : Browse(a)
    \/ OidcDone

OidcSpec == OidcInit /\ [][OidcNext]_oidcVars

-----------------------------------------------------------------------------
(* Properties. *)

\* A pasted callback never spends the code of another process's sign-in.
CodesKept == \A x \in spent : asked[x[1]] = x[2]

\* The saved token is one the provider still takes, although processes load,
\* rotate and save it without a lock, except while the process that rotated it
\* is about to save the new one; only a command cut off in between, or an
\* answer lost with it, leaves a dead token behind.
RotationKept ==
    account # NoToken /\ account \notin live =>
        broken \/ \E p \in Shells : shell[p].pc = "save" /\ shell[p].token \in live

\* What is saved can be refreshed, and descends from a sign-in that the
\* controller accepted ("`managed login` authenticates before saving",
\* docs/MANAGED_CONNECTIONS.md).
SavedVetted == account # NoToken => account \in vetted

\* Nothing that another process does in between breaks a sign-in or the session
\* it saved.
SavedSessionSound == CodesKept /\ RotationKept /\ SavedVetted

=============================================================================
