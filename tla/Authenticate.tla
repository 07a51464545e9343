---------------------------- MODULE Authenticate ----------------------------
(***************************************************************************)
(* Client::authenticate and authenticate_once (src/src/client.rs): one     *)
(* OPEN, resent within a time budget over a fresh UDP socket, until an     *)
(* answer settles the matter.                                              *)
(*                                                                         *)
(* The server is external.  It is taken to recognise a repeated OPEN by    *)
(* its nonce and to answer it with the session it already made; otherwise  *)
(* it may answer anything of `Replies`, or nothing.  The network loses and *)
(* delays: an answer may arrive in any later attempt.  The client thread   *)
(* is prompt, except that a sleep may last too long.                       *)
(***************************************************************************)
EXTENDS Integers, Sequences, FiniteSets

CONSTANTS
    AttemptTimeout, \* AUTH_ATTEMPT_TIMEOUT, in ticks
    Overall,        \* AUTH_OVERALL_TIMEOUT, or AUTH_ATTEMPT_TIMEOUT
    RetryDelay,     \* AUTH_RETRY_DELAY, in ticks
    Oversleep,      \* bound: ticks thread::sleep may last too long
    Replies         \* the answers explored

ASSUME AuthenticateAssumption ==
    /\ AttemptTimeout \in Nat \ {0} /\ RetryDelay \in Nat \ {0}
    /\ Overall \in Nat /\ AttemptTimeout <= Overall
    /\ RetryDelay <= Overall /\ Oversleep \in Nat
    /\ Replies \subseteq {"Ack", "AckOtherNonce", "Reject", "Other", "Garbage"}

VARIABLES
    pc,         \* program counter of authenticate_with_budget
    elapsed,    \* started.elapsed()
    until,      \* when the current recv or sleep ends
    nonce,      \* the nonce of the OPEN
    opens,      \* OPENs sent
    wire,       \* datagrams in flight, to the server or to the client
    inbox,      \* the socket's receive queue
    sessions,   \* the server's sessions: nonce -> tuple
    outcome,    \* what the call returns
    tuple       \* the session tuple adopted, 0 if none

clientVars == <<pc, until, nonce, opens, outcome, tuple>>
authVars == <<clientVars, elapsed, wire, inbox, sessions>>

AuthReturns(o, t) == pc' = "done" /\ outcome' = o /\ tuple' = t

Min2(a, b) == IF a < b THEN a ELSE b

-----------------------------------------------------------------------------
(* authenticate_with_budget. *)

\* authentication_attempt_timeout leaves no time: Timeout.
BudgetSpent ==
    /\ pc = "top" /\ elapsed >= Overall
    /\ AuthReturns("Timeout", 0)
    /\ UNCHANGED <<until, nonce, opens, elapsed, wire, inbox, sessions>>

\* Mutant: every attempt builds an OPEN of its own.
SendOpenFreshNonce ==
    /\ pc = "top" /\ elapsed < Overall
    /\ nonce' = nonce + 1
    /\ opens' = opens + 1
    /\ wire' = wire \cup {[to |-> "server", nonce |-> nonce']}
    /\ until' = elapsed + Min2(Overall - elapsed, AttemptTimeout)
    /\ pc' = "recv"
    /\ UNCHANGED <<outcome, tuple, elapsed, inbox, sessions>>

\* Mutant: the attempt timeout is not cut to the remaining budget.
SendOpenFullWindow ==
    /\ pc = "top" /\ elapsed < Overall
    /\ opens' = opens + 1
    /\ wire' = wire \cup {[to |-> "server", nonce |-> nonce]}
    /\ until' = elapsed + AttemptTimeout
    /\ pc' = "recv"
    /\ UNCHANGED <<nonce, outcome, tuple, elapsed, inbox, sessions>>

\* The same bytes are sent in every attempt, which lasts for what is left of
\* the budget but no longer than the attempt timeout.
SendOpen ==
    /\ pc = "top" /\ elapsed < Overall
    /\ opens' = opens + 1
    /\ wire' = wire \cup {[to |-> "server", nonce |-> nonce]}
    /\ until' = elapsed + Min2(Overall - elapsed, AttemptTimeout)
    /\ pc' = "recv"
    /\ UNCHANGED <<nonce, outcome, tuple, elapsed, inbox, sessions>>

\* A failed send or receive other than the timeout ends the call.
SocketFails ==
    /\ (pc = "top" /\ elapsed < Overall) \/ pc = "recv"
    /\ AuthReturns("Io", 0)
    /\ UNCHANGED <<until, nonce, opens, elapsed, wire, inbox, sessions>>

\* Mutant: the receive is tried again without a look at the budget.
RecvTimesOutAgain ==
    /\ pc = "recv" /\ inbox = <<>> /\ elapsed = until
    /\ UNCHANGED authVars

RecvTimesOut ==
    /\ pc = "recv" /\ inbox = <<>> /\ elapsed = until
    /\ pc' = "retry"
    /\ UNCHANGED <<until, nonce, opens, outcome, tuple, elapsed, wire, inbox,
                   sessions>>

\* One datagram is read: an acceptance or a rejection of this nonce ends the
\* call, as do a foreign nonce and anything that does not decode; a packet of
\* another type is ignored, and the rest of the attempt with it.
RecvDatagram ==
    /\ pc = "recv" /\ inbox # <<>>
    /\ LET m == Head(inbox) IN
       CASE m.kind = "Ack" -> AuthReturns("Session", m.tuple)
         [] m.kind = "AckOtherNonce" -> AuthReturns("VerifyMismatch", 0)
         [] m.kind = "Reject" -> AuthReturns("Rejected", 0)
         [] m.kind = "Garbage" -> AuthReturns("Malformed", 0)
         [] OTHER -> pc' = "retry" /\ UNCHANGED <<outcome, tuple>>
    /\ inbox' = Tail(inbox)
    /\ UNCHANGED <<until, nonce, opens, elapsed, wire, sessions>>

AuthRetry ==
    /\ pc = "retry"
    /\ IF elapsed + RetryDelay >= Overall
         THEN AuthReturns("Timeout", 0) /\ UNCHANGED until
         ELSE /\ pc' = "sleep" /\ until' = elapsed + RetryDelay
              /\ UNCHANGED <<outcome, tuple>>
    /\ UNCHANGED <<nonce, opens, elapsed, wire, inbox, sessions>>

Wake ==
    /\ pc = "sleep" /\ elapsed >= until
    /\ pc' = "top"
    /\ UNCHANGED <<until, nonce, opens, outcome, tuple, elapsed, wire, inbox,
                   sessions>>

Client == BudgetSpent \/ SendOpen \/ RecvTimesOut \/ RecvDatagram \/ AuthRetry
          \/ Wake

-----------------------------------------------------------------------------
(* The server, the network and time. *)

\* The server's answer to an OPEN; a repeated nonce is answered from its
\* session, a new one may get a new session.
ServerAnswers ==
    \E m \in wire, k \in Replies :
        /\ m.to = "server"
        /\ sessions' = IF k = "Ack" /\ m.nonce \notin DOMAIN sessions
                       THEN [n \in DOMAIN sessions \cup {m.nonce} |->
                               IF n = m.nonce
                                 THEN Cardinality(DOMAIN sessions) + 1
                                 ELSE sessions[n]]
                       ELSE sessions
        /\ wire' = (wire \ {m}) \cup
                   {[to |-> "client", kind |-> k,
                     tuple |-> IF k = "Ack" THEN sessions'[m.nonce] ELSE 0]}
        /\ UNCHANGED <<clientVars, elapsed, inbox>>

Arrive ==
    \E m \in wire :
        /\ m.to = "client"
        /\ inbox' = Append(inbox, m)
        /\ wire' = wire \ {m}
        /\ UNCHANGED <<clientVars, elapsed, sessions>>

AuthLose ==
    \E m \in wire :
        /\ wire' = wire \ {m}
        /\ UNCHANGED <<clientVars, elapsed, inbox, sessions>>

AuthTick ==
    /\ \/ pc = "recv" /\ inbox = <<>> /\ elapsed < until
       \/ pc = "sleep" /\ elapsed < until + Oversleep
    /\ elapsed' = elapsed + 1
    /\ UNCHANGED <<clientVars, wire, inbox, sessions>>

AuthDone == pc = "done" /\ UNCHANGED authVars

AuthInit ==
    /\ pc = "top" /\ elapsed = 0 /\ until = 0 /\ nonce = 1 /\ opens = 0
    /\ wire = {} /\ inbox = <<>> /\ sessions = <<>>
    /\ outcome = "none" /\ tuple = 0

AuthNext == \/ Client \/ SocketFails \/ ServerAnswers \/ Arrive \/ AuthLose
            \/ AuthTick \/ AuthDone

AuthSpec == AuthInit /\ [][AuthNext]_authVars

-----------------------------------------------------------------------------
(* Properties. *)

\* However the answers fall, the call keeps to its budget: the retry test, the
\* sleep and the shortened last attempt add up ("a three-second attempt window,
\* a 13-second overall budget, and one-second retry spacing",
\* docs/ARCHITECTURE.md).  Only a last sleep that lasts too long may exceed it,
\* and no attempt is made then.
WithinBudget ==
    /\ elapsed <= Overall \/ elapsed < Overall + Oversleep
    /\ pc \in {"recv", "retry"} => elapsed <= Overall

\* No flood of ignored packets makes the client send OPENs faster than one
\* per retry delay.
OpensSpaced == (opens - 1) * RetryDelay <= elapsed

\* The call keeps to its time in both directions.
TimelyOpens == WithinBudget /\ OpensSpaced

\* All attempts of a call stand for one session at the server, and the tuple
\* adopted is that session's, however late the answer came.
OneServerSession ==
    /\ Cardinality(DOMAIN sessions) <= 1
    /\ outcome = "Session" => tuple \in {sessions[n] : n \in DOMAIN sessions}

\* The attempts of one call keep to the budget and the spacing, and whichever
\* of them is answered, they come to one session that both ends agree on.
AttemptsSound == TimelyOpens /\ OneServerSession

\* Once it has sent an OPEN the call returns, whatever is lost, late or
\* ignored.
Returns == opens > 0 ~> pc = "done"

=============================================================================
