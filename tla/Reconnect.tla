------------------------------ MODULE Reconnect ------------------------------
(***************************************************************************)
(* Client::run_reconnecting_inner (src/src/client.rs): authenticate, run a *)
(* session on the device, decide what its end means, back off, retry.      *)
(*                                                                         *)
(* A session is a behaviour of SessionContract, which module Session is    *)
(* shown to implement; its variables are this module's status, causes, end *)
(* and shutdown.  The exchange inside Client::authenticate is module       *)
(* Authenticate; here it succeeds with some assignment or fails.           *)
(***************************************************************************)
EXTENDS Integers, SessionContract

CONSTANTS
    Attempts,      \* reconnect.attempts
    InitialDelay,  \* reconnect.initial_delay_ms, in ticks
    MaxDelay,      \* reconnect.max_delay_ms, in ticks
    Assignments,   \* address, gateway, MTU and SR mode of an OPEN_ACK
    NoAssignment,  \* run_reconnecting starts without a session
    MaxSessions    \* bound: sessions authenticated in one behaviour

\* ClientConfig::validate: 0 < max_delay, initial_delay <= max_delay.
ASSUME ReconnectAssumption ==
    /\ Attempts \in Nat /\ InitialDelay \in Nat /\ MaxDelay \in Nat \ {0}
    /\ InitialDelay <= MaxDelay
    /\ NoAssignment \notin Assignments
    /\ MaxSessions \in Nat \ {0}

VARIABLES
    pc,        \* where run_reconnecting_inner is
    retry,     \* retries used since the last long session
    delay,     \* the next backoff
    waited,    \* ticks spent in wait_interruptibly
    expected,  \* expected_assignment
    pending,   \* pending_session: its assignment, or NoAssignment
    assigned,  \* assignment of the session that is checked or run
    result,    \* what the loop returns, "none" before
    opened,    \* sessions authenticated so far
    closed,    \* sessions that sent their CLOSE
    tries      \* connection attempts since the last reset of retry

loopVars == <<retry, delay, waited, expected, pending, assigned, result,
              opened, closed, tries>>
vars == <<pc, loopVars, contractVars>>

MinDelay(a, b) == IF a < b THEN a ELSE b

Init ==
    /\ ContractInit
    /\ pending \in Assignments \cup {NoAssignment}
    /\ expected = pending
    /\ assigned = NoAssignment
    /\ pc = "top" /\ retry = 0 /\ delay = InitialDelay /\ waited = 0
    /\ result = "none"
    /\ opened = (IF pending = NoAssignment THEN 0 ELSE 1)
    /\ closed = 0 /\ tries = 0

\* The loop returns; a session it still holds is dropped, which closes it.
Finish(r, held) ==
    /\ pc' = "returned"
    /\ result' = r
    /\ closed' = IF held THEN closed + 1 ELSE closed

\* The shutdown check at the top of the loop.
TopShutdown ==
    /\ pc = "top" /\ shutdown
    /\ Finish("LocalShutdown", pending # NoAssignment)
    /\ UNCHANGED <<retry, delay, waited, expected, pending, assigned, opened,
                   tries, contractVars>>

\* pending_session.take(): the session the caller authenticated.
TakePending ==
    /\ pc = "top" /\ ~shutdown /\ pending # NoAssignment
    /\ pc' = "check"
    /\ assigned' = pending /\ pending' = NoAssignment
    /\ tries' = tries + 1
    /\ UNCHANGED <<retry, delay, waited, expected, result, opened, closed,
                   contractVars>>

\* self.authenticate().
AuthenticateOk ==
    /\ pc = "top" /\ ~shutdown /\ pending = NoAssignment
    /\ opened < MaxSessions
    /\ pc' = "check"
    /\ assigned' \in Assignments
    /\ opened' = opened + 1 /\ tries' = tries + 1
    /\ UNCHANGED <<retry, delay, waited, expected, pending, result, closed,
                   contractVars>>

AuthenticateFails ==
    /\ pc = "top" /\ ~shutdown /\ pending = NoAssignment
    /\ pc' = "budget"
    /\ tries' = tries + 1
    /\ UNCHANGED <<retry, delay, waited, expected, pending, assigned, result,
                   opened, closed, contractVars>>

\* Mutant: only the presence of an assignment is compared.
SameAssignmentLax == expected = NoAssignment \/ assigned # NoAssignment

\* ensure_same_tun_assignment.
SameAssignment == expected = NoAssignment \/ assigned = expected

\* session.run begins with a fresh session.
StartRun ==
    /\ pc = "check" /\ SameAssignment
    /\ pc' = "run"
    /\ status' = "idle" /\ causes' = {} /\ end' = "none"
    /\ UNCHANGED <<loopVars, shutdown>>

\* Mutant: the refused session is leaked instead of dropped.
AssignmentChangedLeaks ==
    /\ pc = "check" /\ ~SameAssignment
    /\ Finish("InvalidConfig", FALSE)
    /\ UNCHANGED <<retry, delay, waited, expected, pending, assigned, opened,
                   tries, contractVars>>

\* A changed assignment leaves through `?`, dropping the session.
AssignmentChanged ==
    /\ pc = "check" /\ ~SameAssignment
    /\ Finish("InvalidConfig", TRUE)
    /\ UNCHANGED <<retry, delay, waited, expected, pending, assigned, opened,
                   tries, contractVars>>

\* The session makes a step of its contract.
RunSession ==
    /\ pc = "run"
    /\ SessionStep
    /\ closed' = IF status' \in {"closed", "returned"} /\ status # "closed"
                 THEN closed + 1 ELSE closed
    /\ UNCHANGED <<pc, retry, delay, waited, expected, pending, assigned,
                   result, opened, tries>>

\* Ok(LocalShutdown) and Ok(ServerClose) end the loop.
FinalEnd ==
    /\ pc = "run" /\ status = "returned"
    /\ end \in {"LocalShutdown", "ServerClose"}
    /\ Finish(end, FALSE)
    /\ UNCHANGED <<retry, delay, waited, expected, pending, assigned, opened,
                   tries, contractVars>>

\* Mutant: a peer's CLOSE is retried like a failure.
RetryableEndOrClose ==
    /\ pc = "run" /\ status = "returned"
    /\ end \in Cause \cup {"Error"}
    /\ pc' = "budget"
    /\ UNCHANGED <<retry, delay, tries, waited, expected, pending, assigned,
                   result, opened, closed, contractVars>>

\* Any other end is retried; the budget and the backoff restart after a
\* session that lasted HEARTBEAT_TIMEOUT.  A failed session never resets.
RetryableEnd ==
    /\ pc = "run" /\ status = "returned"
    /\ end \in WorkerCause \cup {"Error"}
    /\ pc' = "budget"
    /\ \/ UNCHANGED <<retry, delay, tries>>
       \/ /\ end # "Error"
          /\ retry' = 0 /\ delay' = InitialDelay /\ tries' = 0
    /\ UNCHANGED <<waited, expected, pending, assigned, result, opened,
                   closed, contractVars>>

BudgetExhausted ==
    /\ pc = "budget" /\ retry >= Attempts
    /\ Finish("Timeout", FALSE)
    /\ UNCHANGED <<retry, delay, waited, expected, pending, assigned, opened,
                   tries, contractVars>>

\* Mutant: the budget test is off by one.
BackoffOnceMore ==
    /\ pc = "budget" /\ retry <= Attempts
    /\ pc' = "wait"
    /\ retry' = retry + 1
    /\ waited' = 0
    /\ UNCHANGED <<delay, expected, pending, assigned, result, opened,
                   closed, tries, contractVars>>

Backoff ==
    /\ pc = "budget" /\ retry < Attempts
    /\ pc' = "wait"
    /\ retry' = retry + 1
    /\ waited' = 0
    /\ UNCHANGED <<delay, expected, pending, assigned, result, opened,
                   closed, tries, contractVars>>

\* Mutant: the wait forgets its deadline.
WaitOverOnFlag == ~shutdown

\* wait_interruptibly(delay, &shutdown) loops while its flag is TRUE: it
\* takes a "running" flag and is given the shutdown flag.
WaitOver == ~shutdown \/ waited >= delay

Retry ==
    /\ pc = "wait" /\ WaitOver
    /\ pc' = "top"
    /\ delay' = MinDelay(2 * delay, MaxDelay)
    /\ UNCHANGED <<retry, waited, expected, pending, assigned, result,
                   opened, closed, tries, contractVars>>

Tick ==
    /\ pc = "wait"
    /\ waited' = MinDelay(waited + 1, delay)
    /\ UNCHANGED <<pc, retry, delay, expected, pending, assigned, result,
                   opened, closed, tries, contractVars>>

RequestShutdown ==
    /\ pc # "returned"
    /\ Shutdown
    /\ UNCHANGED <<pc, loopVars>>

\* Nothing happens once the loop has returned or the bound on sessions is
\* spent.
Idle ==
    /\ pc = "returned"
    /\ UNCHANGED vars

Loop == \/ TopShutdown \/ TakePending \/ AuthenticateOk \/ AuthenticateFails
        \/ StartRun \/ AssignmentChanged \/ FinalEnd \/ RetryableEnd
        \/ BudgetExhausted \/ Backoff \/ Retry

Next == Loop \/ RunSession \/ Tick \/ RequestShutdown \/ Idle

Spec == Init /\ [][Next]_vars

-----------------------------------------------------------------------------
(* Properties. *)

\* The budget is real: between two resets the loop makes at most one first
\* attempt and reconnect.attempts retries, and the backoff it doubles each
\* time stays between the configured delays.
BudgetRespected ==
    /\ tries <= Attempts + 1 /\ retry <= Attempts
    /\ delay \in InitialDelay..MaxDelay

\* No session leaks: whenever the loop is about to authenticate again or
\* has returned, every session the server granted was sent its CLOSE
\* (a shutdown before the first run and a changed assignment included).
EverySessionClosed ==
    /\ pc = "returned" => closed = opened
    /\ pc \in {"budget", "wait"} => closed = opened

\* Only a session with the first session's tunnel assignment is run on the
\* TUN device that was built from it.
AssignmentStable ==
    expected # NoAssignment /\ status \in {"active", "closed"}
        => assigned = expected

\* Of the sessions a reconnecting client opens, every one is closed before the
\* next and none other than the first one's assignment is run.
SessionsAccounted == EverySessionClosed /\ AssignmentStable

\* Neither attempts nor sessions are lost count of, whichever of connecting,
\* authenticating and running fails, and whenever the shutdown comes.
LoopAccounted == BudgetRespected /\ SessionsAccounted

\* A peer's CLOSE and a local shutdown are final: no connection attempt is
\* ever made after a session that ended with one of them.
FinalEndsAreFinal ==
    [][tries' > tries => end \notin {"LocalShutdown", "ServerClose"}]_vars

\* A retry follows only after the configured backoff has passed
\* ("reconnect.initial_delay_ms ... Initial reconnect backoff",
\* docs/CONFIGURATION.md), unless a shutdown interrupts it.
BackoffObserved ==
    [][pc = "wait" /\ pc' = "top" => waited >= delay \/ shutdown]_vars

=============================================================================
