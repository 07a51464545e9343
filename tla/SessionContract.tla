--------------------------- MODULE SessionContract ---------------------------
(***************************************************************************)
(* What ConnectedSession::run promises its caller, without its threads:    *)
(* the device is activated at most once, exactly one CLOSE is sent before  *)
(* the device is deactivated, and the value returned is one of the causes  *)
(* that occurred.  Module Session implements it; module Reconnect is built *)
(* on it.                                                                  *)
(***************************************************************************)
EXTENDS FiniteSets

VARIABLES
    status,    \* "idle", "active", "closed" (CLOSE sent), "returned"
    causes,    \* the reasons to end that have occurred
    end,       \* what run returned, "none" before
    shutdown   \* the flag the caller shares with run

contractVars == <<status, causes, end, shutdown>>

WorkerCause == {"HeartbeatTimeout", "TransportFailure"}
Cause == WorkerCause \cup {"ServerClose"}

\* A worker that clears `running` after its report makes the receive loop
\* return LocalShutdown when it loads the flag before it polls the channel.
Ends == causes \cup {"Error"}
        \cup {e \in {"LocalShutdown"} : shutdown \/ causes \cap WorkerCause # {}}

ContractInit ==
    /\ status = "idle" /\ causes = {} /\ end = "none"
    /\ shutdown \in BOOLEAN

\* activate_session succeeded.
Begin ==
    /\ status = "idle"
    /\ status' = "active"
    /\ UNCHANGED <<causes, end, shutdown>>

\* activate_session failed: the session is dropped, which sends CLOSE.
Refuse ==
    /\ status = "idle"
    /\ status' = "returned"
    /\ end' = "Error"
    /\ UNCHANGED <<causes, shutdown>>

Occur ==
    /\ status \in {"active", "closed"}
    /\ \E c \in Cause : causes' = causes \cup {c}
    /\ UNCHANGED <<status, end, shutdown>>

SendClose ==
    /\ status = "active"
    /\ status' = "closed"
    /\ UNCHANGED <<causes, end, shutdown>>

\* deactivate_session ran; run returns.
Return ==
    /\ status = "closed"
    /\ status' = "returned"
    /\ end' \in Ends
    /\ causes' = {}
    /\ UNCHANGED shutdown

Shutdown ==
    /\ ~shutdown
    /\ shutdown' = TRUE
    /\ UNCHANGED <<status, causes, end>>

SessionStep == Begin \/ Refuse \/ Occur \/ SendClose \/ Return
ContractNext == SessionStep \/ Shutdown

ContractSpec == ContractInit /\ [][ContractNext]_contractVars

=============================================================================
