------------------------------ MODULE MCConnect ------------------------------
(* TLC instance of the commands that hold a session: TunConnect, and with  *)
(* it Reconnect, Forward, ForwardConnect for the forwarder's calls and     *)
(* HttpForward for its HTTP proxy.  They share no state; a behaviour is    *)
(* about one of them, chosen at the start, while the others rest in an     *)
(* initial state.                                                          *)
EXTENDS TunConnect, Forward, ForwardConnect, HttpForward

VARIABLE part   \* "connect", "forward", "calls" or "http"

commandVars == <<part, allVars, forwardVars, connectorVars, httpVars>>

CommandInit ==
    /\ part \in {"connect", "forward", "calls", "http"}
    /\ ConnectInit /\ ForwardInit /\ ConnectorInit /\ HttpInit
    /\ part # "connect" => stage = "auth" /\ ~ managed /\ peer = CHOOSE s \in Servers : TRUE
    /\ part # "calls" => via = "fixed" /\ route
    /\ part # "http" => ~ secure

ConnectRuns(A) ==
    part = "connect" /\ A /\ UNCHANGED <<part, forwardVars, connectorVars, httpVars>>
ForwardRuns(A) ==
    part = "forward" /\ A /\ UNCHANGED <<part, allVars, connectorVars, httpVars>>

CommandNext ==
    \/ ConnectRuns(ConnectNext)
    \/ ForwardRuns(ForwardNext)
    \/ /\ part = "calls" /\ ConnectorNext
       /\ UNCHANGED <<part, allVars, forwardVars, httpVars>>
    \/ /\ part = "http" /\ HttpNext
       /\ UNCHANGED <<part, allVars, forwardVars, connectorVars>>

\* The fairness of TunConnect, whose actions are not enabled while it rests,
\* and of Forward.
CommandSpec ==
    /\ CommandInit /\ [][CommandNext]_commandVars /\ Fairness
    /\ WF_commandVars(ForwardRuns(ForwardProgress))
    /\ WF_commandVars(ForwardRuns(TunnelStops))

=============================================================================
