------------------------------- MODULE Forward -------------------------------
(***************************************************************************)
(* run_async (src/src/bin/openiwan/forward.rs): the route-free forwarder.  *)
(* It binds a listener, hands the session to a tunnel task, proves that    *)
(* the target resolves, and then accepts local connections, one task each, *)
(* until the tunnel ends, accepting fails or the shutdown flag is seen.    *)
(*                                                                         *)
(* A connection task is running or ended: what it relays is not looked at, *)
(* and it may run forever.  The tunnel task is module Reconnect: it ends   *)
(* on its own or some time after the flag is set.                          *)
(***************************************************************************)
EXTENDS Integers, FiniteSets

CONSTANTS
    Slots,           \* names for connection tasks
    MaxConnections   \* MAX_CONNECTIONS

ASSUME ForwardAssumption ==
    MaxConnections \in Nat \ {0} /\ MaxConnections < Cardinality(Slots)

VARIABLES
    forward,    \* where run_async is
    tunnel,     \* "held", "running", "ended", or "dropped" with the session
    joins,      \* how often the tunnel's handle gave its result
    stopping,   \* the shutdown flag
    connection, \* slot -> "free", "running" or "ended"
    warned      \* capacity_warning_active

forwardVars == <<forward, tunnel, joins, stopping, connection, warned>>

Connections == {s \in Slots : connection[s] # "free"}   \* the JoinSet

-----------------------------------------------------------------------------
(* Starting. *)

\* bind fails: the session goes out of scope, which closes it.
BindFails ==
    /\ forward = "bind"
    /\ tunnel' = "dropped" /\ forward' = "returned"
    /\ UNCHANGED <<joins, stopping, connection, warned>>

\* spawn_tunnel.
BindAndSpawn ==
    /\ forward = "bind"
    /\ tunnel' = "running" /\ forward' = "preflight"
    /\ UNCHANGED <<joins, stopping, connection, warned>>

\* preflight_connector, the tunnel ending first.
TunnelEndsPreflight ==
    /\ forward = "preflight" /\ tunnel = "ended"
    /\ joins' = joins + 1 /\ forward' = "returned"
    /\ UNCHANGED <<tunnel, stopping, connection, warned>>

PreflightPasses ==
    /\ forward = "preflight"
    /\ forward' = "serve"
    /\ UNCHANGED <<tunnel, joins, stopping, connection, warned>>

\* Mutant: the error is returned while the tunnel is still stopping.
PreflightFailsAtOnce ==
    /\ forward = "preflight"
    /\ stopping' = TRUE /\ forward' = "returned"
    /\ UNCHANGED <<tunnel, joins, connection, warned>>

\* The target does not resolve in time: the tunnel is stopped and awaited.
PreflightFails ==
    /\ forward = "preflight"
    /\ stopping' = TRUE /\ forward' = "await"
    /\ UNCHANGED <<tunnel, joins, connection, warned>>

-----------------------------------------------------------------------------
(* The select loop. *)

\* capacity_decision: below the limit the connection gets a task, at the limit
\* it is dropped, with one warning until a task was joined.
Accept ==
    /\ forward = "serve"
    /\ IF Cardinality(Connections) < MaxConnections
         THEN /\ \E s \in Slots \ Connections :
                    connection' = [connection EXCEPT ![s] = "running"]
              /\ UNCHANGED warned
         ELSE warned' = TRUE /\ UNCHANGED connection
    /\ UNCHANGED <<forward, tunnel, joins, stopping>>

\* reset_capacity_warning counts the tasks that are left.
JoinConnection ==
    /\ forward = "serve"
    /\ \E s \in Connections :
          /\ connection[s] = "ended"
          /\ connection' = [connection EXCEPT ![s] = "free"]
          /\ warned' = (warned /\ Cardinality(Connections \ {s}) >= MaxConnections)
    /\ UNCHANGED <<forward, tunnel, joins, stopping>>

\* Leaving the loop sets the flag, so that the tunnel stops, and closes the
\* listener.
LeaveLoop == stopping' = TRUE /\ forward' = "finish"

TunnelEndsLoop ==
    /\ forward = "serve" /\ tunnel = "ended"
    /\ joins' = joins + 1
    /\ LeaveLoop
    /\ UNCHANGED <<tunnel, connection, warned>>

AcceptFails ==
    /\ forward = "serve"
    /\ LeaveLoop
    /\ UNCHANGED <<tunnel, joins, connection, warned>>

ShutdownTick ==
    /\ forward = "serve" /\ stopping
    /\ LeaveLoop
    /\ UNCHANGED <<tunnel, joins, connection, warned>>

-----------------------------------------------------------------------------
(* Stopping. *)

\* finish_connections: tasks are joined as they end.
FinishJoins ==
    /\ forward \in {"finish", "abort"}
    /\ \E s \in Connections :
          connection[s] = "ended" /\ connection' = [connection EXCEPT ![s] = "free"]
    /\ UNCHANGED <<forward, tunnel, joins, stopping, warned>>

\* Mutant: no limit on the wait for the tasks.
GraceOverNever == FALSE /\ UNCHANGED forwardVars

\* SHUTDOWN_GRACE has passed: abort_all.
GraceOver ==
    /\ forward = "finish" /\ Connections # {}
    /\ forward' = "abort"
    /\ UNCHANGED <<tunnel, joins, stopping, connection, warned>>

\* The runtime drops an aborted task at its next suspension.
AbortTask ==
    /\ forward = "abort"
    /\ \E s \in Connections :
          connection[s] = "running" /\ connection' = [connection EXCEPT ![s] = "ended"]
    /\ UNCHANGED <<forward, tunnel, joins, stopping, warned>>

FinishConnections ==
    /\ forward \in {"finish", "abort"} /\ Connections = {}
    /\ forward' = IF joins > 0 THEN "returned" ELSE "await"
    /\ UNCHANGED <<tunnel, joins, stopping, connection, warned>>

AwaitTunnel ==
    /\ forward = "await" /\ tunnel = "ended"
    /\ joins' = joins + 1 /\ forward' = "returned"
    /\ UNCHANGED <<tunnel, stopping, connection, warned>>

-----------------------------------------------------------------------------
(* The tasks and the user. *)

TunnelEnds ==
    /\ tunnel = "running"
    /\ tunnel' = "ended"
    /\ UNCHANGED <<forward, joins, stopping, connection, warned>>

ConnectionEnds ==
    /\ \E s \in Slots :
          connection[s] = "running" /\ connection' = [connection EXCEPT ![s] = "ended"]
    /\ UNCHANGED <<forward, tunnel, joins, stopping, warned>>

InterruptForward ==
    /\ forward # "returned" /\ ~ stopping
    /\ stopping' = TRUE
    /\ UNCHANGED <<forward, tunnel, joins, connection, warned>>

ForwardInit ==
    /\ forward = "bind" /\ tunnel = "held" /\ joins = 0 /\ stopping = FALSE
    /\ connection = [s \in Slots |-> "free"] /\ warned = FALSE

ForwardEnded == forward = "returned" /\ UNCHANGED forwardVars

\* What run_async does by itself, whether or not anyone connects.
ForwardProgress ==
    \/ BindFails \/ BindAndSpawn \/ TunnelEndsPreflight \/ PreflightPasses
    \/ PreflightFails \/ TunnelEndsLoop \/ ShutdownTick \/ FinishJoins \/ GraceOver
    \/ AbortTask \/ FinishConnections \/ AwaitTunnel

ForwardNext ==
    \/ ForwardProgress \/ Accept \/ JoinConnection \/ AcceptFails
    \/ TunnelEnds \/ ConnectionEnds \/ InterruptForward \/ ForwardEnded

\* The tunnel ends once the flag is set (InterruptExits of TunConnect).
TunnelStops == stopping /\ TunnelEnds

\* select! polls its branches in a random order, timers expire and aborted
\* tasks are dropped; nothing makes a connection task end by itself.
ForwardSpec ==
    /\ ForwardInit /\ [][ForwardNext]_forwardVars
    /\ WF_forwardVars(ForwardProgress) /\ WF_forwardVars(TunnelStops)

-----------------------------------------------------------------------------

\* When the forwarder returns, whichever of the tunnel, the listener, the
\* preflight and the user ended it, nothing it started is left: the session is
\* closed and every connection task was joined.  On the way the tasks stay
\* within the limit and the tunnel's handle, which must not be polled again
\* once it gave its result, gives it once.
NothingOutlives ==
    /\ forward = "returned" => tunnel \in {"ended", "dropped"} /\ Connections = {}
    /\ Cardinality(Connections) <= MaxConnections
    /\ joins <= 1

\* The forwarder returns after an interrupt or the end of its tunnel even when
\* connections go on forever.
ForwardReturns == (stopping \/ tunnel = "ended") ~> forward = "returned"

=============================================================================
