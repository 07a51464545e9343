----------------------------- MODULE TunConnect -----------------------------
(***************************************************************************)
(* A TUN connection from the command's point of view: run_client and       *)
(* run_managed_client (src/src/bin/openiwan.rs) authenticate, plan the     *)
(* routes around the session's peer, open the interface, install the       *)
(* routes, build the DNS runtime, install the signal handler and hand all  *)
(* of it to run_reconnecting_from; what they hold is released by Drop.     *)
(*                                                                         *)
(* The reconnecting loop is module Reconnect, step for step, with what its *)
(* steps do to the interface added; the route table is module RouteGuard   *)
(* reduced to "installed", the DNS lease module DnsRuntime reduced to      *)
(* "held", the plan module RoutePolicy reduced to one set of addresses.    *)
(***************************************************************************)
EXTENDS Reconnect

CONSTANTS
    Servers   \* addresses the configured server name may resolve to

VARIABLES
    stage,    \* where the command is
    managed,  \* run_managed_client: the known ingresses are excluded as well
    tun,      \* the TUN interface exists
    guard,    \* the RouteGuard exists
    routed,   \* server addresses the installed routes send into the tunnel
    plan,     \* the same for the routes resolved but not yet installed
    lease,    \* the host's DNS configuration points into the tunnel
    handler,  \* the Ctrl-C handler is installed
    peer,     \* address the current socket is connected to
    killed    \* "no", or the signal that ended the process

holds == <<tun, guard, routed, lease, handler>>
connectVars == <<stage, managed, holds, plan, peer, killed>>
allVars == <<vars, connectVars>>

\* The command starts with its first authentication.  An application that
\* uses the library calls the loop on a device and a flag of its own, with a
\* session (run_reconnecting_from) or without (run_reconnecting).
ConnectInit ==
    /\ Init /\ ~ shutdown
    /\ \/ stage = "auth" /\ managed \in BOOLEAN /\ handler = FALSE
          /\ pending = NoAssignment
       \/ stage = "loop" /\ managed = FALSE /\ handler = TRUE
    /\ tun = FALSE /\ guard = FALSE /\ lease = FALSE
    /\ routed = {} /\ plan = {} /\ peer \in Servers /\ killed = "no"

-----------------------------------------------------------------------------
(* Setting up. *)

\* client.authenticate(): resolve_server takes the first address of the name.
FirstAuthenticate ==
    /\ stage = "auth"
    /\ stage' = "plan"
    /\ peer' \in Servers
    /\ pending' \in Assignments /\ expected' = pending' /\ opened' = 1
    /\ UNCHANGED <<pc, retry, delay, waited, assigned, result, closed, tries,
                   contractVars, managed, holds, plan, killed>>

\* Any step of the setup may return early through `?`: the locals are dropped
\* in reverse order of their declaration.
SetupFails ==
    /\ stage \in {"auth", "plan", "open", "routes", "dns", "handler"}
    /\ stage' = "drop_dns"
    /\ UNCHANGED <<vars, managed, holds, plan, peer, killed>>

\* resolve_route_policy: whatever the inclusions, the peer of this session is
\* left out, and what the names of the managed ingresses resolve to now.
ResolvePlan ==
    /\ stage = "plan"
    /\ stage' = "open"
    /\ \E wanted \in SUBSET Servers, known \in SUBSET Servers :
          /\ managed \/ known = {}
          /\ plan' = wanted \ ({peer} \cup known)
    /\ UNCHANGED <<vars, managed, holds, peer, killed>>

OpenTun ==
    /\ stage = "open"
    /\ stage' = "routes"
    /\ tun' = TRUE
    /\ UNCHANGED <<vars, managed, guard, routed, lease, handler, plan, peer, killed>>

ConfigureRoutes ==
    /\ stage = "routes"
    /\ stage' = "dns"
    /\ guard' = TRUE /\ routed' = plan
    /\ UNCHANGED <<vars, managed, tun, lease, handler, plan, peer, killed>>

\* DnsRuntime::new and the decorating devices: no state of the host changes.
NewDnsRuntime ==
    /\ stage = "dns"
    /\ stage' = "handler"
    /\ UNCHANGED <<vars, managed, holds, plan, peer, killed>>

InstallShutdownHandler ==
    /\ stage = "handler"
    /\ stage' = "loop"
    /\ handler' = TRUE
    /\ UNCHANGED <<vars, managed, tun, guard, routed, lease, plan, peer, killed>>

-----------------------------------------------------------------------------
(* run_reconnecting_from. *)

\* Every Client::authenticate resolves the server's name again.
LoopAuthenticates ==
    /\ stage = "loop"
    /\ AuthenticateOk \/ AuthenticateFails
    /\ peer' \in Servers
    /\ UNCHANGED <<stage, managed, holds, plan, killed>>

LoopSteps ==
    /\ stage = "loop"
    /\ \/ TopShutdown \/ TakePending \/ StartRun \/ AssignmentChanged \/ FinalEnd
       \/ RetryableEnd \/ BudgetExhausted \/ Backoff \/ Retry \/ Tick
    /\ UNCHANGED connectVars

\* activate_session applies the lease; when it fails the lease of the previous
\* policy may be re-applied; deactivate_session restores the host's DNS.  Only
\* a device opened here has the DNS runtime around it.
LeaseAfter ==
    IF ~ tun \/ status' \in {status, "closed"} THEN {lease}
    ELSE IF status' = "active" THEN {TRUE}
    ELSE IF status = "idle" THEN BOOLEAN ELSE {FALSE}

LoopRunsSession ==
    /\ stage = "loop"
    /\ RunSession
    /\ lease' \in LeaseAfter
    /\ UNCHANGED <<stage, managed, tun, guard, routed, handler, plan, peer, killed>>

LoopReturns ==
    /\ stage = "loop" /\ pc = "returned"
    /\ stage' = "drop_dns"
    /\ UNCHANGED <<vars, managed, holds, plan, peer, killed>>

-----------------------------------------------------------------------------
(* Dropping what the command holds. *)

\* Mutant: the runtime is only deactivated while a session is active.
DropDnsRuntimeIfActive ==
    /\ stage = "drop_dns"
    /\ stage' = "drop_routes"
    /\ lease' = IF status = "active" THEN FALSE ELSE lease
    /\ UNCHANGED <<vars, managed, tun, guard, routed, handler, plan, peer, killed>>

\* Drop for DnsRuntime deactivates it, which gives up a lease still held.
DropDnsRuntime ==
    /\ stage = "drop_dns"
    /\ stage' = "drop_routes"
    /\ lease' = FALSE
    /\ UNCHANGED <<vars, managed, tun, guard, routed, handler, plan, peer, killed>>

DropRouteGuard ==
    /\ stage = "drop_routes"
    /\ stage' = "drop_tun"
    /\ guard' = FALSE /\ routed' = {}
    /\ UNCHANGED <<vars, managed, tun, lease, handler, plan, peer, killed>>

DropTun ==
    /\ stage = "drop_tun"
    /\ stage' = "drop_session"
    /\ tun' = FALSE
    /\ UNCHANGED <<vars, managed, guard, routed, lease, handler, plan, peer, killed>>

\* Mutant: the session is forgotten.
DropFirstSessionSilently ==
    /\ stage = "drop_session"
    /\ stage' = "exit"
    /\ UNCHANGED <<vars, managed, holds, plan, peer, killed>>

\* A session the loop never received is the first local: it is dropped last,
\* which sends its CLOSE.
DropFirstSession ==
    /\ stage = "drop_session"
    /\ stage' = "exit"
    /\ pending' = NoAssignment
    /\ closed' = IF pc = "top" /\ pending # NoAssignment THEN closed + 1 ELSE closed
    /\ UNCHANGED <<pc, retry, delay, waited, expected, assigned, result, opened, tries,
                   contractVars, managed, holds, plan, peer, killed>>

-----------------------------------------------------------------------------
(* Signals. *)

\* Ctrl-C: the handler stores the flag, without it the process dies and the
\* kernel takes the interface and its routes away.
Interrupt ==
    /\ stage # "exit" /\ killed = "no"
    /\ IF handler
       THEN /\ Shutdown
            /\ UNCHANGED <<pc, loopVars, connectVars>>
       ELSE /\ stage' = "exit" /\ killed' = "interrupt"
            /\ tun' = FALSE /\ guard' = FALSE /\ routed' = {}
            /\ UNCHANGED <<vars, managed, lease, handler, plan, peer>>

Exited == stage = "exit" /\ UNCHANGED allVars

ConnectNext ==
    \/ FirstAuthenticate \/ SetupFails \/ ResolvePlan \/ OpenTun \/ ConfigureRoutes
    \/ NewDnsRuntime \/ InstallShutdownHandler
    \/ LoopAuthenticates \/ LoopSteps \/ LoopRunsSession \/ LoopReturns
    \/ DropDnsRuntime \/ DropRouteGuard \/ DropTun \/ DropFirstSession
    \/ Interrupt \/ Exited

ConnectSpec == ConnectInit /\ [][ConnectNext]_allVars

\* The command's thread runs, time passes, a session begins, and one that has
\* a reason to end does end (Session!StopsEventually).
Fairness ==
    /\ WF_allVars(LoopAuthenticates) /\ WF_allVars(LoopSteps)
    /\ WF_allVars(LoopRunsSession /\ status # "active")
    /\ WF_allVars(LoopRunsSession /\ SendClose /\ (shutdown \/ causes # {}))
    /\ WF_allVars(LoopReturns \/ DropDnsRuntime \/ DropRouteGuard \/ DropTun
                  \/ DropFirstSession)

FairConnectSpec == ConnectSpec /\ Fairness

-----------------------------------------------------------------------------
(* Properties. *)

\* Whatever the command went through, failed activations that put an old
\* lease back and early returns included, it exits with the host's DNS, the
\* routes and the interface released and every session it opened closed.
ReleasedOnExit ==
    stage = "exit" /\ killed = "no" =>
        ~ lease /\ ~ guard /\ ~ tun /\ opened = closed

\* The host's resolver configuration points into the tunnel only while the
\* tunnel's routes and interface are there: a reconnection, an early return, a
\* failed activation and a Ctrl-C that kills the process before its handler is
\* installed never leave the host with resolvers it cannot reach.
LeaseInsideRoutes == lease => guard /\ tun

\* The host is left as it was, at the end and at every moment before it at
\* which the command could stop.
HostReleased == ReleasedOnExit /\ LeaseInsideRoutes

\* Once its handler is installed, a Ctrl-C at any point, in the middle of an
\* authentication, a session, a backoff or the clean-up, ends the command, and
\* with ReleasedOnExit it ends with everything released.
InterruptExits == shutdown ~> stage = "exit"

\* "Broad routes are split around these exclusions to avoid routing the iWAN
\* transport into its own TUN" (docs/CONFIGURATION.md): the peer a session or
\* an authentication talks to is never routed into the tunnel.
TransportOutsideTunnel == stage = "loop" /\ pc \in {"check", "run"} => peer \notin routed

=============================================================================
