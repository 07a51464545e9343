----------------------------- MODULE TunnelProofs ----------------------------
(***************************************************************************)
(* What runs over a tunnel.  The reconnecting loop and the command around  *)
(* it, for every retry budget and delay, every set of assignments and      *)
(* server addresses, and without a bound on what is opened beyond          *)
(* MaxSessions.  The forwarder, for every number of connections, tasks,    *)
(* addresses, DNS servers and CNAME hops, every budget and every pool of   *)
(* connections to the target: what run_async leaves behind, how the        *)
(* connector's calls share its state, and what the HTTP proxy sends over   *)
(* which connection.                                                       *)
(***************************************************************************)
EXTENDS TunConnect, Forward, ForwardConnect, HttpForward, FiniteSetTheorems, TLAPS

-----------------------------------------------------------------------------
(* run_connect_loop and run_tun_connect. *)

LoopPc == {"top", "check", "run", "budget", "wait", "returned"}
SessionStatus == {"idle", "active", "closed", "returned"}
FinalEnds == {"LocalShutdown", "ServerClose"}

LoopTypes ==
    /\ pc \in LoopPc /\ status \in SessionStatus
    /\ retry \in Nat /\ delay \in Nat /\ tries \in Nat
    /\ opened \in Nat /\ closed \in Nat

\* An attempt comes after the retry it belongs to was counted.
TriesFollowRetries ==
    /\ tries <= (IF pc \in {"top", "wait"} THEN retry ELSE retry + 1)
    /\ retry <= Attempts
    /\ InitialDelay <= delay /\ delay <= MaxDelay

\* The session that is open, if there is one: the caller's before it is taken,
\* one that is checked, or one that runs and has not sent its CLOSE.
OneOpen ==
    \/ pc = "top" /\ pending # NoAssignment
    \/ pc = "check"
    \/ pc = "run" /\ status \in {"idle", "active"}

SessionsBalance ==
    /\ opened = IF OneOpen THEN closed + 1 ELSE closed
    /\ pc \notin {"top", "returned"} => pending = NoAssignment

\* A session runs only while the loop waits for it, and with the assignment
\* that was checked.
RunsChecked ==
    /\ pc # "run" => status \in {"idle", "returned"}
    /\ pc = "run" => SameAssignment

\* The loop goes on only after an end that may be retried.
GoesOnAfterFailure == pc \in LoopPc \ {"run", "returned"} => end \notin FinalEnds

LoopInv == /\ LoopTypes /\ TriesFollowRetries /\ SessionsBalance /\ RunsChecked
           /\ GoesOnAfterFailure

-----------------------------------------------------------------------------
(* The loop. *)

\* The invariant holds when the loop begins, with a session or without.
LEMMA LoopStarts == Init => LoopInv
BY ReconnectAssumption DEF Init, ContractInit, LoopInv, LoopTypes, LoopPc,
  SessionStatus, TriesFollowRetries, SessionsBalance, OneOpen, RunsChecked,
  GoesOnAfterFailure, FinalEnds

\* Every step of the loop, of the session it runs and of the shutdown keeps it.
LEMMA LoopKeeps == ASSUME LoopInv, [Next]_vars PROVE LoopInv'
<1> USE ReconnectAssumption DEF LoopInv, LoopTypes, LoopPc, SessionStatus,
      TriesFollowRetries, SessionsBalance, OneOpen, RunsChecked,
      GoesOnAfterFailure, FinalEnds, SameAssignment, contractVars
<1>1. CASE TopShutdown \/ TakePending
  BY <1>1 DEF TopShutdown, TakePending, Finish
<1>2. CASE AuthenticateOk \/ AuthenticateFails
  BY <1>2 DEF AuthenticateOk, AuthenticateFails
<1>3. CASE StartRun \/ AssignmentChanged
  BY <1>3 DEF StartRun, AssignmentChanged, Finish, loopVars
<1>4. CASE FinalEnd \/ RetryableEnd
  BY <1>4 DEF FinalEnd, RetryableEnd, Finish, WorkerCause
<1>5. CASE BudgetExhausted \/ Backoff
  BY <1>5 DEF BudgetExhausted, Backoff, Finish
<1>6. CASE Retry
  <2>1. /\ delay' \in Nat /\ InitialDelay <= delay' /\ delay' <= MaxDelay
    BY <1>6 DEF Retry, MinDelay
  <2>2. QED
    BY <1>6, <2>1 DEF Retry
<1>7. CASE RunSession
  BY <1>7 DEF RunSession, SessionStep, Begin, Refuse, Occur, SendClose, Return
<1>8. CASE Tick
  BY <1>8 DEF Tick
<1>9. CASE RequestShutdown
  BY <1>9 DEF RequestShutdown, Shutdown, loopVars
<1>10. CASE Idle \/ UNCHANGED vars
  BY <1>10 DEF Idle, vars, loopVars
<1>11. QED
  BY <1>1, <1>2, <1>3, <1>4, <1>5, <1>6, <1>7, <1>8, <1>9, <1>10 DEF Next, Loop

\* The invariant gives what the loop promises.
LEMMA LoopInvAccounts == LoopInv => LoopAccounted
BY ReconnectAssumption DEF LoopInv, LoopTypes, LoopPc, SessionStatus,
  TriesFollowRetries, SessionsBalance, OneOpen, RunsChecked, SameAssignment,
  LoopAccounted, BudgetRespected, SessionsAccounted, EverySessionClosed,
  AssignmentStable

\* A step that begins an attempt begins it after a retryable end.
LEMMA AttemptAfterFailure ==
    ASSUME LoopInv, [Next]_vars, tries' > tries
    PROVE  end \notin FinalEnds
<1> USE DEF LoopInv, LoopTypes, LoopPc
<1>1. pc = "top"
  BY DEF Next, Loop, TopShutdown, TakePending, AuthenticateOk, AuthenticateFails,
    StartRun, AssignmentChanged, FinalEnd, RetryableEnd, BudgetExhausted, Backoff,
    Retry, RunSession, Tick, RequestShutdown, Idle, Finish, vars, loopVars
<1>2. QED
  BY <1>1 DEF GoesOnAfterFailure

\* For every budget and delay: no more attempts than configured between two
\* resets, delays within their limits, every session closed before the next
\* one or the return, and none run with another assignment than the first.
THEOREM LoopAlwaysAccounted == Spec => []LoopAccounted
<1>1. Init => LoopInv
  BY LoopStarts
<1>2. LoopInv /\ [Next]_vars => LoopInv'
  BY LoopKeeps
<1>3. LoopInv => LoopAccounted
  BY LoopInvAccounts
<1>4. QED
  BY <1>1, <1>2, <1>3, PTL DEF Spec

\* No attempt follows a session that the user or the peer ended.
THEOREM FinalEndsStayFinal == Spec => FinalEndsAreFinal
<1>1. Init => LoopInv
  BY LoopStarts
<1>2. LoopInv /\ [Next]_vars => LoopInv'
  BY LoopKeeps
<1>3. LoopInv /\ [Next]_vars
        => [tries' > tries => end \notin {"LocalShutdown", "ServerClose"}]_vars
  BY AttemptAfterFailure DEF FinalEnds
<1>4. QED
  BY <1>1, <1>2, <1>3, PTL DEF Spec, FinalEndsAreFinal

-----------------------------------------------------------------------------
(* The command around the loop. *)

SetupStages == {"auth", "plan", "open", "routes", "dns", "handler"}
DropStages == {"drop_dns", "drop_routes", "drop_tun", "drop_session"}
Stages == SetupStages \cup DropStages \cup {"loop", "exit"}

HoldsTyped ==
    /\ stage \in Stages /\ tun \in BOOLEAN /\ guard \in BOOLEAN
    /\ lease \in BOOLEAN /\ handler \in BOOLEAN

\* What is held where: taken in the order of the setup, given back in the
\* reverse order, the lease only with the guard around it.
HeldInOrder ==
    /\ stage \in {"auth", "plan", "open", "drop_session", "exit"} => ~ tun
    /\ stage \in {"auth", "plan", "open", "routes", "drop_tun", "drop_session", "exit"}
         => ~ guard
    /\ stage \in (Stages \ {"loop", "drop_dns"}) => ~ lease
    /\ stage \in {"routes", "dns", "handler"} => tun
    /\ stage \in {"dns", "handler"} => guard
    /\ stage = "loop" /\ tun => guard
    /\ lease => guard
    /\ guard => tun

\* Only with a handler is there a loop to interrupt, or a lease; a process
\* that a signal ends holds no lease yet.
HandlerFirst ==
    /\ stage \in SetupStages => ~ handler /\ pc = "top" /\ status = "idle"
    /\ stage = "loop" => handler
    /\ lease => handler

\* The loop does not move outside its stage; the session it was not given is
\* there until it is dropped.
LoopAtRest ==
    /\ stage = "auth" => pending = NoAssignment /\ opened = 0
    /\ stage \in DropStages => pc \in {"top", "returned"}
    /\ stage = "exit" /\ killed = "no" =>
          \/ pc = "top" /\ pending = NoAssignment
          \/ pc = "returned"

CommandInv == HoldsTyped /\ HeldInOrder /\ HandlerFirst /\ LoopAtRest

\* The invariant of the loop and of the command hold at the start, of the
\* command and of an application that calls the loop itself.
LEMMA CommandStarts == ConnectInit => LoopInv /\ CommandInv
<1>1. ConnectInit => LoopInv
  BY LoopStarts DEF ConnectInit
<1>2. ConnectInit => CommandInv
  BY DEF ConnectInit, Init, ContractInit, CommandInv, HoldsTyped, HeldInOrder,
    HandlerFirst, LoopAtRest, SetupStages, DropStages, Stages
<1>3. QED
  BY <1>1, <1>2

\* A step of the command is one of the loop, or keeps the loop's invariant.
LEMMA CommandKeepsLoop ==
    ASSUME LoopInv, CommandInv, [ConnectNext]_allVars
    PROVE  LoopInv'
<1>1. CASE FirstAuthenticate
  BY <1>1, ReconnectAssumption DEF FirstAuthenticate, contractVars, LoopInv, LoopTypes,
    TriesFollowRetries, SessionsBalance, OneOpen, RunsChecked, GoesOnAfterFailure,
    SameAssignment, CommandInv, HandlerFirst, LoopAtRest, SetupStages
<1>2. CASE DropFirstSession
  BY <1>2 DEF DropFirstSession, contractVars, LoopInv, LoopTypes, LoopPc,
    TriesFollowRetries, SessionsBalance, OneOpen, RunsChecked, GoesOnAfterFailure,
    SameAssignment, CommandInv, LoopAtRest, DropStages
<1>3. CASE LoopAuthenticates \/ LoopSteps \/ LoopRunsSession
  <2>1. [Next]_vars
    BY <1>3 DEF LoopAuthenticates, LoopSteps, LoopRunsSession, Next, Loop
  <2>2. QED
    BY <2>1, LoopKeeps
<1>4. CASE Interrupt /\ handler
  <2>1. UNCHANGED <<pc, loopVars, status, causes, end>>
    BY <1>4 DEF Interrupt, Shutdown
  <2>2. QED
    BY <2>1 DEF loopVars, LoopInv, LoopTypes, TriesFollowRetries, SessionsBalance,
      OneOpen, RunsChecked, GoesOnAfterFailure, SameAssignment
<1>5. CASE UNCHANGED vars
  BY <1>5, LoopKeeps
<1>6. QED
  BY <1>1, <1>2, <1>3, <1>4, <1>5 DEF ConnectNext, SetupFails, ResolvePlan, OpenTun,
    ConfigureRoutes, NewDnsRuntime, InstallShutdownHandler, LoopReturns,
    DropDnsRuntime, DropRouteGuard, DropTun, Interrupt, Exited, allVars

\* Every step of the command keeps what it holds in order.
LEMMA CommandKeeps ==
    ASSUME LoopInv, CommandInv, [ConnectNext]_allVars
    PROVE  CommandInv'
<1> USE DEF CommandInv, HoldsTyped, HeldInOrder, HandlerFirst, LoopAtRest,
      SetupStages, DropStages, Stages, holds
<1>1. CASE FirstAuthenticate
  BY <1>1 DEF FirstAuthenticate, contractVars
<1>2. CASE SetupFails \/ ResolvePlan \/ NewDnsRuntime
  BY <1>2 DEF SetupFails, ResolvePlan, NewDnsRuntime, vars, loopVars, contractVars
<1>3. CASE OpenTun \/ ConfigureRoutes \/ InstallShutdownHandler
  <2>1. CASE OpenTun
    BY <2>1 DEF OpenTun, vars, loopVars, contractVars
  <2>2. CASE ConfigureRoutes
    BY <2>2 DEF ConfigureRoutes, vars, loopVars, contractVars
  <2>3. CASE InstallShutdownHandler
    BY <2>3 DEF InstallShutdownHandler, vars, loopVars, contractVars
  <2>4. QED
    BY <1>3, <2>1, <2>2, <2>3
<1>4. CASE LoopAuthenticates \/ LoopSteps
  BY <1>4 DEF LoopAuthenticates, LoopSteps, connectVars
<1>5. CASE LoopRunsSession
  <2>1. lease' \in BOOLEAN /\ (lease' => tun)
    <3>1. CASE ~ tun \/ status' = status
      <4>1. LeaseAfter = {lease}
        BY <3>1 DEF LeaseAfter
      <4>2. QED
        BY <1>5, <4>1 DEF LoopRunsSession
    <3>2. CASE tun /\ status' # status
      <4>1. LeaseAfter \subseteq BOOLEAN
        BY <3>2 DEF LeaseAfter
      <4>2. QED
        BY <1>5, <3>2, <4>1 DEF LoopRunsSession
    <3>3. QED
      BY <3>1, <3>2
  <2>2. QED
    BY <1>5, <2>1 DEF LoopRunsSession
<1>6. CASE LoopReturns
  BY <1>6 DEF LoopReturns, vars, loopVars, contractVars
<1>7. CASE DropDnsRuntime \/ DropRouteGuard \/ DropTun
  <2>1. CASE DropDnsRuntime
    BY <2>1 DEF DropDnsRuntime, vars, loopVars, contractVars
  <2>2. CASE DropRouteGuard
    BY <2>2 DEF DropRouteGuard, vars, loopVars, contractVars
  <2>3. CASE DropTun
    BY <2>3 DEF DropTun, vars, loopVars, contractVars
  <2>4. QED
    BY <1>7, <2>1, <2>2, <2>3
<1>8. CASE DropFirstSession
  BY <1>8 DEF DropFirstSession, contractVars
<1>9. CASE Interrupt
  BY <1>9 DEF Interrupt, Shutdown, vars, loopVars, contractVars, connectVars
<1>10. CASE Exited \/ UNCHANGED allVars
  BY <1>10 DEF Exited, allVars, connectVars, vars, loopVars, contractVars
<1>11. QED
  BY <1>1, <1>2, <1>3, <1>4, <1>5, <1>6, <1>7, <1>8, <1>9, <1>10 DEF ConnectNext

\* The invariants give what the command promises.
LEMMA CommandInvReleases == LoopInv /\ CommandInv => HostReleased
BY DEF LoopInv, LoopTypes, SessionsBalance, OneOpen, CommandInv, HoldsTyped, HeldInOrder,
  HandlerFirst, LoopAtRest, HostReleased, ReleasedOnExit, LeaseInsideRoutes, Stages,
  DropStages, SetupStages

\* For every budget, set of servers and number of sessions: the command exits
\* with the DNS configuration, the routes and the interface given back and its
\* sessions closed, and never points the host's DNS at a tunnel without routes.
THEOREM HostAlwaysReleased == ConnectSpec => []HostReleased
<1>1. ConnectInit => LoopInv /\ CommandInv
  BY CommandStarts
<1>2. LoopInv /\ CommandInv /\ [ConnectNext]_allVars => (LoopInv /\ CommandInv)'
  BY CommandKeepsLoop, CommandKeeps
<1>3. LoopInv /\ CommandInv => HostReleased
  BY CommandInvReleases
<1>4. QED
  BY <1>1, <1>2, <1>3, PTL DEF ConnectSpec

\* The loop keeps its account inside the command as well, where an early
\* return of the setup or a signal may stop it anywhere.
THEOREM LoopAccountedInCommand == ConnectSpec => []LoopAccounted
<1>1. ConnectInit => LoopInv /\ CommandInv
  BY CommandStarts
<1>2. LoopInv /\ CommandInv /\ [ConnectNext]_allVars => (LoopInv /\ CommandInv)'
  BY CommandKeepsLoop, CommandKeeps
<1>3. LoopInv => LoopAccounted
  BY LoopInvAccounts
<1>4. QED
  BY <1>1, <1>2, <1>3, PTL DEF ConnectSpec

-----------------------------------------------------------------------------
(* run_async. *)

ForwardPlaces == {"bind", "preflight", "serve", "finish", "abort", "await", "returned"}

ForwardTypes ==
    /\ forward \in ForwardPlaces
    /\ tunnel \in {"held", "running", "ended", "dropped"}
    /\ joins \in {0, 1}
    /\ connection \in [Slots -> {"free", "running", "ended"}]
    /\ IsFiniteSet(Connections)
    /\ Cardinality(Connections) <= MaxConnections

\* The tunnel's handle is polled only where its result was not taken yet, and
\* there are tasks only while the loop runs or waits for them.
TunnelAccounted ==
    /\ forward = "bind" => tunnel = "held"
    /\ forward \notin {"bind", "returned"} => tunnel \in {"running", "ended"}
    /\ forward \in {"bind", "preflight", "serve", "await"} => joins = 0
    /\ joins = 1 => tunnel = "ended"
    /\ forward \in {"bind", "preflight", "await", "returned"} => Connections = {}
    /\ forward = "returned" => tunnel \in {"ended", "dropped"}

ForwardInv == ForwardTypes /\ TunnelAccounted

\* Nothing runs at first.
LEMMA ForwardStarts == ForwardInit => ForwardInv
<1> SUFFICES ASSUME ForwardInit PROVE ForwardInv
  OBVIOUS
<1>1. Connections = {}
  BY DEF ForwardInit, Connections
<1>2. IsFiniteSet(Connections) /\ Cardinality(Connections) <= MaxConnections
  BY <1>1, FS_EmptySet, ForwardAssumption
<1>3. QED
  BY <1>1, <1>2 DEF ForwardInit, ForwardInv, ForwardTypes, TunnelAccounted, ForwardPlaces

\* A slot that changes among running and ended stays in the set of tasks.
LEMMA TasksStay ==
    ASSUME connection \in [Slots -> {"free", "running", "ended"}],
           NEW s \in Slots, NEW v \in {"running", "ended"}, connection[s] # "free",
           connection' = [connection EXCEPT ![s] = v]
    PROVE  connection' \in [Slots -> {"free", "running", "ended"}]
           /\ Connections' = Connections
BY DEF Connections

\* A joined task leaves the set, and the set gets no larger.
LEMMA TaskJoined ==
    ASSUME ForwardTypes, NEW s \in Connections,
           connection' = [connection EXCEPT ![s] = "free"]
    PROVE  /\ connection' \in [Slots -> {"free", "running", "ended"}]
           /\ Connections' = Connections \ {s}
           /\ IsFiniteSet(Connections') /\ Cardinality(Connections') <= MaxConnections
<1>1. connection' \in [Slots -> {"free", "running", "ended"}]
      /\ Connections' = Connections \ {s}
  BY DEF ForwardTypes, Connections
<1>2. IsFiniteSet(Connections \ {s})
      /\ Cardinality(Connections \ {s}) = Cardinality(Connections) - 1
  BY FS_RemoveElement DEF ForwardTypes
<1>3. Cardinality(Connections) \in Nat
  BY FS_CardinalityType DEF ForwardTypes
<1>4. QED
  BY <1>1, <1>2, <1>3, ForwardAssumption DEF ForwardTypes

\* Every step of the forwarder, of its tasks and of the user keeps it.
LEMMA ForwardKeeps == ASSUME ForwardInv, [ForwardNext]_forwardVars PROVE ForwardInv'
<1> USE DEF ForwardInv, TunnelAccounted, ForwardPlaces
<1> DEFINE Same == UNCHANGED connection
<1>1. Same => Connections' = Connections
  BY DEF Connections
<1>2. CASE BindFails \/ BindAndSpawn
  BY <1>1, <1>2 DEF BindFails, BindAndSpawn, ForwardTypes
<1>3. CASE TunnelEndsPreflight \/ PreflightPasses \/ PreflightFails
  BY <1>1, <1>3 DEF TunnelEndsPreflight, PreflightPasses, PreflightFails, ForwardTypes
<1>4. CASE Accept
  <2>1. CASE Same
    BY <1>1, <1>4, <2>1 DEF Accept, ForwardTypes
  <2>2. CASE ~ Same
    <3>1. PICK s \in Slots \ Connections :
            connection' = [connection EXCEPT ![s] = "running"]
      BY <1>4, <2>2 DEF Accept
    <3>2. Cardinality(Connections) < MaxConnections
      BY <1>4, <2>2 DEF Accept
    <3>3. connection' \in [Slots -> {"free", "running", "ended"}]
          /\ Connections' = Connections \cup {s}
      BY <3>1 DEF ForwardTypes, Connections
    <3>4. IsFiniteSet(Connections')
          /\ Cardinality(Connections') = Cardinality(Connections) + 1
      BY <3>1, <3>3, FS_AddElement DEF ForwardTypes
    <3>5. Cardinality(Connections') <= MaxConnections
      BY <3>2, <3>4, FS_CardinalityType, ForwardAssumption DEF ForwardTypes
    <3>6. QED
      BY <1>4, <3>3, <3>4, <3>5 DEF Accept, ForwardTypes
  <2>3. QED
    BY <2>1, <2>2
<1>5. CASE JoinConnection
  <2>1. PICK s \in Connections : connection' = [connection EXCEPT ![s] = "free"]
    BY <1>5 DEF JoinConnection
  <2>2. QED
    BY <1>5, <2>1, TaskJoined DEF JoinConnection, ForwardTypes
<1>6. CASE TunnelEndsLoop \/ AcceptFails \/ ShutdownTick
  BY <1>1, <1>6 DEF TunnelEndsLoop, AcceptFails, ShutdownTick, LeaveLoop, ForwardTypes
<1>7. CASE FinishJoins
  <2>1. PICK s \in Connections : connection' = [connection EXCEPT ![s] = "free"]
    BY <1>7 DEF FinishJoins
  <2>2. QED
    BY <1>7, <2>1, TaskJoined DEF FinishJoins, ForwardTypes
<1>8. CASE GraceOver \/ FinishConnections \/ AwaitTunnel
  BY <1>1, <1>8 DEF GraceOver, FinishConnections, AwaitTunnel, ForwardTypes
<1>9. CASE AbortTask \/ ConnectionEnds
  <2>1. PICK s \in Slots : /\ connection[s] = "running"
                           /\ connection' = [connection EXCEPT ![s] = "ended"]
    BY <1>9 DEF AbortTask, ConnectionEnds, Connections
  <2>2. connection' \in [Slots -> {"free", "running", "ended"}]
        /\ Connections' = Connections
    BY <2>1, TasksStay DEF ForwardTypes
  <2>3. QED
    BY <1>9, <2>2 DEF AbortTask, ConnectionEnds, ForwardTypes
<1>10. CASE TunnelEnds \/ InterruptForward \/ ForwardEnded \/ UNCHANGED forwardVars
  BY <1>1, <1>10 DEF TunnelEnds, InterruptForward, ForwardEnded, forwardVars, ForwardTypes
<1>11. QED
  BY <1>2, <1>3, <1>4, <1>5, <1>6, <1>7, <1>8, <1>9, <1>10
    DEF ForwardNext, ForwardProgress

\* For every limit on connections and every number of slots: the forwarder
\* returns with its session closed and its tasks joined, keeps the limit, and
\* takes the tunnel's result once.
THEOREM NothingEverOutlives == ForwardSpec => []NothingOutlives
<1>1. ForwardInit => ForwardInv
  BY ForwardStarts
<1>2. ForwardInv /\ [ForwardNext]_forwardVars => ForwardInv'
  BY ForwardKeeps
<1>3. ForwardInv => NothingOutlives
  BY DEF ForwardInv, ForwardTypes, TunnelAccounted, NothingOutlives
<1>4. QED
  BY <1>1, <1>2, <1>3, PTL DEF ForwardSpec

-----------------------------------------------------------------------------
(* TcpConnector. *)

CallPlaces == {"rest", "resolve", "query", "ensure", "add", "attempt", "connected",
               "failed", "done"}

CallRecords ==
    [pc : CallPlaces, left : Nat, timer : Nat, purpose : {"query", "attempt"}, server : Nat,
     hop : Nat, addresses : Nat, tried : Nat, ample : BOOLEAN]

ConnectorTypes ==
    /\ call \in [Calls -> CallRecords]
    /\ cache \in [addresses : Nat, life : Nat]
    /\ resolvers \in Nat /\ flag \in BOOLEAN /\ route \in BOOLEAN
    /\ phase \in {"preflight", "serving", "stopped"}

\* Preflight is alone until it has installed the route: only it is ever
\* between raising the flag and adding the route.
RouteFirst ==
    /\ phase # "serving" => \A t \in Tasks : call[t].pc = "rest"
    /\ phase # "preflight" => call[Preflight].pc = "done"
    /\ phase = "serving" => flag /\ route
    /\ flag => route \/ call[Preflight].pc = "add"
    /\ call[Preflight].pc = "add" => flag
    /\ call[Preflight].pc = "connected" => flag /\ route
    /\ call[Preflight].pc # "attempt"
    /\ \A t \in Tasks : call[t].pc # "add"

\* Only a call that resolves holds the lock.
LockHeld ==
    lock # "free" => /\ lock \in Calls
                     /\ call[lock].pc \in {"query", "ensure", "add"}
                     /\ call[lock].purpose = "query"

\* Before there are addresses nothing was tried; afterwards one more can be.
\* With a millisecond for each address, the timer of an attempt leaves one for
\* each of the addresses after it.
ShareOf(r) ==
    /\ r.pc \in {"rest", "resolve", "query"} => r.addresses = 0 /\ r.purpose = "query"
    /\ r.purpose = "query" => r.addresses = 0 /\ r.tried = 0
    /\ r.pc \in {"ensure", "add"} /\ r.purpose = "attempt" =>
          /\ r.tried < r.addresses
          /\ r.ample => r.left >= r.addresses - r.tried
    /\ r.pc = "attempt" =>
          /\ r.purpose = "attempt" /\ r.tried <= r.addresses /\ r.timer <= r.left
          /\ r.ample => r.left - r.timer >= r.addresses - r.tried

TriedAll(r) == r.pc = "failed" /\ r.addresses > 0 /\ r.ample => r.tried = r.addresses

Shares == /\ \A c \in Calls : ShareOf(call[c])
          /\ \A c \in Tasks : TriedAll(call[c])

ConnectorInv == ConnectorTypes /\ RouteFirst /\ LockHeld /\ Shares /\ RouteReady

\* No call has begun, and a session with a gateway has its route.
LEMMA ConnectorStarts == ConnectorInit => ConnectorInv
BY ForwardConnectAssumption DEF ConnectorInit, ConnectorInv, ConnectorTypes, CallRecords,
  CallPlaces, RouteFirst, LockHeld, Shares, ShareOf, TriedAll, RouteReady,
  NoCache, Resting, Calls

\* An equal share is at least a millisecond, never more than is left, and
\* leaves a millisecond for each of the others when there was one for all.
LEMMA ShareFair ==
    ASSUME NEW left \in Nat, NEW attempts \in Nat, attempts > 0, left > 0
    PROVE  /\ Share(left, attempts) \in Nat
           /\ Share(left, attempts) >= 1 /\ Share(left, attempts) <= left
           /\ left >= attempts => left - Share(left, attempts) >= attempts - 1
<1> DEFINE part == left \div attempts
           rest == left % attempts
<1>1. part \in Nat /\ rest \in Nat /\ left = attempts * part + rest
  OBVIOUS
<1>2. part <= left
  <2>1. part <= attempts * part
    BY <1>1
  <2>2. QED
    BY <1>1, <2>1
<1>3. left >= attempts => part >= 1
  BY <1>1
<1>4. left >= attempts => left - part >= attempts - 1
  <2> HIDE DEF part, rest
  <2> SUFFICES ASSUME left >= attempts PROVE left - part >= attempts - 1
    OBVIOUS
  <2>1. (attempts - 1) * part >= attempts - 1
    BY <1>1, <1>3
  <2>2. (attempts - 1) * part = attempts * part - part
    BY <1>1
  <2>3. attempts * part \in Nat
    BY <1>1
  <2>4. QED
    BY <1>1, <2>1, <2>2, <2>3
<1>5. Share(left, attempts) = IF part = 0 THEN 1 ELSE part
  BY DEF Share
<1>6. QED
  BY <1>1, <1>2, <1>3, <1>4, <1>5

\* Only the call that moves changes.
LEMMA OneMoves ==
    ASSUME ConnectorTypes, NEW c \in Calls, NEW r \in CallRecords, Become(c, r)
    PROVE  /\ call' \in [Calls -> CallRecords]
           /\ call'[c] = r /\ \A d \in Calls : d # c => call'[d] = call[d]
BY DEF ConnectorTypes, Become

\* What the steps of a call make of its record.
LEMMA FailedTyped ==
    ASSUME ConnectorTypes, NEW c \in Calls
    PROVE  /\ Failed(c) \in CallRecords /\ Failed(c).pc = "failed"
           /\ Failed(c).addresses = call[c].addresses /\ Failed(c).ample = call[c].ample
           /\ Failed(c).tried = call[c].tried /\ Failed(c).purpose = call[c].purpose
BY DEF ConnectorTypes, CallRecords, CallPlaces, Failed

\* With addresses every one is ahead, and ample says that there is a
\* millisecond for each.
LEMMA WithAddressesTyped ==
    ASSUME ConnectorTypes, NEW c \in Calls, NEW n \in Nat, ShareOf(call[c]),
           call[c].pc \in {"resolve", "query"}
    PROVE  /\ WithAddresses(c, n) \in CallRecords
           /\ WithAddresses(c, n).pc \in {"failed", "ensure"}
           /\ WithAddresses(c, n).pc = "ensure" => WithAddresses(c, n).purpose = "attempt"
           /\ ShareOf(WithAddresses(c, n)) /\ TriedAll(WithAddresses(c, n))
<1>1. call[c] \in CallRecords
  BY DEF ConnectorTypes
<1>2. CASE n = 0
  BY <1>1, <1>2, FailedTyped DEF WithAddresses, ShareOf, TriedAll, CallRecords
<1>3. CASE n # 0
  <2> DEFINE r == WithAddresses(c, n)
  <2>0. \E b \in BOOLEAN : b = (call[c].left >= n)
    <3>1. CASE call[c].left >= n
      <4> WITNESS TRUE \in BOOLEAN
      <4> QED BY <3>1
    <3>2. CASE ~ (call[c].left >= n)
      <4> WITNESS FALSE \in BOOLEAN
      <4>1. (call[c].left >= n) = FALSE
        BY <3>2
      <4>2. QED
        BY <4>1
    <3>3. QED
      BY <3>1, <3>2
  <2>1. PICK b \in BOOLEAN : b = (call[c].left >= n)
    BY <2>0
  <2>2. r = [call[c] EXCEPT !.pc = "ensure", !.purpose = "attempt", !.addresses = n,
                            !.server = 0, !.hop = 0, !.timer = 0, !.ample = b]
    BY <1>3, <2>1 DEF WithAddresses
  <2>3. r \in CallRecords
    <3>1. [call[c] EXCEPT !.pc = "ensure", !.purpose = "attempt", !.addresses = n,
                          !.server = 0, !.hop = 0, !.timer = 0, !.ample = b] \in CallRecords
      BY <1>1 DEF CallRecords, CallPlaces
    <3>2. QED
      BY <2>2, <3>1
  <2>4. r.pc = "ensure" /\ r.purpose = "attempt" /\ r.addresses = n
    BY <1>1, <2>2 DEF CallRecords
  <2>5. r.left = call[c].left /\ r.tried = call[c].tried
    BY <1>1, <2>2 DEF CallRecords
  <2>6. r.ample => call[c].left >= n
    BY <1>1, <2>1, <2>2 DEF CallRecords
  <2>7. call[c].tried = 0
    BY DEF ShareOf
  <2>8. ShareOf(r) /\ TriedAll(r)
    <3> HIDE DEF r
    <3>1. r.left >= r.addresses - r.tried \/ ~ r.ample
      BY <1>1, <2>3, <2>4, <2>5, <2>6, <2>7 DEF CallRecords
    <3>2. r.tried < r.addresses
      BY <1>3, <2>4, <2>5, <2>7
    <3>3. QED
      BY <2>4, <3>1, <3>2 DEF ShareOf, TriedAll
  <2>9. QED
    BY <2>3, <2>4, <2>8
<1>4. QED
  BY <1>2, <1>3

\* When there is a route a query goes out, preflight is done, or the next
\* address is tried with its share of what is left.
LEMMA RoutedTyped ==
    ASSUME ConnectorTypes, NEW c \in Calls, ShareOf(call[c]),
           call[c].pc \in {"ensure", "add"}
    PROVE  /\ Routed(c) \in CallRecords
           /\ Routed(c).purpose = call[c].purpose
           /\ IF call[c].purpose = "query" THEN Routed(c).pc = "query"
              ELSE Routed(c).pc \in (IF c = Preflight THEN {"connected"}
                                     ELSE {"failed", "attempt"})
           /\ ShareOf(Routed(c)) /\ (c # Preflight => TriedAll(Routed(c)))
<1>1. call[c] \in CallRecords
  BY DEF ConnectorTypes
<1>2. CASE call[c].purpose = "query"
  BY <1>1, <1>2, ForwardConnectAssumption DEF Routed, ShareOf, TriedAll, CallRecords, CallPlaces
<1>3. CASE call[c].purpose = "attempt" /\ c = Preflight
  BY <1>1, <1>3 DEF Routed, ShareOf, TriedAll, CallRecords, CallPlaces
<1>4. CASE call[c].purpose = "attempt" /\ c # Preflight /\ call[c].left = 0
  BY <1>1, <1>4, FailedTyped DEF Routed, ShareOf, TriedAll, CallRecords
<1>5. CASE call[c].purpose = "attempt" /\ c # Preflight /\ call[c].left # 0
  <2> DEFINE left == call[c].left
             attempts == call[c].addresses - call[c].tried
  <2>1. left \in Nat /\ left > 0 /\ attempts \in Nat /\ attempts > 0
    BY <1>1, <1>5 DEF CallRecords, ShareOf
  <2>2. /\ Share(left, attempts) \in Nat /\ Share(left, attempts) <= left
        /\ left >= attempts => left - Share(left, attempts) >= attempts - 1
    BY <2>1, ShareFair
  <2>3. Routed(c) = [call[c] EXCEPT !.pc = "attempt", !.tried = @ + 1,
                                    !.timer = Share(left, attempts)]
    BY <1>5 DEF Routed
  <2>4. call[c].ample => left >= attempts
    BY <1>5 DEF ShareOf
  <2>5. QED
    <3> HIDE DEF left, attempts
    <3>1. Routed(c) \in CallRecords
      <4>1. PICK t \in Nat : t = Share(left, attempts)
        BY <2>2
      <4>2. PICK k \in Nat : k = call[c].tried + 1
        BY <1>1 DEF CallRecords
      <4>3. Routed(c) = [call[c] EXCEPT !.pc = "attempt", !.tried = k, !.timer = t]
        BY <2>3, <4>1, <4>2
      <4>4. QED
        BY <1>1, <4>3 DEF CallRecords, CallPlaces
    <3>2. /\ Routed(c).purpose = "attempt" /\ Routed(c).pc = "attempt"
          /\ Routed(c).tried = call[c].tried + 1
          /\ Routed(c).timer = Share(left, attempts)
      BY <1>1, <1>5, <2>3 DEF CallRecords
    <3>3. /\ Routed(c).left = call[c].left
          /\ Routed(c).addresses = call[c].addresses /\ Routed(c).ample = call[c].ample
      BY <1>1, <2>3 DEF CallRecords
    <3>4. ShareOf(Routed(c)) /\ TriedAll(Routed(c))
      BY <1>1, <1>5, <2>1, <2>2, <2>4, <3>2, <3>3
        DEF ShareOf, TriedAll, CallRecords, left, attempts
    <3>5. QED
      BY <1>5, <3>1, <3>2, <3>4
<1>6. QED
  BY <1>1, <1>2, <1>3, <1>4, <1>5 DEF CallRecords

\* A step in which one call moves keeps the invariant when its new record
\* keeps its part, it does not get ahead of the route, and the lock it leaves
\* behind is not its own.
LEMMA MoveKeeps ==
    ASSUME ConnectorInv, NEW c \in Calls, NEW r \in CallRecords, Become(c, r),
           ShareOf(r), c # Preflight => TriedAll(r) /\ r.pc # "add",
           c = Preflight => phase = "preflight" /\ r.pc \notin {"attempt", "done"},
           c # Preflight => phase = "serving",
           UNCHANGED <<via, resolvers, phase>>, flag' \in BOOLEAN, route' \in BOOLEAN,
           cache' \in [addresses : Nat, life : Nat],
           route => route', c # Preflight => flag',
           flag' => route' \/ (c = Preflight /\ r.pc = "add"),
           c = Preflight /\ r.pc \in {"add", "connected"} => flag',
           c = Preflight /\ r.pc = "connected" => route',
           r.pc = "attempt" \/ (r.pc = "query" /\ via = "tunnel") => route',
           lock' \in {lock, "free"} \/ lock' = c,
           lock' = c => lock' = "free"
                        \/ (r.pc \in {"query", "ensure", "add"} /\ r.purpose = "query")
    PROVE  ConnectorInv'
<1>1. /\ call' \in [Calls -> CallRecords]
      /\ call'[c] = r /\ \A d \in Calls : d # c => call'[d] = call[d]
  BY OneMoves DEF ConnectorInv
<1>2. ConnectorTypes'
  BY <1>1 DEF ConnectorInv, ConnectorTypes
<1>3. LockHeld'
  BY <1>1 DEF ConnectorInv, LockHeld
<1>4. Shares'
  BY <1>1, ForwardConnectAssumption DEF ConnectorInv, Shares, Calls
<1>5. RouteFirst'
  <2>1. CASE c = Preflight
    <3>1. \A t \in Tasks : t \in Calls /\ t # c
      BY <2>1, ForwardConnectAssumption DEF Calls
    <3>2. call'[Preflight] = r /\ \A t \in Tasks : call'[t] = call[t]
      BY <1>1, <2>1, <3>1
    <3>3. QED
      BY <2>1, <3>2 DEF ConnectorInv, RouteFirst
  <2>2. CASE c # Preflight
    <3>1. call'[Preflight] = call[Preflight] /\ c \in Tasks
      BY <1>1, <2>2 DEF Calls
    <3>2. \A t \in Tasks : call'[t].pc # "add"
      BY <1>1, <2>2 DEF ConnectorInv, RouteFirst, Calls
    <3>3. phase = "serving" /\ route' /\ flag'
      BY <2>2 DEF ConnectorInv, RouteFirst
    <3>4. QED
      BY <2>2, <3>1, <3>2, <3>3 DEF ConnectorInv, RouteFirst
  <2>3. QED
    BY <2>1, <2>2
<1>6. RouteReady'
  BY <1>1 DEF ConnectorInv, RouteReady
<1>7. QED
  BY <1>2, <1>3, <1>4, <1>5, <1>6 DEF ConnectorInv

\* A task moves only after preflight, with the route there; preflight only
\* before.
LEMMA WhoMoves ==
    ASSUME ConnectorInv, NEW c \in Calls, CallStep(c)
    PROVE  /\ c = Preflight => phase = "preflight"
           /\ c # Preflight => c \in Tasks /\ phase = "serving" /\ flag /\ route
                               /\ call[c].pc # "add"
           /\ call[c] \in CallRecords /\ ShareOf(call[c])
<1>1. call[c] \in CallRecords /\ ShareOf(call[c])
  BY DEF ConnectorInv, ConnectorTypes, Shares
<1>2. c = Preflight => phase = "preflight"
  BY DEF ConnectorInv, ConnectorTypes, RouteFirst, CallStep, Start, ResolveFixed, TakeLock,
    QueryAnswers, QueryCname, QueryFails, ResolveTimesOut, EnsureRoute, AddRoute,
    AddRouteFails, AttemptConnects, AttemptEnds
<1>3. c # Preflight => c \in Tasks /\ phase = "serving"
  BY DEF Calls, ConnectorInv, RouteFirst, CallStep, Start, ResolveFixed, TakeLock,
    QueryAnswers, QueryCname, QueryFails, ResolveTimesOut, EnsureRoute, AddRoute,
    AddRouteFails, AttemptConnects, AttemptEnds
<1>4. QED
  BY <1>1, <1>2, <1>3 DEF ConnectorInv, RouteFirst

\* Every step of a call keeps the invariant.
LEMMA CallKeeps == ASSUME ConnectorInv, NEW c \in Calls, CallStep(c) PROVE ConnectorInv'
<1> USE ForwardConnectAssumption
<1>0. /\ c = Preflight => phase = "preflight"
      /\ c # Preflight => c \in Tasks /\ phase = "serving" /\ flag /\ route
                          /\ call[c].pc # "add"
      /\ call[c] \in CallRecords /\ ShareOf(call[c])
      /\ ConnectorTypes
  BY WhoMoves DEF ConnectorInv
<1>lock. lock = c => lock = "free" \/ (call[c].pc \in {"query", "ensure", "add"}
                                       /\ call[c].purpose = "query")
  BY DEF ConnectorInv, LockHeld
<1>flag. flag => route \/ (c = Preflight /\ call[c].pc = "add")
  BY <1>0 DEF ConnectorInv, RouteFirst
<1>1. CASE Start(c)
  <2> DEFINE r == [Resting EXCEPT !.pc = "resolve", !.left = Budget]
  <2>1. r \in CallRecords /\ ShareOf(r) /\ TriedAll(r) /\ r.pc = "resolve"
    BY DEF Resting, CallRecords, CallPlaces, ShareOf, TriedAll
  <2>2. Become(c, r) /\ call[c].pc \in {"rest", "failed", "connected"}
    BY <1>1 DEF Start
  <2>3. c = Preflight /\ flag => route
    BY <2>2 DEF ConnectorInv, RouteFirst
  <2>4. QED
    <3> HIDE DEF r
    <3> QED
      BY <1>0, <1>lock, <1>1, <2>1, <2>2, <2>3, MoveKeeps DEF Start, ConnectorTypes
<1>2. CASE ResolveFixed(c)
  <2>1. PICK n \in {0, 1} : Become(c, WithAddresses(c, n))
    BY <1>2 DEF ResolveFixed
  <2>2. call[c].pc = "resolve"
    BY <1>2 DEF ResolveFixed
  <2> DEFINE r == WithAddresses(c, n)
  <2>3. r \in CallRecords /\ r.pc \in {"failed", "ensure"} /\ ShareOf(r) /\ TriedAll(r)
    BY <1>0, <2>2, WithAddressesTyped
  <2>4. QED
    <3> HIDE DEF r
    <3> QED
      BY <1>0, <1>lock, <1>flag, <1>2, <2>1, <2>2, <2>3, MoveKeeps
        DEF ResolveFixed, ConnectorTypes, r
<1>3. CASE TakeLock(c)
  <2>0. call[c].pc = "resolve" /\ lock = "free" /\ call[c].purpose = "query"
    BY <1>0, <1>3 DEF TakeLock, ShareOf
  <2>1. CASE Fresh
    <3>1. Become(c, WithAddresses(c, cache.addresses)) /\ UNCHANGED lock
      BY <1>3, <2>1 DEF TakeLock
    <3> DEFINE r == WithAddresses(c, cache.addresses)
    <3>2. r \in CallRecords /\ r.pc \in {"failed", "ensure"} /\ ShareOf(r) /\ TriedAll(r)
      BY <1>0, <2>0, WithAddressesTyped DEF ConnectorTypes
    <3>3. QED
      <4> HIDE DEF r
      <4> QED
        BY <1>0, <1>flag, <1>3, <2>0, <3>1, <3>2, MoveKeeps DEF TakeLock, ConnectorTypes, r
  <2>2. CASE ~ Fresh /\ via = "tunnel" /\ resolvers = 0
    <3>1. Become(c, Failed(c)) /\ UNCHANGED lock
      BY <1>3, <2>2 DEF TakeLock
    <3>2. Failed(c) \in CallRecords /\ Failed(c).pc = "failed"
          /\ ShareOf(Failed(c)) /\ TriedAll(Failed(c))
      BY <1>0, <2>0, FailedTyped DEF ShareOf, TriedAll
    <3>3. QED
      BY <1>0, <1>flag, <1>3, <2>0, <3>1, <3>2, MoveKeeps DEF TakeLock, ConnectorTypes
  <2>3. CASE ~ Fresh /\ via = "tunnel" /\ resolvers # 0
    <3> DEFINE r == [call[c] EXCEPT !.pc = "ensure", !.server = 1]
    <3>1. Become(c, r) /\ lock' = c
      BY <1>3, <2>3 DEF TakeLock
    <3>2. r \in CallRecords /\ r.pc = "ensure" /\ r.purpose = "query"
          /\ ShareOf(r) /\ TriedAll(r)
      BY <1>0, <2>0 DEF CallRecords, CallPlaces, ShareOf, TriedAll
    <3>3. QED
      <4> HIDE DEF r
      <4> QED
        BY <1>0, <1>flag, <1>3, <2>0, <3>1, <3>2, MoveKeeps DEF TakeLock, ConnectorTypes
  <2>4. CASE ~ Fresh /\ via # "tunnel"
    <3> DEFINE r == [call[c] EXCEPT !.pc = "query", !.timer = call[c].left]
    <3>1. Become(c, r) /\ lock' = c
      BY <1>3, <2>4 DEF TakeLock
    <3>2. r \in CallRecords /\ r.pc = "query" /\ r.purpose = "query"
          /\ ShareOf(r) /\ TriedAll(r)
      BY <1>0, <2>0 DEF CallRecords, CallPlaces, ShareOf, TriedAll
    <3>3. QED
      <4> HIDE DEF r
      <4> QED
        BY <1>0, <1>flag, <1>3, <2>0, <2>4, <3>1, <3>2, MoveKeeps
          DEF TakeLock, ConnectorTypes
  <2>5. QED
    BY <2>1, <2>2, <2>3, <2>4
<1>4. CASE QueryAnswers(c)
  <2>1. PICK n \in 1..MaxAddresses, ttl \in 0..(MaxTtl + 1) :
          /\ cache' = [addresses |-> n, life |-> ClampTtl(ttl)]
          /\ Become(c, WithAddresses(c, n))
    BY <1>4 DEF QueryAnswers
  <2>2. call[c].pc = "query" /\ n \in Nat
    BY <1>4 DEF QueryAnswers
  <2>3. cache' \in [addresses : Nat, life : Nat]
    BY <2>1 DEF ClampTtl
  <2> DEFINE r == WithAddresses(c, n)
  <2>4. r \in CallRecords /\ r.pc \in {"failed", "ensure"} /\ ShareOf(r) /\ TriedAll(r)
    BY <1>0, <2>2, WithAddressesTyped
  <2>5. QED
    <3> HIDE DEF r
    <3> QED
      BY <1>0, <1>flag, <1>4, <2>1, <2>2, <2>3, <2>4, MoveKeeps
        DEF QueryAnswers, Unlock, ConnectorTypes, r
<1>5. CASE QueryCname(c)
  <2> DEFINE r == [call[c] EXCEPT !.hop = @ + 1, !.timer = QueryTimeout]
  <2>1. call[c].pc = "query" /\ via = "tunnel" /\ Become(c, r)
    BY <1>5 DEF QueryCname
  <2>2. r \in CallRecords /\ r.pc = "query" /\ r.purpose = call[c].purpose
        /\ ShareOf(r) /\ TriedAll(r)
    <3>1. PICK k \in Nat : k = call[c].hop + 1
      BY <1>0 DEF CallRecords
    <3>2. r = [call[c] EXCEPT !.hop = k, !.timer = QueryTimeout]
      BY <3>1
    <3>3. r \in CallRecords
      <4> HIDE DEF r
      <4> QED
        BY <1>0, <3>2 DEF CallRecords
    <3>4. r.pc = "query" /\ r.purpose = call[c].purpose /\ r.addresses = call[c].addresses
          /\ r.tried = call[c].tried
      BY <1>0, <2>1 DEF CallRecords
    <3>5. QED
      <4> HIDE DEF r
      <4> QED
        BY <1>0, <2>1, <3>3, <3>4 DEF ShareOf, TriedAll
  <2>3. route
    BY <2>1 DEF ConnectorInv, RouteReady
  <2>4. QED
    <3> HIDE DEF r
    <3> QED
      BY <1>0, <1>lock, <1>5, <2>1, <2>2, <2>3, MoveKeeps DEF QueryCname, ConnectorTypes
<1>6. CASE QueryFails(c)
  <2>0. call[c].pc = "query" /\ call[c].purpose = "query" /\ (flag => route)
    BY <1>0, <1>flag, <1>6 DEF QueryFails, ShareOf
  <2>1. CASE via = "tunnel" /\ call[c].server < resolvers
    <3> DEFINE r == [call[c] EXCEPT !.pc = "ensure", !.server = @ + 1, !.hop = 0,
                                    !.timer = 0]
    <3>1. Become(c, r) /\ UNCHANGED lock
      BY <1>6, <2>1 DEF QueryFails
    <3>2. r \in CallRecords /\ r.pc = "ensure" /\ r.purpose = "query"
          /\ ShareOf(r) /\ TriedAll(r)
      <4>1. PICK k \in Nat : k = call[c].server + 1
        BY <1>0 DEF CallRecords
      <4>2. r = [call[c] EXCEPT !.pc = "ensure", !.server = k, !.hop = 0, !.timer = 0]
        BY <4>1
      <4>3. r \in CallRecords
        <5> HIDE DEF r
        <5> QED
          BY <1>0, <4>2 DEF CallRecords, CallPlaces
      <4>4. r.pc = "ensure" /\ r.purpose = "query" /\ r.addresses = call[c].addresses
            /\ r.tried = call[c].tried
        BY <1>0, <2>0 DEF CallRecords
      <4>5. QED
        <5> HIDE DEF r
        <5> QED
          BY <1>0, <2>0, <4>3, <4>4 DEF ShareOf, TriedAll
    <3>3. QED
      <4> HIDE DEF r
      <4> QED
        BY <1>0, <1>6, <2>0, <3>1, <3>2, MoveKeeps DEF QueryFails, ConnectorTypes
  <2>2. CASE ~ (via = "tunnel" /\ call[c].server < resolvers)
    <3>1. Become(c, Failed(c)) /\ Unlock(c)
      BY <1>6, <2>2 DEF QueryFails
    <3>2. Failed(c) \in CallRecords /\ Failed(c).pc = "failed"
          /\ ShareOf(Failed(c)) /\ TriedAll(Failed(c))
      BY <1>0, <2>0, FailedTyped DEF ShareOf, TriedAll
    <3>3. QED
      BY <1>0, <1>6, <2>0, <3>1, <3>2, MoveKeeps DEF QueryFails, Unlock, ConnectorTypes
  <2>3. QED
    BY <2>1, <2>2
<1>7. CASE ResolveTimesOut(c)
  <2>1. call[c].pc \in {"resolve", "query"} /\ call[c].purpose = "query" /\ (flag => route)
    BY <1>0, <1>flag, <1>7 DEF ResolveTimesOut, ShareOf
  <2>2. Become(c, Failed(c)) /\ Unlock(c)
    BY <1>7 DEF ResolveTimesOut
  <2>3. Failed(c) \in CallRecords /\ Failed(c).pc = "failed"
        /\ ShareOf(Failed(c)) /\ TriedAll(Failed(c))
    BY <1>0, <2>1, FailedTyped DEF ShareOf, TriedAll
  <2>4. QED
    BY <1>0, <1>7, <2>1, <2>2, <2>3, MoveKeeps DEF ResolveTimesOut, Unlock, ConnectorTypes
<1>8. CASE EnsureRoute(c)
  <2>0. call[c].pc = "ensure"
    BY <1>8 DEF EnsureRoute
  <2>1. CASE flag
    <3>1. Become(c, Routed(c)) /\ UNCHANGED <<via, resolvers, flag, route, lock, cache, phase>>
      BY <1>8, <2>1 DEF EnsureRoute
    <3>2. /\ Routed(c) \in CallRecords /\ Routed(c).purpose = call[c].purpose
          /\ IF call[c].purpose = "query" THEN Routed(c).pc = "query"
             ELSE Routed(c).pc \in (IF c = Preflight THEN {"connected"}
                                    ELSE {"failed", "attempt"})
          /\ ShareOf(Routed(c)) /\ (c # Preflight => TriedAll(Routed(c)))
      BY <1>0, <2>0, RoutedTyped
    <3>3. QED
      BY <1>0, <1>lock, <1>flag, <2>0, <2>1, <3>1, <3>2, MoveKeeps DEF ConnectorTypes
  <2>2. CASE ~ flag
    <3> DEFINE r == [call[c] EXCEPT !.pc = "add"]
    <3>1. Become(c, r) /\ flag' = TRUE
          /\ UNCHANGED <<via, resolvers, route, lock, cache, phase>>
      BY <1>8, <2>2 DEF EnsureRoute
    <3>2. r \in CallRecords /\ r.pc = "add" /\ r.purpose = call[c].purpose
          /\ ShareOf(r) /\ c = Preflight
      BY <1>0, <2>0, <2>2 DEF CallRecords, CallPlaces, ShareOf
    <3>3. QED
      <4> HIDE DEF r
      <4> QED
        BY <1>0, <1>lock, <2>0, <3>1, <3>2, MoveKeeps DEF ConnectorTypes
  <2>3. QED
    BY <2>1, <2>2
<1>9. CASE AddRoute(c)
  <2>1. call[c].pc = "add" /\ c = Preflight /\ route' = TRUE /\ Become(c, Routed(c))
        /\ UNCHANGED <<via, resolvers, flag, lock, cache, phase>>
    BY <1>0, <1>9 DEF AddRoute
  <2>2. flag
    BY <2>1 DEF ConnectorInv, RouteFirst
  <2>3. /\ Routed(c) \in CallRecords /\ Routed(c).purpose = call[c].purpose
        /\ IF call[c].purpose = "query" THEN Routed(c).pc = "query"
           ELSE Routed(c).pc = "connected"
        /\ ShareOf(Routed(c))
    BY <1>0, <2>1, RoutedTyped
  <2>4. QED
    BY <1>0, <1>lock, <2>1, <2>2, <2>3, MoveKeeps DEF ConnectorTypes
<1>10. CASE AddRouteFails(c)
  <2>1. call[c].pc = "add" /\ c = Preflight /\ flag' = FALSE /\ Become(c, Failed(c))
        /\ Unlock(c) /\ UNCHANGED <<via, resolvers, route, cache, phase>>
    BY <1>0, <1>10 DEF AddRouteFails
  <2>2. Failed(c) \in CallRecords /\ Failed(c).pc = "failed" /\ ShareOf(Failed(c))
    BY <1>0, FailedTyped DEF ShareOf
  <2>3. QED
    BY <1>0, <2>1, <2>2, MoveKeeps DEF Unlock, ConnectorTypes
<1>11. CASE AttemptConnects(c)
  <2> DEFINE r == [call[c] EXCEPT !.pc = "connected", !.timer = 0]
  <2>1. call[c].pc = "attempt" /\ Become(c, r)
        /\ UNCHANGED <<via, resolvers, flag, route, lock, cache, phase>>
    BY <1>11 DEF AttemptConnects
  <2>2. c # Preflight
    BY <2>1 DEF ConnectorInv, RouteFirst
  <2>3. r \in CallRecords /\ r.pc = "connected" /\ ShareOf(r) /\ TriedAll(r)
    BY <1>0, <2>1 DEF CallRecords, CallPlaces, ShareOf, TriedAll
  <2>4. QED
    <3> HIDE DEF r
    <3> QED
      BY <1>0, <1>lock, <2>1, <2>2, <2>3, MoveKeeps DEF ConnectorTypes
<1>12. CASE AttemptEnds(c)
  <2>0. /\ call[c].pc = "attempt" /\ c # Preflight /\ call[c].purpose = "attempt"
        /\ UNCHANGED <<via, resolvers, flag, route, lock, cache, phase>>
    BY <1>0, <1>12 DEF AttemptEnds, ConnectorInv, RouteFirst, ShareOf
  <2>1. CASE call[c].tried = call[c].addresses
    <3>1. Become(c, Failed(c))
      BY <1>12, <2>1 DEF AttemptEnds
    <3>2. Failed(c) \in CallRecords /\ Failed(c).pc = "failed"
          /\ ShareOf(Failed(c)) /\ TriedAll(Failed(c))
      BY <1>0, <2>0, <2>1, FailedTyped DEF ShareOf, TriedAll
    <3>3. QED
      BY <1>0, <1>lock, <2>0, <3>1, <3>2, MoveKeeps DEF ConnectorTypes
  <2>2. CASE call[c].tried # call[c].addresses
    <3> DEFINE r == [call[c] EXCEPT !.pc = "ensure", !.timer = 0]
    <3>1. Become(c, r)
      BY <1>12, <2>2 DEF AttemptEnds
    <3>2. r \in CallRecords /\ r.pc = "ensure" /\ ShareOf(r) /\ TriedAll(r)
      <4>1. r \in CallRecords
        BY <1>0 DEF CallRecords, CallPlaces
      <4>2. r.pc = "ensure" /\ r.purpose = "attempt" /\ r.left = call[c].left
        BY <1>0, <2>0 DEF CallRecords
      <4>3. r.addresses = call[c].addresses /\ r.tried = call[c].tried
            /\ r.ample = call[c].ample
        BY <1>0 DEF CallRecords
      <4>4. QED
        <5> HIDE DEF r
        <5> QED
          BY <1>0, <2>0, <2>2, <4>1, <4>2, <4>3 DEF ShareOf, TriedAll, CallRecords
    <3>3. QED
      <4> HIDE DEF r
      <4> QED
        BY <1>0, <1>lock, <2>0, <3>1, <3>2, MoveKeeps DEF ConnectorTypes
  <2>3. QED
    BY <2>1, <2>2
<1>13. QED
  BY <1>1, <1>2, <1>3, <1>4, <1>5, <1>6, <1>7, <1>8, <1>9, <1>10, <1>11, <1>12 DEF CallStep

\* A millisecond that passes takes as much from a timer as from the budget.
LEMMA MillisecondKeeps == ASSUME ConnectorInv, Millisecond PROVE ConnectorInv'
<1> DEFINE Still(c) == call[c].pc \in {"rest", "failed", "connected", "done"}
           Later(c) == [call[c] EXCEPT !.left = Less(@), !.timer = Less(@)]
<1>1. \A n \in Nat : Less(n) \in Nat /\ Less(n) <= n /\ (n > 0 => Less(n) = n - 1)
  BY DEF Less
<1>2. ASSUME NEW c \in Calls
      PROVE  /\ call'[c] = IF Still(c) THEN call[c] ELSE Later(c)
             /\ call'[c] \in CallRecords
             /\ call'[c].pc = call[c].pc /\ call'[c].purpose = call[c].purpose
             /\ ShareOf(call'[c]) /\ (TriedAll(call[c]) => TriedAll(call'[c]))
  <2>1. call'[c] = IF Still(c) THEN call[c] ELSE Later(c)
    BY DEF Millisecond
  <2>2. call[c] \in CallRecords /\ ShareOf(call[c])
    BY DEF ConnectorInv, ConnectorTypes, Shares
  <2>3. CASE Still(c)
    BY <2>1, <2>2, <2>3
  <2>4. CASE ~ Still(c)
    <3>1. PICK l \in Nat, t \in Nat : l = Less(call[c].left) /\ t = Less(call[c].timer)
      BY <1>1, <2>2 DEF CallRecords
    <3>2. call'[c] = [call[c] EXCEPT !.left = l, !.timer = t]
      BY <2>1, <2>4, <3>1
    <3>3. call'[c] \in CallRecords
      BY <2>2, <3>2 DEF CallRecords
    <3>4. call'[c].pc = call[c].pc /\ call'[c].purpose = call[c].purpose
          /\ call'[c].left = l /\ call'[c].timer = t
      BY <2>2, <3>2 DEF CallRecords
    <3>5. call'[c].addresses = call[c].addresses /\ call'[c].tried = call[c].tried
          /\ call'[c].ample = call[c].ample
      BY <2>2, <3>2 DEF CallRecords
    <3>6. call[c].pc \notin {"ensure", "add"}
          /\ (call[c].pc = "attempt" => call[c].timer > 0)
      <4>1. ~ Due(c)
        BY DEF Millisecond
      <4>2. QED
        BY <2>2, <4>1 DEF Due, CallRecords
    <3>7. call[c].pc = "attempt" => l = call[c].left - 1 /\ t = call[c].timer - 1
      BY <1>1, <2>2, <3>1, <3>6 DEF ShareOf, CallRecords
    <3>8. ShareOf(call'[c])
      BY <2>2, <3>3, <3>4, <3>5, <3>6, <3>7 DEF ShareOf, CallRecords
    <3>9. TriedAll(call'[c])
      BY <2>4, <3>4 DEF TriedAll
    <3>10. QED
      BY <2>1, <3>3, <3>4, <3>8, <3>9
  <2>5. QED
    BY <2>3, <2>4
<1>3. call' \in [Calls -> CallRecords]
  <2>1. DOMAIN call' = Calls /\ call' = [c \in Calls |-> call'[c]]
    BY DEF Millisecond
  <2>2. QED
    BY <1>2, <2>1
<1>4. cache' \in [addresses : Nat, life : Nat]
  <2>1. cache \in [addresses : Nat, life : Nat]
    BY DEF ConnectorInv, ConnectorTypes
  <2>2. PICK l \in Nat : l = Less(cache.life)
    BY <1>1, <2>1
  <2>3. QED
    BY <2>1, <2>2 DEF Millisecond
<1>5. Preflight \in Calls /\ Tasks \subseteq Calls
  BY DEF Calls
<1>6. UNCHANGED <<via, resolvers, flag, route, lock, phase>>
  BY DEF Millisecond
<1>7. ConnectorTypes'
  BY <1>3, <1>4, <1>6 DEF ConnectorInv, ConnectorTypes
<1>8. RouteFirst'
  <2>1. call'[Preflight].pc = call[Preflight].pc
        /\ \A t \in Tasks : call'[t].pc = call[t].pc
    BY <1>2, <1>5
  <2>2. QED
    BY <1>6, <2>1 DEF ConnectorInv, RouteFirst
<1>9. LockHeld'
  BY <1>2, <1>6 DEF ConnectorInv, LockHeld
<1>10. Shares'
  BY <1>2, <1>5 DEF ConnectorInv, Shares
<1>11. RouteReady'
  BY <1>2, <1>6 DEF ConnectorInv, RouteReady
<1>12. QED
  BY <1>7, <1>8, <1>9, <1>10, <1>11 DEF ConnectorInv

\* The end of preflight opens the way for the tasks, with the route there.
LEMMA PreflightDoneKeeps == ASSUME ConnectorInv, PreflightDone PROVE ConnectorInv'
<1> DEFINE r == [Resting EXCEPT !.pc = "done"]
<1>1. r \in CallRecords /\ ShareOf(r) /\ r.pc = "done"
  BY DEF Resting, CallRecords, CallPlaces, ShareOf
<1>2. Preflight \in Calls /\ Tasks \subseteq Calls /\ Preflight \notin Tasks
  BY ForwardConnectAssumption DEF Calls
<1>3. Become(Preflight, r)
  BY DEF PreflightDone, Become
<1>4. /\ call' \in [Calls -> CallRecords]
      /\ call'[Preflight] = r /\ \A d \in Calls : d # Preflight => call'[d] = call[d]
  <2> HIDE DEF r
  <2> QED
    BY <1>1, <1>2, <1>3, OneMoves DEF ConnectorInv
<1> HIDE DEF r
<1>5. ConnectorTypes'
  BY <1>4 DEF PreflightDone, ConnectorInv, ConnectorTypes
<1>6. RouteFirst'
  BY <1>1, <1>2, <1>4 DEF PreflightDone, ConnectorInv, RouteFirst
<1>7. LockHeld'
  BY <1>4 DEF PreflightDone, ConnectorInv, LockHeld
<1>8. Shares'
  BY <1>1, <1>2, <1>4 DEF ConnectorInv, Shares
<1>9. RouteReady'
  BY <1>1, <1>4 DEF PreflightDone, ConnectorInv, RouteReady
<1>10. QED
  BY <1>5, <1>6, <1>7, <1>8, <1>9 DEF ConnectorInv

\* For every set of tasks, budget, timeout and number of servers, hops and
\* addresses: no call gets ahead of the route, an address that swallows packets
\* leaves the others their time, and no lock is left behind.
THEOREM CallsAlwaysSound == ConnectorSpec => []CallsSound
<1>1. ConnectorInit => ConnectorInv
  BY ConnectorStarts
<1>2. ConnectorInv /\ [ConnectorNext]_connectorVars => ConnectorInv'
  <2> SUFFICES ASSUME ConnectorInv, [ConnectorNext]_connectorVars PROVE ConnectorInv'
    OBVIOUS
  <2>1. CASE UNCHANGED connectorVars
    BY <2>1 DEF connectorVars, ConnectorInv, ConnectorTypes, RouteFirst, LockHeld, Shares,
      RouteReady
  <2>2. QED
    BY <2>1, CallKeeps, MillisecondKeeps, PreflightDoneKeeps DEF ConnectorNext
<1>3. ConnectorInv => CallsSound
  BY DEF ConnectorInv, Shares, ShareOf, TriedAll, LockHeld, CallsSound, FairShare, Calls
<1>4. QED
  BY <1>1, <1>2, <1>3, PTL DEF ConnectorSpec

-----------------------------------------------------------------------------
(* HttpForwarder. *)

\* An exchange that waits for a connection or for its response carries the
\* clean request, one that is being answered or was the clean response.
ExchangeOf(e) ==
    /\ e.at \in {"idle", "checkout", "sent", "body", "reply"}
    /\ e.at \in {"checkout", "sent"} =>
          /\ e \in [at : {e.at}, request : {e.request}, over : {e.over}, given : {e.given}]
          /\ RequestClean(e)
    /\ e.at = "body" =>
          e \in [at : {"body"}, status : {200}, over : {e.over}, given : {e.given},
                answers : {e.answers}, headers : {e.headers}, location : {e.location}]
    /\ e.at \in {"body", "reply"} /\ e.status = 200 => ReplyClean(e)

\* The response is the one to request n of the caller.
AnswersOwn(c, e, n) == e.at \in {"body", "reply"} /\ e.status = 200 => e.answers = <<c, n>>

Held == {"sent", "body"}

HttpTypes ==
    /\ DOMAIN exchange = Callers /\ exchange = [c \in Callers |-> exchange[c]]
    /\ \A c \in Callers : ExchangeOf(exchange[c]) /\ AnswersOwn(c, exchange[c], served[c])
    /\ served \in [Callers -> Nat]
    /\ pool \in [Upstreams -> {"none", "idle", "busy"}]
    /\ DOMAIN wire = Upstreams /\ wire = [u \in Upstreams |-> wire[u]]

\* The connection an exchange has is busy and nobody else's, and the target
\* owes this exchange's response on it and no other; on a connection that is
\* not busy it owes none.
Owned ==
    /\ \A c \in Callers : exchange[c].at \in Held =>
          /\ exchange[c].over \in Upstreams /\ pool[exchange[c].over] = "busy"
          /\ wire[exchange[c].over] = << <<c, served[c]>> >>
    /\ \A c, d \in Callers : exchange[c].at \in Held /\ exchange[d].at \in Held
          /\ exchange[c].over = exchange[d].over => c = d
    /\ \A u \in Upstreams : pool[u] # "busy" => wire[u] = <<>>

HttpInv == HttpTypes /\ Owned

\* Nothing is under way and no connection is open.
LEMMA HttpStarts == HttpInit => HttpInv
BY DEF HttpInit, HttpInv, HttpTypes, ExchangeOf, AnswersOwn, Held, Owned, Quiet

\* strip_hop_by_hop leaves neither a listed nor a fixed name.
LEMMA StripCleans == ASSUME NEW h PROVE Clean(StripHopByHop(h), h)
BY DEF StripHopByHop, Clean

\* Where a rewritten redirect leads.
LEMMA RedirectsClean ==
    ASSUME NEW l \in DOMAIN Leads
    PROVE  /\ Leads[RewriteLocation(l)] = "target" => l = "opaque"
           /\ Leads[RewriteLocation(l)] = "elsewhere" => Leads[l] = "elsewhere" \/ l = "slashes"
BY DEF Leads, RewriteLocation

\* What Put makes of the exchanges, when the caller's number goes with it.
LEMMA PutOne ==
    ASSUME HttpTypes, NEW c \in Callers, NEW e, ExchangeOf(e), Put(c, e),
           served' \in [Callers -> Nat], \A d \in Callers : d # c => served'[d] = served[d],
           AnswersOwn(c, e, served'[c])
    PROVE  /\ DOMAIN exchange' = Callers /\ exchange' = [d \in Callers |-> exchange'[d]]
           /\ exchange'[c] = e /\ \A d \in Callers : d # c => exchange'[d] = exchange[d]
           /\ \A d \in Callers : ExchangeOf(exchange'[d]) /\ AnswersOwn(d, exchange'[d], served'[d])
<1>1. /\ DOMAIN exchange' = Callers /\ exchange' = [d \in Callers |-> exchange'[d]]
      /\ exchange'[c] = e /\ \A d \in Callers : d # c => exchange'[d] = exchange[d]
  BY DEF Put, HttpTypes
<1>2. ASSUME NEW d \in Callers
      PROVE  ExchangeOf(exchange'[d]) /\ AnswersOwn(d, exchange'[d], served'[d])
  <2>1. CASE d = c
    BY <1>1, <2>1
  <2>2. CASE d # c
    BY <1>1, <2>2 DEF HttpTypes
  <2>3. QED
    BY <2>1, <2>2
<1>3. QED
  BY <1>1, <1>2

\* An exchange that changes without having or getting a connection.
LEMMA PutAside ==
    ASSUME HttpInv, NEW c \in Callers, NEW e, ExchangeOf(e), Put(c, e),
           served' \in [Callers -> Nat], \A d \in Callers : d # c => served'[d] = served[d],
           AnswersOwn(c, e, served'[c]),
           exchange[c].at \notin Held, e.at \notin Held, UNCHANGED <<pool, wire>>
    PROVE  HttpInv'
<1>1. /\ DOMAIN exchange' = Callers /\ exchange' = [d \in Callers |-> exchange'[d]]
      /\ exchange'[c] = e /\ \A d \in Callers : d # c => exchange'[d] = exchange[d]
      /\ \A d \in Callers : ExchangeOf(exchange'[d]) /\ AnswersOwn(d, exchange'[d], served'[d])
  BY PutOne DEF HttpInv
<1>2. HttpTypes'
  BY <1>1 DEF HttpInv, HttpTypes
<1>3. \A d \in Callers : exchange'[d].at \in Held =>
        exchange'[d] = exchange[d] /\ served'[d] = served[d]
  BY <1>1
<1>4. Owned'
  BY <1>3 DEF HttpInv, Owned
<1>5. QED
  BY <1>2, <1>4 DEF HttpInv

\* An exchange that takes a connection nobody has.
LEMMA PutTakes ==
    ASSUME HttpInv, NEW c \in Callers, NEW e, ExchangeOf(e), Put(c, e),
           exchange[c].at \notin Held, e.at = "sent", NEW u \in Upstreams, e.over = u,
           pool[u] # "busy", pool' = [pool EXCEPT ![u] = "busy"],
           wire' = [wire EXCEPT ![u] = Append(@, <<c, served[c]>>)], UNCHANGED served
    PROVE  HttpInv'
<1>0. served' \in [Callers -> Nat] /\ AnswersOwn(c, e, served'[c])
  BY DEF HttpInv, HttpTypes, AnswersOwn
<1>1. /\ DOMAIN exchange' = Callers /\ exchange' = [d \in Callers |-> exchange'[d]]
      /\ exchange'[c] = e /\ \A d \in Callers : d # c => exchange'[d] = exchange[d]
      /\ \A d \in Callers : ExchangeOf(exchange'[d]) /\ AnswersOwn(d, exchange'[d], served'[d])
  BY <1>0, PutOne DEF HttpInv
<1>2. /\ pool' \in [Upstreams -> {"none", "idle", "busy"}] /\ pool'[u] = "busy"
      /\ \A v \in Upstreams : v # u => pool'[v] = pool[v]
  BY DEF HttpInv, HttpTypes
<1>3. /\ DOMAIN wire' = Upstreams /\ wire' = [v \in Upstreams |-> wire'[v]]
      /\ wire'[u] = << <<c, served[c]>> >> /\ \A v \in Upstreams : v # u => wire'[v] = wire[v]
  <2>1. wire[u] = <<>>
    BY DEF HttpInv, Owned
  <2>2. Append(wire[u], <<c, served[c]>>) = << <<c, served[c]>> >>
    BY <2>1
  <2> DEFINE w == Append(wire[u], <<c, served[c]>>)
  <2>3. wire' = [wire EXCEPT ![u] = w]
    OBVIOUS
  <2> HIDE DEF w
  <2>4. /\ DOMAIN wire' = Upstreams /\ wire' = [v \in Upstreams |-> wire'[v]]
        /\ wire'[u] = w /\ \A v \in Upstreams : v # u => wire'[v] = wire[v]
    BY <2>3 DEF HttpInv, HttpTypes
  <2>5. QED
    BY <2>2, <2>4 DEF w
<1>4. HttpTypes'
  BY <1>0, <1>1, <1>2, <1>3 DEF HttpInv, HttpTypes
<1>5. \A d \in Callers : d # c /\ exchange'[d].at \in Held =>
        exchange'[d] = exchange[d] /\ exchange[d].over # u
  BY <1>1 DEF HttpInv, Owned
<1>6. Owned'
  BY <1>1, <1>2, <1>3, <1>5 DEF HttpInv, Owned, Held
<1>7. QED
  BY <1>4, <1>6 DEF HttpInv

\* An exchange that keeps its connection while the response is under way.
LEMMA PutStays ==
    ASSUME HttpInv, NEW c \in Callers, NEW e, ExchangeOf(e), Put(c, e),
           AnswersOwn(c, e, served[c]), exchange[c].at \in Held, e.at \in Held,
           e.over = exchange[c].over, UNCHANGED <<served, pool, wire>>
    PROVE  HttpInv'
<1>0. served' \in [Callers -> Nat]
  BY DEF HttpInv, HttpTypes
<1>1. /\ DOMAIN exchange' = Callers /\ exchange' = [d \in Callers |-> exchange'[d]]
      /\ exchange'[c] = e /\ \A d \in Callers : d # c => exchange'[d] = exchange[d]
      /\ \A d \in Callers : ExchangeOf(exchange'[d]) /\ AnswersOwn(d, exchange'[d], served'[d])
  BY <1>0, PutOne DEF HttpInv
<1>2. HttpTypes'
  BY <1>0, <1>1 DEF HttpInv, HttpTypes
<1>3. \A d \in Callers : exchange'[d].at \in Held =>
        exchange[d].at \in Held /\ exchange'[d].over = exchange[d].over
  BY <1>1
<1>4. Owned'
  BY <1>3 DEF HttpInv, Owned
<1>5. QED
  BY <1>2, <1>4 DEF HttpInv

\* An exchange that ends and leaves its connection idle or closed, with nothing
\* to come on it.
LEMMA PutLeaves ==
    ASSUME HttpInv, NEW c \in Callers, NEW e, ExchangeOf(e), Put(c, e),
           served' \in [Callers -> Nat], \A d \in Callers : d # c => served'[d] = served[d],
           AnswersOwn(c, e, served'[c]),
           exchange[c].at \in Held, e.at \notin Held, NEW after \in {"idle", "none"},
           pool' = [pool EXCEPT ![exchange[c].over] = after],
           wire' = [wire EXCEPT ![exchange[c].over] = <<>>]
    PROVE  HttpInv'
<1> DEFINE u == exchange[c].over
<1>0. u \in Upstreams /\ pool[u] = "busy"
  BY DEF HttpInv, Owned
<1>1. /\ DOMAIN exchange' = Callers /\ exchange' = [d \in Callers |-> exchange'[d]]
      /\ exchange'[c] = e /\ \A d \in Callers : d # c => exchange'[d] = exchange[d]
      /\ \A d \in Callers : ExchangeOf(exchange'[d]) /\ AnswersOwn(d, exchange'[d], served'[d])
  BY PutOne DEF HttpInv
<1>2. /\ pool' \in [Upstreams -> {"none", "idle", "busy"}] /\ pool'[u] = after
      /\ \A v \in Upstreams : v # u => pool'[v] = pool[v]
  BY <1>0 DEF HttpInv, HttpTypes
<1>3. /\ DOMAIN wire' = Upstreams /\ wire' = [v \in Upstreams |-> wire'[v]]
      /\ wire'[u] = <<>> /\ \A v \in Upstreams : v # u => wire'[v] = wire[v]
  BY <1>0 DEF HttpInv, HttpTypes
<1>4. HttpTypes'
  BY <1>1, <1>2, <1>3 DEF HttpInv, HttpTypes
<1>5. \A d \in Callers : exchange'[d].at \in Held =>
        d # c /\ exchange'[d] = exchange[d] /\ exchange[d].over # u /\ served'[d] = served[d]
  BY <1>1 DEF HttpInv, Owned
<1>6. Owned'
  <2>1. \A d \in Callers : exchange'[d].at \in Held =>
          /\ exchange'[d].over \in Upstreams /\ pool'[exchange'[d].over] = "busy"
          /\ wire'[exchange'[d].over] = << <<d, served'[d]>> >>
    BY <1>2, <1>3, <1>5 DEF HttpInv, Owned
  <2>2. \A d, f \in Callers : exchange'[d].at \in Held /\ exchange'[f].at \in Held
          /\ exchange'[d].over = exchange'[f].over => d = f
    BY <1>5 DEF HttpInv, Owned
  <2>3. \A v \in Upstreams : pool'[v] # "busy" => wire'[v] = <<>>
    BY <1>2, <1>3 DEF HttpInv, Owned
  <2>4. QED
    BY <2>1, <2>2, <2>3 DEF Owned
<1>7. QED
  BY <1>4, <1>6 DEF HttpInv

\* A step of a caller that neither sends nor answers keeps the invariant.
LEMMA AsideKeeps ==
    ASSUME HttpInv, NEW c \in Callers, Receive(c) \/ DialFails(c) \/ Reply(c)
    PROVE  HttpInv'
<1>quiet. ExchangeOf(Quiet) /\ Quiet.at \notin Held /\ \A n \in Nat : AnswersOwn(c, Quiet, n)
  BY DEF ExchangeOf, Quiet, Held, AnswersOwn
<1>failed. ASSUME NEW code \in {400, 502, 504}
           PROVE  LET e == [at |-> "reply", status |-> code]
                  IN  ExchangeOf(e) /\ e.at \notin Held /\ \A n \in Nat : AnswersOwn(c, e, n)
  BY DEF ExchangeOf, Held, AnswersOwn
<1>typed. served \in [Callers -> Nat] /\ served[c] \in Nat
  BY DEF HttpInv, HttpTypes
<1>1. CASE Receive(c)
  <2>1. exchange[c].at \notin Held /\ UNCHANGED <<served, pool, wire>>
    BY <1>1, <1>quiet DEF Receive
  <2>2. PICK r \in Requests :
          \/ Fail(c, 400)
          \/ Put(c, [at |-> "checkout", request |-> Rewrite(r), over |-> None, given |-> r])
    BY <1>1 DEF Receive
  <2>3. CASE Fail(c, 400)
    BY <1>typed, <1>failed, <2>1, <2>3, PutAside DEF Fail
  <2>4. CASE Put(c, [at |-> "checkout", request |-> Rewrite(r), over |-> None, given |-> r])
    <3> DEFINE e == [at |-> "checkout", request |-> Rewrite(r), over |-> None, given |-> r]
    <3>1. e.at = "checkout" /\ e.request = Rewrite(r) /\ e.given = r
      OBVIOUS
    <3>2. Rewrite(r).host = "target" /\ Rewrite(r).headers = StripHopByHop(r.headers)
      BY DEF Rewrite, Requests
    <3>3. RequestClean(e)
      BY <3>1, <3>2, StripCleans DEF RequestClean
    <3>4. ExchangeOf(e)
      BY <3>3 DEF ExchangeOf
    <3>5. QED
      <4> HIDE DEF e
      <4>1. Put(c, e) /\ e.at \notin Held /\ AnswersOwn(c, e, served[c])
        BY <2>4, <3>1 DEF e, Held, AnswersOwn
      <4>2. QED
        BY <1>typed, <2>1, <3>4, <4>1, PutAside
  <2>5. QED
    BY <2>2, <2>3, <2>4
<1>2. CASE DialFails(c)
  <2>1. PICK code \in {502, 504} : Fail(c, code)
    BY <1>2 DEF DialFails
  <2>2. exchange[c].at \notin Held /\ UNCHANGED <<served, pool, wire>>
    BY <1>2 DEF DialFails, Held
  <2>3. QED
    BY <1>typed, <1>failed, <2>1, <2>2, PutAside DEF Fail
<1>3. CASE Reply(c)
  <2>1. exchange[c].at \notin Held /\ UNCHANGED <<pool, wire>>
    BY <1>3 DEF Reply, Held
  <2>2. /\ served' \in [Callers -> Nat] /\ served'[c] \in Nat
        /\ \A d \in Callers : d # c => served'[d] = served[d]
    BY <1>3, <1>typed DEF Reply
  <2>3. QED
    BY <1>3, <1>quiet, <2>1, <2>2, PutAside DEF Reply
<1>4. QED
  BY <1>1, <1>2, <1>3

\* A request that is sent takes a connection that is idle or new.
LEMMA SendKeeps ==
    ASSUME HttpInv, NEW c \in Callers, Reuse(c) \/ Dial(c)
    PROVE  HttpInv'
<1>1. exchange[c].at = "checkout" /\ UNCHANGED served
  BY DEF Reuse, Dial
<1>2. PICK u \in Upstreams : pool[u] # "busy" /\ Over(c, u)
  BY DEF Reuse, Dial
<1> DEFINE e == [exchange[c] EXCEPT !.at = "sent", !.over = u]
<1>3. /\ exchange[c] \in [at : {exchange[c].at}, request : {exchange[c].request},
                          over : {exchange[c].over}, given : {exchange[c].given}]
      /\ RequestClean(exchange[c])
  BY <1>1 DEF HttpInv, HttpTypes, ExchangeOf
<1>4. e \in [at : {"sent"}, request : {exchange[c].request}, over : {u},
             given : {exchange[c].given}]
  BY <1>3
<1>5. Put(c, e) /\ pool' = [pool EXCEPT ![u] = "busy"]
      /\ wire' = [wire EXCEPT ![u] = Append(@, <<c, served[c]>>)]
  BY <1>2 DEF Over
<1> HIDE DEF e
<1>6. e.at = "sent" /\ e.over = u /\ e.request = exchange[c].request
      /\ e.given = exchange[c].given
  BY <1>4
<1>7. ExchangeOf(e)
  BY <1>3, <1>4, <1>6 DEF ExchangeOf, RequestClean
<1>8. QED
  BY <1>1, <1>2, <1>5, <1>6, <1>7, PutTakes DEF Held

\* A response that begins is the one the target owes first, and that is the
\* answer to this exchange's request.
LEMMA AnswerKeeps ==
    ASSUME HttpInv, NEW c \in Callers, Answer(c)
    PROVE  HttpInv'
<1>1. exchange[c].at = "sent" /\ UNCHANGED <<served, pool, wire>>
  BY DEF Answer
<1>2. PICK r \in Responses :
        Put(c, [at |-> "body", status |-> 200, over |-> exchange[c].over, given |-> r,
                answers |-> Head(wire[exchange[c].over]),
                headers |-> StripHopByHop(r.headers),
                location |-> RewriteLocation(r.location)])
  BY DEF Answer
<1> DEFINE e == [at |-> "body", status |-> 200, over |-> exchange[c].over, given |-> r,
                 answers |-> Head(wire[exchange[c].over]),
                 headers |-> StripHopByHop(r.headers),
                 location |-> RewriteLocation(r.location)]
<1>3. Head(wire[exchange[c].over]) = <<c, served[c]>>
  <2>1. wire[exchange[c].over] = << <<c, served[c]>> >>
    BY <1>1 DEF HttpInv, Owned, Held
  <2>2. QED
    BY <2>1
<1>4. /\ e.at = "body" /\ e.given = r /\ e.headers = StripHopByHop(r.headers)
      /\ e.location = RewriteLocation(r.location) /\ e.over = exchange[c].over
      /\ e.answers = <<c, served[c]>>
  BY <1>3
<1>5. Put(c, e)
  BY <1>2
<1>6. e \in [at : {"body"}, status : {200}, over : {e.over}, given : {e.given},
             answers : {e.answers}, headers : {e.headers}, location : {e.location}]
  OBVIOUS
<1> HIDE DEF e
<1>7. ReplyClean(e)
  <2>1. r.location \in DOMAIN Leads
    BY DEF Responses
  <2>2. QED
    BY <1>4, <2>1, StripCleans, RedirectsClean DEF ReplyClean
<1>8. ExchangeOf(e) /\ AnswersOwn(c, e, served[c]) /\ e.at \in Held
  BY <1>4, <1>6, <1>7 DEF ExchangeOf, AnswersOwn, Held
<1>9. QED
  BY <1>1, <1>4, <1>5, <1>8, PutStays DEF Held

\* A connection that an exchange leaves has nothing to come, because it had
\* nothing but the response that was read or because it is closed.
LEMMA LeaveKeeps ==
    ASSUME HttpInv, NEW c \in Callers, BodyEnds(c) \/ Breaks(c) \/ (Hangup(c) /\ Holds(c))
    PROVE  HttpInv'
<1>0. exchange[c].at \in Held
  BY DEF BodyEnds, Breaks, Holds, Held
<1>1. served \in [Callers -> Nat] /\ served[c] \in Nat
  BY DEF HttpInv, HttpTypes
<1>2. CASE BodyEnds(c)
  <2> DEFINE e == [exchange[c] EXCEPT !.at = "reply"]
             u == exchange[c].over
  <2>1. /\ exchange[c].at = "body" /\ ReplyClean(exchange[c])
        /\ exchange[c] \in [at : {"body"}, status : {200}, over : {exchange[c].over},
                            given : {exchange[c].given}, answers : {exchange[c].answers},
                            headers : {exchange[c].headers},
                            location : {exchange[c].location}]
    <3>1. exchange[c].at = "body" /\ ExchangeOf(exchange[c])
      BY <1>2 DEF BodyEnds, HttpInv, HttpTypes
    <3>2. QED
      BY <3>1 DEF ExchangeOf
  <2>2. exchange[c].answers = <<c, served[c]>>
    BY <2>1 DEF HttpInv, HttpTypes, AnswersOwn
  <2>3. e.at = "reply" /\ e.given = exchange[c].given /\ e.headers = exchange[c].headers
        /\ e.location = exchange[c].location /\ e.answers = exchange[c].answers
    BY <2>1
  <2>4. Put(c, e) /\ UNCHANGED served
    BY <1>2 DEF BodyEnds
  <2>5. PICK after \in {"idle", "none"} :
          pool' = [pool EXCEPT ![u] = after] /\ wire' = [wire EXCEPT ![u] = <<>>]
    <3>1. wire[u] = << <<c, served[c]>> >>
      BY <1>0 DEF HttpInv, Owned
    <3>2. Tail(wire[u]) = <<>>
      BY <3>1
    <3>3. QED
      BY <1>2, <3>2 DEF BodyEnds, Close
  <2> HIDE DEF e
  <2>6. ExchangeOf(e) /\ e.at \notin Held /\ AnswersOwn(c, e, served[c])
    BY <2>1, <2>2, <2>3 DEF ExchangeOf, ReplyClean, Held, AnswersOwn
  <2>7. QED
    BY <1>0, <1>1, <2>4, <2>5, <2>6, PutLeaves
<1>3. CASE Breaks(c)
  <2>1. PICK code \in {502, 504} : Put(c, [at |-> "reply", status |-> code])
    BY <1>3 DEF Breaks, Fail
  <2> DEFINE e == [at |-> "reply", status |-> code]
  <2>2. ExchangeOf(e) /\ e.at \notin Held /\ AnswersOwn(c, e, served[c]) /\ Put(c, e)
    BY <2>1 DEF ExchangeOf, Held, AnswersOwn
  <2>3. /\ UNCHANGED served /\ pool' = [pool EXCEPT ![exchange[c].over] = "none"]
        /\ wire' = [wire EXCEPT ![exchange[c].over] = <<>>]
    BY <1>3 DEF Breaks, Close
  <2> HIDE DEF e
  <2>4. /\ served' \in [Callers -> Nat] /\ AnswersOwn(c, e, served'[c])
        /\ \A d \in Callers : d # c => served'[d] = served[d]
    BY <1>1, <2>2, <2>3
  <2>5. QED
    BY <1>0, <2>2, <2>3, <2>4, PutLeaves
<1>4. CASE Hangup(c) /\ Holds(c)
  <2>1. ExchangeOf(Quiet) /\ Quiet.at \notin Held /\ \A n \in Nat : AnswersOwn(c, Quiet, n)
    BY DEF ExchangeOf, Quiet, Held, AnswersOwn
  <2>2. /\ Put(c, Quiet) /\ served' \in [Callers -> Nat] /\ served'[c] \in Nat
        /\ \A d \in Callers : d # c => served'[d] = served[d]
    BY <1>1, <1>4, HttpForwardAssumption DEF Hangup
  <2>3. /\ pool' = [pool EXCEPT ![exchange[c].over] = "none"]
        /\ wire' = [wire EXCEPT ![exchange[c].over] = <<>>]
    BY <1>4 DEF Hangup, Close
  <2>4. QED
    BY <1>0, <2>1, <2>2, <2>3, PutLeaves
<1>5. QED
  BY <1>2, <1>3, <1>4

\* A caller that goes away without a connection disturbs nothing.
LEMMA HangupKeeps ==
    ASSUME HttpInv, NEW c \in Callers, Hangup(c), ~ Holds(c)
    PROVE  HttpInv'
<1>1. ExchangeOf(Quiet) /\ Quiet.at \notin Held /\ \A n \in Nat : AnswersOwn(c, Quiet, n)
  BY DEF ExchangeOf, Quiet, Held, AnswersOwn
<1>2. /\ Put(c, Quiet) /\ served' \in [Callers -> Nat] /\ served'[c] \in Nat
      /\ \A d \in Callers : d # c => served'[d] = served[d]
  BY HttpForwardAssumption DEF Hangup, HttpInv, HttpTypes
<1>3. exchange[c].at \notin Held /\ UNCHANGED <<pool, wire>>
  BY DEF Hangup, Holds, Held
<1>4. QED
  BY <1>1, <1>2, <1>3, PutAside

\* Only a connection that nobody uses is closed by the target.
LEMMA ClosedKeeps ==
    ASSUME HttpInv, NEW u \in Upstreams, IdleClosed(u)
    PROVE  HttpInv'
<1>1. /\ pool' \in [Upstreams -> {"none", "idle", "busy"}] /\ pool'[u] = "none"
      /\ pool[u] = "idle" /\ \A v \in Upstreams : v # u => pool'[v] = pool[v]
  BY DEF IdleClosed, Close, HttpInv, HttpTypes
<1>2. /\ DOMAIN wire' = Upstreams /\ wire' = [v \in Upstreams |-> wire'[v]]
      /\ wire'[u] = <<>> /\ \A v \in Upstreams : v # u => wire'[v] = wire[v]
  BY DEF IdleClosed, Close, HttpInv, HttpTypes
<1>3. UNCHANGED <<exchange, served>>
  BY DEF IdleClosed
<1>4. HttpTypes'
  BY <1>1, <1>2, <1>3 DEF HttpInv, HttpTypes
<1>5. Owned'
  BY <1>1, <1>2, <1>3 DEF HttpInv, Owned
<1>6. QED
  BY <1>4, <1>5 DEF HttpInv

\* For every number of callers, connections, requests and CA files: each
\* response that a caller gets answers the request it has under way, whatever
\* connections were reused and whatever exchanges were given up in the middle;
\* requests name the target as their host; no message keeps a hop-by-hop header
\* that is fixed or readably listed; and a redirect within the target stays
\* with the forwarder where rewrite_location can read it.
THEOREM ProxyAlwaysSound == HttpSpec => []ProxySound
<1>1. HttpInit => HttpInv
  BY HttpStarts
<1>2. HttpInv /\ [HttpNext]_httpVars => HttpInv'
  <2> SUFFICES ASSUME HttpInv, [HttpNext]_httpVars PROVE HttpInv'
    OBVIOUS
  <2>1. CASE BuildTls \/ HttpDone \/ UNCHANGED httpVars
    <3>1. UNCHANGED <<exchange, served, pool, wire>>
      BY <2>1 DEF BuildTls, HttpDone, httpVars
    <3>2. QED
      BY <3>1 DEF HttpInv, HttpTypes, Owned
  <2>2. CASE \E c \in Callers : Receive(c) \/ DialFails(c) \/ Reply(c)
    BY <2>2, AsideKeeps
  <2>3. CASE \E c \in Callers : Reuse(c) \/ Dial(c)
    BY <2>3, SendKeeps
  <2>4. CASE \E c \in Callers : Answer(c)
    BY <2>4, AnswerKeeps
  <2>5. CASE \E c \in Callers : BodyEnds(c) \/ Breaks(c)
    BY <2>5, LeaveKeeps
  <2>6. CASE \E c \in Callers : Hangup(c)
    BY <2>6, LeaveKeeps, HangupKeeps
  <2>7. CASE \E u \in Upstreams : IdleClosed(u)
    BY <2>7, ClosedKeeps
  <2>8. QED
    BY <2>1, <2>2, <2>3, <2>4, <2>5, <2>6, <2>7 DEF HttpNext
<1>3. HttpInv => ProxySound
  <2> SUFFICES ASSUME HttpInv, NEW c \in Callers
      PROVE  LET e == exchange[c] IN
             /\ e.at \in {"checkout", "sent"} => RequestClean(e)
             /\ e.at \in {"body", "reply"} /\ e.status = 200 =>
                    e.answers = <<c, served[c]>> /\ ReplyClean(e)
    BY DEF ProxySound
  <2>1. ExchangeOf(exchange[c]) /\ AnswersOwn(c, exchange[c], served[c])
    BY DEF HttpInv, HttpTypes
  <2>2. QED
    BY <2>1 DEF ExchangeOf, AnswersOwn
<1>4. QED
  BY <1>1, <1>2, <1>3, PTL DEF HttpSpec

=============================================================================
