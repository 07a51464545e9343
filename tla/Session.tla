------------------------------- MODULE Session -------------------------------
(***************************************************************************)
(* One authenticated iWAN session: ConnectedSession::run and the threads   *)
(* it owns (src/src/client.rs).                                            *)
(*                                                                         *)
(*   main    the caller of run: activates the device, spawns the workers,  *)
(*           runs receive_loop, sends CLOSE, joins, deactivates            *)
(*   sender  spawn_packet_sender: device.read_packet -> socket.send        *)
(*   worker  spawn_traditional_heartbeat or spawn_sr_monitor               *)
(*                                                                         *)
(* The threads share the flag `running`, the failure channel, and the      *)
(* liveness tracker behind its mutex.  Every load, store, channel          *)
(* operation, lock section and socket call is a step of its own.           *)
(*                                                                         *)
(* Time is counted in ticks.  A tick may fall between any two steps,       *)
(* because a thread may be descheduled anywhere; the ages saturate above   *)
(* the largest value the code compares them with.                          *)
(***************************************************************************)
EXTENDS Integers, Sequences, FiniteSets

CONSTANTS
    Interval,      \* HEARTBEAT_INTERVAL, SR_MONITOR_PERIOD, in ticks
    MaxMisses,     \* HEARTBEAT_MAX_MISSES
    Timeout,       \* HEARTBEAT_TIMEOUT, in ticks
    PeerDownAfter, \* SR_PEER_DOWN_AFTER, in ticks
    Modes          \* the kinds of session that are explored

AllModes == {"traditional", "sr_monitor", "sr_quiet"}

\* HEARTBEAT_TIMEOUT is 20 s = 10 misses of 2 s.
ASSUME SessionAssumption ==
    /\ Interval \in Nat \ {0}
    /\ MaxMisses \in Nat \ {0}
    /\ Timeout \in Nat
    /\ PeerDownAfter \in Nat
    /\ MaxMisses * Interval <= Timeout
    /\ Modes \subseteq AllModes

VARIABLES
    mode,       \* traditional heartbeat, SR with keepalive, SR without
    main,       \* program counter of the caller of run
    outcome,    \* what run returns: "none", a SessionEnd or "Error"
    external,   \* the external_shutdown flag
    running,    \* ConnectedSession::running
    failures,   \* the mpsc channel of WorkerFailure
    sender,     \* program counter of the packet sender
    unsent,     \* datagrams of the current packet still to send
    worker,     \* program counter of the heartbeat or SR monitor worker
    waited,     \* ticks spent in the worker's wait_interruptibly
    missed,     \* HeartbeatTracker::missed
    age,        \* ticks since last_response (since the start before one)
    monitor,    \* SrMonitor::state
    device,     \* PacketDevice between activate_session and deactivate
    closeSent,  \* ConnectedSession::close_sent
    closes      \* CLOSE datagrams handed to the socket

mainVars   == <<main, outcome, device>>
closeVars  == <<closeSent, closes>>
sendVars   == <<sender, unsent>>
workVars   == <<worker, waited>>
trackVars  == <<missed, age, monitor>>
vars == <<mode, mainVars, external, running, failures, sendVars, workVars,
          trackVars, closeVars>>

\* The largest value an age is compared with, plus one.
AgeCap == (IF Timeout > PeerDownAfter THEN Timeout ELSE PeerDownAfter) + 1

SessionEnd == {"LocalShutdown", "ServerClose", "HeartbeatTimeout",
               "TransportFailure"}
WorkerFailure == {"HeartbeatTimeout", "TransportFailure"}
MonitorState == {"Idle", "Probing", "Established", "PeerDown"}
MainPc == {"activate", "spawn_sender", "spawn_worker", "check_flags",
           "check_failures", "recv", "stop", "close", "join_sender",
           "join_worker", "drop", "deactivate", "returned"}
SenderPc == {"none", "top", "read", "send", "done"}
WorkerPc == {"none", "top", "wait", "beat", "send", "halt", "done"}

Fail(f) == failures' = Append(failures, f)

-----------------------------------------------------------------------------
(* Setup: run and the first half of run_active. *)

Init ==
    /\ mode \in Modes
    /\ main = "activate" /\ outcome = "none" /\ device = "inactive"
    /\ external \in BOOLEAN
    /\ running = TRUE
    /\ failures = <<>>
    /\ sender = "none" /\ unsent = 0
    /\ worker = "none" /\ waited = 0
    /\ missed = 0 /\ age = 0 /\ monitor = "Idle"
    /\ closeSent = FALSE /\ closes = 0

\* device.activate_session succeeds; run_active creates the trackers.
Activate ==
    /\ main = "activate"
    /\ main' = "spawn_sender"
    /\ device' = "active"
    /\ age' = 0
    /\ UNCHANGED <<mode, outcome, external, running, failures, sendVars,
                   workVars, missed, monitor, closeVars>>

\* device.activate_session fails: run returns early and self is dropped.
ActivateFails ==
    /\ main = "activate"
    /\ main' = "drop"
    /\ outcome' = "Error"
    /\ UNCHANGED <<mode, device, external, running, failures, sendVars,
                   workVars, trackVars, closeVars>>

SpawnSender ==
    /\ main = "spawn_sender"
    /\ \/ /\ main' = "spawn_worker"
          /\ sender' = "top"
          /\ UNCHANGED outcome
       \/ /\ main' = "drop"              \* thread::Builder::spawn failed
          /\ outcome' = "Error"
          /\ UNCHANGED sender
    /\ UNCHANGED <<mode, device, external, running, failures, unsent,
                   workVars, trackVars, closeVars>>

\* A session without SR keepalive has no second worker.  The SR monitor
\* takes its own `started` instant, so its age restarts here.
SpawnWorker ==
    /\ main = "spawn_worker"
    /\ main' = "check_flags"
    /\ worker' = IF mode = "sr_quiet" THEN "none" ELSE "top"
    /\ age' = IF mode = "sr_monitor" THEN 0 ELSE age
    /\ UNCHANGED <<mode, outcome, device, external, running, failures,
                   sendVars, waited, missed, monitor, closeVars>>

\* The second spawn fails: running is cleared and the sender joined.
SpawnWorkerFails ==
    /\ main = "spawn_worker" /\ mode # "sr_quiet"
    /\ main' = "join_sender"
    /\ outcome' = "Error"
    /\ running' = FALSE
    /\ UNCHANGED <<mode, device, external, failures, sendVars, workVars,
                   trackVars, closeVars>>

-----------------------------------------------------------------------------
(* receive_loop. *)

End(e) == main' = "stop" /\ outcome' = e

CheckFlags ==
    /\ main = "check_flags"
    /\ IF external \/ ~running
         THEN End("LocalShutdown")
         ELSE main' = "check_failures" /\ UNCHANGED outcome
    /\ UNCHANGED <<mode, device, external, running, failures, sendVars,
                   workVars, trackVars, closeVars>>

\* Mutant: every report is taken for a heartbeat timeout.
CheckFailuresConfused ==
    /\ main = "check_failures"
    /\ IF failures # <<>>
         THEN End("HeartbeatTimeout") /\ failures' = Tail(failures)
         ELSE main' = "recv" /\ UNCHANGED <<outcome, failures>>
    /\ UNCHANGED <<mode, device, external, running, sendVars, workVars,
                   trackVars, closeVars>>

CheckFailures ==
    /\ main = "check_failures"
    /\ IF failures # <<>>
         THEN End(Head(failures)) /\ failures' = Tail(failures)
         ELSE main' = "recv" /\ UNCHANGED <<outcome, failures>>
    /\ UNCHANGED <<mode, device, external, running, sendVars, workVars,
                   trackVars, closeVars>>

\* What a receive that leaves the tracker alone leads to: the poll timeout,
\* a malformed datagram, one of another session tuple, an invalid or
\* unexpected one, a delivered data packet and an answered request continue;
\* a socket error, a failed or short device write and a failed reply end
\* the session; so does CLOSE.
RecvOther ==
    /\ main = "recv"
    /\ \/ main' = "check_flags" /\ UNCHANGED outcome
       \/ End("TransportFailure")
       \/ End("ServerClose")
    /\ UNCHANGED <<mode, device, external, running, failures, sendVars,
                   workVars, trackVars, closeVars>>

\* HeartbeatTracker::observe under the tracker's mutex.
ObserveHeartbeat ==
    /\ main = "recv" /\ mode = "traditional"
    /\ main' = "check_flags"
    /\ missed' = 0
    /\ age' = 0
    /\ UNCHANGED <<mode, outcome, device, external, running, failures,
                   sendVars, workVars, monitor, closeVars>>

\* SrMonitor::accept_response; the monitor exists even when no worker
\* sends requests.
AcceptSrResponse ==
    /\ main = "recv" /\ mode # "traditional"
    /\ main' = "check_flags"
    /\ age' = 0
    /\ monitor' = "Established"
    /\ UNCHANGED <<mode, outcome, device, external, running, failures,
                   sendVars, workVars, missed, closeVars>>

-----------------------------------------------------------------------------
(* Teardown: the second half of run_active, Drop, the end of run. *)

StopWorkers ==
    /\ main = "stop"
    /\ main' = "close"
    /\ running' = FALSE
    /\ UNCHANGED <<mode, outcome, device, external, failures, sendVars,
                   workVars, trackVars, closeVars>>

\* Mutant: the close_sent flag is stored instead of swapped.
SendCloseEveryTime ==
    /\ closeSent' = TRUE
    /\ closes' = closes + 1

\* send_close_once: only the first caller that swaps the flag sends.
SendCloseOnce ==
    /\ closeSent' = TRUE
    /\ closes' = IF closeSent THEN closes ELSE closes + 1

CloseSession ==
    /\ main = "close"
    /\ main' = "join_sender"
    /\ SendCloseOnce
    /\ UNCHANGED <<mode, outcome, device, external, running, failures,
                   sendVars, workVars, trackVars>>

\* Mutant: the heartbeat worker's handle is dropped instead of joined.
JoinSenderOnly ==
    /\ main = "join_sender" /\ sender = "done"
    /\ main' = "drop"
    /\ UNCHANGED <<mode, outcome, device, external, running, failures,
                   sendVars, workVars, trackVars, closeVars>>

JoinSender ==
    /\ main = "join_sender" /\ sender = "done"
    /\ main' = IF worker = "none" THEN "drop" ELSE "join_worker"
    /\ UNCHANGED <<mode, outcome, device, external, running, failures,
                   sendVars, workVars, trackVars, closeVars>>

JoinWorker ==
    /\ main = "join_worker" /\ worker = "done"
    /\ main' = "drop"
    /\ UNCHANGED <<mode, outcome, device, external, running, failures,
                   sendVars, workVars, trackVars, closeVars>>

\* Drop for ConnectedSession, at the end of run_active or of a run whose
\* activation failed; the latter never deactivates the device.
DropSession ==
    /\ main = "drop"
    /\ main' = IF device = "active" THEN "deactivate" ELSE "returned"
    /\ running' = FALSE
    /\ SendCloseOnce
    /\ UNCHANGED <<mode, outcome, device, external, failures, sendVars,
                   workVars, trackVars>>

\* A failed deactivation turns a session end into an error.
Deactivate ==
    /\ main = "deactivate"
    /\ main' = "returned"
    /\ device' = "inactive"
    /\ outcome' \in {outcome, "Error"}
    /\ UNCHANGED <<mode, external, running, failures, sendVars, workVars,
                   trackVars, closeVars>>

-----------------------------------------------------------------------------
(* spawn_packet_sender. *)

\* Mutant: the sender loops without loading `running`.
SenderTopForever ==
    /\ sender = "top"
    /\ sender' = "read"
    /\ UNCHANGED <<mode, mainVars, external, running, failures, unsent,
                   workVars, trackVars, closeVars>>

SenderTop ==
    /\ sender = "top"
    /\ sender' = IF running THEN "read" ELSE "done"
    /\ UNCHANGED <<mode, mainVars, external, running, failures, unsent,
                   workVars, trackVars, closeVars>>

\* Nothing to read, an interrupted read, a malformed packet or one that
\* cannot be encapsulated return to the loop condition; a packet becomes one
\* datagram, or two SR fragments; any other read error is reported.
SenderRead ==
    /\ sender = "read"
    /\ \/ /\ sender' = "top"
          /\ UNCHANGED <<unsent, failures>>
       \/ /\ sender' = "send"
          /\ unsent' \in IF mode = "traditional" THEN {1} ELSE {1, 2}
          /\ UNCHANGED failures
       \/ /\ sender' = "done"
          /\ Fail("TransportFailure")
          /\ UNCHANGED unsent
    /\ UNCHANGED <<mode, mainVars, external, running, workVars, trackVars,
                   closeVars>>

\* Mutant: one datagram too many is taken from the planned ones.
SenderSendOneMore ==
    /\ sender = "send"
    /\ unsent' = unsent - 1
    /\ sender' = IF unsent = 0 THEN "top" ELSE "send"
    /\ UNCHANGED <<mode, mainVars, external, running, failures, workVars,
                   trackVars, closeVars>>

\* A failed send is reported without clearing `running`.
SenderSend ==
    /\ sender = "send"
    /\ \/ /\ unsent' = unsent - 1
          /\ sender' = IF unsent = 1 THEN "top" ELSE "send"
          /\ UNCHANGED failures
       \/ /\ sender' = "done"
          /\ Fail("TransportFailure")
          /\ UNCHANGED unsent
    /\ UNCHANGED <<mode, mainVars, external, running, workVars, trackVars,
                   closeVars>>

-----------------------------------------------------------------------------
(* spawn_traditional_heartbeat and spawn_sr_monitor. *)

\* The heartbeat waits before its first request, the monitor after it.
WorkerTop ==
    /\ worker = "top"
    /\ worker' = IF ~running THEN "done"
                 ELSE IF mode = "traditional" THEN "wait" ELSE "beat"
    /\ waited' = 0
    /\ UNCHANGED <<mode, mainVars, external, running, failures, sendVars,
                   trackVars, closeVars>>

\* wait_interruptibly returns once the interval has passed or running is
\* cleared; the heartbeat then loads running again before it locks.
WorkerWake ==
    /\ worker = "wait" /\ (waited = Interval \/ ~running)
    /\ worker' = IF mode # "traditional" THEN "top"
                 ELSE IF running THEN "beat" ELSE "done"
    /\ UNCHANGED <<mode, mainVars, external, running, failures, sendVars,
                   waited, trackVars, closeVars>>

\* Mutant: the miss that is about to be counted is counted twice.
TimedOutEarly == missed + 1 >= MaxMisses \/ age > Timeout

\* HeartbeatTracker::timed_out.
TimedOut == missed >= MaxMisses \/ age > Timeout

\* timed_out and request_body, in one section of the tracker's mutex.
Heartbeat ==
    /\ worker = "beat" /\ mode = "traditional"
    /\ IF TimedOut
         THEN /\ Fail("HeartbeatTimeout")
              /\ worker' = "halt"
              /\ UNCHANGED missed
         ELSE /\ missed' = missed + 1
              /\ worker' = "send"
              /\ UNCHANGED failures
    /\ UNCHANGED <<mode, mainVars, external, running, sendVars, waited, age,
                   monitor, closeVars>>

\* SrMonitor::update_peer_state; last_response is None until a response has
\* been accepted, which is when the state first becomes Established.
UpdatedPeerState ==
    IF monitor = "Established" /\ age > PeerDownAfter THEN "PeerDown"
                                                      ELSE monitor

\* Mutant: a peer that never answered is not given up.
MonitorBeatPatient ==
    /\ worker = "beat" /\ mode = "sr_monitor"
    /\ LET s == UpdatedPeerState IN
       IF s = "PeerDown"
         THEN /\ Fail("HeartbeatTimeout")
              /\ monitor' = s
              /\ worker' = "halt"
         ELSE /\ monitor' = IF s = "Idle" THEN "Probing" ELSE s
              /\ worker' = "send"
              /\ UNCHANGED failures
    /\ UNCHANGED <<mode, mainVars, external, running, sendVars, waited,
                   missed, age, closeVars>>

\* update_peer_state, the down decision and request, under the mutex.
MonitorBeat ==
    /\ worker = "beat" /\ mode = "sr_monitor"
    /\ LET s == UpdatedPeerState IN
       IF s = "PeerDown" \/ (s = "Probing" /\ age > PeerDownAfter)
         THEN /\ Fail("HeartbeatTimeout")
              /\ monitor' = s
              /\ worker' = "halt"
         ELSE /\ monitor' = IF s = "Idle" THEN "Probing" ELSE s
              /\ worker' = "send"
              /\ UNCHANGED failures
    /\ UNCHANGED <<mode, mainVars, external, running, sendVars, waited,
                   missed, age, closeVars>>

WorkerSend ==
    /\ worker = "send"
    /\ \/ /\ worker' = IF mode = "traditional" THEN "top" ELSE "wait"
          /\ waited' = 0
          /\ UNCHANGED failures
       \/ /\ worker' = "halt"
          /\ Fail("TransportFailure")
          /\ UNCHANGED waited
    /\ UNCHANGED <<mode, mainVars, external, running, sendVars, trackVars,
                   closeVars>>

\* The store that follows a report: a step of its own.
WorkerHalt ==
    /\ worker = "halt"
    /\ worker' = "done"
    /\ running' = FALSE
    /\ UNCHANGED <<mode, mainVars, external, failures, sendVars, waited,
                   trackVars, closeVars>>

-----------------------------------------------------------------------------
(* The environment: the owner of the shutdown flag, and time. *)

RequestShutdown ==
    /\ ~external /\ main # "returned"
    /\ external' = TRUE
    /\ UNCHANGED <<mode, mainVars, running, failures, sendVars, workVars,
                   trackVars, closeVars>>

Tick ==
    /\ main # "returned"
    /\ age' = IF age < AgeCap THEN age + 1 ELSE age
    /\ waited' = IF worker = "wait" /\ waited < Interval THEN waited + 1
                                                         ELSE waited
    /\ UNCHANGED <<mode, mainVars, external, running, failures, sendVars,
                   worker, missed, monitor, closeVars>>

Done == main = "returned" /\ UNCHANGED vars

Main == \/ Activate \/ ActivateFails \/ SpawnSender \/ SpawnWorker
        \/ SpawnWorkerFails \/ CheckFlags \/ CheckFailures \/ RecvOther
        \/ ObserveHeartbeat \/ AcceptSrResponse \/ StopWorkers
        \/ CloseSession \/ JoinSender \/ JoinWorker \/ DropSession
        \/ Deactivate
Sender == SenderTop \/ SenderRead \/ SenderSend
Worker == WorkerTop \/ WorkerWake \/ Heartbeat \/ MonitorBeat \/ WorkerSend
          \/ WorkerHalt

Next == Main \/ Sender \/ Worker \/ RequestShutdown \/ Tick \/ Done

\* Every thread runs and time passes: reads of the device and of the socket
\* never block for good (non-blocking TUN, receive_poll timeout).
Fairness == WF_vars(Main) /\ WF_vars(Sender) /\ WF_vars(Worker)
            /\ WF_vars(Tick)

Spec == Init /\ [][Next]_vars
FairSpec == Spec /\ Fairness

-----------------------------------------------------------------------------
(* Properties. *)

\* The variables keep their types; the channel holds at most one report of
\* each of the two workers, so nothing blocks on it.
TypeOK ==
    /\ mode \in AllModes
    /\ main \in MainPc /\ outcome \in SessionEnd \cup {"none", "Error"}
    /\ device \in {"inactive", "active"}
    /\ external \in BOOLEAN /\ running \in BOOLEAN
    /\ failures \in Seq(WorkerFailure) /\ Len(failures) <= 2
    /\ sender \in SenderPc /\ unsent \in 0..2
    /\ worker \in WorkerPc /\ waited \in 0..Interval
    /\ missed \in 0..MaxMisses /\ age \in 0..AgeCap
    /\ monitor \in MonitorState
    /\ closeSent \in BOOLEAN /\ closes \in Nat

\* However a session ends (refused activation, failed spawn, peer close,
\* worker failure, shutdown), it has sent exactly one CLOSE when run
\* returns: run_active and Drop both call send_close_once.
ClosedOnce == main \in {"deactivate", "returned"} => closes = 1

\* Every spawned worker is joined before the device is deactivated: while a
\* worker can still touch the device, the device is active and run has not
\* reached Drop.
WorkersInsideActivation ==
    sender \notin {"none", "done"} \/ worker \notin {"none", "done"}
        => /\ device = "active"
           /\ main \notin {"drop", "deactivate", "returned"}

\* The heartbeat never gives a traditional session up early: although it
\* counts misses, a timeout is only reported when at least
\* MaxMisses * Interval has passed since the last response.
NoEarlyTimeout ==
    [][mode = "traditional" /\ worker = "beat" /\ worker' = "halt"
         => age >= MaxMisses * Interval]_vars

\* A session that ends reports why: LocalShutdown is returned only when the
\* shared shutdown flag was set ("Session workers report failure through a
\* channel", docs/ARCHITECTURE.md).
FailureReported == outcome = "LocalShutdown" => external

\* A shutdown request, a worker failure or a cleared flag makes run return,
\* with both workers joined.
StopsEventually ==
    external \/ failures # <<>> \/ ~running ~> main = "returned"

\* A peer that stops answering ends the session, unless it is an SR session
\* without keepalive, which has no worker to notice.
SilentPeerEnds ==
    mode # "sr_quiet" /\ <>[](age > 0) => <>(main = "returned")

\* The threads of a session keep the promise run makes to its caller.
Contract == INSTANCE SessionContract WITH
    status <- IF main = "returned" THEN "returned"
              ELSE IF closes > 0 THEN "closed"
              ELSE IF device = "active" THEN "active" ELSE "idle",
    causes <- IF main = "returned" THEN {}
              ELSE {failures[i] : i \in DOMAIN failures}
                   \cup ({outcome} \ {"none", "Error", "LocalShutdown"}),
    end <- IF main = "returned" THEN outcome ELSE "none",
    shutdown <- external
ImplementsContract == Contract!ContractSpec

=============================================================================
