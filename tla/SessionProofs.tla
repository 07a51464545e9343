---------------------------- MODULE SessionProofs ----------------------------
(***************************************************************************)
(* The safety of one session, for every interval, miss count and timeout.  *)
(***************************************************************************)
EXTENDS Session, TLAPS

\* Where the threads are for each position of the caller of run: no worker
\* before its spawn, none but finished ones after its join.
ThreadsFollowMain ==
    /\ main \in {"activate", "spawn_sender"}
         => sender = "none" /\ worker = "none"
    /\ main = "spawn_worker" => worker = "none"
    /\ main = "join_worker" => sender = "done"
    /\ main \in {"drop", "deactivate", "returned"}
         => sender \in {"none", "done"} /\ worker \in {"none", "done"}

\* The device is active from a successful activation to the deactivation.
DeviceFollowsMain ==
    /\ main \in MainPc \ {"activate", "drop", "returned"} => device = "active"
    /\ main = "activate" => device = "inactive"

\* close_sent records whether CLOSE was sent, and Drop sets it.
CloseFlag ==
    /\ closes = IF closeSent THEN 1 ELSE 0
    /\ main \in {"deactivate", "returned"} => closeSent

\* A worker that can still report has not reported yet.
ReportsOnce ==
    Len(failures) <= (IF sender = "done" THEN 1 ELSE 0)
                     + (IF worker \in {"halt", "done"} THEN 1 ELSE 0)

\* The time the misses counted so far have taken, given where the
\* heartbeat worker is in its cycle.
CyclePart == IF worker = "wait" THEN waited
             ELSE IF worker = "beat" THEN Interval ELSE 0
MissesTakeTime ==
    mode = "traditional" /\ missed > 0
        => age >= (missed - 1) * Interval + CyclePart

\* Type correctness without the bound on the channel, which is ReportsOnce.
Types ==
    /\ mode \in AllModes
    /\ main \in MainPc /\ outcome \in SessionEnd \cup {"none", "Error"}
    /\ device \in {"inactive", "active"}
    /\ external \in BOOLEAN /\ running \in BOOLEAN
    /\ failures \in Seq(WorkerFailure)
    /\ sender \in SenderPc /\ unsent \in 0..2
    /\ sender = "send" => unsent > 0
    /\ worker \in WorkerPc /\ waited \in 0..Interval
    /\ worker = "beat" /\ mode = "traditional" => waited = Interval
    /\ missed \in 0..MaxMisses /\ age \in 0..AgeCap
    /\ worker = "none" => missed = 0
    /\ monitor \in MonitorState
    /\ closeSent \in BOOLEAN /\ closes \in Nat

IInv == /\ Types /\ ThreadsFollowMain /\ DeviceFollowsMain /\ CloseFlag
        /\ ReportsOnce /\ MissesTakeTime

StructInv == /\ Types /\ ThreadsFollowMain /\ DeviceFollowsMain
             /\ CloseFlag /\ ReportsOnce

-----------------------------------------------------------------------------

\* The ages are bounded by a natural number above both limits.
LEMMA AgeCapType == AgeCap \in Nat /\ Timeout < AgeCap /\ PeerDownAfter < AgeCap
BY SessionAssumption DEF AgeCap

\* The steps of the caller of run keep every part of the invariant that is
\* not about time.
LEMMA MainKeepsStruct == ASSUME IInv, Main PROVE StructInv'
<1> USE SessionAssumption, AgeCapType DEF StructInv, IInv, Types, ThreadsFollowMain,
      DeviceFollowsMain, CloseFlag, ReportsOnce, MainPc, SenderPc, WorkerPc,
      AllModes, SessionEnd, MonitorState, mainVars, closeVars, sendVars,
      workVars, trackVars
<1>1. CASE Activate
  BY <1>1 DEF Activate
<1>2. CASE ActivateFails
  BY <1>2 DEF ActivateFails
<1>3. CASE SpawnSender
  BY <1>3 DEF SpawnSender
<1>4. CASE SpawnWorker
  BY <1>4 DEF SpawnWorker
<1>5. CASE SpawnWorkerFails
  <2>1. /\ main = "spawn_worker" /\ main' = "join_sender" /\ ~ running' /\ UNCHANGED worker
    BY <1>5 DEF SpawnWorkerFails
  <2>2. QED
    BY <1>5, <2>1 DEF SpawnWorkerFails
<1>6. CASE CheckFlags
  BY <1>6 DEF CheckFlags, End
<1>7. CASE CheckFailures
  BY <1>7 DEF CheckFailures, End, WorkerFailure, SessionEnd
<1>8. CASE RecvOther
  BY <1>8 DEF RecvOther, End
<1>9. CASE ObserveHeartbeat
  BY <1>9 DEF ObserveHeartbeat
<1>10. CASE AcceptSrResponse
  BY <1>10 DEF AcceptSrResponse
<1>11. CASE StopWorkers
  <2>1. Types'
    <3>1. running' \in BOOLEAN
      BY <1>11, Zenon DEF StopWorkers
    <3>2. QED
      BY <1>11, <3>1 DEF StopWorkers
  <2>2. ThreadsFollowMain' /\ DeviceFollowsMain'
    BY <1>11 DEF StopWorkers
  <2>3. CloseFlag'
    BY <1>11 DEF StopWorkers
  <2>4. ReportsOnce'
    BY <1>11 DEF StopWorkers
  <2>5. QED
    BY <2>1, <2>2, <2>3, <2>4
<1>12. CASE CloseSession
  BY <1>12 DEF CloseSession, SendCloseOnce
<1>13. CASE JoinSender
  BY <1>13 DEF JoinSender
<1>14. CASE JoinWorker
  BY <1>14 DEF JoinWorker
<1>15. CASE DropSession
  <2>1. Types'
    <3>1. running' \in BOOLEAN
      BY <1>15, Zenon DEF DropSession
    <3>2. QED
      BY <1>15, <3>1 DEF DropSession, SendCloseOnce
  <2>2. ThreadsFollowMain' /\ DeviceFollowsMain'
    BY <1>15 DEF DropSession, SendCloseOnce
  <2>3. CloseFlag'
    BY <1>15 DEF DropSession, SendCloseOnce
  <2>4. ReportsOnce'
    BY <1>15 DEF DropSession, SendCloseOnce
  <2>5. QED
    BY <2>1, <2>2, <2>3, <2>4
<1>16. CASE Deactivate
  BY <1>16 DEF Deactivate
<1>17. QED
  BY <1>1, <1>2, <1>3, <1>4, <1>5, <1>6, <1>7, <1>8, <1>9, <1>10, <1>11, <1>12, <1>13, <1>14, <1>15, <1>16 DEF Main

\* So do the steps of the packet sender.
LEMMA SenderKeepsStruct == ASSUME IInv, Sender PROVE StructInv'
<1> USE SessionAssumption, AgeCapType DEF StructInv, IInv, Types, ThreadsFollowMain,
      DeviceFollowsMain, CloseFlag, ReportsOnce, MainPc, SenderPc, WorkerPc,
      AllModes, SessionEnd, MonitorState, mainVars, closeVars, sendVars,
      workVars, trackVars
<1>1. CASE SenderTop
  BY <1>1 DEF SenderTop
<1>2. CASE SenderRead
  BY <1>2 DEF SenderRead, Fail, WorkerFailure
<1>3. CASE SenderSend
  BY <1>3 DEF SenderSend, Fail, WorkerFailure
<1>4. QED
  BY <1>1, <1>2, <1>3 DEF Sender

\* So do the steps of the heartbeat and monitor worker.
LEMMA WorkerKeepsStruct == ASSUME IInv, Worker PROVE StructInv'
<1> USE SessionAssumption, AgeCapType DEF StructInv, IInv, Types, ThreadsFollowMain,
      DeviceFollowsMain, CloseFlag, ReportsOnce, MainPc, SenderPc, WorkerPc,
      AllModes, SessionEnd, MonitorState, mainVars, closeVars, sendVars,
      workVars, trackVars
<1>1. CASE WorkerTop
  BY <1>1 DEF WorkerTop
<1>2. CASE WorkerWake
  BY <1>2 DEF WorkerWake
<1>3. CASE Heartbeat
  BY <1>3 DEF Heartbeat, Fail, WorkerFailure, TimedOut
<1>4. CASE MonitorBeat
  BY <1>4 DEF MonitorBeat, Fail, WorkerFailure, UpdatedPeerState
<1>5. CASE WorkerSend
  BY <1>5 DEF WorkerSend, Fail, WorkerFailure
<1>6. CASE WorkerHalt
  <2>1. Types'
    <3>1. running' \in BOOLEAN
      BY <1>6, Zenon DEF WorkerHalt
    <3>2. QED
      BY <1>6, <3>1 DEF WorkerHalt
  <2>2. ThreadsFollowMain' /\ DeviceFollowsMain'
    BY <1>6 DEF WorkerHalt
  <2>3. CloseFlag'
    BY <1>6 DEF WorkerHalt
  <2>4. ReportsOnce'
    BY <1>6 DEF WorkerHalt
  <2>5. QED
    BY <2>1, <2>2, <2>3, <2>4
<1>7. QED
  BY <1>1, <1>2, <1>3, <1>4, <1>5, <1>6 DEF Worker

\* So do the environment's steps and stuttering.
LEMMA EnvironmentKeepsStruct ==
    ASSUME IInv, RequestShutdown \/ Tick \/ UNCHANGED vars PROVE StructInv'
<1> USE SessionAssumption, AgeCapType DEF StructInv, IInv, Types,
      ThreadsFollowMain, DeviceFollowsMain, CloseFlag, ReportsOnce, MainPc,
      SenderPc, WorkerPc, AllModes, SessionEnd, MonitorState, mainVars,
      closeVars, sendVars, workVars, trackVars
<1>1. CASE RequestShutdown
  <2>1. external' \in BOOLEAN
    BY <1>1, Zenon DEF RequestShutdown
  <2>2. QED
    BY <1>1, <2>1 DEF RequestShutdown
<1>2. CASE Tick
  BY <1>2 DEF Tick
<1>3. CASE UNCHANGED vars
  BY <1>3 DEF vars
<1>4. QED
  BY <1>1, <1>2, <1>3

\* One more miss takes one more interval.
LEMMA OneMoreInterval ==
    ASSUME NEW m \in Nat, NEW i \in Nat
    PROVE  /\ m * i \in Nat
           /\ m * i + i = (m + 1) * i
           /\ \A n \in Nat : m <= n => m * i <= n * i
BY SMT

\* Every step keeps the relation between the misses and the time that has
\* passed since the last response.
LEMMA NextKeepsMisses ==
    ASSUME IInv, [Next]_vars PROVE MissesTakeTime'
<1> DEFINE spent == (missed - 1) * Interval
<1> SUFFICES ASSUME mode' = "traditional", missed' > 0
             PROVE  age' >= (missed' - 1) * Interval + CyclePart'
  BY DEF MissesTakeTime
<1> USE SessionAssumption, AgeCapType DEF IInv, Types, mainVars, closeVars,
      sendVars, workVars, trackVars
<1>1. /\ missed \in Nat /\ age \in Nat /\ waited \in Nat
      /\ Interval \in Nat /\ MaxMisses \in Nat
  BY DEF Types
<1>2. missed > 0 => /\ spent \in Nat
                    /\ spent + Interval = missed * Interval
                    /\ missed * Interval <= MaxMisses * Interval
  <2>1. ASSUME missed > 0 PROVE (missed - 1) \in Nat
    BY <1>1, <2>1
  <2>2. missed <= MaxMisses
    BY <1>1
  <2>3. QED
    BY <1>1, <2>1, <2>2, OneMoreInterval
<1> HIDE DEF spent
<1>3. mode = "traditional"
  BY DEF Next, Main, Sender, Worker, vars, Activate, ActivateFails,
    SpawnSender, SpawnWorker, SpawnWorkerFails, CheckFlags, CheckFailures,
    RecvOther, ObserveHeartbeat, AcceptSrResponse, StopWorkers, CloseSession,
    JoinSender, JoinWorker, DropSession, Deactivate, SenderTop, SenderRead,
    SenderSend, WorkerTop, WorkerWake, Heartbeat, MonitorBeat, WorkerSend,
    WorkerHalt, RequestShutdown, Tick, Done
<1>4. missed > 0 => age >= spent + CyclePart
  BY <1>3 DEF MissesTakeTime, spent
<1>5. 0 * Interval = 0 /\ (missed + 1) - 1 = missed
  BY <1>1
<1> DEFINE same == UNCHANGED <<worker, waited, missed, age>>
<1>6. CASE same
  BY <1>4, <1>6 DEF CyclePart, spent
<1>7. CASE Main
  <2>1. CASE Activate
    BY <2>1 DEF Activate, ThreadsFollowMain
  <2>2. CASE SpawnWorker
    BY <2>2 DEF SpawnWorker, ThreadsFollowMain
  <2>3. CASE ObserveHeartbeat
    BY <2>3 DEF ObserveHeartbeat
  <2>4. CASE AcceptSrResponse
    BY <2>4, <1>3 DEF AcceptSrResponse
  <2>5. CASE ~(Activate \/ SpawnWorker \/ ObserveHeartbeat \/ AcceptSrResponse)
    <3>1. same
      BY <1>7, <2>5 DEF Main, ActivateFails, SpawnSender, SpawnWorkerFails,
        CheckFlags, CheckFailures, RecvOther, StopWorkers, CloseSession,
        JoinSender, JoinWorker, DropSession, Deactivate
    <3>2. QED
      BY <3>1, <1>6
  <2>6. QED
    BY <2>1, <2>2, <2>3, <2>4, <2>5
<1>8. CASE Sender
  <2>1. same
    BY <1>8 DEF Sender, SenderTop, SenderRead, SenderSend
  <2>2. QED
    BY <2>1, <1>6
<1>9. CASE Worker
  <2>1. CASE WorkerTop
    BY <1>1, <1>2, <1>4, <2>1 DEF WorkerTop, CyclePart, spent
  <2>2. CASE WorkerWake
    BY <1>1, <1>2, <1>3, <1>4, <2>2 DEF WorkerWake, CyclePart, spent
  <2>3. CASE Heartbeat
    <3>1. CASE TimedOut
      BY <1>1, <1>2, <1>4, <2>3, <3>1 DEF Heartbeat, CyclePart, spent
    <3>2. CASE ~TimedOut
      <4>1. /\ missed' = missed + 1 /\ age' = age /\ CyclePart' = 0
            /\ CyclePart = Interval
        BY <2>3, <3>2 DEF Heartbeat, CyclePart
      <4>2. CASE missed = 0
        BY <1>1, <1>5, <4>1, <4>2
      <4>3. CASE missed > 0
        BY <1>1, <1>2, <1>4, <1>5, <4>1, <4>3
      <4>4. QED
        BY <1>1, <4>2, <4>3
    <3>3. QED
      BY <3>1, <3>2
  <2>4. CASE MonitorBeat
    BY <1>3, <2>4 DEF MonitorBeat
  <2>5. CASE WorkerSend
    BY <1>1, <1>2, <1>3, <1>4, <2>5 DEF WorkerSend, CyclePart, spent
  <2>6. CASE WorkerHalt
    BY <1>1, <1>2, <1>4, <2>6 DEF WorkerHalt, CyclePart, spent
  <2>7. QED
    BY <1>9, <2>1, <2>2, <2>3, <2>4, <2>5, <2>6 DEF Worker
<1>10. CASE Tick
  <2>1. missed' = missed /\ worker' = worker
    BY <1>10 DEF Tick
  <2>2. missed > 0
    BY <2>1
  <2>3. spent + CyclePart' <= MaxMisses * Interval
    BY <1>1, <1>2, <2>1, <2>2, <1>10 DEF Tick, CyclePart
  <2>4. CASE age < AgeCap
    BY <1>1, <1>2, <1>4, <2>1, <2>2, <2>4, <1>10 DEF Tick, CyclePart, spent
  <2>5. CASE age = AgeCap
    <3>1. age' = AgeCap
      BY <2>5, <1>10 DEF Tick
    <3>2. CyclePart' \in Nat /\ MaxMisses * Interval \in Nat
      BY <1>1, <2>1, <1>10, OneMoreInterval DEF Tick, CyclePart
    <3>3. age' >= spent + CyclePart'
      BY <1>2, <2>2, <2>3, <3>1, <3>2
    <3>4. QED
      BY <2>1, <3>3 DEF spent
  <2>6. QED
    BY <1>1, <2>4, <2>5
<1>11. CASE RequestShutdown \/ Done \/ UNCHANGED vars
  <2>1. same
    BY <1>11 DEF RequestShutdown, Done, vars
  <2>2. QED
    BY <2>1, <1>6
<1>12. QED
  BY <1>7, <1>8, <1>9, <1>10, <1>11 DEF Next

\* The inductive invariant holds initially.
LEMMA InitEstablishes == Init => IInv
<1> SUFFICES ASSUME Init PROVE IInv
  OBVIOUS
<1> USE SessionAssumption, AgeCapType DEF Init
<1>1. Types
  <2>1. running \in BOOLEAN /\ external \in BOOLEAN /\ closeSent \in BOOLEAN
    BY Zenon
  <2>2. QED
    BY <2>1 DEF Types, MainPc, SenderPc, WorkerPc, AllModes, SessionEnd,
      MonitorState
<1>2. ThreadsFollowMain /\ DeviceFollowsMain /\ CloseFlag
  BY DEF ThreadsFollowMain, DeviceFollowsMain, CloseFlag, MainPc
<1>3. ReportsOnce /\ MissesTakeTime
  BY DEF ReportsOnce, MissesTakeTime
<1>4. QED
  BY <1>1, <1>2, <1>3 DEF IInv

\* Every step of every thread keeps the inductive invariant.
LEMMA NextKeeps == IInv /\ [Next]_vars => IInv'
<1> SUFFICES ASSUME IInv, [Next]_vars PROVE IInv'
  OBVIOUS
<1>1. StructInv'
  BY MainKeepsStruct, SenderKeepsStruct, WorkerKeepsStruct,
     EnvironmentKeepsStruct DEF Next, Done
<1>2. QED
  BY <1>1, NextKeepsMisses DEF IInv, StructInv

\* The inductive invariant is an invariant of the session.
THEOREM Inductive == Spec => []IInv
BY InitEstablishes, NextKeeps, PTL DEF Spec

\* Type correctness of a session, the bound on the failure channel included.
THEOREM TypeCorrect == Spec => []TypeOK
<1>1. IInv => TypeOK
  BY DEF IInv, Types, TypeOK, ReportsOnce
<1>2. QED
  BY <1>1, Inductive, PTL

\* Exactly one CLOSE has been sent when run deactivates the device or
\* returns, on every path through run, run_active and Drop.
THEOREM OneClose == Spec => []ClosedOnce
<1>1. IInv => ClosedOnce
  BY DEF IInv, Types, CloseFlag, ClosedOnce
<1>2. QED
  BY <1>1, Inductive, PTL

\* No worker outlives the activation of the device it uses.
THEOREM WorkersBracketed == Spec => []WorkersInsideActivation
<1>1. IInv => WorkersInsideActivation
  BY DEF IInv, Types, ThreadsFollowMain, DeviceFollowsMain, MainPc,
     WorkersInsideActivation
<1>2. QED
  BY <1>1, Inductive, PTL

\* The heartbeat never reports a timeout before MaxMisses intervals have
\* passed without a response, for every interval and every miss limit.
THEOREM TimeoutIsLate == Spec => NoEarlyTimeout
<1>1. IInv /\ [Next]_vars
        => [mode = "traditional" /\ worker = "beat" /\ worker' = "halt"
              => age >= MaxMisses * Interval]_vars
  <2> SUFFICES ASSUME IInv, [Next]_vars, mode = "traditional",
                      worker = "beat", worker' = "halt"
               PROVE  age >= MaxMisses * Interval
    OBVIOUS
  <2>1. Heartbeat
    BY DEF Next, Main, Sender, Worker, vars, Activate, ActivateFails,
      SpawnSender, SpawnWorker, SpawnWorkerFails, CheckFlags, CheckFailures,
      RecvOther, ObserveHeartbeat, AcceptSrResponse, StopWorkers,
      CloseSession, JoinSender, JoinWorker, DropSession, Deactivate,
      SenderTop, SenderRead, SenderSend, WorkerTop, WorkerWake, MonitorBeat,
      WorkerSend, WorkerHalt, RequestShutdown, Tick, Done, IInv, Types,
      ThreadsFollowMain, mainVars, closeVars, sendVars, workVars, trackVars
  <2>2. TimedOut
    BY <2>1 DEF Heartbeat
  <2>3. CASE age > Timeout
    BY <2>3, SessionAssumption, AgeCapType DEF IInv, Types
  <2>4. CASE missed >= MaxMisses
    <3>1. missed = MaxMisses /\ missed > 0 /\ missed - 1 \in Nat
      BY <2>4, SessionAssumption DEF IInv, Types
    <3>2. age >= (missed - 1) * Interval + Interval
      BY <3>1 DEF IInv, MissesTakeTime, CyclePart
    <3>3. (missed - 1) * Interval + Interval = missed * Interval
      BY <3>1, SessionAssumption, OneMoreInterval
    <3>4. QED
      BY <3>1, <3>2, <3>3
  <2>5. QED
    BY <2>2, <2>3, <2>4 DEF TimedOut
<1>2. QED
  BY <1>1, Inductive, PTL DEF Spec, NoEarlyTimeout

-----------------------------------------------------------------------------
(* The session implements its contract. *)

\* What run returns is decided once, when the caller leaves receive_loop or
\* gives up before it.
Deciding == {"activate", "spawn_sender", "spawn_worker", "check_flags",
             "check_failures", "recv"}
OutcomeFollowsMain == main \in Deciding <=> outcome = "none"

\* No CLOSE before the outcome is decided, nor before the step that sends it.
OpenWhileDeciding == main \in Deciding \cup {"stop", "close"} => ~closeSent

\* A session whose activation failed has no cause but the error.
RefusedIsClean ==
    /\ main = "activate" => failures = <<>>
    /\ main = "drop" /\ device = "inactive"
         => outcome = "Error" /\ failures = <<>> /\ ~closeSent

\* A worker clears the flag after its report, and only receive_loop takes
\* reports out: as long as it has not, the report is in the channel.
ReportPending ==
    main \in Deciding /\ (worker = "halt" \/ ~running) => failures # <<>>

\* LocalShutdown is returned for a request or next to a report.
ShutdownExplained == outcome = "LocalShutdown" => external \/ failures # <<>>

RInv == /\ OutcomeFollowsMain /\ OpenWhileDeciding /\ RefusedIsClean
        /\ ReportPending /\ ShutdownExplained

\* The strengthened invariant holds initially.
LEMMA InitRInv == Init => RInv
<1> SUFFICES ASSUME Init PROVE RInv
  OBVIOUS
<1>1. ~closeSent /\ running
  BY Zenon DEF Init
<1>2. QED
  BY <1>1 DEF Init, RInv, OutcomeFollowsMain, OpenWhileDeciding,
    RefusedIsClean, ReportPending, ShutdownExplained, Deciding

\* A channel that was sent a report is not empty.
LEMMA ReportAppended ==
    ASSUME NEW s \in Seq(WorkerFailure), NEW f \in WorkerFailure
    PROVE  Append(s, f) # <<>>
<1>1. Len(Append(s, f)) = Len(s) + 1 /\ Len(s) \in Nat
  OBVIOUS
<1>2. Len(<<>>) = 0
  OBVIOUS
<1>3. QED
  BY <1>1, <1>2

\* Every step keeps it.
LEMMA NextKeepsRInv == ASSUME IInv, RInv, [Next]_vars PROVE RInv'
<1> USE DEF RInv, OutcomeFollowsMain, OpenWhileDeciding, RefusedIsClean,
      ReportPending, ShutdownExplained, Deciding, IInv, Types, mainVars,
      closeVars, sendVars, workVars, trackVars, SessionEnd
<1>1. CASE Main
  <2>1. CASE Activate \/ ActivateFails
    BY <2>1 DEF Activate, ActivateFails, ThreadsFollowMain, DeviceFollowsMain
  <2>2. CASE SpawnSender \/ SpawnWorker \/ SpawnWorkerFails
    BY <2>2 DEF SpawnSender, SpawnWorker, SpawnWorkerFails, DeviceFollowsMain,
      ThreadsFollowMain, MainPc
  <2>3. CASE CheckFlags
    BY <2>3 DEF CheckFlags, End
  <2>4. CASE CheckFailures
    BY <2>4 DEF CheckFailures, End, WorkerFailure
  <2>5. CASE RecvOther \/ ObserveHeartbeat \/ AcceptSrResponse
    BY <2>5 DEF RecvOther, ObserveHeartbeat, AcceptSrResponse, End
  <2>6. CASE StopWorkers \/ CloseSession
    BY <2>6 DEF StopWorkers, CloseSession, SendCloseOnce
  <2>7. CASE JoinSender \/ JoinWorker
    BY <2>7 DEF JoinSender, JoinWorker, DeviceFollowsMain, MainPc
  <2>8. CASE DropSession \/ Deactivate
    BY <2>8 DEF DropSession, Deactivate, SendCloseOnce
  <2>9. QED
    BY <1>1, <2>1, <2>2, <2>3, <2>4, <2>5, <2>6, <2>7, <2>8 DEF Main
<1>2. CASE Sender
  BY <1>2, ReportAppended DEF Sender, SenderTop, SenderRead, SenderSend, Fail,
    WorkerFailure, ThreadsFollowMain
<1>3. CASE Worker
  <2>1. CASE WorkerTop \/ WorkerWake
    BY <2>1 DEF WorkerTop, WorkerWake
  <2>2. CASE Heartbeat
    BY <2>2, ReportAppended DEF Heartbeat, Fail, WorkerFailure, ThreadsFollowMain
  <2>3. CASE MonitorBeat
    BY <2>3, ReportAppended DEF MonitorBeat, Fail, WorkerFailure,
      ThreadsFollowMain
  <2>4. CASE WorkerSend
    BY <2>4, ReportAppended DEF WorkerSend, Fail, WorkerFailure, ThreadsFollowMain
  <2>5. CASE WorkerHalt
    BY <2>5 DEF WorkerHalt
  <2>6. QED
    BY <1>3, <2>1, <2>2, <2>3, <2>4, <2>5 DEF Worker
<1>4. CASE RequestShutdown
  BY <1>4 DEF RequestShutdown
<1>5. CASE Tick \/ Done \/ UNCHANGED vars
  BY <1>5 DEF Tick, Done, vars
<1>6. QED
  BY <1>1, <1>2, <1>3, <1>4, <1>5 DEF Next


\* The reports in the channel, as a set.
Reported == {failures[i] : i \in DOMAIN failures}

\* Sending a report adds it.
LEMMA ReportSent ==
    ASSUME failures \in Seq(WorkerFailure), NEW f \in WorkerFailure, Fail(f)
    PROVE  Reported' = Reported \cup {f}
<1> USE DEF Fail, Reported
<1>1. DOMAIN failures' = DOMAIN failures \cup {Len(failures) + 1}
  OBVIOUS
<1>2. failures'[Len(failures) + 1] = f
  OBVIOUS
<1>3. \A i \in DOMAIN failures : failures'[i] = failures[i]
  OBVIOUS
<1> HIDE DEF Fail
<1>4. QED
  BY <1>1, <1>2, <1>3

\* Taking the first one takes that one only: a set of reports with its first
\* one is the same before and after.
LEMMA ReportTaken ==
    ASSUME failures \in Seq(WorkerFailure), failures # <<>>,
           failures' = Tail(failures)
    PROVE  /\ Reported = Reported' \cup {Head(failures)}
           /\ Head(failures) \in WorkerFailure
<1> USE DEF Reported
<1>1. Len(failures) \in Nat \ {0} /\ DOMAIN failures = 1..Len(failures)
  OBVIOUS
<1>2. DOMAIN failures' = 1..(Len(failures) - 1)
  BY <1>1
<1>3. \A i \in DOMAIN failures' : failures'[i] = failures[i + 1] /\ i + 1 \in DOMAIN failures
  BY <1>1, <1>2
<1>4. Head(failures) = failures[1] /\ 1 \in DOMAIN failures
  BY <1>1
<1>5. \A i \in DOMAIN failures : i = 1 \/ (i - 1 \in DOMAIN failures' /\ failures'[i - 1] = failures[i])
  BY <1>1, <1>2, <1>3
<1>6. Reported \subseteq Reported' \cup {Head(failures)}
  <2> SUFFICES ASSUME NEW i \in DOMAIN failures
               PROVE  failures[i] \in Reported' \cup {Head(failures)}
    OBVIOUS
  <2>1. CASE i = 1
    BY <1>4, <2>1
  <2>2. CASE i # 1
    <3>1. i - 1 \in DOMAIN failures' /\ failures'[i - 1] = failures[i]
      BY <1>5, <2>2
    <3>2. QED
      BY <3>1
  <2>3. QED
    BY <2>1, <2>2
<1>7. Reported' \cup {Head(failures)} \subseteq Reported
  BY <1>3, <1>4
<1>8. Head(failures) \in WorkerFailure
  BY <1>4
<1> HIDE DEF Reported
<1>9. QED
  BY <1>6, <1>7, <1>8

\* The state of the contract that a state of the threads stands for.
Status == IF main = "returned" THEN "returned"
          ELSE IF closes > 0 THEN "closed"
          ELSE IF device = "active" THEN "active" ELSE "idle"
Causes == IF main = "returned" THEN {}
          ELSE Reported \cup ({outcome} \ {"none", "Error", "LocalShutdown"})
Returned == IF main = "returned" THEN outcome ELSE "none"

\* The steps of the contract, in these terms.
Stutters == UNCHANGED <<Status, Causes, Returned, external>>
Occurs == /\ Status \in {"active", "closed"}
          /\ \E c \in WorkerFailure \cup {"ServerClose"} : Causes' = Causes \cup {c}
          /\ UNCHANGED <<Status, Returned, external>>
Moves(from, to) == /\ Status = from /\ Status' = to
                   /\ UNCHANGED <<Causes, Returned, external>>
Refuses == /\ Status = "idle" /\ Status' = "returned" /\ Returned' = "Error"
           /\ UNCHANGED <<Causes, external>>
Returns == /\ Status = "closed" /\ Status' = "returned" /\ Causes' = {}
           /\ \/ Returned' \in Causes \cup {"Error"}
              \/ /\ Returned' = "LocalShutdown"
                 /\ external \/ Causes \cap WorkerFailure # {}
           /\ UNCHANGED external
Requests == /\ ~external /\ external' = TRUE
            /\ UNCHANGED <<Status, Causes, Returned>>

\* They are the steps the contract allows.
LEMMA ContractAllows ==
    ASSUME Stutters \/ Occurs \/ Moves("idle", "active") \/ Moves("active", "closed")
             \/ Refuses \/ Returns \/ Requests
    PROVE  [Contract!ContractNext]_(Contract!contractVars)
<1> USE DEF Status, Causes, Returned, Reported, Contract!ContractNext,
      Contract!SessionStep, Contract!contractVars
<1>1. CASE Stutters
  BY <1>1 DEF Stutters
<1>2. CASE Occurs
  BY <1>2 DEF Occurs, Contract!Occur, Contract!Cause, Contract!WorkerCause,
    WorkerFailure
<1>3. CASE Moves("idle", "active")
  BY <1>3 DEF Moves, Contract!Begin
<1>4. CASE Moves("active", "closed")
  BY <1>4 DEF Moves, Contract!SendClose
<1>5. CASE Refuses
  BY <1>5 DEF Refuses, Contract!Refuse
<1>6. CASE Returns
  BY <1>6 DEF Returns, Contract!Return, Contract!Ends, Contract!WorkerCause,
    WorkerFailure
<1>7. CASE Requests
  BY <1>7 DEF Requests, Contract!Shutdown
<1>8. QED
  BY <1>1, <1>2, <1>3, <1>4, <1>5, <1>6, <1>7

\* Every step of the caller of run is one of them.
LEMMA MainRefines ==
    ASSUME IInv, RInv, Main
    PROVE  Stutters \/ Occurs \/ Moves("idle", "active") \/ Moves("active", "closed")
             \/ Refuses \/ Returns
<1> USE DEF Status, Causes, Returned, Deciding, OutcomeFollowsMain
<1>1. IInv /\ RInv
  OBVIOUS
<1>2. /\ closes = IF closeSent THEN 1 ELSE 0
      /\ main \in MainPc \ {"activate", "drop", "returned"} => device = "active"
      /\ main = "activate" => device = "inactive"
      /\ main = "deactivate" => closeSent
      /\ failures \in Seq(WorkerFailure)
      /\ device \in {"active", "inactive"}
  BY <1>1 DEF IInv, Types, CloseFlag, DeviceFollowsMain
<1>3. UNCHANGED failures => UNCHANGED Reported
  BY DEF Reported
<1>4. failures = <<>> => Reported = {}
  BY DEF Reported
<1>5. CASE Activate
  <2>1. Moves("idle", "active")
    BY <1>2, <1>3, <1>5 DEF Activate, Moves, MainPc, closeVars, RInv, OpenWhileDeciding
  <2>2. QED
    BY <2>1
<1>6. CASE ActivateFails \/ SpawnSender \/ SpawnWorker \/ SpawnWorkerFails
  <2>1. Stutters
    BY <1>2, <1>3, <1>6 DEF ActivateFails, SpawnSender, SpawnWorker,
      SpawnWorkerFails, Stutters, MainPc, closeVars, RInv
  <2>2. QED
    BY <2>1
<1>7. CASE CheckFlags \/ ObserveHeartbeat \/ AcceptSrResponse \/ StopWorkers
  <2>1. Stutters
    BY <1>2, <1>3, <1>7 DEF CheckFlags, ObserveHeartbeat, AcceptSrResponse,
      StopWorkers, End, Stutters, MainPc, closeVars, RInv
  <2>2. QED
    BY <2>1
<1>8. CASE CheckFailures
  <2>1. CASE failures = <<>>
    <3>1. Stutters
      BY <1>2, <1>3, <1>8, <2>1 DEF CheckFailures, Stutters, MainPc, closeVars, RInv
    <3>2. QED
      BY <3>1
  <2>2. CASE failures # <<>>
    <3>1. /\ Reported = Reported' \cup {Head(failures)}
          /\ Head(failures) \in WorkerFailure
      BY <1>2, <1>8, <2>2, ReportTaken DEF CheckFailures
    <3>2. /\ main = "check_failures" /\ main' = "stop" /\ outcome' = Head(failures)
          /\ outcome = "none" /\ UNCHANGED <<closes, device, external>>
      BY <1>8, <2>2 DEF CheckFailures, End, closeVars, RInv
    <3>3. Stutters
      BY <3>1, <3>2 DEF Stutters, WorkerFailure
    <3>4. QED
      BY <3>3
  <2>3. QED
    BY <2>1, <2>2
<1>9. CASE RecvOther
  <2>1. /\ Status = "active" /\ Status' = "active" /\ Returned' = Returned
        /\ UNCHANGED external
    BY <1>2, <1>9 DEF RecvOther, End, MainPc, closeVars, RInv, OpenWhileDeciding
  <2>2. CASE UNCHANGED outcome
    <3>1. Stutters
      BY <1>2, <1>3, <1>9, <2>1, <2>2 DEF RecvOther, End, Stutters, MainPc, closeVars
    <3>2. QED
      BY <3>1
  <2>3. CASE outcome' \in {"TransportFailure", "ServerClose"}
    <3>1. Causes' = Causes \cup {outcome'}
      BY <1>2, <1>3, <1>9, <2>3 DEF RecvOther, End, RInv
    <3>2. Occurs
      BY <2>1, <2>3, <3>1 DEF Occurs, WorkerFailure
    <3>3. QED
      BY <3>2
  <2>4. QED
    BY <1>9, <2>2, <2>3 DEF RecvOther, End
<1>10. CASE CloseSession
  <2>1. Moves("active", "closed")
    BY <1>2, <1>3, <1>10 DEF CloseSession, SendCloseOnce, Moves, MainPc, RInv,
      OpenWhileDeciding
  <2>2. QED
    BY <2>1
<1>11. CASE JoinSender \/ JoinWorker
  <2>1. Stutters
    BY <1>2, <1>3, <1>11 DEF JoinSender, JoinWorker, Stutters, MainPc, closeVars
  <2>2. QED
    BY <2>1
<1>12. CASE DropSession
  <2>1. CASE device = "inactive"
    <3>1. Refuses
      BY <1>2, <1>3, <1>4, <1>12, <2>1 DEF DropSession, SendCloseOnce, Refuses, RInv,
        RefusedIsClean
    <3>2. QED
      BY <3>1
  <2>2. CASE device = "active" /\ closeSent
    <3>1. Stutters
      BY <1>2, <1>3, <1>12, <2>2 DEF DropSession, SendCloseOnce, Stutters
    <3>2. QED
      BY <3>1
  <2>3. CASE device = "active" /\ ~closeSent
    <3>1. Moves("active", "closed")
      BY <1>2, <1>3, <1>12, <2>3 DEF DropSession, SendCloseOnce, Moves
    <3>2. QED
      BY <3>1
  <2>4. QED
    BY <1>2, <2>1, <2>2, <2>3
<1>13. CASE Deactivate
  <2>1. /\ Status = "closed" /\ Status' = "returned" /\ Causes' = {}
        /\ Returned' \in {outcome, "Error"} /\ UNCHANGED external
    BY <1>2, <1>13 DEF Deactivate
  <2>2. outcome \in SessionEnd \cup {"Error"}
    BY <1>1, <1>13 DEF Deactivate, IInv, Types, RInv
  <2>3. ASSUME outcome = "LocalShutdown"
        PROVE  external \/ Causes \cap WorkerFailure # {}
    <3>1. external \/ failures # <<>>
      BY <1>1, <2>3 DEF RInv, ShutdownExplained
    <3>2. ASSUME failures # <<>> PROVE failures[1] \in Reported \cap WorkerFailure
      BY <1>2, <3>2 DEF Reported
    <3>3. QED
      BY <1>13, <3>1, <3>2 DEF Deactivate
  <2>4. outcome \in SessionEnd \ {"LocalShutdown"} => outcome \in Causes
    BY <1>13 DEF Deactivate, SessionEnd
  <2>5. Returns
    BY <2>1, <2>2, <2>3, <2>4 DEF Returns, SessionEnd
  <2>6. QED
    BY <2>5
<1>14. QED
  BY <1>5, <1>6, <1>7, <1>8, <1>9, <1>10, <1>11, <1>12, <1>13 DEF Main

\* So is every step of the two workers: they report causes.
LEMMA WorkersRefine ==
    ASSUME IInv, RInv, Sender \/ Worker
    PROVE  Stutters \/ Occurs
<1> USE DEF Status, Causes, Returned
<1>1. /\ failures \in Seq(WorkerFailure) /\ device = "active" /\ main # "returned"
      /\ closes \in Nat
  BY DEF IInv, Types, ThreadsFollowMain, DeviceFollowsMain, Sender, SenderTop,
    SenderRead, SenderSend, Worker, WorkerTop, WorkerWake, Heartbeat, MonitorBeat,
    WorkerSend, WorkerHalt, MainPc
<1>2. UNCHANGED <<main, outcome, device, external, closes>>
  BY DEF Sender, SenderTop, SenderRead, SenderSend, Worker, WorkerTop, WorkerWake,
    Heartbeat, MonitorBeat, WorkerSend, WorkerHalt, mainVars, closeVars
<1>3. UNCHANGED failures \/ \E f \in WorkerFailure : Fail(f)
  BY DEF Sender, SenderTop, SenderRead, SenderSend, Worker, WorkerTop, WorkerWake,
    Heartbeat, MonitorBeat, WorkerSend, WorkerHalt, WorkerFailure
<1>4. CASE UNCHANGED failures
  BY <1>2, <1>4 DEF Stutters, Reported
<1>5. CASE \E f \in WorkerFailure : Fail(f)
  <2>1. PICK f \in WorkerFailure : Fail(f)
    BY <1>5
  <2>2. Reported' = Reported \cup {f}
    BY <1>1, <2>1, ReportSent
  <2>3. Occurs
    BY <1>1, <1>2, <2>2 DEF Occurs
  <2>4. QED
    BY <2>3
<1>6. QED
  BY <1>3, <1>4, <1>5

\* The invariant that the refinement rests on.
THEOREM RefinementInductive == Spec => [](IInv /\ RInv)
<1>1. Init => RInv
  BY InitRInv
<1>2. IInv /\ RInv /\ [Next]_vars => RInv'
  BY NextKeepsRInv
<1>3. QED
  BY <1>1, <1>2, Inductive, PTL DEF Spec

\* For every interval, miss count and timeout, what run does with its three
\* threads is what SessionContract promises: one activation, one CLOSE before
\* the deactivation, and a returned value that is one of the causes that
\* occurred.
THEOREM SessionRefines == Spec => ImplementsContract
<1>1. Init => Contract!ContractInit
  <2> SUFFICES ASSUME Init PROVE Contract!ContractInit
    OBVIOUS
  <2>1. Reported = {}
    BY DEF Init, Reported
  <2>2. QED
    BY <2>1 DEF Init, Contract!ContractInit, Reported
<1>2. IInv /\ RInv /\ [Next]_vars => [Contract!ContractNext]_(Contract!contractVars)
  <2> SUFFICES ASSUME IInv, RInv, [Next]_vars
               PROVE  [Contract!ContractNext]_(Contract!contractVars)
    OBVIOUS
  <2>1. CASE Main
    BY <2>1, MainRefines, ContractAllows
  <2>2. CASE Sender \/ Worker
    BY <2>2, WorkersRefine, ContractAllows
  <2>3. CASE RequestShutdown
    <3>1. Requests
      BY <2>3 DEF RequestShutdown, Requests, Status, Causes, Returned, Reported,
        mainVars, closeVars
    <3>2. QED
      BY <3>1, ContractAllows
  <2>4. CASE Tick \/ Done \/ UNCHANGED vars
    <3>1. Stutters
      BY <2>4 DEF Tick, Done, vars, Stutters, Status, Causes, Returned, Reported,
        mainVars, closeVars
    <3>2. QED
      BY <3>1, ContractAllows
  <2>5. QED
    BY <2>1, <2>2, <2>3, <2>4 DEF Next
<1>3. QED
  BY <1>1, <1>2, RefinementInductive, PTL DEF Spec, ImplementsContract,
    Contract!ContractSpec

=============================================================================
