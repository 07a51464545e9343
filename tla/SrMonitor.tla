------------------------------ MODULE SrMonitor ------------------------------
(***************************************************************************)
(* Segment Routing path monitoring: SrMonitor, driven by the worker of     *)
(* spawn_sr_monitor, and an SrMonitorResponder at the far end              *)
(* (src/src/sr.rs, src/src/client.rs), over a network that delays, loses,  *)
(* duplicates and reorders.  The responder is the one this client runs for *)
(* the requests of its peer; the peer is taken to answer likewise.         *)
(*                                                                         *)
(* Unlike in Session, the worker wakes on time here: the question is what  *)
(* the network alone can do to a healthy session.                          *)
(***************************************************************************)
EXTENDS Integers, FiniteSets

CONSTANTS
    Period,         \* SR_MONITOR_PERIOD, in ticks
    PeerDownAfter,  \* SR_PEER_DOWN_AFTER, in ticks
    Delay,          \* ticks a datagram may take, one way
    Tolerated,      \* losses a session must survive
    MaxLosses,      \* bound: datagrams the network loses
    MaxDups,        \* bound: datagrams the network duplicates
    MaxTime         \* bound: ticks

\* The margins of the real values: 1 s period, 5 s to peer down.  A datagram
\* takes no longer than a period: otherwise requests that overtake the initial
\* one, which the responder ignores, count like lost ones.
ASSUME SrMonitorAssumption ==
    /\ Period \in Nat \ {0} /\ PeerDownAfter \in Nat /\ Delay \in Nat
    /\ Tolerated \in Nat /\ MaxLosses \in Nat /\ MaxDups \in Nat
    /\ MaxTime \in Nat
    /\ Delay <= Period
    /\ (Tolerated + 1) * Period + 2 * Delay <= PeerDownAfter

VARIABLES
    state,      \* SrMonitor::state
    tx, rx,     \* SrMonitor::tx_count, rx_count
    responded,  \* SrMonitor::last_response is Some
    quiet,      \* ticks since last_response, or since the worker started
    clock,      \* ticks since the last request
    down,       \* the worker has reported HeartbeatTimeout
    active,     \* SrMonitorResponder::active
    count,      \* SrMonitorResponder::receive_count
    gone,       \* ticks since the peer stopped answering, -1 while it answers
    probes,     \* datagrams in flight: requests and responses, with their age
    losses, dups, firstLost, \* what the network has done
    now

monitorVars == <<state, tx, rx, responded, quiet, clock, down>>
peerVars    == <<active, count, gone>>
netVars     == <<probes, losses, dups, firstLost>>
pathVars == <<monitorVars, peerVars, netVars, now>>

Put(kind, initial, t, r) ==
    [kind |-> kind, initial |-> initial, tx |-> t, rx |-> r, age |-> 0]

-----------------------------------------------------------------------------
(* The monitor and its worker. *)

\* Mutant: a peer is down as soon as the threshold is reached.
PeerStateEager == IF responded /\ quiet >= PeerDownAfter THEN "PeerDown"
                                                        ELSE state

\* SrMonitor::update_peer_state.
PeerState == IF responded /\ quiet > PeerDownAfter THEN "PeerDown" ELSE state

\* Mutant: a peer that never answered is not given up.
GivesUpAnswered == PeerState = "PeerDown"

GivesUp == \/ PeerState = "PeerDown"
           \/ PeerState = "Probing" /\ quiet > PeerDownAfter

ReportDown ==
    /\ ~down /\ clock = Period /\ GivesUp
    /\ state' = PeerState
    /\ down' = TRUE
    /\ UNCHANGED <<tx, rx, responded, quiet, clock, peerVars, netVars, now>>

\* SrMonitor::request: only the first one of a handshake is marked initial
\* and resets the counters.
Request ==
    LET initial == PeerState \in {"Idle", "PeerDown"} IN
    /\ ~down /\ clock = Period /\ ~GivesUp
    /\ tx' = IF initial THEN 1 ELSE tx + 1
    /\ rx' = IF initial THEN 0 ELSE rx
    /\ state' = IF initial THEN "Probing" ELSE PeerState
    /\ clock' = 0
    /\ probes' = probes \cup {Put("request", initial, tx', rx')}
    /\ UNCHANGED <<responded, quiet, down, peerVars, losses, dups, firstLost,
                   now>>

\* SrMonitor::accept_response, for a response of this SR ID.
Accept(m) ==
    /\ m.kind = "response"
    /\ rx' = m.rx
    /\ responded' = TRUE
    /\ quiet' = 0
    /\ state' = "Established"
    /\ UNCHANGED <<tx, clock, down, peerVars>>

-----------------------------------------------------------------------------
(* The far end. *)

\* SrMonitorResponder::respond answers an initial request, and others once
\* it has seen one.
Answers(m) == m.initial \/ active

CountAfter(m) == IF m.initial THEN 1 ELSE count + 1

Respond(m) ==
    /\ m.kind = "request" /\ gone = -1 /\ Answers(m)
    /\ active' = TRUE
    /\ count' = CountAfter(m)
    /\ UNCHANGED <<gone, monitorVars>>

Ignore(m) ==
    /\ m.kind = "request" /\ (gone >= 0 \/ ~Answers(m))
    /\ UNCHANGED <<peerVars, monitorVars>>

\* What a delivery puts on the wire.
Reply(m) == IF m.kind = "request" /\ gone = -1 /\ Answers(m)
              THEN {Put("response", m.initial, m.tx, CountAfter(m))} ELSE {}

-----------------------------------------------------------------------------
(* The network and time. *)

DeliverProbe ==
    \E m \in probes :
        /\ Accept(m) \/ Respond(m) \/ Ignore(m)
        /\ \/ probes' = (probes \ {m}) \cup Reply(m) /\ UNCHANGED dups
           \/ dups < MaxDups /\ dups' = dups + 1 /\ probes' = probes \cup Reply(m)
        /\ UNCHANGED <<losses, firstLost, now>>

LoseProbe ==
    \E m \in probes :
        /\ losses < MaxLosses
        /\ probes' = probes \ {m}
        /\ losses' = losses + 1
        /\ firstLost' = (firstLost \/ (m.kind = "request" /\ m.initial))
        /\ UNCHANGED <<monitorVars, peerVars, dups, now>>

PeerStops ==
    /\ gone = -1
    /\ gone' = 0
    /\ UNCHANGED <<active, count, monitorVars, netVars, now>>

\* A tick passes when the worker is not due and no datagram is overdue.
MonitorTick ==
    /\ now < MaxTime /\ (down \/ clock < Period)
    /\ \A m \in probes : m.age < Delay
    /\ now' = now + 1
    /\ clock' = IF clock < Period THEN clock + 1 ELSE clock
    /\ quiet' = quiet + 1
    /\ gone' = IF gone >= 0 THEN gone + 1 ELSE gone
    /\ probes' = {[m EXCEPT !.age = @ + 1] : m \in probes}
    /\ UNCHANGED <<state, tx, rx, responded, down, active, count, losses,
                   dups, firstLost>>

MonitorDone == now = MaxTime /\ UNCHANGED pathVars

MonitorInit ==
    /\ state = "Idle" /\ tx = 0 /\ rx = 0 /\ responded = FALSE /\ quiet = 0
    /\ clock = Period /\ down = FALSE
    /\ active = FALSE /\ count = 0 /\ gone = -1
    /\ probes = {} /\ losses = 0 /\ dups = 0 /\ firstLost = FALSE
    /\ now = 0

MonitorNext == \/ ReportDown \/ Request \/ DeliverProbe \/ LoseProbe
               \/ PeerStops \/ MonitorTick \/ MonitorDone

MonitorSpec == MonitorInit /\ [][MonitorNext]_pathVars

-----------------------------------------------------------------------------
(* Properties. *)

\* A session is not given up while its peer answers, as long as the network
\* loses no more than the margin between period and threshold allows; the one
\* exception is the initial request, which is never repeated.
HealthyStaysUp == down => gone >= 0 \/ losses > Tolerated \/ firstLost

\* A peer that stops answering is noticed within the threshold, one period
\* and the time its last answers, duplicates included, spend in the network.
DeathNoticed == gone > PeerDownAfter + Period + Delay => down

\* The monitor tells a dead peer from a lossy network, in both directions.
MonitorSound == HealthyStaysUp /\ DeathNoticed

=============================================================================
