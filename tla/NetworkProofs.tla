---------------------------- MODULE NetworkProofs ----------------------------
(***************************************************************************)
(* The client's exchanges over an unreliable network: the attempts of one  *)
(* authentication for every timeout, budget, delay and server, SR path     *)
(* monitoring for every period, threshold and delay and however long it    *)
(* runs, the SR data path from encode_data to the reassembler, for every   *)
(* MTU, block size, table and window of fragment IDs, and what is read from *)
(* the answer to an OPEN, for every text, attribute and body of any length. *)
(***************************************************************************)
EXTENDS Authenticate, OpenAnswer, SrMonitor, SrTransfer, SumLemmas

-----------------------------------------------------------------------------
(* authenticate_with_budget. *)

AuthTypes ==
    /\ pc \in {"top", "recv", "retry", "sleep", "done"}
    /\ elapsed \in Nat /\ until \in Nat /\ opens \in Nat /\ nonce = 1

\* When the present wait ends, and what that leaves of the budget.
Timed ==
    /\ pc = "top" => elapsed <= Overall \/ elapsed < Overall + Oversleep
    /\ pc = "recv" => elapsed <= until /\ until <= Overall
    /\ pc = "retry" => elapsed <= Overall
    /\ pc = "sleep" => until < Overall /\ elapsed <= until + Oversleep
    /\ pc = "done" => elapsed <= Overall \/ elapsed < Overall + Oversleep

\* How long ago the OPENs were sent: one more is due only where the loop is at
\* its top, or when the sleep is over.
Spaced ==
    /\ pc = "top" => opens * RetryDelay <= elapsed
    /\ pc = "sleep" => opens * RetryDelay <= until
    /\ pc = "sleep" => (opens - 1) * RetryDelay <= elapsed
    /\ pc \in {"recv", "retry", "done"} => (opens - 1) * RetryDelay <= elapsed

\* An acceptance under way carries the one session of the one nonce.
ToServer == [to : {"server"}, nonce : {1}]
ToClient == [to : {"client"}, kind : Replies, tuple : {0, 1}]
SessionAnswers == {m \in ToClient : m.kind = "Ack" => m.tuple = 1 /\ 1 \in DOMAIN sessions}

OneSession ==
    /\ DOMAIN sessions \in SUBSET {1}
    /\ 1 \in DOMAIN sessions => sessions[1] = 1
    /\ wire \subseteq ToServer \cup SessionAnswers
    /\ inbox \in Seq(SessionAnswers)
    /\ outcome = "Session" => 1 \in DOMAIN sessions /\ tuple = 1

AuthInv == AuthTypes /\ Timed /\ Spaced /\ OneSession

\* Nothing was sent, and the server has no session.
LEMMA AuthStarts == AuthInit => AuthInv
BY AuthenticateAssumption DEF AuthInit, AuthInv, AuthTypes, Timed, Spaced, OneSession

\* Every step keeps the account of time.
LEMMA AuthKeepsTime ==
    ASSUME AuthInv, [AuthNext]_authVars
    PROVE  (AuthTypes /\ Timed /\ Spaced)'
<1> USE AuthenticateAssumption DEF AuthInv, AuthTypes, Timed, Spaced, Min2
<1>1. CASE BudgetSpent
  <2>1. (opens - 1) * RetryDelay = opens * RetryDelay - RetryDelay
    OBVIOUS
  <2>2. QED
    BY <1>1, <2>1 DEF BudgetSpent, AuthReturns
<1>2. CASE SendOpen
  <2>1. opens' \in Nat /\ opens' - 1 = opens
    BY <1>2 DEF SendOpen
  <2>2. QED
    BY <1>2, <2>1 DEF SendOpen
<1>3. CASE RecvTimesOut
  BY <1>3 DEF RecvTimesOut
<1>4. CASE RecvDatagram
  <2>1. pc' \in {"done", "retry"} /\ UNCHANGED <<until, nonce, opens, elapsed>>
    BY <1>4 DEF RecvDatagram, AuthReturns
  <2>2. QED
    BY <1>4, <2>1 DEF RecvDatagram
<1>5. CASE AuthRetry
  <2>1. (opens - 1) * RetryDelay = opens * RetryDelay - RetryDelay
        /\ opens * RetryDelay \in Nat
    OBVIOUS
  <2>2. QED
    BY <1>5, <2>1 DEF AuthRetry, AuthReturns
<1>6. CASE Wake
  BY <1>6 DEF Wake
<1>7. CASE SocketFails
  <2>1. (opens - 1) * RetryDelay = opens * RetryDelay - RetryDelay
    OBVIOUS
  <2>2. QED
    BY <1>7, <2>1 DEF SocketFails, AuthReturns
<1>8. CASE AuthTick
  <2>1. opens * RetryDelay \in Nat /\ (opens - 1) * RetryDelay \in Int
    OBVIOUS
  <2>2. QED
    BY <1>8, <2>1 DEF AuthTick, clientVars
<1>9. CASE ServerAnswers \/ Arrive \/ AuthLose \/ AuthDone \/ UNCHANGED authVars
  BY <1>9 DEF ServerAnswers, Arrive, AuthLose, AuthDone, authVars, clientVars
<1>10. QED
  BY <1>1, <1>2, <1>3, <1>4, <1>5, <1>6, <1>7, <1>8, <1>9 DEF AuthNext, Client

\* Every step keeps to one session.
LEMMA AuthKeepsSession ==
    ASSUME AuthInv, [AuthNext]_authVars
    PROVE  OneSession'
<1> USE DEF AuthInv, AuthTypes, OneSession
<1>1. CASE BudgetSpent \/ AuthRetry \/ Wake \/ SocketFails \/ RecvTimesOut
  BY <1>1 DEF BudgetSpent, AuthRetry, Wake, SocketFails, RecvTimesOut, AuthReturns, SessionAnswers
<1>2. CASE SendOpen
  BY <1>2 DEF SendOpen, SessionAnswers, ToServer
<1>3. CASE RecvDatagram
  <2>1. Head(inbox) \in SessionAnswers /\ Tail(inbox) \in Seq(SessionAnswers)
    BY <1>3 DEF RecvDatagram
  <2>2. outcome' = "Session" => 1 \in DOMAIN sessions /\ tuple' = 1
    BY <1>3, <2>1 DEF RecvDatagram, AuthReturns, SessionAnswers
  <2>3. QED
    BY <1>3, <2>1, <2>2 DEF RecvDatagram, SessionAnswers
<1>4. CASE ServerAnswers
  <2>1. PICK m \in wire, k \in Replies :
          /\ m.to = "server"
          /\ sessions' = IF k = "Ack" /\ m.nonce \notin DOMAIN sessions
                         THEN [n \in DOMAIN sessions \cup {m.nonce} |->
                                 IF n = m.nonce
                                   THEN Cardinality(DOMAIN sessions) + 1
                                   ELSE sessions[n]]
                         ELSE sessions
          /\ wire' = (wire \ {m}) \cup
                     {[to |-> "client", kind |-> k,
                       tuple |-> IF k = "Ack" THEN sessions'[m.nonce] ELSE 0]}
          /\ UNCHANGED <<clientVars, elapsed, inbox>>
    BY <1>4 DEF ServerAnswers
  <2>2. m.nonce = 1
    BY <2>1 DEF ToServer, SessionAnswers, ToClient
  <2>3. DOMAIN sessions' \in SUBSET {1}
        /\ (1 \in DOMAIN sessions => 1 \in DOMAIN sessions')
        /\ (k = "Ack" => 1 \in DOMAIN sessions')
    BY <2>1, <2>2
  <2>4. 1 \in DOMAIN sessions' => sessions'[1] = 1
    <3>1. CASE 1 \in DOMAIN sessions
      BY <2>1, <2>2, <3>1
    <3>2. CASE 1 \notin DOMAIN sessions
      <4>1. Cardinality(DOMAIN sessions) = 0
        <5>1. DOMAIN sessions = {}
          BY <3>2
        <5>2. QED
          BY <5>1, FS_EmptySet
      <4>2. QED
        BY <2>1, <2>2, <3>2, <4>1
    <3>3. QED
      BY <3>1, <3>2
  <2>5. SessionAnswers \subseteq SessionAnswers'
    BY <2>3 DEF SessionAnswers
  <2>6. wire' \subseteq ToServer \cup SessionAnswers'
    BY <2>1, <2>2, <2>3, <2>4, <2>5 DEF SessionAnswers, ToClient
  <2>7. inbox' \in Seq(SessionAnswers')
    BY <2>1, <2>5
  <2>8. QED
    BY <2>1, <2>3, <2>4, <2>6, <2>7 DEF clientVars
<1>5. CASE Arrive
  <2>1. PICK m \in wire : /\ m.to = "client" /\ inbox' = Append(inbox, m)
                          /\ wire' = wire \ {m}
                          /\ UNCHANGED <<clientVars, elapsed, sessions>>
    BY <1>5 DEF Arrive
  <2>2. m \in SessionAnswers
    BY <2>1 DEF ToServer
  <2>3. SessionAnswers' = SessionAnswers
    BY <2>1 DEF SessionAnswers
  <2>4. QED
    BY <2>1, <2>2, <2>3 DEF clientVars
<1>6. CASE AuthLose \/ AuthTick \/ AuthDone \/ UNCHANGED authVars
  BY <1>6 DEF AuthLose, AuthTick, AuthDone, authVars, clientVars, SessionAnswers
<1>7. QED
  BY <1>1, <1>2, <1>3, <1>4, <1>5, <1>6 DEF AuthNext, Client

\* For every timeout, budget, spacing and server, and whatever the network
\* does: the call keeps its budget but for a sleep that lasts too long, sends
\* no OPEN earlier than the spacing allows, and comes to one session.
THEOREM AttemptsAlwaysSound == AuthSpec => []AttemptsSound
<1>1. AuthInit => AuthInv
  BY AuthStarts
<1>2. AuthInv /\ [AuthNext]_authVars => AuthInv'
  BY AuthKeepsTime, AuthKeepsSession DEF AuthInv
<1>3. AuthInv => AttemptsSound
  <2> SUFFICES ASSUME AuthInv PROVE AttemptsSound
    OBVIOUS
  <2>1. WithinBudget
    BY AuthenticateAssumption DEF AuthInv, AuthTypes, Timed, WithinBudget
  <2>2. OpensSpaced
    <3>1. (opens - 1) * RetryDelay = opens * RetryDelay - RetryDelay
      BY AuthenticateAssumption DEF AuthInv, AuthTypes
    <3>2. opens * RetryDelay \in Nat
      BY AuthenticateAssumption DEF AuthInv, AuthTypes
    <3>3. QED
      BY <3>1, <3>2, AuthenticateAssumption DEF AuthInv, AuthTypes, Spaced, OpensSpaced
  <2>3. Cardinality(DOMAIN sessions) <= 1
    <3>1. DOMAIN sessions = {} \/ DOMAIN sessions = {1}
      BY DEF AuthInv, OneSession
    <3>2. Cardinality({}) = 0 /\ Cardinality({1}) = 1
      BY FS_EmptySet, FS_Singleton
    <3>3. QED
      BY <3>1, <3>2
  <2>4. OneServerSession
    BY <2>3 DEF AuthInv, OneSession, OneServerSession
  <2>5. QED
    BY <2>1, <2>2, <2>4 DEF AttemptsSound, TimelyOpens
<1>4. QED
  BY <1>1, <1>2, <1>3, PTL DEF AuthSpec

-----------------------------------------------------------------------------
(* SrMonitor. *)

Probes ==
    [kind : {"request", "response"}, initial : BOOLEAN, tx : Nat \ {0}, rx : Nat,
     age : 0 .. Delay]

MonitorTypes ==
    /\ state \in {"Idle", "Probing", "Established", "PeerDown"}
    /\ tx \in Nat /\ rx \in Nat /\ quiet \in Nat /\ clock \in 0 .. Period
    /\ responded \in BOOLEAN /\ down \in BOOLEAN /\ active \in BOOLEAN
    /\ count \in Nat /\ gone \in Int /\ gone >= -1
    /\ probes \subseteq Probes /\ losses \in Nat /\ firstLost \in BOOLEAN /\ now \in Nat

\* When request j was sent, and whether it or its answer is under way.
SentAt(j) == (j - 1) * Period
Alive(j) == \E m \in probes : m.tx = j

\* As long as nothing was reported, the worker asks once a period.
OnTime ==
    ~ down =>
        /\ state = "Idle" <=> tx = 0
        /\ state = "Established" <=> responded
        /\ state # "PeerDown"
        /\ tx = 0 => now = 0 /\ quiet = 0 /\ clock = Period /\ probes = {}
        /\ tx > 0 => now = SentAt(tx) + clock
        /\ quiet <= PeerDownAfter + clock

\* No answer of a peer that stopped is younger than that, and none is accepted
\* later than it may be under way.
LastAnswers ==
    gone >= 0 => /\ quiet >= gone - Delay
                 /\ \A m \in probes : m.kind = "response" => m.age >= gone

Healthy == ~ down /\ gone = -1 /\ ~ firstLost

\* What is under way belongs to a request, sent so long ago.
ChainOf(m) ==
    /\ m.tx <= tx
    /\ m.initial <=> m.tx = 1
    /\ IF m.kind = "request" THEN now - SentAt(m.tx) = m.age
       ELSE /\ m.age <= now - SentAt(m.tx) /\ now - SentAt(m.tx) <= m.age + Delay
            /\ active

Chains ==
    Healthy => /\ \A m \in probes : ChainOf(m)
               /\ active \/ tx = 0 \/ \E m \in probes : m.kind = "request" /\ m.tx = 1
               /\ responded => active
               /\ quiet <= now /\ (~ responded => quiet = now)

\* The requests sent since the last answer of which nothing is left.  Before
\* the first one the second request is not counted: it is ignored when it
\* overtakes the initial one.
Counted == {j \in 1 .. tx : IF responded THEN now - SentAt(j) < quiet ELSE j # 2}
Vanished == {j \in Counted : ~ Alive(j)}

LossesCounted == Healthy => Cardinality(Vanished) <= losses

MonitorInv ==
    MonitorTypes /\ OnTime /\ LastAnswers /\ Chains /\ LossesCounted /\ HealthyStaysUp

\* Requests are a period apart.
LEMMA SentPeriodically ==
    /\ \A j \in Nat : SentAt(j) \in Int /\ SentAt(j + 1) = SentAt(j) + Period
    /\ SentAt(1) = 0 /\ SentAt(2) = Period
    /\ \A i, j \in Nat : i <= j => SentAt(i) <= SentAt(j)
    /\ \A i, j \in Nat : SentAt(i) < SentAt(j) => i < j
<1> USE SrMonitorAssumption
<1>1. \A j \in Nat : SentAt(j) \in Int /\ SentAt(j + 1) = SentAt(j) + Period
  BY DEF SentAt
<1>2. SentAt(1) = 0 /\ SentAt(2) = Period
  BY DEF SentAt
<1>3. ASSUME NEW i \in Nat, NEW j \in Nat, i <= j PROVE SentAt(i) <= SentAt(j)
  <2>1. PICK k \in Nat : j = i + k
    <3>1. j - i \in Nat /\ j = i + (j - i)
      BY <1>3
    <3>2. QED
      BY <3>1
  <2>2. SentAt(j) = SentAt(i) + k * Period
    BY <2>1 DEF SentAt
  <2>3. k * Period >= 0 /\ k * Period \in Int
    OBVIOUS
  <2>4. QED
    BY <1>1, <2>2, <2>3
<1>4. ASSUME NEW i \in Nat, NEW j \in Nat, SentAt(i) < SentAt(j) PROVE i < j
  <2>1. ~ (j <= i)
    BY <1>1, <1>3, <1>4
  <2>2. QED
    BY <2>1
<1>5. QED
  BY <1>1, <1>2, <1>3, <1>4

\* Sets of requests are finite, and a smaller one has no more elements.
LEMMA VanishedFinite ==
    ASSUME tx \in Nat
    PROVE  IsFiniteSet(Vanished) /\ Cardinality(Vanished) \in Nat
<1>1. IsFiniteSet(1 .. tx)
  BY FS_Interval
<1>2. Vanished \in SUBSET (1 .. tx)
  BY DEF Vanished, Counted
<1>3. QED
  BY <1>1, <1>2, FS_Subset, FS_CardinalityType

LEMMA FewerVanish ==
    ASSUME tx \in Nat, NEW S \in SUBSET Vanished
    PROVE  /\ IsFiniteSet(S) /\ Cardinality(S) \in Nat
           /\ Cardinality(S) <= Cardinality(Vanished)
BY VanishedFinite, FS_Subset, FS_CardinalityType

\* The monitor starts with nothing sent.
LEMMA MonitorStarts == MonitorInit => MonitorInv
<1> SUFFICES ASSUME MonitorInit PROVE MonitorInv
  OBVIOUS
<1>1. Vanished = {}
  BY DEF MonitorInit, Vanished, Counted
<1>2. LossesCounted
  BY <1>1, FS_EmptySet DEF MonitorInit, LossesCounted
<1>3. MonitorTypes
  <2>1. clock \in 0 .. Period /\ gone \in Int /\ gone >= -1 /\ probes \subseteq Probes
    BY SrMonitorAssumption DEF MonitorInit
  <2>2. QED
    BY <2>1 DEF MonitorInit, MonitorTypes
<1>4. OnTime
  BY SrMonitorAssumption DEF MonitorInit, OnTime
<1>5. LastAnswers /\ Chains /\ HealthyStaysUp
  BY DEF MonitorInit, LastAnswers, Chains, HealthyStaysUp
<1>6. QED
  BY <1>2, <1>3, <1>4, <1>5 DEF MonitorInv

-----------------------------------------------------------------------------
(* The steps of the monitor. *)

\* A request is sent a period after the last one; it is the initial one only
\* when it is the first.
LEMMA RequestKeeps == ASSUME MonitorInv, Request PROVE MonitorInv'
<1> USE SrMonitorAssumption
<1> DEFINE initial == PeerState \in {"Idle", "PeerDown"}
<1>1. ~ down /\ down' = down /\ clock = Period /\ ~ GivesUp /\ clock' = 0
      /\ probes' = probes \cup {Put("request", initial, tx', rx')}
      /\ UNCHANGED <<responded, quiet, peerVars, losses, dups, firstLost, now>>
  BY DEF Request
<1>2. PeerState = state /\ quiet <= PeerDownAfter
  BY <1>1 DEF GivesUp, PeerState, MonitorInv, MonitorTypes, OnTime
<1>3. initial <=> tx = 0
  BY <1>1, <1>2 DEF MonitorInv, OnTime
<1>4. tx' = tx + 1 /\ rx' \in Nat /\ tx' \in Nat \ {0}
  BY <1>3 DEF Request, MonitorInv, MonitorTypes
<1>5. state' = IF tx = 0 THEN "Probing" ELSE state
  BY <1>2, <1>3 DEF Request
<1>6. PICK r \in Probes :
        /\ probes' = probes \cup {r}
        /\ r.kind = "request" /\ r.tx = tx + 1 /\ r.age = 0 /\ (r.initial <=> tx = 0)
  <2>1. PICK b \in BOOLEAN : b = initial
    <3>1. initial \in BOOLEAN
      OBVIOUS
    <3>2. QED
      BY <3>1
  <2> DEFINE r == [kind |-> "request", initial |-> b, tx |-> tx + 1, rx |-> rx', age |-> 0]
  <2>2. probes' = probes \cup {r}
    BY <1>1, <1>4, <2>1 DEF Put
  <2>3. b <=> tx = 0
    BY <1>3, <2>1
  <2>4. r \in Probes
    BY <1>4, SrMonitorAssumption DEF Probes
  <2>5. QED
    BY <2>2, <2>3, <2>4
<1> HIDE DEF initial
<1>7. now = SentAt(tx + 1)
  <2>1. CASE tx = 0
    BY <1>1, <2>1, SentPeriodically DEF MonitorInv, OnTime
  <2>2. CASE tx > 0
    BY <1>1, <2>2, SentPeriodically DEF MonitorInv, MonitorTypes, OnTime
  <2>3. QED
    BY <2>1, <2>2 DEF MonitorInv, MonitorTypes
<1>8. MonitorTypes'
  BY <1>1, <1>4, <1>5, <1>6 DEF MonitorInv, MonitorTypes, peerVars
<1>9. OnTime'
  BY <1>1, <1>2, <1>4, <1>5, <1>7 DEF MonitorInv, MonitorTypes, OnTime, SentAt
<1>10. LastAnswers'
  BY <1>1, <1>6 DEF MonitorInv, LastAnswers, peerVars
<1>11. Healthy' = Healthy
  BY <1>1 DEF Healthy, peerVars
<1>12. Chains'
  <2> SUFFICES ASSUME Healthy PROVE Chains'
    BY <1>11 DEF Chains
  <2>1. ChainOf(r)'
    <3>1. now' - SentAt(r.tx) = 0
      BY <1>1, <1>6, <1>7 DEF MonitorInv, MonitorTypes
    <3>2. r.tx <= tx' /\ (r.initial <=> r.tx = 1)
      BY <1>4, <1>6 DEF MonitorInv, MonitorTypes
    <3>3. QED
      BY <1>6, <3>1, <3>2 DEF ChainOf, SentAt
  <2>2. ASSUME NEW m \in probes PROVE ChainOf(m)'
    <3>1. ChainOf(m) /\ m \in Probes
      BY DEF MonitorInv, MonitorTypes, Chains
    <3>2. QED
      BY <1>1, <1>4, <3>1 DEF ChainOf, SentAt, MonitorInv, MonitorTypes, peerVars, Probes
  <2>3. (active \/ tx = 0 \/ \E m \in probes : m.kind = "request" /\ m.tx = 1)'
    BY <1>1, <1>4, <1>6 DEF MonitorInv, MonitorTypes, Chains, peerVars
  <2>4. (responded => active)' /\ quiet' <= now' /\ (~ responded' => quiet' = now')
    BY <1>1 DEF MonitorInv, Chains, peerVars
  <2>5. QED
    BY <1>6, <2>1, <2>2, <2>3, <2>4 DEF Chains
<1>13. LossesCounted'
  <2> SUFFICES ASSUME Healthy PROVE Cardinality(Vanished)' <= losses'
    BY <1>11 DEF LossesCounted
  <2>1. Vanished' \subseteq Vanished
    <3> SUFFICES ASSUME NEW j \in Vanished' PROVE j \in Vanished
      OBVIOUS
    <3>1. j \in 1 .. tx + 1 /\ ~ Alive(j)'
      BY <1>4 DEF Vanished, Counted
    <3>2. j # tx + 1
      BY <1>1, <1>6, <3>1 DEF Alive
    <3>3. ~ Alive(j)
      BY <1>1, <3>1 DEF Alive
    <3>4. QED
      BY <1>1, <3>1, <3>2, <3>3 DEF Vanished, Counted, SentAt, MonitorInv, MonitorTypes
  <2>2. QED
    <3>1. Cardinality(Vanished') <= Cardinality(Vanished)
      BY <2>1, FewerVanish DEF MonitorInv, MonitorTypes
    <3>2. Cardinality(Vanished) <= losses
      BY DEF MonitorInv, LossesCounted
    <3>3. Cardinality(Vanished') \in Nat /\ Cardinality(Vanished) \in Nat
      BY <2>1, FewerVanish, VanishedFinite DEF MonitorInv, MonitorTypes
    <3>4. QED
      BY <1>1, <3>1, <3>2, <3>3 DEF MonitorInv, MonitorTypes
<1>14. HealthyStaysUp'
  BY <1>1 DEF HealthyStaysUp
<1>15. QED
  BY <1>8, <1>9, <1>10, <1>12, <1>13, <1>14 DEF MonitorInv

\* The response a request gets.
LEMMA ReplyOf ==
    ASSUME MonitorInv, NEW m \in probes
    PROVE  /\ Reply(m) \subseteq Probes
           /\ \A r \in Reply(m) : /\ r.kind = "response" /\ r.tx = m.tx /\ r.age = 0
                                  /\ (r.initial <=> m.initial)
           /\ m.kind = "request" /\ gone = -1 /\ Answers(m) => Reply(m) # {}
           /\ ~ (m.kind = "request" /\ gone = -1 /\ Answers(m)) => Reply(m) = {}
<1>1. m \in Probes /\ count \in Nat
  BY DEF MonitorInv, MonitorTypes
<1>2. CountAfter(m) \in Nat
  BY <1>1 DEF CountAfter
<1>3. CASE m.kind = "request" /\ gone = -1 /\ Answers(m)
  <2> DEFINE r == [kind |-> "response", initial |-> m.initial, tx |-> m.tx,
                   rx |-> CountAfter(m), age |-> 0]
  <2>1. Reply(m) = {r}
    BY <1>3 DEF Reply, Put
  <2>2. r \in Probes
    BY <1>1, <1>2, SrMonitorAssumption DEF Probes
  <2>3. QED
    BY <1>3, <2>1, <2>2
<1>4. CASE ~ (m.kind = "request" /\ gone = -1 /\ Answers(m))
  BY <1>4 DEF Reply
<1>5. QED
  BY <1>3, <1>4

\* A delivery: an answer is accepted, a request answered or ignored, and the
\* datagram is gone or, duplicated, still under way.
LEMMA DeliverKeeps == ASSUME MonitorInv, DeliverProbe PROVE MonitorInv'
<1> USE SrMonitorAssumption
<1>1. PICK m \in probes :
        /\ Accept(m) \/ Respond(m) \/ Ignore(m)
        /\ probes' \subseteq probes \cup Reply(m)
        /\ (probes \ {m}) \cup Reply(m) \subseteq probes'
        /\ UNCHANGED <<losses, firstLost, now>>
  BY DEF DeliverProbe
<1>2. m \in Probes /\ m.age <= Delay
  BY DEF MonitorInv, MonitorTypes, Probes
<1>3. /\ Reply(m) \subseteq Probes
      /\ \A r \in Reply(m) : /\ r.kind = "response" /\ r.tx = m.tx /\ r.age = 0
                             /\ (r.initial <=> m.initial)
      /\ m.kind = "request" /\ gone = -1 /\ Answers(m) => Reply(m) # {}
      /\ ~ (m.kind = "request" /\ gone = -1 /\ Answers(m)) => Reply(m) = {}
  BY ReplyOf
<1>4. UNCHANGED <<tx, clock, down, gone, losses, firstLost, now>>
  BY <1>1 DEF Accept, Respond, Ignore, peerVars, monitorVars
<1>5. Healthy' = Healthy
  BY <1>4 DEF Healthy
<1>6. MonitorTypes'
  <2>1. probes' \subseteq Probes
    BY <1>1, <1>3 DEF MonitorInv, MonitorTypes
  <2>2. rx' \in Nat /\ quiet' \in Nat /\ responded' \in BOOLEAN
        /\ state' \in {"Idle", "Probing", "Established", "PeerDown"}
    <3>1. CASE Accept(m)
      BY <1>2, <3>1 DEF Accept, Probes
    <3>2. CASE Respond(m) \/ Ignore(m)
      BY <3>2 DEF Respond, Ignore, monitorVars, MonitorInv, MonitorTypes
    <3>3. QED
      BY <1>1, <3>1, <3>2
  <2>3. active' \in BOOLEAN /\ count' \in Nat
    <3>1. CASE Accept(m) \/ Ignore(m)
      BY <3>1 DEF Accept, Ignore, peerVars, MonitorInv, MonitorTypes
    <3>2. CASE Respond(m)
      BY <3>2 DEF Respond, CountAfter, MonitorInv, MonitorTypes
    <3>3. QED
      BY <1>1, <3>1, <3>2
  <2>4. QED
    BY <1>4, <2>1, <2>2, <2>3 DEF MonitorInv, MonitorTypes
<1>7. ~ down => tx > 0
  BY DEF MonitorInv, MonitorTypes, OnTime
<1>8. OnTime'
  <2> SUFFICES ASSUME ~ down PROVE OnTime'
    BY <1>4 DEF OnTime
  <2>1. CASE Accept(m)
    BY <1>4, <1>7, <2>1 DEF Accept, peerVars, MonitorInv, MonitorTypes, OnTime, SentAt
  <2>2. CASE Respond(m) \/ Ignore(m)
    BY <1>4, <1>7, <2>2 DEF Respond, Ignore, monitorVars, MonitorInv, MonitorTypes, OnTime,
      SentAt
  <2>3. QED
    BY <1>1, <2>1, <2>2
<1>9. LastAnswers'
  <2> SUFFICES ASSUME gone >= 0 PROVE LastAnswers'
    BY <1>4 DEF LastAnswers
  <2>1. probes' \subseteq probes
    BY <1>1, <1>3
  <2>2. CASE Accept(m)
    <3>1. m.age >= gone
      BY <2>2 DEF Accept, MonitorInv, LastAnswers
    <3>2. QED
      BY <1>2, <1>4, <2>1, <2>2, <3>1
        DEF Accept, MonitorInv, MonitorTypes, LastAnswers, Probes
  <2>3. CASE Respond(m) \/ Ignore(m)
    BY <1>4, <2>1, <2>3 DEF Respond, Ignore, monitorVars, MonitorInv, LastAnswers
  <2>4. QED
    BY <1>1, <2>2, <2>3
<1>10. Healthy => ChainOf(m)
  BY DEF MonitorInv, Chains
<1>11. Chains'
  <2> SUFFICES ASSUME Healthy PROVE Chains'
    BY <1>5 DEF Chains
  <2>0. active => active'
    BY <1>1 DEF Accept, Respond, Ignore, peerVars
  <2>1. ASSUME NEW q \in probes PROVE ChainOf(q)'
    <3>1. ChainOf(q)
      BY DEF MonitorInv, Chains
    <3>2. QED
      BY <1>4, <2>0, <3>1 DEF ChainOf, SentAt
  <2>2. ASSUME NEW q \in Reply(m) PROVE ChainOf(q)'
    <3>1. m.kind = "request" /\ Respond(m) /\ active'
      BY <1>1, <1>3, <2>2 DEF Accept, Respond, Ignore, Healthy
    <3>2. now - SentAt(m.tx) = m.age /\ m.tx <= tx /\ (m.initial <=> m.tx = 1)
      BY <1>10, <3>1 DEF ChainOf
    <3>3. q.kind = "response" /\ q.tx = m.tx /\ q.age = 0 /\ (q.initial <=> m.initial)
      BY <1>3
    <3>4. m.age \in Nat
      BY <1>2 DEF Probes
    <3>5. QED
      BY <1>2, <1>4, <3>1, <3>2, <3>3, <3>4 DEF ChainOf, SentAt
  <2>3. (active \/ tx = 0 \/ \E q \in probes : q.kind = "request" /\ q.tx = 1)'
    <3>1. CASE active'
      BY <3>1
    <3>2. CASE ~ active'
      <4>1. ~ active /\ ~ Respond(m)
        BY <1>1, <2>0, <3>2 DEF Respond
      <4>2. m.kind = "request" /\ Ignore(m)
        BY <1>1, <1>10, <4>1 DEF Accept, Ignore, ChainOf
      <4>3. ~ m.initial /\ m.tx # 1
        BY <1>10, <4>2 DEF Ignore, Answers, ChainOf, Healthy
      <4>4. PICK q \in probes : q.kind = "request" /\ q.tx = 1
        BY <1>7, <4>1 DEF MonitorInv, MonitorTypes, Chains, Healthy
      <4>5. q \in probes'
        BY <1>1, <4>3, <4>4
      <4>6. QED
        BY <4>4, <4>5
    <3>3. QED
      BY <3>1, <3>2
  <2>4. (responded => active)' /\ quiet' <= now' /\ (~ responded' => quiet' = now')
    <3>1. CASE Accept(m)
      BY <1>4, <1>10, <3>1 DEF Accept, ChainOf, MonitorInv, MonitorTypes, peerVars
    <3>2. CASE Respond(m) \/ Ignore(m)
      BY <1>4, <2>0, <3>2 DEF Respond, Ignore, monitorVars, MonitorInv, Chains
    <3>3. QED
      BY <1>1, <3>1, <3>2
  <2>5. QED
    BY <1>1, <2>1, <2>2, <2>3, <2>4 DEF Chains
<1>12. LossesCounted'
  <2> SUFFICES ASSUME Healthy PROVE Cardinality(Vanished)' <= losses'
    BY <1>5 DEF LossesCounted
  <2>1. CASE Accept(m)
    <3>1. responded' /\ quiet' = 0
      BY <2>1 DEF Accept
    <3>2. Vanished' = {}
      <4> SUFFICES ASSUME NEW j \in 1 .. tx PROVE ~ (now - SentAt(j) < 0)
        BY <1>4, <3>1 DEF Vanished, Counted, SentAt
      <4>1. SentAt(j) <= SentAt(tx) /\ SentAt(j) \in Int /\ SentAt(tx) \in Int
        <5>1. j \in Nat /\ tx \in Nat /\ j <= tx
          BY DEF MonitorInv, MonitorTypes
        <5>2. QED
          BY <5>1, SentPeriodically
      <4>2. now = SentAt(tx) + clock
        BY <1>7 DEF Healthy, MonitorInv, OnTime
      <4>3. QED
        BY <4>1, <4>2 DEF MonitorInv, MonitorTypes
    <3>3. QED
      BY <1>4, <3>2, FS_EmptySet DEF MonitorInv, MonitorTypes
  <2>2. CASE ~ Accept(m)
    <3>1. UNCHANGED <<responded, quiet>>
      BY <1>1, <2>2 DEF Respond, Ignore, monitorVars
    <3>2. Vanished' \subseteq Vanished
      <4> SUFFICES ASSUME NEW j \in Vanished' PROVE j \in Vanished
        OBVIOUS
      <4>1. j \in Counted /\ ~ Alive(j)'
        BY <1>4, <3>1 DEF Vanished, Counted, SentAt
      <4>2. CASE j # m.tx
        BY <1>1, <4>1, <4>2 DEF Vanished, Alive
      <4>3. CASE j = m.tx
        <5>1. Reply(m) = {}
          BY <1>1, <1>3, <4>1, <4>3 DEF Alive
        <5>2. m.kind = "request" /\ ~ active /\ ~ m.initial
          BY <1>1, <1>3, <2>2, <5>1 DEF Respond, Ignore, Answers, Healthy
        <5>3. PICK q \in probes : q.kind = "request" /\ q.tx = 1
          BY <1>7, <5>2 DEF MonitorInv, MonitorTypes, Chains, Healthy
        <5>4. ChainOf(q) /\ q \in Probes
          BY DEF MonitorInv, MonitorTypes, Chains
        <5>5. now <= Delay
          BY <5>3, <5>4, SentPeriodically DEF ChainOf, Probes, MonitorInv, MonitorTypes
        <5>6. SentAt(j) <= now /\ j \in Nat
          BY <1>2, <1>10, <4>3, <5>2, SentPeriodically
            DEF ChainOf, Probes, MonitorInv, MonitorTypes
        <5>7. j # 1 /\ j # 0
          BY <1>2, <1>10, <4>3, <5>2 DEF ChainOf, Probes
        <5>8. ~ (3 <= j)
          <6> SUFFICES ASSUME 3 <= j PROVE FALSE
            OBVIOUS
          <6>1. SentAt(3) <= SentAt(j) /\ SentAt(3) = SentAt(2) + Period
                /\ SentAt(2) = Period /\ SentAt(j) \in Int
            BY <5>6, SentPeriodically
          <6>2. QED
            BY <5>5, <5>6, <6>1 DEF MonitorInv, MonitorTypes
        <5>9. j = 2
          BY <5>6, <5>7, <5>8
        <5>10. ~ responded
          BY <5>2 DEF MonitorInv, Chains
        <5>11. QED
          BY <4>1, <5>9, <5>10 DEF Counted
      <4>4. QED
        BY <4>2, <4>3
    <3>3. QED
      BY <1>4, <3>2, FewerVanish, VanishedFinite
        DEF MonitorInv, MonitorTypes, LossesCounted
  <2>3. QED
    BY <2>1, <2>2
<1>13. HealthyStaysUp'
  BY <1>4 DEF MonitorInv, HealthyStaysUp
<1>14. QED
  BY <1>6, <1>8, <1>9, <1>11, <1>12, <1>13 DEF MonitorInv

\* A loss takes one request or its answer out of the network.
LEMMA LoseKeeps == ASSUME MonitorInv, LoseProbe PROVE MonitorInv'
<1>1. PICK m \in probes :
        /\ probes' = probes \ {m} /\ losses' = losses + 1
        /\ firstLost' = (firstLost \/ (m.kind = "request" /\ m.initial))
        /\ UNCHANGED <<monitorVars, peerVars, dups, now>>
  BY DEF LoseProbe
<1>2. UNCHANGED <<state, tx, rx, responded, quiet, clock, down, active, count, gone, now>>
  BY <1>1 DEF monitorVars, peerVars
<1>3. MonitorTypes'
  <2>1. firstLost' \in BOOLEAN
    BY <1>1
  <2>2. QED
    BY <1>1, <1>2, <2>1 DEF MonitorInv, MonitorTypes
<1>4. OnTime'
  BY <1>1, <1>2 DEF MonitorInv, OnTime, SentAt
<1>5. LastAnswers'
  BY <1>1, <1>2 DEF MonitorInv, LastAnswers
<1>6. Healthy' => Healthy /\ ~ (m.kind = "request" /\ m.initial)
  BY <1>1, <1>2 DEF Healthy
<1>7. Chains'
  <2> SUFFICES ASSUME Healthy' PROVE Chains'
    BY DEF Chains
  <2>1. \A q \in probes : ChainOf(q)'
    BY <1>2, <1>6 DEF MonitorInv, Chains, ChainOf, SentAt
  <2>2. (active \/ tx = 0 \/ \E q \in probes : q.kind = "request" /\ q.tx = 1)'
    BY <1>1, <1>2, <1>6 DEF MonitorInv, Chains, ChainOf
  <2>3. QED
    BY <1>1, <1>2, <1>6, <2>1, <2>2 DEF MonitorInv, Chains
<1>8. LossesCounted'
  <2> SUFFICES ASSUME Healthy' PROVE Cardinality(Vanished)' <= losses'
    BY DEF LossesCounted
  <2>1. Vanished' \subseteq Vanished \cup {m.tx}
    BY <1>1, <1>2 DEF Vanished, Counted, Alive, SentAt
  <2>2. IsFiniteSet(Vanished) /\ Cardinality(Vanished) \in Nat
    BY VanishedFinite DEF MonitorInv, MonitorTypes
  <2>3. IsFiniteSet(Vanished \cup {m.tx})
        /\ Cardinality(Vanished \cup {m.tx}) <= Cardinality(Vanished) + 1
    BY <2>2, FS_AddElement
  <2>4. Cardinality(Vanished \cup {m.tx}) \in Nat
    BY <2>3, FS_CardinalityType
  <2>5. Cardinality(Vanished') <= Cardinality(Vanished \cup {m.tx})
        /\ Cardinality(Vanished') \in Nat
    BY <2>1, <2>3, FS_Subset, FS_CardinalityType
  <2>6. Cardinality(Vanished) <= losses /\ losses \in Nat
    BY <1>6 DEF MonitorInv, MonitorTypes, LossesCounted
  <2>7. QED
    BY <1>1, <2>2, <2>3, <2>4, <2>5, <2>6
<1>9. HealthyStaysUp'
  BY <1>1, <1>2, SrMonitorAssumption DEF MonitorInv, MonitorTypes, HealthyStaysUp
<1>10. QED
  BY <1>3, <1>4, <1>5, <1>7, <1>8, <1>9 DEF MonitorInv

\* A tick makes everything older by as much.
LEMMA TickKeeps == ASSUME MonitorInv, MonitorTick PROVE MonitorInv'
<1> USE SrMonitorAssumption
<1> DEFINE Aged(m) == [m EXCEPT !.age = @ + 1]
<1>1. /\ down \/ clock < Period
      /\ \A m \in probes : m.age < Delay
      /\ now' = now + 1 /\ quiet' = quiet + 1
      /\ clock' = IF clock < Period THEN clock + 1 ELSE clock
      /\ gone' = IF gone >= 0 THEN gone + 1 ELSE gone
      /\ probes' = {Aged(m) : m \in probes}
      /\ UNCHANGED <<state, tx, rx, responded, down, active, count, losses, firstLost>>
  BY DEF MonitorTick
<1>2. ASSUME NEW m \in probes
      PROVE  /\ Aged(m) \in Probes /\ Aged(m).kind = m.kind /\ Aged(m).tx = m.tx
             /\ Aged(m).initial = m.initial /\ Aged(m).age = m.age + 1
             /\ m \in Probes
  <2>1. m \in Probes /\ m.age < Delay
    BY <1>1 DEF MonitorInv, MonitorTypes
  <2>2. PICK a \in 0 .. Delay : a = m.age + 1
    BY <2>1 DEF Probes
  <2>3. Aged(m) = [m EXCEPT !.age = a]
    BY <2>2
  <2>4. QED
    BY <2>1, <2>2, <2>3 DEF Probes
<1> HIDE DEF Aged
<1>3. MonitorTypes'
  BY <1>1, <1>2 DEF MonitorInv, MonitorTypes
<1>4. OnTime'
  <2> SUFFICES ASSUME ~ down PROVE OnTime'
    BY <1>1 DEF OnTime
  <2>1. tx > 0 /\ clock' = clock + 1
    BY <1>1 DEF MonitorInv, MonitorTypes, OnTime
  <2>2. SentAt(tx) \in Int /\ SentAt(tx)' = SentAt(tx)
    BY <1>1, SentPeriodically DEF MonitorInv, MonitorTypes, SentAt
  <2>3. QED
    BY <1>1, <2>1, <2>2 DEF MonitorInv, MonitorTypes, OnTime
<1>5. LastAnswers'
  <2> SUFFICES ASSUME gone' >= 0 PROVE LastAnswers'
    BY DEF LastAnswers
  <2>1. gone >= 0 /\ gone' = gone + 1
    BY <1>1 DEF MonitorInv, MonitorTypes
  <2>2. \A m \in probes : m.kind = "response" => Aged(m).age >= gone'
    BY <1>2, <2>1 DEF MonitorInv, MonitorTypes, LastAnswers, Probes
  <2>3. QED
    BY <1>1, <1>2, <2>1, <2>2 DEF MonitorInv, MonitorTypes, LastAnswers
<1>6. Healthy' = Healthy
  BY <1>1 DEF Healthy, MonitorInv, MonitorTypes
<1>7. Chains'
  <2> SUFFICES ASSUME Healthy PROVE Chains'
    BY <1>6 DEF Chains
  <2>1. ASSUME NEW m \in probes PROVE ChainOf(Aged(m))'
    <3>1. ChainOf(m) /\ m \in Probes
      BY <1>2 DEF MonitorInv, Chains
    <3>2. SentAt(m.tx) \in Int
      BY <3>1, SentPeriodically DEF Probes
    <3>3. PICK q : q = Aged(m)
      OBVIOUS
    <3>4. ChainOf(q)'
      BY <1>1, <1>2, <3>1, <3>2, <3>3 DEF ChainOf, SentAt, Probes, MonitorInv, MonitorTypes
    <3>5. QED
      BY <3>3, <3>4 DEF Aged
  <2>2. (active \/ tx = 0 \/ \E q \in probes : q.kind = "request" /\ q.tx = 1)'
    BY <1>1, <1>2 DEF MonitorInv, Chains
  <2>3. (responded => active)' /\ quiet' <= now' /\ (~ responded' => quiet' = now')
    BY <1>1 DEF MonitorInv, MonitorTypes, Chains
  <2>4. QED
    BY <1>1, <2>1, <2>2, <2>3 DEF Chains, Aged
<1>8. LossesCounted'
  <2> SUFFICES ASSUME Healthy PROVE Cardinality(Vanished)' <= losses'
    BY <1>6 DEF LossesCounted
  <2>1. Vanished' \subseteq Vanished
    <3> SUFFICES ASSUME NEW j \in Vanished' PROVE j \in Vanished
      OBVIOUS
    <3>1. j \in 1 .. tx /\ SentAt(j) \in Int /\ tx \in Nat
      BY <1>1, SentPeriodically DEF Vanished, Counted, MonitorInv, MonitorTypes
    <3>2. j \in Counted
      BY <1>1, <3>1 DEF Vanished, Counted, SentAt, MonitorInv, MonitorTypes
    <3>3. ~ Alive(j)
      BY <1>1, <1>2 DEF Vanished, Alive
    <3>4. QED
      BY <3>2, <3>3 DEF Vanished
  <2>2. QED
    BY <1>1, <2>1, FewerVanish, VanishedFinite DEF MonitorInv, MonitorTypes, LossesCounted
<1>9. HealthyStaysUp'
  BY <1>1 DEF MonitorInv, MonitorTypes, HealthyStaysUp
<1>10. QED
  BY <1>3, <1>4, <1>5, <1>7, <1>8, <1>9 DEF MonitorInv

\* A request sent more than two delays ago is answered or lost.
LEMMA OldOnesVanish ==
    ASSUME MonitorInv, Healthy, NEW j \in Nat, now - SentAt(j) > 2 * Delay
    PROVE  ~ Alive(j)
<1> SUFFICES ASSUME NEW m \in probes, m.tx = j PROVE FALSE
  BY DEF Alive
<1>1. ChainOf(m) /\ m \in Probes /\ SentAt(j) \in Int /\ now \in Nat
  BY SentPeriodically DEF MonitorInv, MonitorTypes, Chains
<1>2. QED
  BY <1>1, SrMonitorAssumption DEF ChainOf, Probes

\* Division with a rest, as the period a time falls in is found.
LEMMA DivisionWithRest ==
    ASSUME NEW a \in Nat, NEW b \in Nat \ {0}
    PROVE  /\ a \div b \in Nat /\ a % b \in Nat /\ a % b < b
           /\ a = b * (a \div b) + (a % b)
OBVIOUS

\* Silence beyond the threshold, with the peer answering and the initial
\* request delivered, means more losses than tolerated: one request more than
\* that was sent early enough to be answered.
LEMMA SilenceMeansLosses ==
    ASSUME MonitorInv, Healthy, clock = Period, tx > 0, quiet > PeerDownAfter
    PROVE  losses > Tolerated
<1> USE SrMonitorAssumption
<1> DEFINE T == Tolerated
           K == (T + 1) * Period
<1>0. /\ tx \in Nat /\ now \in Nat /\ quiet \in Nat /\ losses \in Nat
      /\ now = SentAt(tx) + Period /\ now = SentAt(tx + 1)
      /\ quiet <= now /\ (~ responded => quiet = now)
      /\ K \in Nat /\ quiet > K + 2 * Delay
  <2>1. K \in Nat
    OBVIOUS
  <2>2. now = SentAt(tx) + Period
    BY DEF MonitorInv, OnTime, Healthy
  <2>3. SentAt(tx + 1) = SentAt(tx) + Period
    BY SentPeriodically DEF MonitorInv, MonitorTypes
  <2>4. QED
    BY <2>1, <2>2, <2>3 DEF MonitorInv, MonitorTypes, Chains
<1>1. \E S \in SUBSET Vanished : Cardinality(S) = T + 1
  <2>1. CASE ~ responded
    <3> DEFINE S == (1 .. T + 2) \ {2}
    <3>1. SentAt(T + 2) = K
      BY DEF SentAt
    <3>2. ASSUME NEW j \in S PROVE j \in Vanished
      <4>0. j \in Nat /\ T + 2 \in Nat /\ j <= T + 2 /\ j # 0 /\ j # 2
        OBVIOUS
      <4>1. SentAt(j) <= K /\ SentAt(j) \in Int
        BY <3>1, <4>0, SentPeriodically
      <4>2. now - SentAt(j) > 2 * Delay /\ SentAt(j) < SentAt(tx + 1)
        BY <1>0, <2>1, <4>1
      <4>3. j < tx + 1
        BY <1>0, <4>2, SentPeriodically
      <4>4. ~ Alive(j)
        BY <4>2, OldOnesVanish
      <4>5. QED
        BY <1>0, <2>1, <4>3, <4>4 DEF Vanished, Counted
    <3>3. IsFiniteSet(1 .. T + 2) /\ Cardinality(1 .. T + 2) = T + 2
      BY FS_Interval
    <3>4. Cardinality(S) = T + 1
      <4>1. 2 \in 1 .. T + 2 /\ T + 2 - 1 = T + 1
        OBVIOUS
      <4>2. Cardinality(S) = Cardinality(1 .. T + 2) - 1
        BY <3>3, <4>1, FS_RemoveElement
      <4>3. QED
        BY <3>3, <4>1, <4>2
    <3>5. QED
      BY <3>2, <3>4
  <2>2. CASE responded
    <3> DEFINE t == now - quiet
               f == (t \div Period) + 2
               S == f .. f + T
    <3>1. t \in Nat
      BY <1>0
    <3>2. f \in Nat /\ SentAt(f) > t /\ SentAt(f) <= t + Period
      <4>1. t \div Period \in Nat /\ t % Period \in Nat /\ t % Period < Period
            /\ t = Period * (t \div Period) + (t % Period)
        BY <3>1, DivisionWithRest
      <4> DEFINE q == t \div Period
                 e == t % Period
      <4>2. q \in Nat /\ e \in Nat /\ e < Period /\ t = Period * q + e
        BY <4>1
      <4> HIDE DEF q, e
      <4>3. SentAt(q + 2) = Period * q + Period
        BY <4>2 DEF SentAt
      <4>4. Period * q \in Nat
        BY <4>2
      <4>5. QED
        BY <4>2, <4>3, <4>4 DEF q
    <3> HIDE DEF t, f
    <3>3. SentAt(f + T) = SentAt(f) + T * Period /\ T * Period \in Nat
          /\ K = T * Period + Period
      BY <3>2 DEF SentAt
    <3>4. SentAt(f + T) <= t + K
      BY <3>1, <3>2, <3>3, SentPeriodically
    <3>5. ASSUME NEW j \in S PROVE j \in Vanished
      <4>1. j \in Nat /\ f <= j /\ j <= f + T /\ f + T \in Nat
        BY <3>2
      <4>2. SentAt(f) <= SentAt(j) /\ SentAt(j) <= SentAt(f + T) /\ SentAt(j) \in Int
            /\ SentAt(f) \in Int /\ SentAt(f + T) \in Int
        BY <3>2, <4>1, SentPeriodically
      <4>3. t < SentAt(j) /\ SentAt(j) <= t + K
        BY <3>1, <3>2, <3>4, <4>2, <1>0
      <4>4. now - SentAt(j) > 2 * Delay /\ SentAt(j) < SentAt(tx + 1)
            /\ now - SentAt(j) < quiet
        BY <1>0, <3>1, <4>2, <4>3 DEF t
      <4>5. j < tx + 1
        BY <1>0, <4>1, <4>4, SentPeriodically
      <4>6. j >= 1
        <5>1. SentAt(0) <= 0 /\ SentAt(0) \in Int
          BY DEF SentAt
        <5>2. j # 0
          BY <3>1, <4>2, <4>3, <5>1
        <5>3. QED
          BY <4>1, <5>2
      <4>7. ~ Alive(j)
        BY <4>1, <4>4, OldOnesVanish
      <4>8. QED
        BY <1>0, <2>2, <4>1, <4>4, <4>5, <4>6, <4>7 DEF Vanished, Counted
    <3>6. Cardinality(S) = T + 1
      BY <3>2, FS_Interval
    <3>7. QED
      BY <3>5, <3>6
  <2>3. QED
    BY <2>1, <2>2
<1>2. PICK S \in SUBSET Vanished : Cardinality(S) = T + 1
  BY <1>1
<1>3. T + 1 <= Cardinality(Vanished) /\ Cardinality(Vanished) \in Nat
  BY <1>0, <1>2, FewerVanish, VanishedFinite
<1>4. Cardinality(Vanished) <= losses
  BY DEF MonitorInv, LossesCounted
<1>5. QED
  BY <1>0, <1>3, <1>4

\* The worker reports a dead peer.
LEMMA ReportKeeps == ASSUME MonitorInv, ReportDown PROVE MonitorInv'
<1>1. ~ down /\ clock = Period /\ GivesUp /\ state' = PeerState /\ down' = TRUE
      /\ UNCHANGED <<tx, rx, responded, quiet, clock, active, count, gone, probes, losses,
                     firstLost, now>>
  BY DEF ReportDown, peerVars, netVars
<1>2. quiet > PeerDownAfter /\ tx > 0
  BY <1>1, SrMonitorAssumption DEF GivesUp, PeerState, MonitorInv, MonitorTypes, OnTime
<1>3. gone >= 0 \/ losses > Tolerated \/ firstLost
  <2> SUFFICES ASSUME ~ (gone >= 0), ~ firstLost PROVE losses > Tolerated
    OBVIOUS
  <2>1. Healthy
    BY <1>1 DEF Healthy, MonitorInv, MonitorTypes
  <2>2. QED
    BY <1>1, <1>2, <2>1, SilenceMeansLosses
<1>4. HealthyStaysUp'
  BY <1>1, <1>3 DEF HealthyStaysUp
<1>5. MonitorTypes'
  BY <1>1 DEF PeerState, MonitorInv, MonitorTypes
<1>6. OnTime' /\ LastAnswers' /\ Chains' /\ LossesCounted'
  BY <1>1 DEF OnTime, LastAnswers, Chains, LossesCounted, Healthy, MonitorInv
<1>7. QED
  BY <1>4, <1>5, <1>6 DEF MonitorInv

\* The invariant gives both promises.
LEMMA MonitorInvSound == MonitorInv => MonitorSound
<1> SUFFICES ASSUME MonitorInv, gone > PeerDownAfter + Period + Delay, ~ down PROVE FALSE
  BY DEF MonitorInv, MonitorSound, DeathNoticed
<1>1. gone >= 0
  BY SrMonitorAssumption DEF MonitorInv, MonitorTypes
<1>2. quiet >= gone - Delay
  BY <1>1 DEF MonitorInv, LastAnswers
<1>3. quiet <= PeerDownAfter + clock /\ clock <= Period
  BY DEF MonitorInv, MonitorTypes, OnTime
<1>4. QED
  BY <1>2, <1>3, SrMonitorAssumption DEF MonitorInv, MonitorTypes

\* For every period, threshold and delay with the margin between them, and
\* without a bound on time, losses or duplicates: a session whose peer answers
\* is given up only after more losses than the margin allows, or that of the
\* initial request, and one whose peer is gone is given up in time.
THEOREM MonitorAlwaysSound == MonitorSpec => []MonitorSound
<1>1. MonitorInit => MonitorInv
  BY MonitorStarts
<1>2. MonitorInv /\ [MonitorNext]_pathVars => MonitorInv'
  <2> SUFFICES ASSUME MonitorInv, [MonitorNext]_pathVars PROVE MonitorInv'
    OBVIOUS
  <2>1. CASE PeerStops
    <3>1. gone = -1 /\ gone' = 0
          /\ UNCHANGED <<state, tx, rx, responded, quiet, clock, down, active, count,
                         probes, losses, firstLost, now>>
      BY <2>1 DEF PeerStops, monitorVars, netVars
    <3>2. ~ Healthy'
      BY <3>1 DEF Healthy
    <3>3. LastAnswers'
      BY <3>1, SrMonitorAssumption DEF LastAnswers, MonitorInv, MonitorTypes, Probes
    <3>4. QED
      BY <3>1, <3>2, <3>3 DEF MonitorInv, MonitorTypes, OnTime, Chains, LossesCounted,
        HealthyStaysUp, SentAt
  <2>2. CASE MonitorDone \/ UNCHANGED pathVars
    <3>1. UNCHANGED <<state, tx, rx, responded, quiet, clock, down, active, count, gone,
                      probes, losses, firstLost, now>>
      BY <2>2 DEF MonitorDone, pathVars, monitorVars, peerVars, netVars
    <3>2. Healthy' = Healthy /\ Vanished' = Vanished
      BY <3>1 DEF Healthy, Vanished, Counted, Alive, SentAt
    <3>3. MonitorTypes' /\ OnTime' /\ LastAnswers' /\ HealthyStaysUp'
      BY <3>1 DEF MonitorInv, MonitorTypes, OnTime, LastAnswers, HealthyStaysUp, SentAt
    <3>4. Chains' /\ LossesCounted'
      BY <3>1, <3>2 DEF MonitorInv, Chains, ChainOf, LossesCounted, SentAt
    <3>5. QED
      BY <3>3, <3>4 DEF MonitorInv
  <2>3. QED
    BY <2>1, <2>2, ReportKeeps, RequestKeeps, DeliverKeeps, LoseKeeps, TickKeeps
      DEF MonitorNext
<1>3. MonitorInv => MonitorSound
  BY MonitorInvSound
<1>4. QED
  BY <1>1, <1>2, <1>3, PTL DEF MonitorSpec

-----------------------------------------------------------------------------
(* SrReassembly: the table. *)

LEMMA FragmentTypes ==
  ASSUME NEW f \in Fragment
  PROVE  /\ f \in WireFragment /\ f.id \in Ids /\ f.off \in Nat /\ f.len \in Nat \ {0}
         /\ f.eop \in BOOLEAN /\ EndOffset(f) \in Nat /\ EndOffset(f) <= MaxPacket
         /\ f.off < EndOffset(f) /\ EndOffset(f) = f.off + f.len
  BY SrReassemblyAssumption DEF Fragment, WireFragment, FragmentParses, EndOffset

Lens == [p \in Fragment |-> p.len]
Apart(parts) == \A p, q \in parts : p # q => ~ Overlaps(p, q)

LEMMA LengthIsSum ==
  ASSUME NEW parts \in SUBSET Fragment, IsFiniteSet(parts)
  PROVE  SumFunction([p \in parts |-> p.len]) = SumFunctionOnSet(Lens, parts)
<1> DEFINE g == [p \in parts |-> p.len]
<1>1. DOMAIN g = parts /\ \A p \in parts : g[p] = Lens[p]
  BY DEF Lens
<1> HIDE DEF g
<1>2. SumFunctionOnSet(g, parts) = SumFunctionOnSet(Lens, parts)
  BY <1>1, SumSame
<1>3. SumFunction(g) = SumFunctionOnSet(Lens, parts)
  BY <1>1, <1>2 DEF SumFunction
<1>4. QED
  BY <1>3 DEF g

\* Parts that do not overlap and end within the first m bytes have at most m
\* bytes together.
LEMMA PartsFit ==
  ASSUME NEW parts \in SUBSET Fragment, IsFiniteSet(parts), Apart(parts),
         NEW m \in Nat, \A p \in parts : EndOffset(p) <= m
  PROVE  SumFunctionOnSet(Lens, parts) \in 0..m
<1> DEFINE Good == {s \in SUBSET parts :
                      \A n \in Nat : (\A p \in s : EndOffset(p) <= n)
                                        => SumFunctionOnSet(Lens, s) \in 0..n}
<1>1. ASSUME NEW s \in SUBSET parts, \A x \in s : s \ {x} \in Good
      PROVE  s \in Good
  <2>1. SUFFICES ASSUME NEW n \in Nat, \A p \in s : EndOffset(p) <= n
                 PROVE  SumFunctionOnSet(Lens, s) \in 0..n
    OBVIOUS
  <2>2. IsFiniteSet(s)
    BY FS_Subset
  <2>3. CASE s = {}
    BY <2>3, SumEmpty
  <2>4. CASE s # {}
    <3> DEFINE Offs == [p \in Fragment |-> p.off]
    <3>1. \A p \in s : p \in Fragment /\ Offs[p] = p.off /\ Offs[p] \in Int
      BY FragmentTypes
    <3>2. PICK x \in s : \A p \in s : Offs[p] <= Offs[x]
      <4> HIDE DEF Offs
      <4>1. QED
        BY <2>2, <2>4, <3>1, LargestKey
    <3>3. ASSUME NEW p \in s \ {x} PROVE EndOffset(p) <= x.off
      <4>1. ~ Overlaps(p, x) /\ p.off <= x.off
        BY <3>1, <3>2 DEF Apart
      <4>2. QED
        BY <4>1, FragmentTypes DEF Overlaps
    <3>4. x \in Fragment /\ x.off \in Nat /\ x.len \in Nat /\ x.off + x.len <= n
      BY <2>1, FragmentTypes
    <3>5. SumFunctionOnSet(Lens, s \ {x}) \in 0 .. x.off
      BY <1>1, <3>3, <3>4
    <3>6. SumFunctionOnSet(Lens, s) = x.len + SumFunctionOnSet(Lens, s \ {x})
      <4>1. \A p \in s : Lens[p] = p.len /\ Lens[p] \in Int
        BY FragmentTypes DEF Lens
      <4>2. QED
        BY <2>2, <4>1, SumRemove
    <3>7. QED
      BY <3>4, <3>5, <3>6
  <2>5. QED
    BY <2>3, <2>4
<1>2. parts \in Good
  <2> HIDE DEF Good
  <2>1. QED
    BY <1>1, AllSubsets
<1>3. QED
  BY <1>2

\* A group of the table: what is stored for one id.
GroupOK(i, g) ==
    /\ g \in Group
    /\ IsFiniteSet(g.parts) /\ g.parts # {}
    /\ g.bytes = SumFunctionOnSet(Lens, g.parts)
    /\ Apart(g.parts) /\ \A p \in g.parts : p.id = i
    /\ \A p \in g.parts : ~ EndsPacket(p, g.parts)

GroupsOK ==
    /\ DOMAIN groups \subseteq Ids
    /\ IsFiniteSet(DOMAIN groups) /\ Cardinality(DOMAIN groups) <= MaxGroups
    /\ \A i \in DOMAIN groups : GroupOK(i, groups[i])

TableInv == GroupsOK /\ buffered = BytesOf(DOMAIN groups)

LEMMA GroupBytes ==
  ASSUME NEW i, NEW g, GroupOK(i, g)
  PROVE  g.bytes \in 0..MaxPacket
<1>1. g.parts \in SUBSET Fragment /\ \A p \in g.parts : EndOffset(p) <= MaxPacket
  BY FragmentTypes DEF GroupOK, Group
<1>2. QED
  BY <1>1, PartsFit, SrReassemblyAssumption DEF GroupOK

\* The bytes of some groups, as a sum over their ids.
SizesOf(gs) == [i \in DOMAIN gs |-> gs[i].bytes]

LEMMA BytesIsSum ==
  ASSUME NEW K \in SUBSET DOMAIN groups, IsFiniteSet(K)
  PROVE  BytesOf(K) = SumFunctionOnSet(SizesOf(groups), K)
<1> DEFINE g == [i \in K |-> groups[i].bytes]
<1>1. DOMAIN g = K /\ \A i \in K : g[i] = SizesOf(groups)[i]
  BY DEF SizesOf
<1>2. BytesOf(K) = SumFunctionOnSet(g, K)
  BY <1>1 DEF BytesOf, SumFunction
<1> HIDE DEF g
<1>3. QED
  BY <1>1, <1>2, SumSame

LEMMA TableBounds ==
  ASSUME TableInv
  PROVE  /\ \A i \in DOMAIN groups : groups[i].bytes \in Nat /\ SizesOf(groups)[i] = groups[i].bytes
         /\ buffered \in Nat /\ buffered <= MaxGroups * MaxPacket
<1> DEFINE D == DOMAIN groups
<1>1. \A i \in D : groups[i].bytes \in 0..MaxPacket /\ SizesOf(groups)[i] = groups[i].bytes
  BY GroupBytes DEF TableInv, GroupsOK, SizesOf
<1>2. IsFiniteSet(D) /\ Cardinality(D) \in Nat /\ Cardinality(D) <= MaxGroups
  BY FS_CardinalityType DEF TableInv, GroupsOK
<1>3. SumFunctionOnSet(SizesOf(groups), D) \in 0 .. (Cardinality(D) * MaxPacket)
  <2>1. \A i \in D : SizesOf(groups)[i] \in 0..MaxPacket
    BY <1>1
  <2> HIDE DEF D
  <2>2. QED
    BY <1>2, <2>1, SumBound, SrReassemblyAssumption
<1>4. buffered = SumFunctionOnSet(SizesOf(groups), D)
  BY <1>2, BytesIsSum DEF TableInv
<1>5. Cardinality(D) * MaxPacket <= MaxGroups * MaxPacket
  <2> DEFINE c == Cardinality(D)
  <2>1. c \in Nat /\ MaxPacket \in Nat /\ MaxGroups \in Nat /\ c <= MaxGroups
    BY <1>2, SrReassemblyAssumption
  <2> HIDE DEF c
  <2>2. c * MaxPacket <= MaxGroups * MaxPacket
    BY <2>1
  <2>3. QED
    BY <2>2 DEF c
<1>6. MaxGroups * MaxPacket \in Nat /\ Cardinality(D) * MaxPacket \in Nat
  BY <1>2, SrReassemblyAssumption
<1>7. QED
  BY <1>1, <1>3, <1>4, <1>5, <1>6

\* purge_expired: what is left are the bytes of the groups that live.
LEMMA PurgedIsLive ==
  ASSUME TableInv
  PROVE  /\ Live \in SUBSET DOMAIN groups /\ IsFiniteSet(Live)
         /\ Cardinality(Live) \in Nat /\ Cardinality(Live) <= MaxGroups
         /\ PurgedBytes = BytesOf(Live) /\ BytesOf(Live) \in Int
<1> DEFINE D == DOMAIN groups
           F == SizesOf(groups)
<1>1. Live \in SUBSET D /\ D \ Live \in SUBSET D
  BY DEF Live
<1>2. IsFiniteSet(D) /\ IsFiniteSet(Live) /\ IsFiniteSet(D \ Live)
  BY <1>1, FS_Subset DEF TableInv, GroupsOK
<1>3. Cardinality(Live) \in Nat /\ Cardinality(Live) <= MaxGroups
  BY <1>1, <1>2, FS_Subset, FS_CardinalityType, SrReassemblyAssumption DEF TableInv, GroupsOK
<1>4. \A i \in D : F[i] \in Int
  BY TableBounds
<1>5. /\ BytesOf(D) = SumFunctionOnSet(F, D) /\ BytesOf(Live) = SumFunctionOnSet(F, Live)
      /\ BytesOf(D \ Live) = SumFunctionOnSet(F, D \ Live)
  BY <1>1, <1>2, BytesIsSum
<1> HIDE DEF D, F
<1>6. SumFunctionOnSet(F, D) = SumFunctionOnSet(F, Live) + SumFunctionOnSet(F, D \ Live)
  BY <1>1, <1>2, <1>4, SumSplit
<1>7. SumFunctionOnSet(F, Live) \in Int /\ SumFunctionOnSet(F, D \ Live) \in Int
  BY <1>1, <1>2, <1>4, SumInt
<1>8. PurgedBytes = BytesOf(D) - BytesOf(D \ Live)
  BY DEF TableInv, PurgedBytes, D
<1>9. PurgedBytes = BytesOf(Live) /\ BytesOf(Live) \in Int
  BY <1>5, <1>6, <1>7, <1>8
<1>10. QED
  BY <1>1, <1>2, <1>3, <1>9 DEF D

\* A group that is taken out takes its bytes along.
LEMMA WithoutGroup ==
  ASSUME TableInv, NEW i \in Live
  PROVE  BytesOf(Live \ {i}) = BytesOf(Live) - groups[i].bytes
<1> DEFINE F == SizesOf(groups)
<1>1. \A j \in Live : F[j] \in Int /\ F[j] = groups[j].bytes
  BY PurgedIsLive, TableBounds
<1>2. IsFiniteSet(Live \ {i}) /\ Live \ {i} \in SUBSET DOMAIN groups
  BY PurgedIsLive, FS_Subset
<1>3. /\ BytesOf(Live) = SumFunctionOnSet(F, Live)
      /\ BytesOf(Live \ {i}) = SumFunctionOnSet(F, Live \ {i})
  BY <1>2, PurgedIsLive, BytesIsSum
<1> HIDE DEF F
<1>4. SumFunctionOnSet(F, Live) = F[i] + SumFunctionOnSet(F, Live \ {i})
  BY <1>1, PurgedIsLive, SumRemove
<1>5. SumFunctionOnSet(F, Live \ {i}) \in Int
  BY <1>1, <1>2, SumInt
<1>6. QED
  BY <1>1, <1>3, <1>4, <1>5

\* The bytes of groups that are kept as they are.
LEMMA KeptBytes ==
  ASSUME NEW K \in SUBSET DOMAIN groups, groups' = Kept(K)
  PROVE  DOMAIN groups' = K /\ (\A i \in K : groups'[i] = groups[i])
         /\ BytesOf(DOMAIN groups)' = BytesOf(K)
<1>1. DOMAIN groups' = K /\ \A i \in K : groups'[i] = groups[i]
  BY DEF Kept
<1>2. [i \in K |-> groups'[i].bytes] = [i \in K |-> groups[i].bytes]
  BY <1>1
<1>3. QED
  BY <1>1, <1>2 DEF BytesOf

LEMMA KeepGroups ==
  ASSUME TableInv, NEW K \in SUBSET Live, groups' = Kept(K), buffered' = BytesOf(K)
  PROVE  TableInv'
<1>1. K \in SUBSET DOMAIN groups /\ IsFiniteSet(K) /\ Cardinality(K) <= MaxGroups
  <2>1. Cardinality(K) <= Cardinality(Live) /\ IsFiniteSet(K) /\ Cardinality(K) \in Nat
    BY PurgedIsLive, FS_Subset, FS_CardinalityType
  <2>2. QED
    BY <2>1, PurgedIsLive, SrReassemblyAssumption
<1>2. DOMAIN groups' = K /\ (\A i \in K : groups'[i] = groups[i]) /\ BytesOf(DOMAIN groups)' = BytesOf(K)
  BY <1>1, KeptBytes
<1>3. GroupsOK'
  BY <1>1, <1>2 DEF TableInv, GroupsOK, GroupOK
<1>4. QED
  BY <1>2, <1>3 DEF TableInv

-----------------------------------------------------------------------------
(* SrReassembly: the insertion of a fragment. *)

\* What is known of a fragment that is stored, and of its group then.
LEMMA StoredGroup ==
  ASSUME TableInv, NEW f \in WireFragment, Admitted(f), ~ Conflicts(f)
  PROVE  LET g == Stored(f)[f.id]
         IN  /\ f \in Fragment /\ f.id \in Ids
             /\ g.parts = GroupOf(f.id).parts \cup {f} /\ f \notin GroupOf(f.id).parts
             /\ g.bytes = GroupOf(f.id).bytes + f.len
             /\ g \in Group /\ IsFiniteSet(g.parts) /\ Apart(g.parts)
             /\ \A p \in g.parts : p.id = f.id
             /\ g.bytes = SumFunctionOnSet(Lens, g.parts)
             /\ GroupOf(f.id).bytes \in Nat
             /\ f.id \in Live => GroupOf(f.id) = groups[f.id]
             /\ f.id \notin Live => GroupOf(f.id).bytes = 0
<1> DEFINE h == GroupOf(f.id)
           g == Stored(f)[f.id]
<1>1. f \in Fragment /\ f.id \in Ids
  BY FragmentTypes DEF Admitted, Fragment
<1>2. /\ h \in Group /\ IsFiniteSet(h.parts) /\ Apart(h.parts) /\ (\A p \in h.parts : p.id = f.id)
      /\ h.bytes = SumFunctionOnSet(Lens, h.parts)
  <2>1. CASE f.id \in Live
    <3>1. GroupOK(f.id, groups[f.id])
      BY <2>1, PurgedIsLive DEF TableInv, GroupsOK
    <3>2. QED
      BY <2>1, <3>1 DEF GroupOf, GroupOK
  <2>2. CASE f.id \notin Live
    <3>1. h = [age |-> 0, parts |-> {}, bytes |-> 0]
      BY <2>2 DEF GroupOf
    <3>2. QED
      BY <3>1, FS_EmptySet, SumEmpty, SrReassemblyAssumption DEF Group, Apart
  <2>3. QED
    BY <2>1, <2>2
<1>3. g = [h EXCEPT !.parts = @ \cup {f}, !.bytes = @ + f.len]
  BY DEF Stored
<1>4. h.age \in 0 .. Lifetime + 1 /\ h.parts \in SUBSET Fragment /\ h.bytes \in Nat
  BY <1>2 DEF Group
<1>5. g = [age |-> h.age, parts |-> h.parts \cup {f}, bytes |-> h.bytes + f.len]
  BY <1>2, <1>3 DEF Group
<1>6. \A p \in h.parts : ~ Overlaps(f, p) /\ ~ Overlaps(p, f)
  BY DEF Conflicts, Overlaps
<1>7. f \notin h.parts
  BY <1>1, <1>6, FragmentTypes DEF Overlaps
<1>8. g.parts = h.parts \cup {f} /\ g.bytes = h.bytes + f.len /\ g \in Group
  BY <1>1, <1>4, <1>5, FragmentTypes DEF Group
<1>9. IsFiniteSet(g.parts)
  BY <1>2, <1>8, FS_AddElement
<1>10. Apart(g.parts) /\ \A p \in g.parts : p.id = f.id
  BY <1>2, <1>6, <1>8 DEF Apart
<1>11. g.bytes = SumFunctionOnSet(Lens, g.parts)
  <2>1. \A p \in h.parts \cup {f} : Lens[p] = p.len /\ Lens[p] \in Int
    BY <1>1, <1>4, FragmentTypes DEF Lens
  <2>2. SumFunctionOnSet(Lens, h.parts \cup {f}) = f.len + SumFunctionOnSet(Lens, h.parts)
    <3> HIDE DEF h
    <3>1. QED
      BY <1>2, <1>7, <2>1, SumAdd
  <2>3. f.len \in Nat
    BY <1>1, FragmentTypes
  <2>4. QED
    BY <1>2, <1>4, <1>8, <2>2, <2>3
<1>12. QED
  BY <1>1, <1>4, <1>7, <1>8, <1>9, <1>10, <1>11 DEF GroupOf

LEMMA StoreKeeps ==
  ASSUME TableInv, NEW f \in WireFragment, Store(f)
  PROVE  TableInv'
<1> DEFINE g == Stored(f)[f.id]
<1>1. Admitted(f) /\ ~ Conflicts(f)
  BY DEF Store
<1>2. groups' = Stored(f) /\ buffered' = PurgedBytes + f.len
  BY DEF Store
<1>3. /\ DOMAIN groups' = Live \cup {f.id} /\ groups'[f.id] = g
      /\ \A i \in Live : i # f.id => groups'[i] = groups[i]
  BY <1>2 DEF Stored
<1>4. GroupOK(f.id, g)
  BY <1>1, StoredGroup DEF GroupOK, Store
<1>5. \A i \in DOMAIN groups' : GroupOK(i, groups'[i])
  BY <1>3, <1>4, PurgedIsLive DEF TableInv, GroupsOK
<1>6. IsFiniteSet(DOMAIN groups') /\ Cardinality(DOMAIN groups') <= MaxGroups
  <2>1. f.id \notin Live => Cardinality(Live) < MaxGroups
    BY <1>1, PurgedIsLive, SrReassemblyAssumption DEF Admitted, NoRoom
  <2>2. /\ IsFiniteSet(Live \cup {f.id})
        /\ Cardinality(Live \cup {f.id}) = IF f.id \in Live THEN Cardinality(Live)
                                            ELSE Cardinality(Live) + 1
    BY PurgedIsLive, FS_AddElement
  <2>3. Cardinality(Live \cup {f.id}) <= MaxGroups
    BY <2>1, <2>2, PurgedIsLive, SrReassemblyAssumption
  <2>4. QED
    BY <1>3, <2>2, <2>3
<1>7. GroupsOK'
  <2>1. DOMAIN groups' \subseteq Ids
    BY <1>1, <1>3, StoredGroup, PurgedIsLive DEF TableInv, GroupsOK
  <2>2. \A i \in DOMAIN groups' : GroupOK(i, groups[i])'
    BY <1>5 DEF GroupOK
  <2>3. QED
    BY <1>6, <2>1, <2>2 DEF GroupsOK
<1>8. buffered' = BytesOf(DOMAIN groups)'
  <2> DEFINE D == Live \cup {f.id}
             R == D \ {f.id}
             F == SizesOf(groups')
             G == SizesOf(groups)
  <2>1. IsFiniteSet(D) /\ IsFiniteSet(R) /\ R \subseteq Live /\ f.id \in D /\ DOMAIN groups' = D
    BY <1>3, PurgedIsLive, FS_AddElement, FS_Subset
  <2>2. \A i \in D : F[i] = groups'[i].bytes /\ F[i] \in Int
    BY <1>3, <1>5 DEF SizesOf, GroupOK, Group
  <2>3. \A i \in R : F[i] = G[i]
    BY <1>3, <2>1, <2>2, PurgedIsLive DEF SizesOf
  <2>4. BytesOf(DOMAIN groups)' = SumFunctionOnSet(F, D)
    <3>1. F = [i \in D |-> groups'[i].bytes] /\ DOMAIN F = D
      BY <1>3 DEF SizesOf
    <3>2. QED
      BY <2>1, <3>1 DEF BytesOf, SumFunction
  <2>5. SumFunctionOnSet(F, D) = F[f.id] + SumFunctionOnSet(F, R)
    <3> HIDE DEF F
    <3>1. QED
      BY <2>1, <2>2, SumRemove
  <2>6. SumFunctionOnSet(F, R) = SumFunctionOnSet(G, R)
    <3> HIDE DEF F, G
    <3>1. QED
      BY <2>1, <2>3, SumSame
  <2>7. SumFunctionOnSet(G, R) = BytesOf(R)
    BY <2>1, PurgedIsLive, BytesIsSum
  <2>8. F[f.id] = GroupOf(f.id).bytes + f.len /\ f.len \in Nat /\ GroupOf(f.id).bytes \in Nat
    BY <1>1, <1>3, <2>2, StoredGroup, FragmentTypes
  <2>9. BytesOf(R) = BytesOf(Live) - GroupOf(f.id).bytes
    <3>1. CASE f.id \in Live
      <4>1. R = Live \ {f.id}
        OBVIOUS
      <4>2. QED
        BY <1>1, <3>1, <4>1, WithoutGroup, StoredGroup
    <3>2. CASE f.id \notin Live
      <4>1. R = Live /\ GroupOf(f.id).bytes = 0
        BY <1>1, <3>2, StoredGroup
      <4>2. QED
        BY <4>1, PurgedIsLive
    <3>3. QED
      BY <3>1, <3>2
  <2>10. QED
    BY <1>2, <2>4, <2>5, <2>6, <2>7, <2>8, <2>9, PurgedIsLive
<1>9. QED
  BY <1>7, <1>8 DEF TableInv

LEMMA DiscardKeeps ==
  ASSUME TableInv, NEW f \in WireFragment, DiscardOverlap(f)
  PROVE  TableInv'
<1>1. f.id \in Live /\ GroupOf(f.id) = groups[f.id]
  BY DEF DiscardOverlap, Conflicts, GroupOf
<1>2. buffered' = BytesOf(Live \ {f.id})
  BY <1>1, WithoutGroup, PurgedIsLive DEF DiscardOverlap
<1>3. QED
  BY <1>2, KeepGroups DEF DiscardOverlap

LEMMA CompleteKeeps ==
  ASSUME TableInv, NEW f \in WireFragment, Complete(f)
  PROVE  TableInv'
<1> DEFINE g == Stored(f)[f.id]
<1>1. Admitted(f) /\ ~ Conflicts(f) /\ groups' = Kept(Live \ {f.id})
      /\ buffered' = PurgedBytes + f.len - g.bytes
  BY DEF Complete
<1>2. /\ g.bytes = GroupOf(f.id).bytes + f.len /\ GroupOf(f.id).bytes \in Nat /\ f.len \in Nat
      /\ f.id \in Live => GroupOf(f.id) = groups[f.id]
      /\ f.id \notin Live => GroupOf(f.id).bytes = 0
  BY <1>1, StoredGroup, FragmentTypes
<1>3. buffered' = BytesOf(Live) - GroupOf(f.id).bytes
  <2> HIDE DEF g
  <2>1. QED
    BY <1>1, <1>2, PurgedIsLive
<1>4. buffered' = BytesOf(Live \ {f.id})
  <2>1. CASE f.id \in Live
    BY <1>2, <1>3, <2>1, WithoutGroup
  <2>2. CASE f.id \notin Live
    <3>1. Live \ {f.id} = Live
      BY <2>2
    <3>2. BytesOf(Live \ {f.id}) = BytesOf(Live)
      BY <3>1
    <3>3. BytesOf(Live) \in Int /\ GroupOf(f.id).bytes = 0
      BY <1>2, <2>2, PurgedIsLive
    <3>4. QED
      BY <1>3, <3>2, <3>3
  <2>3. QED
    BY <2>1, <2>2
<1>5. QED
  BY <1>1, <1>4, KeepGroups

LEMMA AgeKeeps ==
  ASSUME TableInv, AgeGroups, UNCHANGED buffered
  PROVE  TableInv'
<1>1. /\ DOMAIN groups' = DOMAIN groups
      /\ \A i \in DOMAIN groups :
            groups'[i] = [groups[i] EXCEPT !.age = IF @ > Lifetime THEN @ ELSE @ + 1]
  BY DEF AgeGroups
<1>2. ASSUME NEW i \in DOMAIN groups
      PROVE  GroupOK(i, groups'[i]) /\ groups'[i].bytes = groups[i].bytes
  <2>1. groups[i] \in Group /\ groups[i].age \in 0 .. Lifetime + 1 /\ GroupOK(i, groups[i])
    BY DEF TableInv, GroupsOK, GroupOK, Group
  <2> DEFINE a == IF groups[i].age > Lifetime THEN groups[i].age ELSE groups[i].age + 1
  <2>2. a \in 0 .. Lifetime + 1
    BY <2>1, SrReassemblyAssumption
  <2>3. groups'[i] = [groups[i] EXCEPT !.age = a]
    BY <1>1
  <2> HIDE DEF a
  <2>4. /\ groups'[i] \in Group /\ groups'[i].parts = groups[i].parts
        /\ groups'[i].bytes = groups[i].bytes
    BY <2>1, <2>2, <2>3 DEF Group
  <2>5. QED
    BY <2>1, <2>4 DEF GroupOK
<1>3. GroupsOK'
  BY <1>1, <1>2 DEF TableInv, GroupsOK, GroupOK
<1>4. BytesOf(DOMAIN groups)' = BytesOf(DOMAIN groups)
  <2>1. [i \in DOMAIN groups' |-> groups'[i].bytes] = [i \in DOMAIN groups |-> groups[i].bytes]
    BY <1>1, <1>2
  <2>2. QED
    BY <2>1 DEF BytesOf
<1>5. QED
  BY <1>3, <1>4 DEF TableInv

LEMMA InsertKeeps ==
  ASSUME TableInv, NEW f \in WireFragment, Insert(f)
  PROVE  TableInv'
<1>1. CASE ParseFails(f)
  BY <1>1 DEF ParseFails, TableInv, GroupsOK, GroupOK, BytesOf
<1>2. CASE IgnoreDuplicate(f)
  BY <1>2, KeepGroups, PurgedIsLive DEF IgnoreDuplicate
<1>3. CASE RefuseForRoom(f)
  BY <1>3, KeepGroups, PurgedIsLive DEF RefuseForRoom
<1>4. CASE DiscardOverlap(f)
  BY <1>4, DiscardKeeps
<1>5. CASE Store(f)
  BY <1>5, StoreKeeps
<1>6. CASE Complete(f)
  BY <1>6, CompleteKeeps
<1>7. QED
  BY <1>1, <1>2, <1>3, <1>4, <1>5, <1>6 DEF Insert

-----------------------------------------------------------------------------
(* SrReassembly: the packet that is returned. *)

\* Parts that leave no gap before one that ends the packet, and none after it,
\* follow each other in the order of their offsets.
LEMMA InOrderExact ==
  ASSUME NEW parts \in SUBSET Fragment, IsFiniteSet(parts), Apart(parts),
         NEW p \in parts, EndsPacket(p, parts),
         ~ \E q \in parts : q.off >= EndOffset(p)
  PROVE  LET s == InOrder(parts)
             n == Cardinality(parts)
         IN  /\ s \in [1..n -> parts] /\ n \in Nat \ {0}
             /\ \A q \in parts : \E k \in 1..n : s[k] = q
             /\ s[1].off = 0 /\ s[n] = p
             /\ \A k \in 2..n : s[k].off = EndOffset(s[k - 1])
             /\ \A k \in 1..n : s[k].eop <=> k = n
<1> DEFINE n == Cardinality(parts)
           Offs == [q \in Fragment |-> q.off]
           s == InOrder(parts)
<1>1. n \in Nat \ {0}
  BY FS_CardinalityType, FS_EmptySet
<1>2. \A q \in parts : q \in Fragment /\ Offs[q] = q.off /\ Offs[q] \in Int
  BY FragmentTypes
<1>3. \A q, r \in parts : Offs[q] = Offs[r] => q = r
  <2>1. ASSUME NEW q \in parts, NEW r \in parts, q.off = r.off, q # r PROVE FALSE
    BY <2>1, FragmentTypes DEF Apart, Overlaps
  <2>2. QED
    BY <1>2, <2>1
<1>4. s \in [1..n -> parts] /\ \A j, k \in 1..n : j < k => s[j].off < s[k].off
  <2>1. \E r \in [1..n -> parts] : Ascending(r, Offs)
    <3> HIDE DEF Offs
    <3>1. QED
      BY <1>2, <1>3, AscendingExists
  <2>2. \E r \in [1..n -> parts] : \A j, k \in DOMAIN r : j < k => r[j].off < r[k].off
    BY <1>2, <2>1 DEF Ascending
  <2>3. /\ s \in [1..n -> parts]
        /\ \A j, k \in DOMAIN s : j < k => s[j].off < s[k].off
    BY <2>2 DEF InOrder
  <2>4. QED
    BY <2>3
<1>5. \A q \in parts : \E k \in 1..n : s[k] = q
  <2>1. Ascending(s, Offs)
    BY <1>2, <1>4 DEF Ascending
  <2>2. (\A q \in parts : Offs[q] \in Int) /\ s \in [1 .. Cardinality(parts) -> parts]
    BY <1>2, <1>4
  <2> HIDE DEF s, Offs
  <2>3. \A q \in parts : \E k \in 1 .. Cardinality(parts) : s[k] = q
    BY <2>1, <2>2, AscendingComplete
  <2>4. QED
    BY <2>3
<1> HIDE DEF s, n, Offs
<1>6. \A k \in 1..n : /\ s[k] \in parts /\ s[k] \in Fragment /\ s[k].off \in Nat
                      /\ EndOffset(s[k]) \in Nat /\ s[k].off < EndOffset(s[k])
  BY <1>4, FragmentTypes
<1>7. \A j, k \in 1..n : j < k => EndOffset(s[j]) <= s[k].off
  <2>1. SUFFICES ASSUME NEW j \in 1..n, NEW k \in 1..n, j < k
                 PROVE  EndOffset(s[j]) <= s[k].off
    OBVIOUS
  <2>2. s[j].off < s[k].off /\ s[j] # s[k]
    BY <1>4, <1>6, <2>1
  <2>3. ~ Overlaps(s[j], s[k])
    BY <1>6, <2>2 DEF Apart
  <2>4. QED
    BY <1>6, <2>2, <2>3 DEF Overlaps
<1>8. \A q \in parts : q.off <= p.off
  <2>1. SUFFICES ASSUME NEW q \in parts, q.off > p.off PROVE FALSE
    BY FragmentTypes
  <2>2. ~ Overlaps(p, q) /\ q.off < EndOffset(p)
    BY <2>1, FragmentTypes DEF Apart
  <2>3. QED
    BY <2>1, <2>2, FragmentTypes DEF Overlaps
<1>9. s[n] = p
  <2>1. PICK k \in 1..n : s[k] = p
    BY <1>5
  <2>2. ~ (k < n)
    BY <1>1, <1>4, <1>6, <1>8, <2>1
  <2>3. QED
    BY <1>1, <2>1, <2>2
<1>10. \A b \in 0 .. p.off - 1 : \E k \in 1..n : s[k].off <= b /\ b < EndOffset(s[k])
  BY <1>5 DEF EndsPacket
<1>11. p.off \in Nat /\ \A k \in 1..n : k < n => s[k].off < p.off
  BY <1>1, <1>4, <1>6, <1>9
<1>12. s[1].off = 0
  <2>1. SUFFICES ASSUME s[1].off > 0 PROVE FALSE
    BY <1>1, <1>6
  <2>2. 0 \in 0 .. p.off - 1
    BY <1>1, <1>6, <1>9, <1>11, <2>1
  <2>3. PICK k \in 1..n : s[k].off <= 0
    BY <1>10, <2>2
  <2>4. k = 1 \/ s[1].off < s[k].off
    BY <1>1, <1>4
  <2>5. QED
    BY <1>1, <1>6, <2>1, <2>3, <2>4
<1>13. ASSUME NEW k \in 2..n PROVE s[k].off = EndOffset(s[k - 1])
  <2>1. k - 1 \in 1..n /\ k \in 1..n /\ k - 1 < n
    BY <1>1
  <2>2. EndOffset(s[k - 1]) <= s[k].off
    BY <1>7, <2>1
  <2>3. SUFFICES ASSUME EndOffset(s[k - 1]) < s[k].off PROVE FALSE
    BY <1>6, <2>1, <2>2
  <2> DEFINE b == EndOffset(s[k - 1])
  <2>4. s[k].off <= p.off
    BY <1>8, <1>6, <2>1
  <2>5. b \in 0 .. p.off - 1
    BY <1>6, <1>11, <2>1, <2>3, <2>4
  <2>6. PICK j \in 1..n : s[j].off <= b /\ b < EndOffset(s[j])
    BY <1>10, <2>5
  <2>7. ~ (j < k - 1) /\ j # k - 1
    BY <1>6, <1>7, <2>1, <2>6
  <2>8. ~ (j > k) /\ j # k
    BY <1>4, <1>6, <2>1, <2>3, <2>6
  <2>9. QED
    BY <1>1, <2>7, <2>8
<1>14. \A k \in 1..n : s[k].eop <=> k = n
  <2>1. p.eop /\ \A q \in parts : q.off < p.off => ~ q.eop
    BY DEF EndsPacket
  <2>2. QED
    BY <1>1, <1>6, <1>9, <1>11, <2>1
<1>15. QED
  BY <1>1, <1>4, <1>5, <1>9, <1>12, <1>13, <1>14 DEF s, n

LEMMA FragmentsFinite ==
  ASSUME NEW f \in WireFragment, TableInv, Admitted(f), ~ Conflicts(f),
         NEW p, EndsPacket(p, Stored(f)[f.id].parts),
         ~ \E q \in Stored(f)[f.id].parts : q.off >= EndOffset(p)
  PROVE  LET parts == Stored(f)[f.id].parts
             s == InOrder(parts)
             n == Cardinality(parts)
         IN  /\ parts \in SUBSET Fragment /\ f \in parts
             /\ s \in Seq(Fragment) /\ Len(s) = n /\ n \in Nat \ {0}
             /\ \A k \in 1..n : s[k] \in parts
             /\ s[1].off = 0 /\ s[n] = p /\ p \in parts
             /\ \A k \in 2..n : s[k].off = EndOffset(s[k - 1])
             /\ \A k \in 1..n : s[k].eop <=> k = n
<1> DEFINE parts == Stored(f)[f.id].parts
           s == InOrder(parts)
           n == Cardinality(parts)
<1>1. parts \in SUBSET Fragment /\ IsFiniteSet(parts) /\ Apart(parts) /\ f \in parts
  BY StoredGroup DEF Group
<1>2. p \in parts
  BY DEF EndsPacket
<1>3. /\ s \in [1..n -> parts] /\ n \in Nat \ {0}
      /\ s[1].off = 0 /\ s[n] = p
      /\ \A k \in 2..n : s[k].off = EndOffset(s[k - 1])
      /\ \A k \in 1..n : s[k].eop <=> k = n
  <2> HIDE DEF parts
  <2>1. QED
    BY <1>1, <1>2, InOrderExact DEF parts
<1>4. s \in [1..n -> Fragment]
  <2> HIDE DEF s, n, parts
  <2>1. QED
    BY <1>1, <1>3
<1>5. s \in Seq(Fragment) /\ Len(s) = n /\ DOMAIN s = 1..n
  <2> HIDE DEF s, n, parts
  <2>1. QED
    BY <1>3, <1>4
<1>6. \A k \in 1..n : s[k] \in parts
  <2> HIDE DEF s, n, parts
  <2>1. QED
    BY <1>3
<1>7. QED
  BY <1>1, <1>2, <1>3, <1>5, <1>6

ReassemblyInv ==
    /\ TableInv
    /\ result \in Result /\ packet \in Seq(Fragment)
    /\ PacketExact

LEMMA TableIsSound ==
  ASSUME TableInv, result \in Result, packet \in Seq(Fragment)
  PROVE  TableSound
<1>1. SrTypeOK
  BY TableBounds DEF SrTypeOK, TableInv, GroupsOK, GroupOK
<1>2. \A i \in DOMAIN groups :
         groups[i].bytes = SumFunction([p \in groups[i].parts |-> p.len])
  <2>1. ASSUME NEW i \in DOMAIN groups
        PROVE  groups[i].bytes = SumFunction([p \in groups[i].parts |-> p.len])
    <3>1. GroupOK(i, groups[i])
      BY DEF TableInv, GroupsOK
    <3>2. groups[i].parts \in SUBSET Fragment /\ IsFiniteSet(groups[i].parts)
      BY <3>1 DEF GroupOK, Group
    <3>3. SumFunction([p \in groups[i].parts |-> p.len]) = SumFunctionOnSet(Lens, groups[i].parts)
      BY <3>2, LengthIsSum
    <3>4. QED
      BY <3>1, <3>3 DEF GroupOK
  <2>2. QED
    BY <2>1
<1>3. BytesAccounted
  BY <1>2 DEF BytesAccounted, TableInv
<1>4. Bounded
  BY TableBounds DEF Bounded, TableInv, GroupsOK, GroupOK
<1>5. Disjoint
  BY DEF Disjoint, TableInv, GroupsOK, GroupOK, Apart
<1>6. NothingCompleteWaits
  BY DEF NothingCompleteWaits, TableInv, GroupsOK, GroupOK
<1>7. QED
  BY <1>1, <1>3, <1>4, <1>5, <1>6 DEF TableSound

LEMMA ReassemblyStarts == ASSUME SrInit PROVE ReassemblyInv
<1>1. groups = <<>> /\ DOMAIN groups = {} /\ buffered = 0 /\ result = "none" /\ packet = <<>>
  BY DEF SrInit
<1>2. BytesOf({}) = 0
  <2>1. BytesOf({}) = SumFunctionOnSet(SizesOf(groups), {})
    BY <1>1, BytesIsSum, FS_EmptySet
  <2>2. QED
    BY <2>1, SumEmpty
<1>3. GroupsOK
  BY <1>1, FS_EmptySet, SrReassemblyAssumption DEF GroupsOK
<1>4. QED
  BY <1>1, <1>2, <1>3 DEF ReassemblyInv, TableInv, PacketExact, Result

LEMMA ReturnKeeps ==
  ASSUME NEW r \in Result \ {"packet"}, Return(r)
  PROVE  result' \in Result /\ packet' \in Seq(Fragment) /\ PacketExact'
  BY DEF Return, PacketExact

LEMMA InsertReturns ==
  ASSUME TableInv, NEW f \in WireFragment, Insert(f)
  PROVE  /\ result' \in Result /\ packet' \in Seq(Fragment) /\ PacketExact'
         /\ result' = "packet" =>
               /\ f \in Fragment /\ Complete(f)
               /\ \A k \in 1 .. Len(packet') : packet'[k] \in Stored(f)[f.id].parts
               /\ EndsPacket(Last(packet'), Stored(f)[f.id].parts)
<1>1. CASE ParseFails(f) \/ IgnoreDuplicate(f) \/ RefuseForRoom(f) \/ DiscardOverlap(f) \/ Store(f)
  <2>1. \E r \in Result \ {"packet"} : Return(r)
    BY <1>1 DEF ParseFails, IgnoreDuplicate, RefuseForRoom, DiscardOverlap, Store, Result
  <2>2. QED
    BY <2>1, ReturnKeeps DEF Return
<1>2. CASE Complete(f)
  <2> DEFINE g == Stored(f)[f.id]
  <2>1. /\ Admitted(f) /\ ~ Conflicts(f)
        /\ \E p \in g.parts :
              /\ EndsPacket(p, g.parts)
              /\ IF \E q \in g.parts : q.off >= EndOffset(p)
                   THEN Return("trailing")
                   ELSE result' = "packet" /\ packet' = InOrder(g.parts)
    BY <1>2 DEF Complete
  <2> HIDE DEF g
  <2>2. PICK p \in g.parts :
              /\ EndsPacket(p, g.parts)
              /\ IF \E q \in g.parts : q.off >= EndOffset(p)
                   THEN Return("trailing")
                   ELSE result' = "packet" /\ packet' = InOrder(g.parts)
    BY <2>1
  <2>3. CASE \E q \in g.parts : q.off >= EndOffset(p)
    <3>1. Return("trailing") /\ "trailing" \in Result \ {"packet"}
      BY <2>2, <2>3 DEF Result
    <3>2. QED
      BY <3>1, ReturnKeeps DEF Return
  <2>4. CASE ~ \E q \in g.parts : q.off >= EndOffset(p)
    <3> DEFINE s == InOrder(g.parts)
               n == Cardinality(g.parts)
    <3>1. result' = "packet" /\ packet' = s
      BY <2>2, <2>4
    <3>2. /\ g.parts \in SUBSET Fragment /\ f \in g.parts
          /\ s \in Seq(Fragment) /\ Len(s) = n /\ n \in Nat \ {0}
          /\ \A k \in 1..n : s[k] \in g.parts
          /\ s[1].off = 0 /\ s[n] = p /\ p \in g.parts
          /\ \A k \in 2..n : s[k].off = EndOffset(s[k - 1])
          /\ \A k \in 1..n : s[k].eop <=> k = n
      BY <2>1, <2>2, <2>4, FragmentsFinite DEF g
    <3> HIDE DEF s, n
    <3>3. s # <<>> /\ Last(s) = p
      BY <3>2 DEF Last
    <3>4. PacketExact'
      BY <3>1, <3>2, <3>3 DEF PacketExact
    <3>5. QED
      BY <1>2, <2>2, <3>1, <3>2, <3>3, <3>4 DEF Result, g
  <2>5. QED
    BY <2>3, <2>4
<1>3. QED
  BY <1>1, <1>2 DEF Insert

LEMMA ReassemblySteps ==
  ASSUME ReassemblyInv, [SrNext]_srVars
  PROVE  ReassemblyInv'
<1>1. CASE \E f \in WireFragment : Insert(f)
  BY <1>1, InsertKeeps, InsertReturns DEF ReassemblyInv
<1>2. CASE SrTick
  <2>1. "none" \in Result \ {"packet"} /\ Return("none") /\ AgeGroups /\ UNCHANGED buffered
    BY <1>2 DEF SrTick, Result
  <2>2. QED
    BY <2>1, ReturnKeeps, AgeKeeps DEF ReassemblyInv
<1>3. CASE UNCHANGED srVars
  BY <1>3 DEF srVars, ReassemblyInv, TableInv, GroupsOK, GroupOK, BytesOf, PacketExact
<1>4. QED
  BY <1>1, <1>2, <1>3 DEF SrNext

\* For every number of groups, limit, lifetime and set of fragments: what
\* SrFragmentReassembler::insert and purge_expired (src/src/fragment.rs) store
\* is what their counters say, parts of a packet never overlap and never wait
\* complete, and a packet they return is each of its bytes once, in order.
THEOREM ReassemblyAlwaysSound == SrSpec => []ReassemblySound
<1>1. SrInit => ReassemblyInv
  BY ReassemblyStarts
<1>2. ReassemblyInv /\ [SrNext]_srVars => ReassemblyInv'
  BY ReassemblySteps
<1>3. ReassemblyInv => ReassemblySound
  BY TableIsSound DEF ReassemblyInv, ReassemblySound
<1>4. QED
  BY <1>1, <1>2, <1>3, PTL DEF SrSpec

-----------------------------------------------------------------------------
(* SrTransfer: lengths. *)

\* Padding fills the last block, and only that.
LEMMA PaddingFills ==
  ASSUME NEW n \in Nat
  PROVE  Padding(n) \in 0 .. Block - 1 /\ (n + Padding(n)) % Block = 0
<1> DEFINE q == n \div Block
           r == n % Block
<1>0. Block \in Nat \ {0}
  BY SrTransferAssumption
<1>1. r \in 0 .. Block - 1 /\ q \in Nat /\ n = Block * q + r
  BY <1>0
<1>2. CASE r = 0
  <2>1. (Block - r) % Block = 0
    BY <1>0, <1>2
  <2>2. QED
    BY <1>0, <1>1, <1>2, <2>1 DEF Padding
<1>3. CASE r # 0
  <2>1. Block - r \in 1 .. Block - 1 /\ (Block - r) % Block = Block - r
    BY <1>0, <1>1, <1>3
  <2>2. Padding(n) = Block - r
    BY <2>1 DEF Padding
  <2>3. n + Padding(n) = Block * (q + 1)
    <3> HIDE DEF q, r
    <3>1. Block * (q + 1) = Block * q + Block
      BY <1>0, <1>1
    <3>2. QED
      BY <1>0, <1>1, <2>2, <3>1
  <2>4. (Block * (q + 1)) % Block = 0
    <3>1. q + 1 \in Nat
      BY <1>1
    <3> HIDE DEF q
    <3>2. QED
      BY <1>0, <3>1
  <2>5. QED
    BY <2>1, <2>2, <2>3, <2>4
<1>4. QED
  BY <1>2, <1>3

ConfOK == conf \in [enc: {"None", "Xor", "Aes"}, outer: {"None", "Aes"}]

LEMMA InnerTypes ==
  ASSUME NEW p \in Inner
  PROVE  p.n \in 1..MaxSends /\ p.ver \in {4, 6} /\ p.len \in Nat \ {0} /\ p \in Payloads
  BY SrTransferAssumption, PayloadsAssumption DEF Inner

\* What encode_data sends whole, decode_datagram takes.
LEMMA WholeDecodes ==
  ASSUME ConfOK, NEW p \in Inner, WholeAccepted(p)
  PROVE  DecodesWhole(Whole(p)) /\ Whole(p).wire <= Mtu
<1> DEFINE i == InnerLen(p)
           o == OuterPadding(p)
           e == InnerEncryption(p)
<1>1. p.len \in Nat \ {0} /\ p.ver \in {4, 6} /\ Block \in Nat \ {0} /\ Mtu \in Nat
  BY InnerTypes, SrTransferAssumption
<1>2. /\ conf.enc \in {"None", "Xor", "Aes"} /\ conf.outer \in {"None", "Aes"}
      /\ e \in {"None", "Xor", "Aes"} /\ (p.ver = 4 => e = conf.enc) /\ (p.ver = 6 => e = "None")
  BY <1>1 DEF ConfOK, InnerEncryption
<1>3. /\ i \in Nat \ {0} /\ p.len <= i
      /\ e = "Aes" => i % Block = 0
  <2>1. Padding(p.len) \in Nat /\ (p.len + Padding(p.len)) % Block = 0
    <3> DEFINE l == p.len
    <3>1. l \in Nat /\ Block \in Nat \ {0}
      BY <1>1
    <3> HIDE DEF l
    <3>2. Padding(l) \in 0 .. Block - 1 /\ (l + Padding(l)) % Block = 0
      BY <3>1, PaddingFills
    <3>3. Padding(l) \in Nat
      BY <3>1, <3>2
    <3>4. QED
      BY <3>2, <3>3 DEF l
  <2>2. QED
    BY <1>1, <2>1 DEF InnerLen
<1>4. /\ o \in Nat /\ (conf.outer = "None" => o = 0)
      /\ conf.outer # "None" => (i + o) % Block = 0
  <2>1. Padding(i) \in Nat /\ (i + Padding(i)) % Block = 0
    BY <1>1, <1>3, PaddingFills
  <2>2. QED
    BY <2>1 DEF OuterPadding
<1> HIDE DEF i, o, e
<1>5. /\ Whole(p).alg = conf.outer /\ Whole(p).enc = e /\ Whole(p).pad = o
      /\ Whole(p).wire = i + o /\ Whole(p).pay = p /\ Whole(p).type = PacketType(p)
  BY DEF Whole, i, o, e
<1>6. i + o > 0 /\ o < i + o /\ (i + o) - o = i
  BY <1>3, <1>4
<1>7. /\ PacketType(p) = "DataEncrypted" => e # "None" /\ p.ver = 4 /\ e = conf.enc
      /\ PacketType(p) # "DataEncrypted" => e = "None"
      /\ PacketType(p) = "DataIpv6" => p.ver = 6
      /\ PacketType(p) # "DataIpv6" => p.ver = 4
  BY <1>1, <1>2 DEF PacketType, e
<1>8. Plain(Whole(p)) = i
  BY <1>5, <1>6 DEF Plain
<1>9. DecodesWhole(Whole(p))
  BY <1>2, <1>3, <1>4, <1>5, <1>6, <1>7, <1>8 DEF DecodesWhole
<1>10. i + o <= Mtu
  BY DEF WholeAccepted, i, o
<1>11. QED
  BY <1>5, <1>9, <1>10

\* The two parts of a packet that is split.
LEMMA HalfTypes ==
  ASSUME NEW p \in Inner, SplitAccepted(p), NEW id \in Ids, NEW k \in 1..2
  PROVE  LET f == Halves(p, id)[k]
         IN  /\ f \in WireFragment /\ f \in Fragment /\ FragmentParses(f)
             /\ f.id = id /\ f.pay = p /\ f.len <= Mtu
             /\ f.eop => EndOffset(f) = p.len
<1>1. /\ p.len \in Nat \ {0} /\ p \in Payloads /\ Mtu \in Nat \ {0} /\ MaxLen \in Nat /\ MaxPacket \in Nat
      /\ p.len > Mtu /\ Mtu <= MaxLen /\ p.len <= 2 * Mtu /\ p.len <= MaxPacket
  BY InnerTypes, SrTransferAssumption, SrReassemblyAssumption DEF SplitAccepted
<1>2. CASE k = 1
  BY <1>1, <1>2 DEF Halves, Fragment, WireFragment, FragmentParses, EndOffset
<1>3. CASE k = 2
  <2>1. p.len - Mtu \in 0..MaxLen /\ p.len - Mtu > 0 /\ p.len - Mtu <= Mtu /\ Mtu \in 0..MaxPacket
        /\ Mtu + (p.len - Mtu) = p.len
    BY <1>1
  <2>2. QED
    BY <1>1, <1>3, <2>1 DEF Halves, Fragment, WireFragment, FragmentParses, EndOffset
<1>4. QED
  BY <1>2, <1>3

-----------------------------------------------------------------------------
(* SrTransfer: what is under way. *)

Fragmented(d) ==
    \E p \in Inner, id \in Ids, k \in 1..2 :
        SplitAccepted(p) /\ d = [kind |-> "fragment", ver |-> p.ver, part |-> Halves(p, id)[k]]

\* A datagram as encode_data makes it.
DatagramOK(d) ==
    \/ \E p \in Inner : WholeAccepted(p) /\ d = Whole(p)
    \/ Fragmented(d)

LEMMA DatagramDecodes ==
  ASSUME ConfOK, NEW d, DatagramOK(d)
  PROVE  /\ d.kind = "whole" => DecodesWhole(d) /\ d.wire <= Mtu
         /\ d.kind # "whole" =>
               /\ d.kind = "fragment" /\ Fragmented(d)
               /\ d.part \in Fragment /\ d.part \in WireFragment /\ FragmentParses(d.part)
               /\ d.part.pay \in Inner
               /\ d.part.len <= Mtu /\ d.ver = d.part.pay.ver
               /\ d.part.eop => EndOffset(d.part) = d.part.pay.len
<1>1. CASE \E p \in Inner : WholeAccepted(p) /\ d = Whole(p)
  <2>1. PICK p \in Inner : WholeAccepted(p) /\ d = Whole(p)
    BY <1>1
  <2>2. d.kind = "whole"
    BY <2>1 DEF Whole
  <2>3. QED
    BY <2>1, <2>2, WholeDecodes
<1>2. CASE Fragmented(d)
  <2>1. PICK p \in Inner, id \in Ids, k \in 1..2 :
           SplitAccepted(p) /\ d = [kind |-> "fragment", ver |-> p.ver, part |-> Halves(p, id)[k]]
    BY <1>2 DEF Fragmented
  <2>2. d.kind = "fragment" /\ d.ver = p.ver /\ d.part = Halves(p, id)[k]
    BY <2>1
  <2>3. QED
    BY <1>2, <2>1, <2>2, HalfTypes
<1>3. QED
  BY <1>1, <1>2 DEF DatagramOK

Members(s) == {s[k] : k \in DOMAIN s}

\* Every fragment that can still become part of a packet: on the way, about to
\* be sent, or in a group that lives.
UnderWay ==
    {d.dgram.part : d \in {e \in net : e.dgram.kind = "fragment"}}
        \cup {d.part : d \in {e \in Members(outbox) : e.kind = "fragment"}}
        \cup UNION {groups[i].parts : i \in Live}

Whence == \A f, g \in UnderWay : f.id = g.id => f.pay = g.pay
Ends == \A f \in UnderWay : f.eop => EndOffset(f) = f.pay.len

TransferInv ==
    /\ ReassemblyInv
    /\ ConfOK /\ nextId \in Ids /\ sent \in 0..MaxSends
    /\ outbox \in Seq(Members(outbox))
    /\ \A d \in net : "dgram" \in DOMAIN d
    /\ \A d \in net : DatagramOK(d.dgram)
    /\ \A d \in Members(outbox) : DatagramOK(d)
    /\ Whence /\ Ends
    /\ NeverMixed

LEMMA TailMembers ==
  ASSUME NEW s, s \in Seq(Members(s)), s # <<>>
  PROVE  /\ Head(s) \in Members(s) /\ Members(Tail(s)) \subseteq Members(s)
         /\ Tail(s) \in Seq(Members(Tail(s)))
<1> DEFINE S == Members(s)
<1>1. s \in Seq(S) /\ Len(s) \in Nat \ {0} /\ DOMAIN s = 1 .. Len(s)
  <2> HIDE DEF S
  <2>1. s \in Seq(S)
    BY DEF S
  <2>2. QED
    BY <2>1
<1>2. Head(s) = s[1] /\ 1 \in DOMAIN s
  BY <1>1
<1>3. /\ Tail(s) \in Seq(S) /\ DOMAIN Tail(s) = 1 .. Len(s) - 1 /\ Len(Tail(s)) = Len(s) - 1
      /\ \A k \in 1 .. Len(s) - 1 : Tail(s)[k] = s[k + 1]
  <2> HIDE DEF S
  <2>1. QED
    BY <1>1
<1>4. \A k \in 1 .. Len(s) - 1 : k + 1 \in DOMAIN s
  BY <1>1
<1>5. Members(Tail(s)) \subseteq Members(s)
  BY <1>3, <1>4 DEF Members
<1>6. \A k \in 1 .. Len(Tail(s)) : Tail(s)[k] \in Members(Tail(s))
  BY <1>3 DEF Members
<1>7. Tail(s) \in Seq(Members(Tail(s)))
  <2> DEFINE t == Tail(s)
             T == Members(Tail(s))
  <2>1. t \in Seq(S) /\ \A k \in 1 .. Len(t) : t[k] \in T
    BY <1>3, <1>6
  <2> HIDE DEF t, T, S
  <2>2. t \in Seq(T)
    BY <2>1
  <2>3. QED
    BY <2>2 DEF t, T
<1>8. QED
  BY <1>1, <1>2, <1>5, <1>7 DEF Members

LEMMA EncodedOK ==
  ASSUME ConfOK, NEW p \in Inner, NEW id \in Ids
  PROVE  LET s == EncodeData(p, id)
         IN  /\ s \in Seq(Members(s))
             /\ \A d \in Members(s) :
                   /\ DatagramOK(d)
                   /\ d.kind = "fragment" =>
                        /\ d.part.id = id /\ d.part.pay = p
                        /\ d.part.eop => EndOffset(d.part) = d.part.pay.len
<1> DEFINE s == EncodeData(p, id)
<1>1. CASE WholeAccepted(p)
  <2>1. s = <<Whole(p)>>
    BY <1>1 DEF EncodeData
  <2> HIDE DEF s
  <2>2. Members(s) = {Whole(p)} /\ s \in Seq(Members(s))
    BY <2>1 DEF Members
  <2>3. Whole(p).kind # "fragment" /\ DatagramOK(Whole(p))
    BY <1>1 DEF Whole, DatagramOK
  <2>4. QED
    BY <2>2, <2>3 DEF s
<1>2. CASE ~ WholeAccepted(p) /\ SplitAccepted(p)
  <2>1. /\ s = Split(p, id) /\ DOMAIN s = 1..2
        /\ \A k \in 1..2 : s[k] = [kind |-> "fragment", ver |-> p.ver, part |-> Halves(p, id)[k]]
    BY <1>2 DEF EncodeData, Split
  <2>2. s = [k \in 1..2 |-> s[k]]
    BY <2>1 DEF Split
  <2> HIDE DEF s
  <2>3. s \in [1..2 -> Members(s)] /\ \A d \in Members(s) : \E k \in 1..2 : d = s[k]
    BY <2>1, <2>2 DEF Members
  <2>4. s \in Seq(Members(s))
    <3> DEFINE T == Members(s)
               n == 2
    <3>1. n \in Nat /\ s \in [1..n -> T]
      BY <2>3
    <3> HIDE DEF T, n
    <3>2. s \in Seq(T)
      BY <3>1
    <3>3. QED
      BY <3>2 DEF T
  <2>5. ASSUME NEW k \in 1..2
        PROVE  /\ DatagramOK(s[k]) /\ s[k].part.id = id /\ s[k].part.pay = p
               /\ s[k].part.eop => EndOffset(s[k].part) = s[k].part.pay.len
    <3>1. s[k].part = Halves(p, id)[k] /\ Fragmented(s[k])
      BY <1>2, <2>1 DEF Fragmented
    <3>2. QED
      BY <1>2, <3>1, HalfTypes DEF DatagramOK
  <2>6. QED
    BY <2>3, <2>4, <2>5 DEF s
<1>3. CASE ~ WholeAccepted(p) /\ ~ SplitAccepted(p)
  <2>1. s = <<>>
    BY <1>3 DEF EncodeData
  <2> HIDE DEF s
  <2>2. Members(s) = {} /\ s \in Seq(Members(s))
    BY <2>1 DEF Members
  <2>3. QED
    BY <2>2 DEF s
<1>4. QED
  BY <1>1, <1>2, <1>3
\* The parts of the groups that live after an insertion were under way before.
LEMMA InsertGroups ==
  ASSUME TableInv, NEW f \in WireFragment, Insert(f)
  PROVE  \A i \in Live' : groups'[i].parts \subseteq
            {f} \cup UNION {groups[j].parts : j \in Live}
<1> DEFINE P == UNION {groups[j].parts : j \in Live}
<1>1. CASE ParseFails(f)
  BY <1>1 DEF ParseFails, Live
<1>2. CASE \E K \in SUBSET Live : groups' = Kept(K)
  BY <1>2 DEF Kept, Live
<1>3. CASE Store(f)
  <2>1. groups' = Stored(f) /\ Admitted(f) /\ ~ Conflicts(f)
    BY <1>3 DEF Store
  <2>2. /\ DOMAIN groups' = Live \cup {f.id}
        /\ groups'[f.id].parts = GroupOf(f.id).parts \cup {f}
        /\ \A i \in Live : i # f.id => groups'[i] = groups[i]
    BY <2>1, StoredGroup DEF Stored
  <2>3. GroupOf(f.id).parts \subseteq P
    BY DEF GroupOf
  <2>4. QED
    BY <2>2, <2>3 DEF Live
<1>4. QED
  <2>1. IgnoreDuplicate(f) \/ RefuseForRoom(f) \/ DiscardOverlap(f) \/ Complete(f)
           => \E K \in SUBSET Live : groups' = Kept(K)
    BY DEF IgnoreDuplicate, RefuseForRoom, DiscardOverlap, Complete
  <2>2. QED
    BY <1>1, <1>2, <1>3, <2>1 DEF Insert

LEMMA FewerUnderWay ==
  ASSUME Whence, Ends, UnderWay' \subseteq UnderWay
  PROVE  Whence' /\ Ends'
  BY DEF Whence, Ends, EndOffset

LEMMA NoneReturned ==
  ASSUME Return("none")
  PROVE  NeverMixed' /\ result' \in Result /\ packet' \in Seq(Fragment) /\ PacketExact'
<1>1. "none" \in Result \ {"packet"}
  BY DEF Result
<1>2. QED
  BY <1>1, ReturnKeeps DEF Return, NeverMixed

LEMMA UnchangedTable ==
  ASSUME ReassemblyInv, Return("none"), UNCHANGED <<groups, buffered>>
  PROVE  ReassemblyInv' /\ NeverMixed' /\ Live' = Live
  BY NoneReturned DEF ReassemblyInv, TableInv, GroupsOK, GroupOK, BytesOf, Live

LEMMA SameConf ==
  ASSUME UNCHANGED conf, NEW d
  PROVE  DatagramOK(d)' <=> DatagramOK(d)
  BY DEF DatagramOK, Fragmented, WholeAccepted, SplitAccepted, Whole, InnerEncryption, InnerLen,
         OuterPadding, PacketType

LEMMA ReadKeeps == ASSUME TransferInv, ReadPacket PROVE TransferInv'
<1>1. PICK v \in {4, 6}, l \in Lengths :
         outbox' = EncodeData([n |-> sent + 1, ver |-> v, len |-> l], nextId)
  BY DEF ReadPacket
<1> DEFINE p == [n |-> sent + 1, ver |-> v, len |-> l]
<1>2. /\ outbox = <<>> /\ sent < MaxSends /\ IdIsFresh(nextId)
      /\ nextId' = (nextId + 1) % Cardinality(Ids) /\ sent' = sent + 1 /\ Return("none")
      /\ UNCHANGED <<groups, buffered, conf, net>>
  BY DEF ReadPacket
<1>3. p \in Inner /\ sent' \in 0..MaxSends
  BY <1>2, SrTransferAssumption DEF TransferInv, Inner
<1>4. nextId' \in Ids
  <2> DEFINE c == Cardinality(Ids)
  <2>1. c \in Nat /\ nextId \in 0 .. c - 1
    BY SrTransferAssumption, FS_CardinalityType DEF TransferInv
  <2>2. (nextId + 1) % c \in 0 .. c - 1
    <3> HIDE DEF c
    <3>1. QED
      BY <2>1
  <2>3. QED
    BY <1>2, <2>2, SrTransferAssumption
<1>5. ReassemblyInv' /\ NeverMixed' /\ Live' = Live
  BY <1>2, UnchangedTable DEF TransferInv
<1> HIDE DEF p
<1>6. /\ outbox' \in Seq(Members(outbox'))
      /\ \A d \in Members(outbox') :
            /\ DatagramOK(d)
            /\ d.kind = "fragment" =>
                 /\ d.part.id = nextId /\ d.part.pay = p
                 /\ d.part.eop => EndOffset(d.part) = d.part.pay.len
  BY <1>1, <1>3, EncodedOK DEF TransferInv, p
<1> DEFINE New == {d.part : d \in {e \in Members(outbox') : e.kind = "fragment"}}
<1>7. /\ \A f \in New : f.id = nextId /\ f.pay = p /\ (f.eop => EndOffset(f) = f.pay.len)
      /\ UnderWay' \subseteq UnderWay \cup New
  BY <1>2, <1>5, <1>6 DEF UnderWay
<1>8. \A f \in UnderWay : f.id # nextId
  <2>1. Members(outbox) = {}
    BY <1>2 DEF Members
  <2>2. \A i \in Live : i # nextId /\ \A f \in groups[i].parts : f.id = i
    <3>1. nextId \notin Live
      BY <1>2, SrReassemblyAssumption DEF IdIsFresh, Live, TransferInv, ReassemblyInv, TableInv, GroupsOK, GroupOK, Group
    <3>2. QED
      BY <3>1, PurgedIsLive DEF TransferInv, ReassemblyInv, TableInv, GroupsOK, GroupOK
  <2>3. QED
    BY <1>2, <2>1, <2>2 DEF UnderWay, IdIsFresh
<1>9. Whence' /\ Ends'
  BY <1>7, <1>8 DEF Whence, Ends, EndOffset, TransferInv
<1>10. \A d \in net : DatagramOK(d.dgram)'
  BY <1>2, SameConf DEF TransferInv
<1>11. \A d \in Members(outbox') : DatagramOK(d)'
  BY <1>2, <1>6, SameConf
<1>12. QED
  BY <1>2, <1>3, <1>4, <1>5, <1>6, <1>9, <1>10, <1>11 DEF TransferInv, ConfOK, Members
LEMMA SendKeeps == ASSUME TransferInv, SendDatagram PROVE TransferInv'
<1>1. /\ outbox # <<>> /\ Return("none") /\ outbox' = Tail(outbox)
      /\ net' = net \cup {[dgram |-> Head(outbox), age |-> 0]}
      /\ UNCHANGED <<groups, buffered, conf, nextId, sent>>
  BY DEF SendDatagram
<1>2. ReassemblyInv' /\ NeverMixed' /\ Live' = Live
  BY <1>1, UnchangedTable DEF TransferInv
<1>3. /\ Head(outbox) \in Members(outbox) /\ Members(outbox') \subseteq Members(outbox)
      /\ outbox' \in Seq(Members(outbox'))
  BY <1>1, TailMembers DEF TransferInv
<1>4. UnderWay' \subseteq UnderWay
  BY <1>1, <1>2, <1>3 DEF UnderWay
<1>5. \A d \in net' : "dgram" \in DOMAIN d /\ DatagramOK(d.dgram)
  BY <1>1, <1>3 DEF TransferInv
<1>6. \A d \in Members(outbox') : DatagramOK(d)
  BY <1>3 DEF TransferInv
<1>7. Members(outbox)' = Members(outbox')
  BY DEF Members
<1>8. (\A d \in net : DatagramOK(d.dgram))' /\ (\A d \in Members(outbox) : DatagramOK(d))'
  BY <1>1, <1>5, <1>6, <1>7, SameConf
<1>9. QED
  BY <1>1, <1>2, <1>3, <1>4, <1>7, <1>8, FewerUnderWay DEF TransferInv, ConfOK

LEMMA TransferTickKeeps == ASSUME TransferInv, TransferTick PROVE TransferInv'
<1>1. /\ AgeGroups /\ Return("none") /\ UNCHANGED <<buffered, conf, nextId, sent, outbox>>
      /\ net' = {[d EXCEPT !.age = @ + 1] : d \in {e \in net : e.age < NetLife}}
  BY DEF TransferTick
<1>2. ReassemblyInv' /\ NeverMixed'
  BY <1>1, AgeKeeps, NoneReturned DEF TransferInv, ReassemblyInv
<1>3. \A d \in net' : "dgram" \in DOMAIN d /\ \E e \in net : d.dgram = e.dgram
  <2>1. ASSUME NEW e \in net
        PROVE  /\ "dgram" \in DOMAIN [e EXCEPT !.age = @ + 1]
               /\ [e EXCEPT !.age = @ + 1].dgram = e.dgram
    BY DEF TransferInv
  <2>2. QED
    BY <1>1, <2>1
<1>4. \A i \in Live' : i \in Live /\ groups'[i].parts = groups[i].parts
  <2>1. ASSUME NEW i \in Live' PROVE i \in Live /\ groups'[i].parts = groups[i].parts
    <3>1. i \in DOMAIN groups /\ groups'[i] = [groups[i] EXCEPT !.age = IF @ > Lifetime THEN @ ELSE @ + 1]
          /\ groups'[i].age <= Lifetime
      BY <1>1 DEF AgeGroups, Live
    <3>2. groups[i] \in Group /\ groups[i].age \in 0 .. Lifetime + 1
      BY <3>1 DEF TransferInv, ReassemblyInv, TableInv, GroupsOK, GroupOK, Group
    <3>3. groups'[i].parts = groups[i].parts
          /\ groups'[i].age = IF groups[i].age > Lifetime THEN groups[i].age ELSE groups[i].age + 1
      BY <3>1, <3>2 DEF Group
    <3>4. groups[i].age <= Lifetime
      BY <3>1, <3>2, <3>3, SrReassemblyAssumption
    <3>5. QED
      BY <3>1, <3>3, <3>4 DEF Live
  <2>2. QED
    BY <2>1
<1>5. Members(outbox)' = Members(outbox)
  BY <1>1 DEF Members
<1>6. UnderWay' \subseteq UnderWay
  BY <1>1, <1>3, <1>4, <1>5 DEF UnderWay
<1>7. (\A d \in net : DatagramOK(d.dgram))' /\ (\A d \in Members(outbox) : DatagramOK(d))'
  BY <1>1, <1>3, <1>5, SameConf DEF TransferInv
<1>8. QED
  BY <1>1, <1>2, <1>5, <1>6, <1>7, FewerUnderWay DEF TransferInv, ConfOK

LEMMA TransferDeliverKeeps == ASSUME TransferInv, Deliver PROVE TransferInv'
<1>1. PICK d \in net :
        /\ net' \in {net, net \ {d}}
        /\ IF d.dgram.kind = "whole"
             THEN /\ inner' = IF Decodes(d.dgram) THEN d.dgram.pay ELSE NoInner
                  /\ Return("none")
                  /\ UNCHANGED <<groups, buffered>>
             ELSE /\ Insert(d.dgram.part)
                  /\ inner' = IF /\ result' = "packet"
                                 /\ packet'[1].pay.ver = d.dgram.ver
                                THEN packet'[1].pay ELSE NoInner
        /\ UNCHANGED <<conf, nextId, sent, outbox>>
  BY Zenon DEF Deliver
<1> DEFINE f == d.dgram.part
<1>2. DatagramOK(d.dgram) /\ ConfOK
  BY DEF TransferInv
<1>3. net' \subseteq net /\ UNCHANGED <<conf, nextId, sent, outbox>> /\ Members(outbox)' = Members(outbox)
  BY <1>1 DEF Members
<1>4. (\A e \in net : DatagramOK(e.dgram))' /\ (\A e \in Members(outbox) : DatagramOK(e))'
  BY <1>3, SameConf DEF TransferInv
<1>5. CASE d.dgram.kind = "whole"
  <2>1. ReassemblyInv' /\ NeverMixed' /\ Live' = Live /\ groups' = groups
    BY <1>1, <1>5, UnchangedTable DEF TransferInv
  <2>2. UnderWay' \subseteq UnderWay
    BY <1>3, <2>1 DEF UnderWay
  <2>3. QED
    BY <1>3, <1>4, <2>1, <2>2, FewerUnderWay DEF TransferInv, ConfOK
<1>6. CASE d.dgram.kind # "whole"
  <2>1. /\ d.dgram.kind = "fragment" /\ f \in Fragment /\ f \in WireFragment
        /\ d.dgram.ver = f.pay.ver
    BY <1>2, <1>6, DatagramDecodes
  <2>2. /\ Insert(f)
        /\ inner' = IF result' = "packet" /\ packet'[1].pay.ver = d.dgram.ver
                      THEN packet'[1].pay ELSE NoInner
    BY <1>1, <1>6
  <2>3. f \in UnderWay
    BY <2>1 DEF UnderWay
  <2> HIDE DEF f
  <2>4. TableInv'
    BY <2>1, <2>2, InsertKeeps DEF TransferInv, ReassemblyInv
  <2>5. /\ result' \in Result /\ packet' \in Seq(Fragment) /\ PacketExact'
        /\ result' = "packet" =>
               /\ Complete(f)
               /\ \A k \in 1 .. Len(packet') : packet'[k] \in Stored(f)[f.id].parts
               /\ EndsPacket(Last(packet'), Stored(f)[f.id].parts)
    BY <2>1, <2>2, InsertReturns DEF TransferInv, ReassemblyInv
  <2>6. UnderWay' \subseteq UnderWay
    <3>1. \A i \in Live' : groups'[i].parts \subseteq {f} \cup UNION {groups[j].parts : j \in Live}
      BY <2>1, <2>2, InsertGroups DEF TransferInv, ReassemblyInv
    <3>2. \A i \in Live' : groups'[i].parts \subseteq UnderWay
      BY <2>3, <3>1 DEF UnderWay
    <3>3. QED
      BY <1>3, <3>2 DEF UnderWay
  <2>7. NeverMixed'
    <3>1. SUFFICES ASSUME result' = "packet"
                   PROVE  /\ \A k \in 1 .. Len(packet') : packet'[k].pay = inner'
                          /\ EndOffset(Last(packet')) = inner'.len
      BY DEF NeverMixed, EndOffset, Last
    <3>2. Admitted(f) /\ ~ Conflicts(f)
      BY <2>5, <3>1 DEF Complete
    <3>3. \A q \in Stored(f)[f.id].parts : q \in UnderWay /\ q.id = f.id /\ q.pay = f.pay
      <4>1. /\ Stored(f)[f.id].parts = GroupOf(f.id).parts \cup {f}
            /\ \A q \in Stored(f)[f.id].parts : q.id = f.id
        BY <2>1, <3>2, StoredGroup DEF TransferInv, ReassemblyInv
      <4>2. GroupOf(f.id).parts \subseteq UnderWay
        BY DEF GroupOf, UnderWay
      <4>3. QED
        BY <2>3, <4>1, <4>2 DEF TransferInv, Whence
    <3>4. Len(packet') \in Nat /\ packet' # <<>> /\ 1 \in 1 .. Len(packet')
      BY <2>5, <3>1 DEF PacketExact
    <3>5. \A k \in 1 .. Len(packet') : packet'[k].pay = f.pay
      BY <2>5, <3>1, <3>3
    <3>6. inner' = f.pay
      BY <2>1, <2>2, <3>1, <3>4, <3>5
    <3>7. Last(packet').pay = f.pay /\ EndOffset(Last(packet')) = Last(packet').pay.len
      BY <2>5, <3>1, <3>3 DEF EndsPacket, TransferInv, Ends
    <3>8. QED
      BY <3>5, <3>6, <3>7
  <2>8. QED
    BY <1>3, <1>4, <2>4, <2>5, <2>6, <2>7, FewerUnderWay DEF TransferInv, ReassemblyInv, ConfOK
<1>7. QED
  BY <1>5, <1>6

LEMMA TransferStarts == ASSUME TransferInit PROVE TransferInv
<1>1. /\ SrInit /\ ConfOK /\ nextId \in Ids /\ sent = 0 /\ outbox = <<>> /\ net = {}
  BY SrTransferAssumption DEF TransferInit, ConfOK
<1>2. ReassemblyInv /\ NeverMixed /\ Live = {}
  BY <1>1, ReassemblyStarts DEF SrInit, NeverMixed, Live
<1>3. Members(outbox) = {} /\ outbox \in Seq(Members(outbox))
  BY <1>1 DEF Members
<1>4. UnderWay = {}
  BY <1>1, <1>2, <1>3 DEF UnderWay
<1>5. QED
  BY <1>1, <1>2, <1>3, <1>4, SrTransferAssumption DEF TransferInv, Whence, Ends

LEMMA TransferImplies == ASSUME TransferInv PROVE TransferSound
<1>1. ASSUME NEW d \in net
      PROVE  /\ Decodes(d.dgram)
             /\ (IF d.dgram.kind = "whole" THEN d.dgram.wire ELSE d.dgram.part.len) <= Mtu
  BY DatagramDecodes DEF TransferInv, Decodes
<1>2. QED
  BY <1>1 DEF TransferSound, EncodedSound, AcceptedDecodes, FitsMtu, TransferInv

LEMMA TransferStutters == ASSUME TransferInv, UNCHANGED transferVars PROVE TransferInv'
<1>1. UNCHANGED <<groups, buffered, result, packet, conf, nextId, sent, outbox, net, inner>>
  BY DEF transferVars, srVars
<1>2. ReassemblyInv'
  BY <1>1 DEF TransferInv, ReassemblyInv, TableInv, GroupsOK, GroupOK, BytesOf, PacketExact
<1>3. UnderWay' \subseteq UnderWay /\ Members(outbox)' = Members(outbox)
  BY <1>1 DEF UnderWay, Live, Members
<1>4. (\A d \in net : DatagramOK(d.dgram))' /\ (\A d \in Members(outbox) : DatagramOK(d))'
  BY <1>1, <1>3, SameConf DEF TransferInv
<1>5. NeverMixed'
  BY <1>1 DEF TransferInv, NeverMixed
<1>6. QED
  BY <1>1, <1>2, <1>3, <1>4, <1>5, FewerUnderWay DEF TransferInv, ConfOK

\* For every MTU, block size, ring of fragment IDs and set of payloads, and
\* whatever the network does: decode_datagram accepts what encode_data
\* (src/src/sr.rs) accepted, a datagram fits the MTU, and no packet is built
\* out of the fragments of two.
THEOREM TransferAlwaysSound == TransferSpec => []TransferSound
<1>1. TransferInit => TransferInv
  BY TransferStarts
<1>2. TransferInv /\ [TransferNext]_transferVars => TransferInv'
  <2>1. CASE UNCHANGED transferVars
    BY <2>1, TransferStutters
  <2>2. QED
    BY <2>1, ReadKeeps, SendKeeps, TransferDeliverKeeps, TransferTickKeeps DEF TransferNext
<1>3. TransferInv => TransferSound
  BY TransferImplies
<1>4. QED
  BY <1>1, <1>2, <1>3, PTL DEF TransferSpec

-----------------------------------------------------------------------------
(* The attributes of an answer: what encoding makes of them. *)

\* Bodies, attributes, and the bytes of one attribute.
Bodies == Seq(Int)
Attrs == [kind : Kinds, value : Bodies]
Piece(t) == <<t.kind, Len(t.value) + 2>> \o t.value

LEMMA KindsAre == (\A k \in Kinds : k \in Nat) /\ \A k \in DOMAIN TlvType : TlvType[k] \in Kinds
BY DEF Kinds, TlvType

LEMMA AttributeMade ==
  ASSUME NEW k \in DOMAIN TlvType, NEW v \in Bodies
  PROVE  Attribute(k, v) \in Attrs
BY DEF Attribute, Attrs, Kinds

LEMMA PieceIs ==
  ASSUME NEW t \in Attrs
  PROVE  /\ Len(t.value) \in Nat /\ t.value \in Bodies
         /\ Piece(t) \in Bodies /\ Len(Piece(t)) = Len(t.value) + 2
         /\ Piece(t)[1] = t.kind /\ Piece(t)[2] = Len(t.value) + 2
         /\ \A j \in 1 .. Len(t.value) : Piece(t)[j + 2] = t.value[j]
<1> DEFINE v == t.value
           head == <<t.kind, Len(v) + 2>>
<1>1. v \in Bodies /\ Len(v) \in Nat /\ t.kind \in Int
  <2>1. t.kind \in Kinds /\ v \in Bodies
    BY DEF Attrs
  <2>2. \A k \in Kinds : k \in Nat
    BY KindsAre
  <2>3. Len(v) \in Nat
    BY <2>1 DEF Bodies
  <2> HIDE DEF v
  <2>4. QED
    BY <2>1, <2>2, <2>3
<1>2. head \in Bodies /\ Len(head) = 2 /\ head[1] = t.kind /\ head[2] = Len(v) + 2
  BY <1>1 DEF Bodies
<1>3. Piece(t) = head \o v
  BY DEF Piece
<1> HIDE DEF head, v
<1>4. /\ head \o v \in Bodies /\ Len(head \o v) = 2 + Len(v)
      /\ \A i \in 1 .. (2 + Len(v)) : (head \o v)[i] = IF i <= 2 THEN head[i] ELSE v[i - 2]
  <2>1. head \in Seq(Int) /\ v \in Seq(Int)
    BY <1>1, <1>2 DEF Bodies
  <2>2. /\ head \o v \in Seq(Int) /\ Len(head \o v) = Len(head) + Len(v)
        /\ \A i \in 1 .. Len(head) + Len(v) :
              (head \o v)[i] = IF i <= Len(head) THEN head[i] ELSE v[i - Len(head)]
    BY <2>1, ConcatProperties
  <2>3. QED
    BY <1>2, <2>2 DEF Bodies
<1>5. \A j \in 1 .. Len(v) : (head \o v)[j + 2] = v[j]
  <2>1. ASSUME NEW j \in 1 .. Len(v) PROVE (head \o v)[j + 2] = v[j]
    <3>1. j + 2 \in 1 .. (2 + Len(v)) /\ ~ (j + 2 <= 2) /\ (j + 2) - 2 = j
      BY <1>1
    <3>2. QED
      BY <1>4, <3>1
  <2>2. QED
    BY <2>1
<1>6. (head \o v)[1] = head[1] /\ (head \o v)[2] = head[2]
  BY <1>1, <1>4
<1>7. QED
  BY <1>1, <1>2, <1>3, <1>4, <1>5, <1>6 DEF v

Pieces(tlvs) == [i \in DOMAIN tlvs |-> Piece(tlvs[i])]

LEMMA PiecesAre ==
  ASSUME NEW tlvs \in Seq(Attrs)
  PROVE  /\ Pieces(tlvs) \in Seq(Bodies) /\ Encode(tlvs) = FlattenSeq(Pieces(tlvs))
         /\ Len(Pieces(tlvs)) = Len(tlvs)
<1>1. Encode(tlvs) = FlattenSeq(Pieces(tlvs))
  BY DEF Encode, Pieces, Piece
<1>2. \A i \in DOMAIN tlvs : Piece(tlvs[i]) \in Bodies
  BY PieceIs
<1>3. DOMAIN tlvs = 1 .. Len(tlvs) /\ Len(tlvs) \in Nat
  OBVIOUS
<1> DEFINE B == Bodies
<1> HIDE DEF B
<1>4. Pieces(tlvs) \in Seq(B) /\ Len(Pieces(tlvs)) = Len(tlvs)
  BY <1>2, <1>3 DEF Pieces, B
<1>5. QED
  BY <1>1, <1>4 DEF B

\* Encode, one attribute more at the front.
LEMMA EncodeIs ==
  /\ Encode(<<>>) = <<>>
  /\ \A tlvs \in Seq(Attrs) : Encode(tlvs) \in Bodies
  /\ \A t \in Attrs, tlvs \in Seq(Attrs) :
        /\ <<t>> \o tlvs \in Seq(Attrs)
        /\ Encode(<<t>> \o tlvs) = Piece(t) \o Encode(tlvs)
        /\ Len(Encode(<<t>> \o tlvs)) = Len(t.value) + 2 + Len(Encode(tlvs))
<1>1. Encode(<<>>) = <<>>
  <2>1. Pieces(<<>>) = <<>> /\ <<>> \in Seq(Attrs)
    BY DEF Pieces
  <2>2. <<>> \in Seq(Seq(Int))
    OBVIOUS
  <2>3. QED
    BY <2>1, <2>2, PiecesAre, FlattenAppend
<1>2. ASSUME NEW tlvs \in Seq(Attrs) PROVE Encode(tlvs) \in Bodies
  BY PiecesAre, FlattenAppend DEF Bodies
<1>3. ASSUME NEW t \in Attrs, NEW tlvs \in Seq(Attrs)
      PROVE  /\ <<t>> \o tlvs \in Seq(Attrs)
             /\ Encode(<<t>> \o tlvs) = Piece(t) \o Encode(tlvs)
             /\ Len(Encode(<<t>> \o tlvs)) = Len(t.value) + 2 + Len(Encode(tlvs))
  <2> DEFINE all == <<t>> \o tlvs
             n == Len(tlvs)
  <2>1. n \in Nat /\ DOMAIN tlvs = 1..n
    OBVIOUS
  <2>2. /\ all \in Seq(Attrs) /\ Len(all) = n + 1 /\ DOMAIN all = 1 .. (n + 1)
        /\ \A i \in 1 .. (n + 1) : all[i] = IF i = 1 THEN t ELSE tlvs[i - 1]
    BY <2>1
  <2> HIDE DEF all, n
  <2>3. Pieces(all) = <<Piece(t)>> \o Pieces(tlvs)
    <3> DEFINE B == Bodies
    <3>1. Pieces(all) \in Seq(B) /\ Len(Pieces(all)) = n + 1 /\ Pieces(tlvs) \in Seq(B) /\ Len(Pieces(tlvs)) = n
          /\ Piece(t) \in B
      BY <2>2, PiecesAre, PieceIs DEF n
    <3> HIDE DEF B
    <3>2. /\ <<Piece(t)>> \o Pieces(tlvs) \in Seq(B)
          /\ Len(<<Piece(t)>> \o Pieces(tlvs)) = n + 1
          /\ \A i \in 1 .. (n + 1) : (<<Piece(t)>> \o Pieces(tlvs))[i] =
                IF i = 1 THEN Piece(t) ELSE Pieces(tlvs)[i - 1]
      BY <2>1, <3>1
    <3>3. \A i \in 1 .. (n + 1) : i # 1 => i - 1 \in 1..n
      BY <2>1
    <3>4. \A i \in 1 .. (n + 1) : Pieces(all)[i] = (<<Piece(t)>> \o Pieces(tlvs))[i]
      BY <2>1, <2>2, <3>2, <3>3 DEF Pieces
    <3>5. QED
      BY <3>1, <3>2, <3>4, SeqEqual
  <2>4. Encode(all) = Piece(t) \o Encode(tlvs)
    <3>1. FlattenSeq(<<Piece(t)>> \o Pieces(tlvs)) = Piece(t) \o FlattenSeq(Pieces(tlvs))
      BY PieceIs, PiecesAre, FlattenCons DEF Bodies
    <3>2. QED
      BY <2>2, <2>3, <3>1, PiecesAre
  <2>5. Len(Piece(t) \o Encode(tlvs)) = Len(Piece(t)) + Len(Encode(tlvs))
    BY <1>2, PieceIs DEF Bodies
  <2>6. QED
    BY <2>2, <2>4, <2>5, PieceIs DEF all
<1>4. QED
  BY <1>1, <1>2, <1>3

-----------------------------------------------------------------------------
(* The attributes of an answer: how a body is cut into them. *)

\* parse_all as a recursive function over the offsets of the input: the
\* attribute at an offset, and the attributes from that offset on.
EndOf(input, o) == o + input[o + 1]
Cut(input, o) == [kind |-> input[o], value |-> SubSeq(input, o + 2, EndOf(input, o) - 1)]
NothingLeft == [ok |-> TRUE, tlvs |-> <<>>]
Broken == [ok |-> FALSE, tlvs |-> <<>>]
CutStep(input, g, o) ==
    IF Left(input, o) < 3 THEN NothingLeft
    ELSE IF ~ Fits(input, o) THEN Broken
    ELSE [g[EndOf(input, o)] EXCEPT !.tlvs = <<Cut(input, o)>> \o @]
Offsets1(input) == 1 .. (Len(input) + 1)
Cuts(input, g) == g = [o \in Offsets1(input) |-> CutStep(input, g, o)]
CutsOf(input) == CHOOSE g : Cuts(input, g)

LEMMA ParseAllIs == ASSUME NEW input PROVE ParseAll(input) = CutsOf(input)[1]
BY DEF ParseAll, CutsOf, Cuts, CutStep, Offsets1, EndOf, Cut, NothingLeft, Broken

LEMMA CutIs ==
  ASSUME NEW input \in Bodies, NEW o \in Offsets1(input), ~ (Left(input, o) < 3), Fits(input, o)
  PROVE  /\ o \in 1 .. Len(input) /\ o + 1 \in 1 .. Len(input)
         /\ EndOf(input, o) \in Offsets1(input)
         /\ input[o + 1] \in Nat /\ input[o + 1] >= 2
         /\ Left(input, EndOf(input, o)) = Left(input, o) - input[o + 1]
         /\ Cut(input, o) \in Attrs /\ Cut(input, o).kind = input[o]
         /\ Len(Cut(input, o).value) = input[o + 1] - 2
         /\ \A j \in 1 .. (input[o + 1] - 2) : Cut(input, o).value[j] = input[o + 1 + j]
<1> DEFINE n == Len(input)
           k == input[o + 1]
           next == o + k
           v == SubSeq(input, o + 2, next - 1)
<1>1. n \in Nat /\ DOMAIN input = 1..n /\ o \in Nat /\ 1 <= o /\ o <= n + 1
      /\ \A i \in 1..n : input[i] \in Int
  BY DEF Bodies, Offsets1
<1>2. Left(input, o) = n - o + 1 /\ n - o + 1 >= 3
  BY <1>1 DEF Left
<1>3. input[o] \in Kinds /\ k \in 2 .. (n - o + 1)
  BY <1>2 DEF Fits
<1> HIDE DEF n, k
<1>4. k \in Nat /\ k >= 2 /\ k <= n - o + 1
  BY <1>1, <1>3
<1>5. o \in 1..n /\ o + 1 \in 1..n /\ next \in 1 .. (n + 1) /\ n - next + 1 = (n - o + 1) - k
  BY <1>1, <1>2, <1>4
<1>6. v \in Bodies /\ Len(v) = k - 2 /\ \A j \in 1 .. (k - 2) : v[j] = input[o + 1 + j]
  <2>1. \A i \in (o + 2) .. (next - 1) : i \in 1..n /\ input[i] \in Int
    BY <1>1, <1>4
  <2>2. o + 2 \in Int /\ next - 1 \in Int
    BY <1>1, <1>4
  <2>3. /\ v \in Seq(Int)
        /\ Len(v) = IF o + 2 <= next - 1 THEN (next - 1) - (o + 2) + 1 ELSE 0
        /\ \A i \in 1 .. (next - 1) - (o + 2) + 1 : v[i] = input[o + 2 + i - 1]
    BY <2>1, <2>2, SubSeqProperties
  <2>4. (next - 1) - (o + 2) + 1 = k - 2
    BY <1>1, <1>4
  <2>5. \A j \in 1 .. (k - 2) : o + 2 + j - 1 = o + 1 + j
    BY <1>1, <1>4
  <2>6. Len(v) = k - 2
    BY <1>1, <1>4, <2>3
  <2>7. QED
    BY <2>3, <2>4, <2>5, <2>6 DEF Bodies
<1>7. Cut(input, o) = [kind |-> input[o], value |-> v] /\ EndOf(input, o) = next
  BY DEF Cut, EndOf, k
<1> HIDE DEF next, v
<1>8. Cut(input, o) \in Attrs
  BY <1>3, <1>6, <1>7 DEF Attrs
<1>9. QED
  BY <1>2, <1>4, <1>5, <1>6, <1>7, <1>8 DEF n, k, Offsets1, Left

LEMMA LeftIs ==
  ASSUME NEW input \in Bodies, NEW o \in Offsets1(input)
  PROVE  /\ Len(input) \in Nat /\ o \in Nat
         /\ Left(input, o) = Len(input) - o + 1 /\ Left(input, o) \in 0 .. Len(input)
<1>1. Len(input) \in Nat
  BY DEF Bodies
<1>2. QED
  BY <1>1 DEF Offsets1, Left

LEMMA CutsExist == ASSUME NEW input \in Bodies PROVE \E g : Cuts(input, g)
<1> DEFINE O == Offsets1(input)
           Upto(n) == \E g : \A o \in O : Left(input, o) <= n => g[o] = CutStep(input, g, o)
           good == {n \in Nat : Upto(n)}
<1>1. \A o \in O : Left(input, o) \in Nat /\ Left(input, o) <= Len(input)
  BY LeftIs
<1>2. Upto(0)
  <2>1. \A o \in O : Left(input, o) <= 0 => [p \in O |-> NothingLeft][o] = CutStep(input, [p \in O |-> NothingLeft], o)
    BY <1>1 DEF CutStep
  <2>2. QED
    BY <2>1
<1>3. ASSUME NEW o \in O, NEW g, NEW h, ~ (Left(input, o) < 3) /\ Fits(input, o) => g[EndOf(input, o)] = h[EndOf(input, o)]
      PROVE  CutStep(input, g, o) = CutStep(input, h, o)
  BY <1>3 DEF CutStep
<1>4. ASSUME NEW n \in Nat, Upto(n) PROVE Upto(n + 1)
  <2>1. PICK g : \A o \in O : Left(input, o) <= n => g[o] = CutStep(input, g, o)
    BY <1>4
  <2> DEFINE h == [o \in O |-> CutStep(input, g, o)]
  <2>2. \A o \in O : h[o] = CutStep(input, g, o)
    OBVIOUS
  <2> HIDE DEF h
  <2>3. ASSUME NEW o \in O, Left(input, o) <= n + 1 PROVE h[o] = CutStep(input, h, o)
    <3>1. ASSUME ~ (Left(input, o) < 3), Fits(input, o) PROVE g[EndOf(input, o)] = h[EndOf(input, o)]
      <4>1. /\ EndOf(input, o) \in O
            /\ Left(input, EndOf(input, o)) = Left(input, o) - input[o + 1]
            /\ input[o + 1] \in Nat /\ input[o + 1] >= 2
        BY <3>1, CutIs
      <4>2. Left(input, EndOf(input, o)) <= n
        BY <1>1, <2>3, <4>1
      <4>3. QED
        BY <2>1, <2>2, <4>1, <4>2
    <3>2. CutStep(input, g, o) = CutStep(input, h, o)
      BY <1>3, <3>1
    <3>3. QED
      BY <2>2, <3>2
  <2>4. QED
    BY <2>3
<1>5. Upto(Len(input))
  <2>1. 0 \in good /\ \A n \in Nat : n \in good => n + 1 \in good
    <3> HIDE DEF Upto
    <3>1. QED
      BY <1>2, <1>4
  <2>2. Nat \subseteq good
    <3> HIDE DEF good
    <3>1. QED
      BY <2>1, AllNaturals
  <2>3. Len(input) \in Nat
    BY DEF Bodies
  <2>4. QED
    BY <2>2, <2>3
<1>6. PICK g : \A o \in O : g[o] = CutStep(input, g, o)
  BY <1>1, <1>5
<1> DEFINE h == [o \in O |-> CutStep(input, g, o)]
<1>7. h = [o \in O |-> CutStep(input, g, o)] /\ \A o \in O : h[o] = g[o]
  BY <1>6
<1> HIDE DEF h
<1>8. ASSUME NEW o \in O PROVE CutStep(input, g, o) = CutStep(input, h, o)
  <2>1. ~ (Left(input, o) < 3) /\ Fits(input, o) => EndOf(input, o) \in O
    BY CutIs
  <2>2. QED
    BY <1>3, <1>7, <2>1
<1>9. Cuts(input, h)
  BY <1>7, <1>8 DEF Cuts
<1>10. QED
  BY <1>9

LEMMA CutsAre ==
  ASSUME NEW input \in Bodies
  PROVE  \A o \in Offsets1(input) : CutsOf(input)[o] = CutStep(input, CutsOf(input), o)
<1>1. Cuts(input, CutsOf(input))
  BY CutsExist DEF CutsOf
<1>2. QED
  BY <1>1 DEF Cuts

Parsed == [ok : BOOLEAN, tlvs : Seq(Attrs)]

\* Some bytes stand in the input from an offset on.
StandsAt(bytes, input, o) ==
    \A j \in 1 .. Len(bytes) : bytes[j] = input[o + j - 1]

\* Every offset before n of a body, from its end.
LEMMA AllOffsets ==
  ASSUME NEW input \in Bodies, NEW T,
         \A o \in Offsets1(input) :
            (\A p \in Offsets1(input) : Left(input, p) < Left(input, o) => p \in T) => o \in T
  PROVE  Offsets1(input) \subseteq T
<1> DEFINE O == Offsets1(input)
           good == {n \in Nat : \A o \in O : Left(input, o) <= n => o \in T}
<1>1. \A o \in O : Left(input, o) \in Nat /\ Left(input, o) <= Len(input)
  BY LeftIs
<1>2. 0 \in good
  BY <1>1
<1>3. ASSUME NEW n \in Nat, n \in good PROVE n + 1 \in good
  <2>1. ASSUME NEW o \in O, Left(input, o) <= n + 1 PROVE o \in T
    <3>1. \A p \in O : Left(input, p) < Left(input, o) => Left(input, p) <= n
      BY <1>1, <2>1
    <3>2. \A p \in O : Left(input, p) < Left(input, o) => p \in T
      BY <1>3, <3>1
    <3>3. QED
      BY <3>2
  <2>2. QED
    BY <2>1
<1>4. Nat \subseteq good
  <2> HIDE DEF good
  <2>1. QED
    BY <1>2, <1>3, AllNaturals
<1>5. QED
  BY <1>1, <1>4

\* One attribute of the encoding and the rest of it.
LEMMA PieceStands ==
  ASSUME NEW input \in Bodies, NEW o \in Offsets1(input), NEW t \in Attrs, NEW rest \in Bodies
  PROVE  LET m == Len(t.value)
             all == Piece(t) \o rest
         IN  /\ Len(all) = m + 2 + Len(rest)
             /\ StandsAt(all, input, o) <=>
                    /\ input[o] = t.kind /\ input[o + 1] = m + 2
                    /\ \A j \in 1..m : input[o + 1 + j] = t.value[j]
                    /\ StandsAt(rest, input, o + m + 2)
<1> DEFINE m == Len(t.value)
           all == Piece(t) \o rest
           n == Len(rest)
<1>1. /\ m \in Nat /\ n \in Nat /\ o \in Nat /\ Piece(t) \in Bodies /\ Len(Piece(t)) = m + 2
      /\ Piece(t)[1] = t.kind /\ Piece(t)[2] = m + 2
      /\ \A j \in 1..m : Piece(t)[j + 2] = t.value[j]
  BY PieceIs, LeftIs DEF Bodies
<1>2. /\ Len(all) = (m + 2) + n
      /\ \A i \in 1 .. (m + 2) + n : all[i] = IF i <= m + 2 THEN Piece(t)[i] ELSE rest[i - (m + 2)]
  <2> DEFINE p == Piece(t)
  <2>1. p \in Seq(Int) /\ rest \in Seq(Int) /\ Len(p) = m + 2
    BY <1>1 DEF Bodies
  <2> HIDE DEF p
  <2>2. /\ Len(p \o rest) = Len(p) + Len(rest)
        /\ \A i \in 1 .. Len(p) + Len(rest) :
              (p \o rest)[i] = IF i <= Len(p) THEN p[i] ELSE rest[i - Len(p)]
    BY <2>1, ConcatProperties
  <2>3. QED
    BY <2>1, <2>2 DEF p
<1> HIDE DEF m, n, all
<1>3. /\ 1 \in 1 .. ((m + 2) + n) /\ all[1] = t.kind
      /\ 2 \in 1 .. ((m + 2) + n) /\ all[2] = m + 2
  BY <1>1, <1>2
<1>4. ASSUME NEW j \in 1..m
      PROVE  j + 2 \in 1 .. ((m + 2) + n) /\ all[j + 2] = t.value[j] /\ o + (j + 2) - 1 = o + 1 + j
  BY <1>1, <1>2
<1>5. ASSUME NEW j \in 1..n
      PROVE  /\ j + (m + 2) \in 1 .. ((m + 2) + n) /\ all[j + (m + 2)] = rest[j]
             /\ o + (j + (m + 2)) - 1 = o + m + 2 + j - 1
  <2>1. j + (m + 2) \in 1 .. ((m + 2) + n) /\ ~ (j + (m + 2) <= m + 2) /\ (j + (m + 2)) - (m + 2) = j
    BY <1>1
  <2>2. QED
    BY <1>1, <1>2, <2>1
<1>6. ASSUME NEW i \in 1 .. ((m + 2) + n)
      PROVE  i = 1 \/ i = 2 \/ (\E j \in 1..m : i = j + 2) \/ (\E j \in 1..n : i = j + (m + 2))
  <2>1. CASE i <= 2
    BY <1>1, <2>1
  <2>2. CASE i > 2 /\ i <= m + 2
    <3>1. i - 2 \in 1..m /\ i = (i - 2) + 2
      BY <1>1, <2>2
    <3>2. QED
      BY <3>1
  <2>3. CASE i > m + 2
    <3>1. i - (m + 2) \in 1..n /\ i = (i - (m + 2)) + (m + 2)
      BY <1>1, <2>3
    <3>2. QED
      BY <3>1
  <2>4. QED
    BY <1>1, <2>1, <2>2, <2>3
<1>7. o + 1 - 1 = o /\ o + 2 - 1 = o + 1
  BY <1>1
<1> DEFINE Parts == /\ input[o] = t.kind /\ input[o + 1] = m + 2
                    /\ \A j \in 1..m : input[o + 1 + j] = t.value[j]
                    /\ StandsAt(rest, input, o + m + 2)
<1>8. ASSUME StandsAt(all, input, o) PROVE Parts
  <2>1. \A i \in 1 .. ((m + 2) + n) : all[i] = input[o + i - 1]
    BY <1>2, <1>8 DEF StandsAt
  <2>2. input[o] = t.kind /\ input[o + 1] = m + 2
    BY <1>3, <1>7, <2>1
  <2>3. \A j \in 1..m : input[o + 1 + j] = t.value[j]
    BY <1>4, <2>1
  <2>4. \A j \in 1..n : rest[j] = input[o + m + 2 + j - 1]
    BY <1>5, <2>1
  <2>5. QED
    BY <2>2, <2>3, <2>4 DEF StandsAt, n
<1>9. ASSUME Parts PROVE StandsAt(all, input, o)
  <2>1. \A j \in 1..n : rest[j] = input[o + m + 2 + j - 1]
    BY <1>9 DEF StandsAt, n
  <2>2. ASSUME NEW i \in 1 .. ((m + 2) + n) PROVE all[i] = input[o + i - 1]
    <3>1. CASE i = 1 \/ i = 2
      BY <1>3, <1>7, <1>9, <3>1
    <3>2. ASSUME NEW j \in 1..m, i = j + 2 PROVE all[i] = input[o + i - 1]
      BY <1>4, <1>9, <3>2
    <3>3. ASSUME NEW j \in 1..n, i = j + (m + 2) PROVE all[i] = input[o + i - 1]
      BY <1>5, <2>1, <3>3
    <3>4. QED
      BY <1>6, <3>1, <3>2, <3>3
  <2>3. QED
    BY <1>2, <2>2 DEF StandsAt
<1>10. QED
  BY <1>1, <1>2, <1>8, <1>9 DEF m, n, all

\* What is parsed says what the bytes say, but for a suffix of two.
ReadsBack(input, o, parsed) ==
    /\ parsed \in Parsed
    /\ parsed.ok => LET bytes == Encode(parsed.tlvs)
                    IN  /\ Len(bytes) <= Left(input, o) /\ Left(input, o) <= Len(bytes) + 2
                        /\ StandsAt(bytes, input, o)

LEMMA CutsReadBack ==
  ASSUME NEW input \in Bodies
  PROVE  \A o \in Offsets1(input) : ReadsBack(input, o, CutsOf(input)[o])
<1> DEFINE P == CutsOf(input)
           O == Offsets1(input)
           good == {o \in O : ReadsBack(input, o, P[o])}
<1>1. \A o \in O : P[o] = CutStep(input, P, o)
  BY CutsAre
<1> HIDE DEF P
<1>2. ASSUME NEW o \in O, \A p \in O : Left(input, p) < Left(input, o) => ReadsBack(input, p, P[p])
      PROVE  ReadsBack(input, o, P[o])
  <2>1. Left(input, o) \in Nat /\ Len(input) \in Nat /\ o \in Nat
    BY LeftIs
  <2>2. CASE Left(input, o) < 3
    <3>1. P[o] = NothingLeft
      BY <1>1, <2>2 DEF CutStep
    <3>2. <<>> \in Seq(Attrs) /\ Len(<<>>) = 0 /\ Encode(<<>>) = <<>>
      BY EncodeIs, EmptySeq
    <3>3. StandsAt(<<>>, input, o)
      BY <3>2 DEF StandsAt
    <3>4. NothingLeft \in Parsed /\ NothingLeft.tlvs = <<>>
      BY <3>2 DEF NothingLeft, Parsed
    <3>5. QED
      BY <2>1, <2>2, <3>1, <3>2, <3>3, <3>4 DEF ReadsBack
  <2>3. CASE ~ (Left(input, o) < 3) /\ ~ Fits(input, o)
    <3>1. P[o] = Broken
      BY <1>1, <2>3 DEF CutStep
    <3>2. Broken \in Parsed /\ ~ Broken.ok
      BY EmptySeq DEF Broken, Parsed
    <3>3. QED
      BY <3>1, <3>2 DEF ReadsBack
  <2>4. CASE ~ (Left(input, o) < 3) /\ Fits(input, o)
    <3> DEFINE next == EndOf(input, o)
               t == Cut(input, o)
               k == input[o + 1]
               r == P[next]
    <3>1. /\ next \in O /\ next = o + k /\ k \in Nat /\ k >= 2
          /\ Left(input, next) = Left(input, o) - k
          /\ t \in Attrs /\ t.kind = input[o] /\ Len(t.value) = k - 2
          /\ \A j \in 1 .. (k - 2) : t.value[j] = input[o + 1 + j]
      BY <2>4, CutIs DEF EndOf
    <3>2. P[o] = [r EXCEPT !.tlvs = <<t>> \o @]
      BY <1>1, <2>4 DEF CutStep
    <3> HIDE DEF next, t, k, r
    <3>3. ReadsBack(input, next, r)
      BY <1>2, <2>1, <3>1 DEF r
    <3>4. r \in Parsed
      BY <3>3 DEF ReadsBack
    <3>5. /\ r.tlvs \in Seq(Attrs) /\ r.ok \in BOOLEAN
          /\ P[o].ok = r.ok /\ P[o].tlvs = <<t>> \o r.tlvs
      BY <3>2, <3>4 DEF Parsed
    <3>6. /\ <<t>> \o r.tlvs \in Seq(Attrs) /\ Encode(r.tlvs) \in Bodies
          /\ Encode(<<t>> \o r.tlvs) = Piece(t) \o Encode(r.tlvs)
      BY <3>1, <3>5, EncodeIs
    <3>7. P[o] \in Parsed
      <4>1. P[o] = [ok |-> r.ok, tlvs |-> <<t>> \o r.tlvs]
        BY <3>2, <3>4 DEF Parsed
      <4>2. QED
        BY <3>5, <3>6, <4>1 DEF Parsed
    <3>8. ASSUME r.ok
          PROVE  LET bytes == Encode(P[o].tlvs)
                 IN  /\ Len(bytes) <= Left(input, o) /\ Left(input, o) <= Len(bytes) + 2
                     /\ StandsAt(bytes, input, o)
      <4> DEFINE rest == Encode(r.tlvs)
      <4>1. /\ Len(rest) <= Left(input, next) /\ Left(input, next) <= Len(rest) + 2
            /\ StandsAt(rest, input, next)
        BY <3>3, <3>8 DEF ReadsBack
      <4>2. Len(t.value) + 2 = k /\ o + Len(t.value) + 2 = next
        BY <2>1, <3>1
      <4>3. rest \in Bodies /\ Len(rest) \in Nat /\ Encode(P[o].tlvs) = Piece(t) \o rest
        <5>1. rest \in Bodies /\ Encode(P[o].tlvs) = Piece(t) \o rest
          BY <3>5, <3>6
        <5> HIDE DEF rest
        <5>2. QED
          BY <5>1 DEF Bodies
      <4> HIDE DEF rest
      <4>4. Len(Piece(t) \o rest) = Len(t.value) + 2 + Len(rest)
        BY <3>1, <4>3, PieceStands
      <4>5. StandsAt(Piece(t) \o rest, input, o)
        <5>1. /\ input[o] = t.kind /\ input[o + 1] = Len(t.value) + 2
              /\ Len(t.value) = k - 2
          BY <3>1, <4>2 DEF k
        <5>2. \A j \in 1 .. Len(t.value) : input[o + 1 + j] = t.value[j]
          BY <3>1, <5>1
        <5>3. StandsAt(rest, input, o + Len(t.value) + 2)
          BY <4>1, <4>2
        <5>4. QED
          BY <3>1, <4>3, <5>1, <5>2, <5>3, PieceStands
      <4>6. QED
        BY <2>1, <3>1, <4>1, <4>2, <4>3, <4>4, <4>5
    <3>9. QED
      BY <3>5, <3>7, <3>8 DEF ReadsBack
  <2>5. QED
    BY <2>2, <2>3, <2>4
<1>3. O \subseteq good
  <2>1. \A o \in O : (\A p \in O : Left(input, p) < Left(input, o) => p \in good) => o \in good
    BY <1>2
  <2> HIDE DEF good
  <2>2. QED
    BY <2>1, AllOffsets
<1>4. QED
  BY <1>3 DEF P

\* An attribute without a value at the very end is taken for a suffix.
Seen(tlvs) == IF Len(tlvs) > 0 /\ tlvs[Len(tlvs)].value = <<>>
              THEN SubSeq(tlvs, 1, Len(tlvs) - 1) ELSE tlvs

LEMMA SeenIs ==
  /\ Seen(<<>>) = <<>>
  /\ \A t \in Attrs : Seen(<<t>>) = IF t.value = <<>> THEN <<>> ELSE <<t>>
  /\ \A t \in Attrs, tlvs \in Seq(Attrs) :
        tlvs # <<>> => Seen(<<t>> \o tlvs) = <<t>> \o Seen(tlvs)
<1>1. Seen(<<>>) = <<>>
  BY DEF Seen
<1>2. ASSUME NEW t \in Attrs PROVE Seen(<<t>>) = IF t.value = <<>> THEN <<>> ELSE <<t>>
  <2> DEFINE s == <<t>>
  <2>1. Len(s) = 1 /\ s[1] = t /\ SubSeq(s, 1, 0) = <<>>
    BY SubSeqEmpty
  <2> HIDE DEF s
  <2>2. Seen(s) = IF t.value = <<>> THEN <<>> ELSE s
    <3>1. 1 - 1 = 0 /\ 1 > 0
      OBVIOUS
    <3>2. QED
      BY <2>1, <3>1 DEF Seen
  <2>3. QED
    BY <2>2 DEF s
<1>3. ASSUME NEW t \in Attrs, NEW tlvs \in Seq(Attrs), tlvs # <<>>
      PROVE  Seen(<<t>> \o tlvs) = <<t>> \o Seen(tlvs)
  <2> DEFINE n == Len(tlvs)
             all == <<t>> \o tlvs
  <2>1. /\ n \in Nat /\ n # 0 /\ all \in Seq(Attrs) /\ Len(all) = n + 1
        /\ \A i \in 1 .. (n + 1) : all[i] = IF i = 1 THEN t ELSE tlvs[i - 1]
    BY <1>3
  <2> HIDE DEF all
  <2>2. all[n + 1] = tlvs[n]
    BY <2>1
  <2>3. SubSeq(all, 1, n) = <<t>> \o SubSeq(tlvs, 1, n - 1)
    <3> DEFINE front == SubSeq(tlvs, 1, n - 1)
               long == <<t>> \o front
    <3>1. /\ front \in Seq(Attrs) /\ Len(front) = n - 1
          /\ \A i \in 1 .. (n - 1) : front[i] = tlvs[i]
      <4>1. \A i \in 1 .. (n - 1) : i \in 1..n /\ tlvs[i] \in Attrs
        BY <2>1
      <4>2. 1 \in Int /\ n - 1 \in Int
        BY <2>1
      <4>3. /\ front \in Seq(Attrs)
            /\ Len(front) = IF 1 <= n - 1 THEN (n - 1) - 1 + 1 ELSE 0
            /\ \A i \in 1 .. (n - 1) - 1 + 1 : front[i] = tlvs[1 + i - 1]
        BY <4>1, <4>2, SubSeqProperties
      <4>4. (n - 1) - 1 + 1 = n - 1 /\ Len(front) = n - 1
        <5>1. n \in Nat /\ n # 0
          BY <2>1
        <5> HIDE DEF front, n
        <5>2. (n - 1) - 1 + 1 = n - 1 /\ (1 <= n - 1 \/ n - 1 = 0)
          BY <5>1
        <5>3. QED
          BY <4>3, <5>2
      <4>5. \A i \in 1 .. (n - 1) : 1 + i - 1 = i
        BY <2>1
      <4>6. QED
        BY <4>3, <4>4, <4>5
    <3> HIDE DEF front
    <3>2. /\ long \in Seq(Attrs) /\ Len(long) = n
          /\ \A i \in 1..n : long[i] = IF i = 1 THEN t ELSE front[i - 1]
      BY <2>1, <3>1
    <3>3. /\ SubSeq(all, 1, n) \in Seq(Attrs) /\ Len(SubSeq(all, 1, n)) = n
          /\ \A i \in 1..n : SubSeq(all, 1, n)[i] = all[i]
      BY <2>1
    <3> HIDE DEF long
    <3>4. \A i \in 1..n : SubSeq(all, 1, n)[i] = long[i]
      <4>1. ASSUME NEW i \in 1..n, i # 1 PROVE i - 1 \in 1 .. (n - 1)
        BY <2>1, <4>1
      <4>2. \A i \in 1..n : i \in 1 .. (n + 1)
        BY <2>1
      <4>3. QED
        BY <2>1, <3>1, <3>2, <3>3, <4>1, <4>2
    <3>5. SubSeq(all, 1, n) = long
      BY <3>2, <3>3, <3>4, SeqEqual
    <3>6. QED
      BY <3>5 DEF long, front
  <2>4. Len(all) - 1 = n /\ Len(all) > 0 /\ n > 0
    BY <2>1
  <2>5. QED
    BY <2>1, <2>2, <2>3, <2>4 DEF Seen, all
<1>4. QED
  BY <1>1, <1>2, <1>3

\* A list of attributes, its head and the rest.
LEMMA HeadAndRest ==
  ASSUME NEW ts \in Seq(Attrs), ts # <<>>
  PROVE  /\ Head(ts) \in Attrs /\ Tail(ts) \in Seq(Attrs) /\ ts = <<Head(ts)>> \o Tail(ts)
         /\ Len(ts) = Len(Tail(ts)) + 1 /\ (Tail(ts) = <<>> <=> Len(ts) = 1)
<1> DEFINE t == Head(ts)
           us == Tail(ts)
           n == Len(ts)
<1>1. n \in Nat /\ n # 0 /\ \A i \in 1..n : ts[i] \in Attrs
  BY EmptySeq
<1>2. t \in Attrs /\ t = ts[1]
  BY <1>1
<1>3. us \in Seq(Attrs) /\ Len(us) = n - 1
  BY <1>1
<1>4. \A i \in 1 .. (n - 1) : us[i] = ts[i + 1]
  BY <1>1
<1> HIDE DEF t, us
<1> DEFINE all == <<t>> \o us
<1>5. all \in Seq(Attrs) /\ Len(all) = n
  BY <1>1, <1>2, <1>3
<1>6. \A i \in 1..n : all[i] = IF i = 1 THEN t ELSE us[i - 1]
  BY <1>1, <1>2, <1>3
<1>7. \A i \in 1..n : all[i] = ts[i]
  <2>1. ASSUME NEW i \in 1..n, i # 1 PROVE i - 1 \in 1 .. (n - 1) /\ (i - 1) + 1 = i
    BY <1>1, <2>1
  <2> HIDE DEF all
  <2>2. QED
    BY <1>2, <1>4, <1>6, <2>1
<1> HIDE DEF all
<1>8. ts = all
  BY <1>5, <1>7, SeqEqual
<1>9. us = <<>> <=> n = 1
  BY <1>1, <1>3, EmptySeq
<1>10. QED
  BY <1>1, <1>2, <1>3, <1>8, <1>9 DEF all, t, us

\* Where attributes were written from an offset to the end, they are read.
LEMMA EncodedIsCut ==
  ASSUME NEW input \in Bodies, NEW tlvs \in Seq(Attrs), NEW o \in Offsets1(input),
         Left(input, o) = Len(Encode(tlvs)), StandsAt(Encode(tlvs), input, o)
  PROVE  CutsOf(input)[o] = [ok |-> TRUE, tlvs |-> Seen(tlvs)]
<1> DEFINE P == CutsOf(input)
           Right(ts) == \A p \in Offsets1(input) :
                            Left(input, p) = Len(Encode(ts)) /\ StandsAt(Encode(ts), input, p)
                                => P[p] = [ok |-> TRUE, tlvs |-> Seen(ts)]
           good == {n \in Nat : \A ts \in Seq(Attrs) : Len(ts) = n => Right(ts)}
<1>1. \A p \in Offsets1(input) : P[p] = CutStep(input, P, p)
  BY CutsAre
<1> HIDE DEF P
<1>2. ASSUME NEW p \in Offsets1(input), Left(input, p) < 3
      PROVE  P[p] = [ok |-> TRUE, tlvs |-> <<>>]
  BY <1>1, <1>2 DEF CutStep, NothingLeft
<1>3. 0 \in good
  <2>1. ASSUME NEW ts \in Seq(Attrs), Len(ts) = 0 PROVE Right(ts)
    <3>1. ts = <<>>
      BY <2>1
    <3>2. Len(Encode(ts)) = 0 /\ Seen(ts) = <<>>
      BY <3>1, EncodeIs, SeenIs, EmptySeq
    <3>3. QED
      BY <1>2, <3>2
  <2> HIDE DEF Right
  <2>2. QED
    BY <2>1
<1>4. ASSUME NEW n \in Nat, n \in good PROVE n + 1 \in good
  <2>1. ASSUME NEW ts \in Seq(Attrs), Len(ts) = n + 1 PROVE Right(ts)
    <3> DEFINE t == Head(ts)
               us == Tail(ts)
    <3>1. ts # <<>> /\ t \in Attrs /\ us \in Seq(Attrs) /\ Len(us) = n /\ ts = <<t>> \o us
          /\ (us = <<>> <=> n = 0)
      <4>1. ts # <<>> /\ Len(ts) = n + 1
        BY <2>1, EmptySeq
      <4>2. /\ t \in Attrs /\ us \in Seq(Attrs) /\ ts = <<t>> \o us
            /\ Len(ts) = Len(us) + 1 /\ (us = <<>> <=> Len(ts) = 1)
        BY <4>1, HeadAndRest
      <4>3. Len(us) \in Nat
        BY <4>2
      <4> HIDE DEF t, us
      <4>4. Len(us) = n /\ (Len(ts) = 1 <=> n = 0)
        BY <4>1, <4>2, <4>3
      <4>5. QED
        BY <4>1, <4>2, <4>4
    <3>2. Right(us)
      BY <1>4, <3>1
    <3> HIDE DEF t, us
    <3> DEFINE m == Len(t.value)
               rest == Encode(us)
    <3>3. /\ Encode(ts) = Piece(t) \o rest /\ Len(Encode(ts)) = m + 2 + Len(rest)
          /\ rest \in Bodies /\ m \in Nat /\ t.value \in Bodies
      BY <3>1, EncodeIs, PieceIs
    <3>4. Len(rest) \in Nat
      BY <3>3 DEF Bodies
    <3>5. ASSUME NEW p \in Offsets1(input), Left(input, p) = Len(Encode(ts)),
                 StandsAt(Encode(ts), input, p)
          PROVE  P[p] = [ok |-> TRUE, tlvs |-> Seen(ts)]
      <4>1. CASE us = <<>> /\ t.value = <<>>
        <5>1. m = 0 /\ Len(rest) = 0
          BY <4>1, EncodeIs, EmptySeq
        <5>2. Left(input, p) < 3
          BY <3>3, <3>5, <5>1
        <5>3. <<t>> \o us = <<t>>
          BY <3>1, <4>1
        <5>4. Seen(ts) = <<>>
          BY <3>1, <4>1, <5>3, SeenIs
        <5>5. QED
          BY <1>2, <5>2, <5>4
      <4>2. CASE ~ (us = <<>> /\ t.value = <<>>)
        <5>1. m + Len(rest) >= 1
          <6>1. CASE us = <<>>
            <7>1. m # 0
              BY <3>3, <4>2, <6>1 DEF Bodies
            <7>2. QED
              BY <3>3, <3>4, <7>1
          <6>2. CASE us # <<>>
            <7>1. Head(us) \in Attrs /\ Tail(us) \in Seq(Attrs) /\ us = <<Head(us)>> \o Tail(us)
              BY <3>1, <6>2
            <7>2. /\ Len(rest) = Len(Head(us).value) + 2 + Len(Encode(Tail(us)))
                  /\ Len(Head(us).value) \in Nat /\ Encode(Tail(us)) \in Bodies
              BY <7>1, EncodeIs, PieceIs
            <7>3. Len(Encode(Tail(us))) \in Nat
              BY <7>2 DEF Bodies
            <7> HIDE DEF m, rest
            <7>4. QED
              BY <3>3, <7>2, <7>3
          <6>3. QED
            BY <6>1, <6>2
        <5>2. /\ p \in Nat /\ ~ (Left(input, p) < 3)
              /\ input[p] = t.kind /\ input[p + 1] = m + 2
              /\ \A j \in 1..m : input[p + 1 + j] = t.value[j]
              /\ StandsAt(rest, input, p + m + 2)
          <6>1. ~ (Left(input, p) < 3)
            BY <3>3, <3>4, <3>5, <5>1
          <6>2. StandsAt(Piece(t) \o rest, input, p)
            BY <3>3, <3>5
          <6>3. t \in Attrs /\ rest \in Bodies /\ p \in Nat
            BY <3>1, <3>3, LeftIs
          <6> HIDE DEF rest
          <6>4. QED
            BY <6>1, <6>2, <6>3, PieceStands
        <5>3. Fits(input, p)
          <6>1. t.kind \in Kinds
            BY <3>1 DEF Attrs
          <6>2. m + 2 \in 2 .. Left(input, p)
            BY <3>3, <3>4, <3>5
          <6>3. QED
            BY <5>2, <6>1, <6>2 DEF Fits
        <5> DEFINE next == EndOf(input, p)
        <5>4. /\ next \in Offsets1(input) /\ Left(input, next) = Left(input, p) - input[p + 1]
              /\ Cut(input, p) \in Attrs /\ Cut(input, p).kind = input[p]
              /\ Len(Cut(input, p).value) = input[p + 1] - 2
              /\ \A j \in 1 .. (input[p + 1] - 2) : Cut(input, p).value[j] = input[p + 1 + j]
          BY <5>2, <5>3, CutIs
        <5>5. Cut(input, p) = t
          <6> DEFINE c == Cut(input, p)
          <6>1. c.kind = t.kind /\ c \in Attrs /\ t \in Attrs
            BY <3>1, <5>2, <5>4
          <6>2. c.value \in Seq(Int) /\ t.value \in Seq(Int)
            BY <6>1 DEF Attrs, Bodies
          <6>3. (m + 2) - 2 = m
            BY <3>3
          <6>4. Len(c.value) = m /\ \A j \in 1..m : c.value[j] = t.value[j]
            BY <5>2, <5>4, <6>3
          <6>5. c.value = t.value
            BY <6>2, <6>4, SeqEqual
          <6> HIDE DEF c
          <6>6. c = t
            BY <6>1, <6>5 DEF Attrs
          <6>7. QED
            BY <6>6 DEF c
        <5>6. next = p + m + 2 /\ Left(input, next) = Len(rest)
          <6>1. next = p + (m + 2)
            BY <5>2 DEF EndOf
          <6>2. QED
            BY <3>3, <3>4, <3>5, <5>2, <5>4, <6>1
        <5>7. StandsAt(rest, input, next)
          BY <5>2, <5>6
        <5> HIDE DEF next
        <5>8. P[next] = [ok |-> TRUE, tlvs |-> Seen(us)]
          BY <3>2, <5>4, <5>6, <5>7
        <5>9. P[p] = [P[next] EXCEPT !.tlvs = <<t>> \o @]
          BY <1>1, <5>2, <5>3, <5>5 DEF CutStep, next
        <5>10. P[p] = [ok |-> TRUE, tlvs |-> <<t>> \o Seen(us)]
          <6> DEFINE r == P[next]
          <6>1. r = [ok |-> TRUE, tlvs |-> Seen(us)] /\ P[p] = [r EXCEPT !.tlvs = <<t>> \o @]
            BY <5>8, <5>9
          <6> HIDE DEF r
          <6>2. QED
            BY <6>1
        <5>11. Seen(ts) = <<t>> \o Seen(us)
          <6>1. CASE us = <<>>
            <7>1. <<t>> \o us = <<t>> /\ <<t>> \o <<>> = <<t>>
              BY <3>1, <6>1
            <7>2. Seen(ts) = <<t>>
              BY <3>1, <4>2, <6>1, <7>1, SeenIs
            <7>3. Seen(us) = <<>>
              BY <6>1, SeenIs
            <7>4. QED
              BY <7>1, <7>2, <7>3
          <6>2. CASE us # <<>>
            BY <3>1, <6>2, SeenIs
          <6>3. QED
            BY <6>1, <6>2
        <5>12. QED
          BY <5>10, <5>11
      <4>3. QED
        BY <4>1, <4>2
    <3>6. QED
      BY <3>5
  <2> HIDE DEF Right
  <2>2. QED
    BY <2>1
<1>5. Right(tlvs)
  <2> HIDE DEF good, Right
  <2>1. Nat \subseteq good
    BY <1>3, <1>4, AllNaturals
  <2>2. Len(tlvs) \in good
    BY <2>1
  <2>3. QED
    BY <2>2 DEF good
<1>6. QED
  BY <1>5 DEF P

\* parse_all undoes the encoding, and what it reads is what the bytes say.
LEMMA ParseAllReads ==
  ASSUME NEW input \in Bodies
  PROVE  /\ ReadsBack(input, 1, ParseAll(input)) /\ Left(input, 1) = Len(input)
         /\ \A tlvs \in Seq(Attrs) :
               input = Encode(tlvs) => ParseAll(input) = [ok |-> TRUE, tlvs |-> Seen(tlvs)]
         /\ Len(input) >= 3 /\ ~ Fits(input, 1) => ~ ParseAll(input).ok
<1>1. 1 \in Offsets1(input) /\ Left(input, 1) = Len(input) /\ Len(input) \in Nat
  <2>1. Len(input) \in Nat
    BY DEF Bodies
  <2>2. QED
    BY <2>1 DEF Offsets1, Left
<1>2. ReadsBack(input, 1, ParseAll(input))
  BY <1>1, CutsReadBack, ParseAllIs
<1>3. ASSUME NEW tlvs \in Seq(Attrs), input = Encode(tlvs)
      PROVE  ParseAll(input) = [ok |-> TRUE, tlvs |-> Seen(tlvs)]
  <2>1. StandsAt(Encode(tlvs), input, 1)
    <3>1. \A j \in 1 .. Len(input) : 1 + j - 1 = j
      BY <1>1
    <3>2. QED
      BY <1>3, <3>1 DEF StandsAt
  <2>2. CutsOf(input)[1] = [ok |-> TRUE, tlvs |-> Seen(tlvs)]
    BY <1>1, <1>3, <2>1, EncodedIsCut
  <2>3. QED
    BY <2>2, ParseAllIs
<1>4. ASSUME Len(input) >= 3, ~ Fits(input, 1) PROVE ~ ParseAll(input).ok
  <2>1. CutsOf(input)[1] = Broken
    <3>1. CutsOf(input)[1] = CutStep(input, CutsOf(input), 1)
      BY <1>1, CutsAre
    <3>2. ~ (Left(input, 1) < 3)
      BY <1>1, <1>4
    <3>3. QED
      BY <1>4, <3>1, <3>2 DEF CutStep
  <2>2. QED
    BY <2>1, ParseAllIs DEF Broken
<1>5. QED
  BY <1>1, <1>2, <1>3, <1>4

-----------------------------------------------------------------------------
(* The fold over the attributes of an answer: a recursive function over the *)
(* sets of their positions, which takes the last position out.             *)

LEMMA MaxIs ==
  ASSUME NEW n \in Nat, NEW s \in SUBSET (1..n), s # {}
  PROVE  Max(s) \in s /\ \A i \in s : i <= Max(s)
<1>1. IsFiniteSet(s)
  <2>1. IsFiniteSet(1..n)
    BY FS_Interval
  <2>2. QED
    BY <2>1, FS_Subset
<1> DEFINE K == [i \in s |-> i]
<1>2. \A i \in s : K[i] \in Int
  OBVIOUS
<1>3. PICK m \in s : \A i \in s : K[i] <= K[m]
  <2> HIDE DEF K
  <2>1. QED
    BY <1>1, <1>2, LargestKey
<1>4. \A i \in s : m >= i
  BY <1>3
<1>5. Max(s) \in s /\ \A i \in s : Max(s) >= i
  BY <1>4, Zenon DEF Max
<1>6. QED
  BY <1>5

\* The fold of parse_open_ack's loop over the attributes.
TakeStep(tlvs, g, s) ==
    IF s = {} THEN Offered ELSE Takes(g[s \ {Max(s)}], tlvs[Max(s)])
Takings(tlvs, g) == g = [s \in SUBSET DOMAIN tlvs |-> TakeStep(tlvs, g, s)]

LEMMA TakingIs ==
  ASSUME NEW tlvs
  PROVE  FoldLeft(Takes, Offered, tlvs) = (CHOOSE g : Takings(tlvs, g))[DOMAIN tlvs]
  BY Zenon DEF FoldLeft, MapThenFoldSet, Takings, TakeStep

LEMMA TakingsExist ==
  ASSUME NEW tlvs, NEW n \in Nat, DOMAIN tlvs = 1..n
  PROVE  \E g : Takings(tlvs, g)
<1> DEFINE S == 1..n
           Upto(k) == \E g : \A s \in SUBSET S : Cardinality(s) <= k => g[s] = TakeStep(tlvs, g, s)
<1>1. /\ \A s \in SUBSET S : IsFiniteSet(s) /\ Cardinality(s) \in Nat /\ Cardinality(s) <= Cardinality(S)
      /\ IsFiniteSet(S) /\ Cardinality(S) \in Nat
  <2>1. IsFiniteSet(S)
    BY FS_Interval
  <2> HIDE DEF S
  <2>2. QED
    BY <2>1, FS_Subset, FS_CardinalityType
<1>2. Upto(0)
  <2>1. \A s \in SUBSET S : Cardinality(s) <= 0 => s = {}
    BY <1>1, FS_EmptySet
  <2> DEFINE g == [s \in SUBSET S |-> Offered]
  <2>2. \A s \in SUBSET S : Cardinality(s) <= 0 => g[s] = TakeStep(tlvs, g, s)
    BY <2>1 DEF TakeStep
  <2> HIDE DEF g
  <2>3. QED
    BY <2>2
<1>3. ASSUME NEW k \in Nat, Upto(k) PROVE Upto(k + 1)
  <2>1. PICK g : \A s \in SUBSET S : Cardinality(s) <= k => g[s] = TakeStep(tlvs, g, s)
    BY <1>3
  <2> DEFINE h == [s \in SUBSET S |-> TakeStep(tlvs, g, s)]
  <2>2. ASSUME NEW s \in SUBSET S, Cardinality(s) <= k + 1 PROVE h[s] = TakeStep(tlvs, h, s)
    <3>1. CASE s = {}
      BY <3>1 DEF TakeStep
    <3>2. CASE s # {}
      <4>1. Max(s) \in s
        BY <3>2, MaxIs
      <4>2. s \ {Max(s)} \in SUBSET S /\ Cardinality(s \ {Max(s)}) <= k
        <5> DEFINE x == Max(s)
        <5>1. x \in s /\ IsFiniteSet(s) /\ Cardinality(s) \in Nat
          BY <1>1, <4>1
        <5> HIDE DEF x, S
        <5>2. Cardinality(s \ {x}) = Cardinality(s) - 1
          BY <5>1, FS_RemoveElement
        <5>3. s \ {x} \in SUBSET S /\ Cardinality(s \ {x}) <= k
          BY <2>2, <5>1, <5>2
        <5>4. QED
          BY <5>3 DEF x
      <4>3. h[s \ {Max(s)}] = g[s \ {Max(s)}]
        BY <2>1, <4>2
      <4>4. QED
        BY <3>2, <4>3 DEF TakeStep
    <3>3. QED
      BY <3>1, <3>2
  <2>3. QED
    BY <2>2
<1>4. Upto(Cardinality(S))
  <2> DEFINE good == {k \in Nat : Upto(k)}
  <2>1. 0 \in good /\ \A k \in Nat : k \in good => k + 1 \in good
    <3> HIDE DEF Upto
    <3>1. QED
      BY <1>2, <1>3
  <2>2. Nat \subseteq good
    <3> HIDE DEF good
    <3>1. QED
      BY <2>1, AllNaturals
  <2>3. QED
    BY <1>1, <2>2
<1>5. PICK g : \A s \in SUBSET S : g[s] = TakeStep(tlvs, g, s)
  BY <1>1, <1>4
<1> DEFINE h == [s \in SUBSET S |-> TakeStep(tlvs, g, s)]
<1>6. ASSUME NEW s \in SUBSET S PROVE TakeStep(tlvs, g, s) = TakeStep(tlvs, h, s)
  <2>1. s \ {Max(s)} \in SUBSET S
    OBVIOUS
  <2>2. QED
    BY <1>5, <2>1 DEF TakeStep
<1>7. Takings(tlvs, h)
  <2>1. h = [s \in SUBSET S |-> TakeStep(tlvs, g, s)]
    OBVIOUS
  <2> HIDE DEF h
  <2>2. QED
    BY <1>6, <2>1 DEF Takings
<1>8. QED
  BY <1>7

\* What an answer offers after each attribute of it.
LEMMA TakenInTurn ==
  ASSUME NEW tlvs \in Seq(Attrs)
  PROVE  \E f : /\ f[0] = Offered /\ f[Len(tlvs)] = FoldLeft(Takes, Offered, tlvs)
                /\ \A i \in 1 .. Len(tlvs) : f[i] = Takes(f[i - 1], tlvs[i])
<1> DEFINE n == Len(tlvs)
           g == CHOOSE h : Takings(tlvs, h)
           f == [i \in 0..n |-> g[1..i]]
<1>1. n \in Nat /\ DOMAIN tlvs = 1..n
  OBVIOUS
<1>2. Takings(tlvs, g) /\ FoldLeft(Takes, Offered, tlvs) = g[1..n]
  <2>1. \E h : Takings(tlvs, h)
    <3> HIDE DEF n
    <3>1. QED
      BY <1>1, TakingsExist
  <2>2. Takings(tlvs, g)
    BY <2>1
  <2>3. QED
    BY <1>1, <2>2, TakingIs
<1> HIDE DEF g, n
<1>3. \A s \in SUBSET (1..n) : g[s] = TakeStep(tlvs, g, s)
  BY <1>1, <1>2 DEF Takings
<1>4. 1..0 \in SUBSET (1..n) /\ 1..0 = {}
  BY <1>1
<1>5. f[0] = Offered
  <2>1. g[1..0] = Offered
    BY <1>3, <1>4 DEF TakeStep
  <2>2. 0 \in 0..n
    BY <1>1
  <2>3. QED
    BY <2>1, <2>2
<1>6. ASSUME NEW i \in 1..n PROVE f[i] = Takes(f[i - 1], tlvs[i])
  <2>1. 1..i \in SUBSET (1..n) /\ 1..i # {} /\ i \in 1..i /\ i \in Nat /\ i - 1 \in 0..n
    BY <1>1
  <2>2. Max(1..i) = i
    <3>1. Max(1..i) \in 1..i /\ \A j \in 1..i : j <= Max(1..i)
      BY <2>1, MaxIs
    <3>2. QED
      BY <2>1, <3>1
  <2>3. (1..i) \ {i} = 1 .. (i - 1)
    BY <2>1
  <2>4. g[1..i] = Takes(g[1 .. (i - 1)], tlvs[i])
    BY <1>3, <2>1, <2>2, <2>3 DEF TakeStep
  <2>5. i \in 0..n
    BY <1>1
  <2>6. QED
    BY <2>1, <2>4, <2>5
<1>7. f[n] = FoldLeft(Takes, Offered, tlvs)
  BY <1>1, <1>2
<1>8. QED
  <2> HIDE DEF f
  <2>1. QED
    BY <1>5, <1>6, <1>7 DEF n

\* What only some steps change is what the last of them made it.
LEMMA KeptSince ==
  ASSUME NEW n \in Nat, NEW a, NEW W, NEW m \in 0..n, \A i \in W : i <= m,
         \A i \in 1..n : i \notin W => a[i] = a[i - 1]
  PROVE  a[n] = a[m]
<1> DEFINE good == {k \in Nat : m + k <= n => a[m + k] = a[m]}
<1>1. 0 \in good
  OBVIOUS
<1>2. ASSUME NEW k \in Nat, k \in good PROVE k + 1 \in good
  <2>1. SUFFICES ASSUME m + (k + 1) <= n PROVE a[m + (k + 1)] = a[m]
    OBVIOUS
  <2>2. m + (k + 1) \in 1..n /\ (m + (k + 1)) - 1 = m + k /\ m + k <= n /\ ~ (m + (k + 1) <= m)
    BY <2>1
  <2>3. m + (k + 1) \notin W
    BY <2>2
  <2>4. a[m + (k + 1)] = a[m + k]
    BY <2>2, <2>3
  <2>5. QED
    BY <1>2, <2>2, <2>4
<1>3. n - m \in good
  <2> HIDE DEF good
  <2>1. Nat \subseteq good
    BY <1>1, <1>2, AllNaturals
  <2>2. n - m \in Nat
    OBVIOUS
  <2>3. QED
    BY <2>1, <2>2
<1>4. m + (n - m) = n /\ m + (n - m) <= n
  OBVIOUS
<1>5. QED
  BY <1>3, <1>4

\* The attributes that are about a field: those an answer takes it from.
Words(tlvs, k, Bad) ==
    {i \in 1 .. Len(tlvs) : tlvs[i].kind = TlvType[k] /\ FirstWord(tlvs[i].value) \notin Bad}

Infos == [mtu : MtuRange \cup {RequestedMtu}, address : Bodies, dns : Bodies, gateway : Bodies,
          encryption : {"header", "None", "Xor", "Aes"}]

LEMMA FirstWordIs ==
  ASSUME NEW v \in Bodies
  PROVE  /\ FirstWord(v) \in Bodies
         /\ FirstWord(v) # None => WordLen <= Len(v) /\ FirstWord(v) = SubSeq(v, 1, WordLen)
<1>1. WordLen \in Nat \ {0} /\ Len(v) \in Nat /\ <<>> \in Bodies
  BY OpenAnswerAssumption DEF Bodies
<1>2. ~ (Len(v) < WordLen) => SubSeq(v, 1, WordLen) \in Bodies
  BY <1>1 DEF Bodies
<1>3. QED
  BY <1>1, <1>2 DEF FirstWord, None

LEMMA OfferedIs ==
  /\ Offered \in Infos
  /\ Offered.mtu = RequestedMtu /\ Offered.address = None
  /\ Offered.dns = None /\ Offered.gateway = None
<1>1. None \in Bodies
  BY DEF None, Bodies
<1>2. QED
  BY <1>1 DEF Offered, Infos

\* A field that an attribute of one type sets, when its value is a good one.
Field(old, t, k, Bad) ==
    IF t.kind = TlvType[k] /\ FirstWord(t.value) \notin Bad THEN FirstWord(t.value) ELSE old

\* What one attribute changes.
LEMMA TakesIs ==
  ASSUME NEW info \in Infos, NEW t \in Attrs
  PROVE  LET next == Takes(info, t)
         IN  /\ next \in Infos
             /\ t.kind # TlvType.Mtu => next.mtu = info.mtu
             /\ next.address = Field(info.address, t, "Ip", {None})
             /\ next.gateway = Field(info.gateway, t, "Gateway", {None})
             /\ next.dns = Field(info.dns, t, "Dns", {None, Unspecified})
<1> DEFINE next == Takes(info, t)
           word == FirstWord(t.value)
           mtu == IF AsInteger(t.value) \in MtuRange THEN AsInteger(t.value) ELSE RequestedMtu
           enc == CASE AsInteger(t.value) = 1 -> "Xor"
                    [] AsInteger(t.value) = 2 -> "Aes"
                    [] OTHER -> "None"
           Latest3(old) == IF word = None THEN old ELSE word
           dns == IF word = Unspecified THEN info.dns ELSE Latest3(info.dns)
<1>1. /\ TlvType.Mtu = 3 /\ TlvType.Ip = 4 /\ TlvType.Dns = 5 /\ TlvType.Gateway = 6
      /\ TlvType.Encrypt = 8
  BY DEF TlvType
<1>2. word \in Bodies
  <2>1. t.value \in Bodies
    BY DEF Attrs
  <2>2. QED
    BY <2>1, FirstWordIs
<1>3. mtu \in MtuRange \cup {RequestedMtu} /\ enc \in {"header", "None", "Xor", "Aes"}
  OBVIOUS
<1>4. next = CASE t.kind = TlvType.Mtu -> [info EXCEPT !.mtu = mtu]
               [] t.kind = TlvType.Ip -> [info EXCEPT !.address = Latest3(@)]
               [] t.kind = TlvType.Gateway -> [info EXCEPT !.gateway = Latest3(@)]
               [] t.kind = TlvType.Dns -> [info EXCEPT !.dns = dns]
               [] t.kind = TlvType.Encrypt -> [info EXCEPT !.encryption = enc]
               [] OTHER -> info
  BY Zenon DEF Takes, Latest
<1> HIDE DEF mtu, enc, word, next
<1>5. CASE t.kind = 3
  <2>1. next = [info EXCEPT !.mtu = mtu]
    BY <1>1, <1>4, <1>5
  <2>2. QED
    BY <1>1, <1>3, <1>5, <2>1 DEF Infos, next, word, Field
<1>6. CASE t.kind = 4
  <2>1. next = [info EXCEPT !.address = Latest3(info.address)]
    BY <1>1, <1>4, <1>6
  <2>2. QED
    BY <1>1, <1>2, <1>6, <2>1 DEF Infos, next, word, Field
<1>7. CASE t.kind = 6
  <2>1. next = [info EXCEPT !.gateway = Latest3(info.gateway)]
    BY <1>1, <1>4, <1>7
  <2>2. QED
    BY <1>1, <1>2, <1>7, <2>1 DEF Infos, next, word, Field
<1>8. CASE t.kind = 5
  <2>1. next = [info EXCEPT !.dns = dns]
    BY <1>1, <1>4, <1>8
  <2>2. QED
    BY <1>1, <1>2, <1>8, <2>1 DEF Infos, next, word, Field
<1>9. CASE t.kind = 8
  <2>1. next = [info EXCEPT !.encryption = enc]
    BY <1>1, <1>4, <1>9
  <2>2. QED
    BY <1>1, <1>3, <1>9, <2>1 DEF Infos, next, word, Field
<1>10. CASE t.kind \notin {3, 4, 5, 6, 8}
  <2>1. next = info
    BY <1>1, <1>4, <1>10
  <2>2. QED
    BY <1>1, <1>10, <2>1 DEF next, word, Field
<1>11. QED
  BY <1>5, <1>6, <1>7, <1>8, <1>9, <1>10

\* What a list of attributes makes of a field that each either sets or leaves.
SetBy(a, n, W, w) == \A i \in 1..n : a[i] = IF i \in W THEN w[i] ELSE a[i - 1]

LEMMA LastSet ==
  ASSUME NEW n \in Nat, NEW a, NEW W \in SUBSET (1..n), NEW w, SetBy(a, n, W, w)
  PROVE  a[n] = IF W = {} THEN a[0] ELSE w[Max(W)]
<1>1. CASE W = {}
  <2>1. 0 \in 0..n /\ \A i \in W : i <= 0
    BY <1>1
  <2>2. a[n] = a[0]
    BY <2>1, KeptSince DEF SetBy
  <2>3. QED
    BY <1>1, <2>2
<1>2. CASE W # {}
  <2>1. PICK m \in W : m = Max(W) /\ \A i \in W : i <= m
    BY <1>2, MaxIs
  <2>2. m \in 0..n /\ m \in 1..n
    OBVIOUS
  <2>3. a[n] = a[m]
    BY <2>1, <2>2, KeptSince DEF SetBy
  <2>4. QED
    BY <1>2, <2>1, <2>2, <2>3 DEF SetBy
<1>3. QED
  BY <1>1, <1>2

\* What an answer offers is what its last attributes say.
LastIn(tlvs, k, Bad) ==
    LET i == SelectLastInSeq(tlvs, LAMBDA t :
                 t.kind = TlvType[k] /\ FirstWord(t.value) \notin Bad)
    IN IF i = 0 THEN None ELSE FirstWord(tlvs[i].value)

LEMMA LastInIs ==
  ASSUME NEW tlvs \in Seq(Attrs), NEW k \in DOMAIN TlvType, NEW Bad
  PROVE  LastIn(tlvs, k, Bad) = IF Words(tlvs, k, Bad) = {} THEN None
                                ELSE FirstWord(tlvs[Max(Words(tlvs, k, Bad))].value)
<1> DEFINE W == Words(tlvs, k, Bad)
           i == IF W # {} THEN Max(W) ELSE 0
<1>1. LastIn(tlvs, k, Bad) = IF i = 0 THEN None ELSE FirstWord(tlvs[i].value)
  BY Zenon DEF LastIn, SelectLastInSeq, Words
<1>2. W \in SUBSET (1 .. Len(tlvs)) /\ Len(tlvs) \in Nat
  BY DEF Words
<1> HIDE DEF W
<1>3. W # {} => Max(W) \in W
  BY <1>2, MaxIs
<1>4. W # {} => Max(W) # 0
  BY <1>2, <1>3
<1>5. QED
  BY <1>1, <1>4 DEF W

LEMMA OfferedAtLast ==
  ASSUME NEW tlvs \in Seq(Attrs)
  PROVE  LET info == FoldLeft(Takes, Offered, tlvs)
         IN  /\ info \in Infos
             /\ info.address = LastIn(tlvs, "Ip", {None})
             /\ info.gateway = LastIn(tlvs, "Gateway", {None})
             /\ info.dns = LastIn(tlvs, "Dns", {None, Unspecified})
             /\ (\A i \in 1 .. Len(tlvs) : tlvs[i].kind # TlvType.Mtu) => info.mtu = RequestedMtu
<1> DEFINE n == Len(tlvs)
           info == FoldLeft(Takes, Offered, tlvs)
<1>1. n \in Nat /\ \A i \in 1..n : tlvs[i] \in Attrs
  OBVIOUS
<1>2. PICK f : /\ f[0] = Offered /\ f[n] = info
               /\ \A i \in 1..n : f[i] = Takes(f[i - 1], tlvs[i])
  BY TakenInTurn
<1> HIDE DEF n, info
<1> DEFINE good == {i \in Nat : i <= n => f[i] \in Infos}
<1>3. 0 \in good
  BY <1>2, OfferedIs
<1>4. ASSUME NEW i \in Nat, i \in good PROVE i + 1 \in good
  <2>1. SUFFICES ASSUME i + 1 <= n PROVE f[i + 1] \in Infos
    OBVIOUS
  <2>2. i + 1 \in 1..n /\ (i + 1) - 1 = i /\ i <= n
    BY <1>1, <2>1
  <2>3. f[i + 1] = Takes(f[i], tlvs[i + 1]) /\ f[i] \in Infos /\ tlvs[i + 1] \in Attrs
    BY <1>1, <1>2, <1>4, <2>2
  <2>4. QED
    BY <2>3, TakesIs
<1>5. Nat \subseteq good
  <2> HIDE DEF good
  <2>1. QED
    BY <1>3, <1>4, AllNaturals
<1>6. \A i \in 0..n : f[i] \in Infos
  BY <1>1, <1>5
<1>7. \A i \in 1..n : i - 1 \in 0..n
  BY <1>1
<1>8. \A i \in 1..n : f[i - 1] \in Infos /\ tlvs[i] \in Attrs /\ f[i] = Takes(f[i - 1], tlvs[i])
  BY <1>1, <1>2, <1>6, <1>7
<1>9. ASSUME NEW k \in {"Ip", "Gateway", "Dns"}, NEW Bad, NEW a,
             \A i \in 1..n : a[i] = Field(a[i - 1], tlvs[i], k, Bad), a[0] = None
      PROVE  a[n] = LastIn(tlvs, k, Bad)
  <2> DEFINE W == Words(tlvs, k, Bad)
             w == [i \in 1..n |-> FirstWord(tlvs[i].value)]
  <2>1. W \in SUBSET (1..n) /\ \A i \in 1..n : i \in W <=>
            tlvs[i].kind = TlvType[k] /\ FirstWord(tlvs[i].value) \notin Bad
    BY DEF Words, n
  <2>2. SetBy(a, n, W, w)
    BY <1>9, <2>1 DEF Field, SetBy
  <2>3. W # {} => Max(W) \in 1..n
    BY <1>1, <2>1, MaxIs
  <2> HIDE DEF W, w
  <2>4. a[n] = IF W = {} THEN a[0] ELSE w[Max(W)]
    <3>1. n \in Nat /\ W \in SUBSET (1..n)
      BY <1>1, <2>1
    <3>2. QED
      BY <2>2, <3>1, LastSet
  <2>5. k \in DOMAIN TlvType
    BY DEF TlvType
  <2>6. LastIn(tlvs, k, Bad) = IF W = {} THEN None ELSE FirstWord(tlvs[Max(W)].value)
    BY <2>5, LastInIs DEF W
  <2>7. W # {} => w[Max(W)] = FirstWord(tlvs[Max(W)].value)
    BY <2>3 DEF w
  <2>8. QED
    BY <1>9, <2>4, <2>6, <2>7
<1>10. info.address = LastIn(tlvs, "Ip", {None})
  <2> DEFINE a == [i \in 0..n |-> f[i].address]
  <2>1. \A i \in 1..n : a[i] = Field(a[i - 1], tlvs[i], "Ip", {None})
    <3>1. ASSUME NEW i \in 1..n
          PROVE  f[i].address = Field(f[i - 1].address, tlvs[i], "Ip", {None})
      BY <1>8, TakesIs
    <3>2. \A i \in 1..n : i \in 0..n
      BY <1>1
    <3>3. QED
      BY <1>7, <3>1, <3>2
  <2>2. a[0] = None /\ a[n] = info.address
    BY <1>1, <1>2, OfferedIs
  <2> HIDE DEF a
  <2>3. QED
    BY <1>9, <2>1, <2>2
<1>11. info.gateway = LastIn(tlvs, "Gateway", {None})
  <2> DEFINE a == [i \in 0..n |-> f[i].gateway]
  <2>1. \A i \in 1..n : a[i] = Field(a[i - 1], tlvs[i], "Gateway", {None})
    <3>1. ASSUME NEW i \in 1..n
          PROVE  f[i].gateway = Field(f[i - 1].gateway, tlvs[i], "Gateway", {None})
      BY <1>8, TakesIs
    <3>2. \A i \in 1..n : i \in 0..n
      BY <1>1
    <3>3. QED
      BY <1>7, <3>1, <3>2
  <2>2. a[0] = None /\ a[n] = info.gateway
    BY <1>1, <1>2, OfferedIs
  <2> HIDE DEF a
  <2>3. QED
    BY <1>9, <2>1, <2>2
<1>12. info.dns = LastIn(tlvs, "Dns", {None, Unspecified})
  <2> DEFINE a == [i \in 0..n |-> f[i].dns]
  <2>1. \A i \in 1..n : a[i] = Field(a[i - 1], tlvs[i], "Dns", {None, Unspecified})
    <3>1. ASSUME NEW i \in 1..n
          PROVE  f[i].dns = Field(f[i - 1].dns, tlvs[i], "Dns", {None, Unspecified})
      BY <1>8, TakesIs
    <3>2. \A i \in 1..n : i \in 0..n
      BY <1>1
    <3>3. QED
      BY <1>7, <3>1, <3>2
  <2>2. a[0] = None /\ a[n] = info.dns
    BY <1>1, <1>2, OfferedIs
  <2> HIDE DEF a
  <2>3. QED
    BY <1>9, <2>1, <2>2
<1>13. ASSUME \A i \in 1..n : tlvs[i].kind # TlvType.Mtu PROVE info.mtu = RequestedMtu
  <2> DEFINE a == [i \in 0..n |-> f[i].mtu]
  <2>1. \A i \in 1..n : a[i] = a[i - 1]
    <3>1. ASSUME NEW i \in 1..n PROVE f[i].mtu = f[i - 1].mtu
      <4>1. f[i - 1] \in Infos /\ tlvs[i] \in Attrs /\ f[i] = Takes(f[i - 1], tlvs[i])
        BY <1>8
      <4>2. QED
        BY <4>1, <1>13, TakesIs, Zenon
    <3>2. \A i \in 1..n : i \in 0..n
      BY <1>1
    <3>3. QED
      BY <1>7, <3>1, <3>2
  <2>2. a[0] = RequestedMtu /\ a[n] = info.mtu
    BY <1>1, <1>2, OfferedIs
  <2> HIDE DEF a
  <2> DEFINE W == {i \in 1..n : FALSE}
  <2>3. W = {} /\ 0 \in 0..n /\ n \in Nat
    BY <1>1
  <2>4. W \in SUBSET (1..n)
    OBVIOUS
  <2>5. SetBy(a, n, W, a)
    BY <2>1 DEF SetBy
  <2> HIDE DEF W
  <2>6. a[n] = IF W = {} THEN a[0] ELSE a[Max(W)]
    BY <2>3, <2>4, <2>5, LastSet
  <2>7. QED
    BY <2>2, <2>3, <2>6
<1>14. info \in Infos
  BY <1>1, <1>2, <1>6
<1>15. QED
  BY <1>10, <1>11, <1>12, <1>13, <1>14 DEF n, info

-----------------------------------------------------------------------------
(* What an answer is read as. *)

LEMMA FindIs ==
  ASSUME NEW tlvs \in Seq(Attrs), NEW k \in DOMAIN TlvType, FindTlv(tlvs, k) # 0
  PROVE  FindTlv(tlvs, k) \in 1 .. Len(tlvs)
<1> DEFINE I == {i \in 1 .. Len(tlvs) : tlvs[i].kind = TlvType[k]}
<1>1. FindTlv(tlvs, k) = IF I # {} THEN Min(I) ELSE 0
  BY Zenon DEF FindTlv, SelectInSeq
<1>2. I \in SUBSET Nat /\ I \subseteq 1 .. Len(tlvs)
  OBVIOUS
<1> HIDE DEF I
<1>3. I # {} /\ FindTlv(tlvs, k) = Min(I)
  BY <1>1
<1>4. PICK m \in I : \A i \in I : m <= i
  BY <1>2, <1>3, LeastNatural
<1>5. Min(I) \in I
  BY <1>4, Zenon DEF Min
<1>6. QED
  BY <1>2, <1>3, <1>5

LEMMA PrefixIs ==
  ASSUME NEW s \in Bodies, NEW t \in Bodies, Len(s) <= Len(t),
         \A j \in 1 .. Len(s) : s[j] = t[j]
  PROVE  IsPrefix(s, t)
<1> DEFINE n == Len(s)
           u == SubSeq(t, 1, n)
           v == SubSeq(s, 1, n)
<1>1. n \in Nat /\ Len(t) \in Nat /\ s \in Seq(Int) /\ t \in Seq(Int)
  BY DEF Bodies
<1>2. u \in Seq(Int) /\ Len(u) = n /\ \A j \in 1..n : u[j] = t[j]
  BY <1>1
<1>3. v \in Seq(Int) /\ Len(v) = n /\ \A j \in 1..n : v[j] = s[j]
  BY <1>1
<1> HIDE DEF u, v
<1>4. u = v
  BY <1>2, <1>3, SeqEqual
<1>5. QED
  BY <1>4 DEF u, v, IsPrefix

\* A text, and bytes that follow it.
LEMMA TextThenBytes ==
  ASSUME NEW text \in Bodies, NEW bytes \in Bodies
  PROVE  LET body == text \o bytes
             start == Len(text) + 1
         IN  /\ body \in Bodies /\ Len(body) = Len(text) + Len(bytes)
             /\ Len(text) \in Nat /\ Len(bytes) \in Nat
             /\ SubSeq(body, 1, start - 1) = text
             /\ SubSeq(body, start, Len(body)) = bytes
             /\ \A o \in 1 .. Len(body) :
                   /\ SubSeq(body, o, Len(body)) \in Bodies
                   /\ Len(SubSeq(body, o, Len(body))) = Len(body) - o + 1
                   /\ o <= Len(text) => SubSeq(body, o, Len(body))[1] = text[o]
<1> DEFINE body == text \o bytes
           n == Len(text)
           m == Len(bytes)
<1>1. text \in Seq(Int) /\ bytes \in Seq(Int) /\ n \in Nat /\ m \in Nat
  BY DEF Bodies
<1>2. /\ body \in Seq(Int) /\ Len(body) = n + m
      /\ \A i \in 1 .. n + m : body[i] = IF i <= n THEN text[i] ELSE bytes[i - n]
  BY <1>1
<1> HIDE DEF body
<1>3. SubSeq(body, 1, (n + 1) - 1) = text
  <2>1. (n + 1) - 1 = n
    BY <1>1
  <2> DEFINE u == SubSeq(body, 1, n)
  <2>2. u \in Seq(Int) /\ Len(u) = n /\ \A i \in 1..n : u[i] = body[i]
    BY <1>1, <1>2
  <2>3. \A i \in 1..n : body[i] = text[i]
    BY <1>1, <1>2
  <2> HIDE DEF u
  <2>4. u = text
    BY <1>1, <2>2, <2>3, SeqEqual
  <2>5. QED
    BY <2>1, <2>4 DEF u
<1>4. SubSeq(body, n + 1, Len(body)) = bytes
  <2> DEFINE u == SubSeq(body, n + 1, n + m)
  <2>1. u \in Seq(Int) /\ Len(u) = m /\ \A i \in 1..m : u[i] = body[n + i]
    BY <1>1, <1>2
  <2>2. \A i \in 1..m : body[n + i] = bytes[i]
    <3>1. ASSUME NEW i \in 1..m PROVE n + i \in 1 .. n + m /\ ~ (n + i <= n) /\ (n + i) - n = i
      BY <1>1
    <3>2. QED
      BY <1>2, <3>1
  <2> HIDE DEF u
  <2>3. u = bytes
    BY <1>1, <2>1, <2>2, SeqEqual
  <2>4. QED
    BY <1>2, <2>3 DEF u
<1>5. ASSUME NEW o \in 1 .. Len(body)
      PROVE  /\ SubSeq(body, o, Len(body)) \in Bodies
             /\ Len(SubSeq(body, o, Len(body))) = Len(body) - o + 1
             /\ o <= n => SubSeq(body, o, Len(body))[1] = text[o]
  <2> DEFINE last == Len(body)
             u == SubSeq(body, o, last)
             size == last - o + 1
  <2>1. body \in Seq(Int) /\ last \in Nat /\ o \in 1..last
    BY <1>1, <1>2
  <2>2. size \in 1..last /\ o + 1 - 1 = o
    BY <2>1
  <2>3. \A i \in o..last : body[i] \in Int
    BY <2>1
  <2>4. u \in Seq(Int)
    BY <2>1, <2>3
  <2>5. Len(u) = size
    BY <2>1
  <2>6. u[1] = body[o]
    BY <2>1, <2>2
  <2>7. o <= n => body[o] = text[o]
    BY <1>1, <1>2
  <2>8. QED
    BY <2>4, <2>5, <2>6, <2>7 DEF Bodies
<1>6. QED
  BY <1>1, <1>2, <1>3, <1>4, <1>5 DEF body, Bodies

LEMMA EncodeLong ==
  ASSUME NEW tlvs \in Seq(Attrs), tlvs # <<>>, tlvs[Len(tlvs)].value # <<>>
  PROVE  Len(Encode(tlvs)) >= 3 /\ Seen(tlvs) = tlvs
<1>1. PICK t \in Attrs, us \in Seq(Attrs) :
         tlvs = <<t>> \o us /\ Len(tlvs) = Len(us) + 1 /\ (us = <<>> <=> Len(tlvs) = 1)
  BY HeadAndRest
<1>2. /\ Len(Encode(tlvs)) = Len(t.value) + 2 + Len(Encode(us))
      /\ Len(t.value) \in Nat /\ t.value \in Bodies /\ Encode(us) \in Bodies
  BY <1>1, EncodeIs, PieceIs
<1>3. Len(Encode(us)) \in Nat
  BY <1>2 DEF Bodies
<1>4. CASE us = <<>>
  <2>1. tlvs = <<t>>
    BY <1>1, <1>4
  <2>2. tlvs[Len(tlvs)] = t
    BY <2>1
  <2>3. Len(t.value) # 0
    BY <1>2, <2>2 DEF Bodies
  <2>4. QED
    BY <1>2, <1>3, <2>3 DEF Seen
<1>5. CASE us # <<>>
  <2>1. PICK s \in Attrs, rest \in Seq(Attrs) : us = <<s>> \o rest
    BY <1>5, HeadAndRest
  <2>2. /\ Len(Encode(us)) = Len(s.value) + 2 + Len(Encode(rest))
        /\ Len(s.value) \in Nat /\ Encode(rest) \in Bodies
    BY <2>1, EncodeIs, PieceIs
  <2>3. Len(Encode(rest)) \in Nat
    BY <2>2 DEF Bodies
  <2>4. Len(Encode(us)) >= 2
    BY <2>2, <2>3
  <2>5. QED
    BY <1>2, <2>4 DEF Seen
<1>6. QED
  BY <1>4, <1>5

\* Where a rejection's attributes start: no byte of the text is a type, so no
\* offset in the text fits, and the first after it does.
LEMMA RejectionIs ==
  ASSUME NEW text \in Bodies, NEW tlvs \in Seq(Attrs), tlvs # <<>>,
         \A i \in DOMAIN text : text[i] \notin Kinds, FindTlv(tlvs, "Username") # 0,
         FindTlv(tlvs, "AuthVerify") # 0,
         Len(tlvs[FindTlv(tlvs, "AuthVerify")].value) = WordLen,
         tlvs[Len(tlvs)].value # <<>>
  PROVE  Rejection(text \o Encode(tlvs)) =
            IF tlvs[FindTlv(tlvs, "AuthVerify")].value # Nonce THEN [kind |-> "VerifyMismatch"]
            ELSE [kind |-> "Rejected",
                  message |-> IF FindTlv(tlvs, "ErrorMessage") = 0 THEN text
                              ELSE tlvs[FindTlv(tlvs, "ErrorMessage")].value]
<1> DEFINE bytes == Encode(tlvs)
           body == text \o bytes
           start == Len(text) + 1
           starts == {o \in Offsets(body) : Recognised(body, o)}
<1>1. bytes \in Bodies /\ Len(bytes) >= 3 /\ Seen(tlvs) = tlvs
  BY EncodeIs, EncodeLong
<1> HIDE DEF bytes
<1>2. /\ Len(body) = Len(text) + Len(bytes) /\ Len(text) \in Nat /\ Len(bytes) \in Nat
      /\ SubSeq(body, 1, start - 1) = text /\ SubSeq(body, start, Len(body)) = bytes
      /\ \A o \in 1 .. Len(body) :
            /\ SubSeq(body, o, Len(body)) \in Bodies
            /\ Len(SubSeq(body, o, Len(body))) = Len(body) - o + 1
            /\ o <= Len(text) => SubSeq(body, o, Len(body))[1] = text[o]
  BY <1>1, TextThenBytes
<1> HIDE DEF body
<1>3. ParseAll(bytes) = [ok |-> TRUE, tlvs |-> tlvs]
  BY <1>1, ParseAllReads DEF bytes
<1>4. Recognised(body, start)
  <2>1. Completes(bytes)
    BY <1>3 DEF Completes, bytes
  <2> DEFINE rest == SubSeq(body, start, Len(body))
  <2>2. rest = bytes
    BY <1>2
  <2> HIDE DEF rest
  <2>3. ParseAll(rest).tlvs = tlvs /\ Completes(rest)
    BY <1>3, <2>1, <2>2
  <2> HIDE DEF start
  <2>4. QED
    BY <2>3, Zenon DEF Recognised, rest
<1>5. ASSUME NEW o \in 1 .. Len(body), o <= Len(text) PROVE ~ Recognised(body, o)
  <2> DEFINE rest == SubSeq(body, o, Len(body))
  <2>1. rest \in Bodies /\ Len(rest) >= 3 /\ rest[1] = text[o]
    BY <1>1, <1>2, <1>5
  <2>2. o \in DOMAIN text
    BY <1>2, <1>5 DEF Bodies
  <2> HIDE DEF rest
  <2>3. ~ Fits(rest, 1)
    BY <2>1, <2>2 DEF Fits
  <2>4. ~ ParseAll(rest).ok
    BY <2>1, <2>3, ParseAllReads
  <2>5. QED
    BY <2>4 DEF Recognised, Completes, rest
<1>6. start \in starts /\ \A o \in starts : o \in Nat /\ start <= o
  <2>1. start \in Offsets(body)
    BY <1>1, <1>2 DEF Offsets
  <2>2. ASSUME NEW o \in starts PROVE o \in Nat /\ start <= o
    <3>1. o \in 1 .. Len(body) /\ Recognised(body, o)
      BY DEF Offsets
    <3>2. ~ (o <= Len(text))
      BY <1>5, <3>1
    <3>3. QED
      BY <1>2, <3>1, <3>2
  <2>3. QED
    BY <1>4, <2>1, <2>2
<1> HIDE DEF starts
<1>7. (CHOOSE o \in starts : \A p \in starts : o <= p) = start
  <2>1. start \in Nat
    BY <1>2
  <2> HIDE DEF start
  <2>2. \A o \in starts : (\A p \in starts : o <= p) => o = start
    BY <1>6, <2>1
  <2>3. QED
    BY <1>6, <2>2
<1>8. Rejection(body) =
        LET found == CHOOSE o \in starts : \A p \in starts : o <= p
            read == ParseAll(SubSeq(body, found, Len(body))).tlvs
            message == FindTlv(read, "ErrorMessage")
        IN IF read[FindTlv(read, "AuthVerify")].value # Nonce
             THEN [kind |-> "VerifyMismatch"]
           ELSE [kind |-> "Rejected", message |-> IF message # 0 THEN read[message].value
                                                  ELSE SubSeq(body, 1, found - 1)]
  BY <1>6, Zenon DEF Rejection, starts
<1>9. ParseAll(SubSeq(body, start, Len(body))).tlvs = tlvs
  <2>1. SubSeq(body, start, Len(body)) = bytes
    BY <1>2
  <2> HIDE DEF start
  <2>2. QED
    BY <1>3, <2>1
<1>10. Rejection(body) =
         IF tlvs[FindTlv(tlvs, "AuthVerify")].value # Nonce THEN [kind |-> "VerifyMismatch"]
         ELSE [kind |-> "Rejected",
               message |-> IF FindTlv(tlvs, "ErrorMessage") # 0
                           THEN tlvs[FindTlv(tlvs, "ErrorMessage")].value
                           ELSE SubSeq(body, 1, start - 1)]
  <2> HIDE DEF start
  <2>1. QED
    BY <1>7, <1>8, <1>9, Zenon
<1>11. QED
  BY <1>2, <1>10 DEF body, bytes

-----------------------------------------------------------------------------
(* The replies, and the theorem. *)

Reading(d) ==
    CASE ~ DecodesPacket(d) -> [kind |-> "Malformed"]
      [] DecodesPacket(d) /\ d.type = "OpenReject" -> Rejection(d.body)
      [] DecodesPacket(d) /\ d.type = "OpenAck" -> OpenAck(d.body)
      [] OTHER -> [kind |-> "Ignored"]

\* A reply is made of what its sender meant, or of bytes nobody meant anything by.
ReplyMade ==
    /\ reply.body \in Bodies /\ reply.text \in Bodies /\ reply.meant \in Seq(Attrs)
    /\ reply.text = <<>> \/ reply.meant # <<>> => reply.body = reply.text \o Encode(reply.meant)
    /\ reply.type = "OpenReject" /\ reply.meant # <<>> => DecodesPacket(reply)

AnswerInv == ReplyMade /\ (verdict = Undecided \/ verdict = Reading(reply))

LEMMA BoundedSeqIs ==
  ASSUME NEW S, NEW T, S \subseteq T, NEW n \in Nat
  PROVE  BoundedSeq(S, n) \subseteq Seq(T)
<1>1. ASSUME NEW s \in BoundedSeq(S, n) PROVE s \in Seq(T)
  <2>1. PICK m \in 0..n : s \in [1..m -> S]
    BY DEF BoundedSeq, SeqOf
  <2>2. s \in [1..m -> T]
    BY <2>1
  <2>3. QED
    BY <2>2
<1>2. QED
  BY <1>1

LEMMA BytesAreBodies ==
  ASSUME NEW S \in SUBSET Byte
  PROVE  Seq(S) \subseteq Bodies
<1>1. ASSUME NEW s \in Seq(S) PROVE s \in Seq(Int)
  <2>1. \A i \in 1 .. Len(s) : s[i] \in Int
    <3>1. S \subseteq Int
      BY DEF Byte
    <3>2. \A i \in 1 .. Len(s) : s[i] \in S
      OBVIOUS
    <3>3. QED
      BY <3>1, <3>2
  <2>2. s \in [1 .. Len(s) -> Int]
    BY <2>1
  <2>3. QED
    BY <2>2
<1>2. QED
  BY <1>1 DEF Bodies

LEMMA BodyMade ==
  ASSUME NEW text \in Bodies, NEW tlvs \in Seq(Attrs)
  PROVE  text \o Encode(tlvs) \in Bodies
  BY EncodeIs, TextThenBytes

LEMMA ReplyIsMade == AnswerInit => ReplyMade
<1> SUFFICES ASSUME AnswerInit PROVE ReplyMade
  OBVIOUS
<1>1. /\ <<>> \in Bodies /\ <<>> \in Seq(Attrs) /\ Encode(<<>>) = <<>>
      /\ \A v \in Values : v \in Bodies
      /\ \A t \in Texts : t \in Bodies
      /\ Nonce \in Bodies /\ None \in Bodies
      /\ MaxBody \in Nat /\ MaxAttributes \in Nat
  <2>1. /\ Values \subseteq Seq(Byte) /\ Texts \subseteq Seq(Byte) /\ Nonce \in Seq(Byte)
        /\ MaxBody \in Nat /\ MaxAttributes \in Nat
    BY OpenAnswerAssumption
  <2>2. Seq(Byte) \subseteq Bodies
    BY BytesAreBodies
  <2>3. <<>> \in Bodies /\ <<>> \in Seq(Attrs)
    BY DEF Bodies
  <2>4. QED
    BY <2>1, <2>2, <2>3, EncodeIs DEF None
<1>2. \A type \in {"OpenAck", "OpenReject"}, text \in Bodies, tlvs \in Seq(Attrs) :
         reply = Datagram(type, "signed", text, tlvs) => ReplyMade
  <2>1. ASSUME NEW type \in {"OpenAck", "OpenReject"}, NEW text \in Bodies, NEW tlvs \in Seq(Attrs),
               reply = Datagram(type, "signed", text, tlvs)
        PROVE  ReplyMade
    <3>1. /\ reply.type = type /\ reply.frame = "signed" /\ reply.text = text /\ reply.meant = tlvs
          /\ reply.body = text \o Encode(tlvs) /\ reply.body \in Bodies
      <4>1. text \o Encode(tlvs) \in Bodies
        BY BodyMade
      <4>2. QED
        BY <2>1, <4>1 DEF Datagram
    <3>2. DecodesPacket(reply)
      BY <3>1 DEF DecodesPacket
    <3>3. QED
      BY <3>1, <3>2 DEF ReplyMade
  <2>2. QED
    BY <2>1
<1>3. CASE reply \in Opens
  <2>1. PICK n \in Values, l \in {None, Nonce} :
           reply = Datagram("Open", "signed", <<>>, OpenAttributes(n, l, Nonce))
    BY <1>3 DEF Opens
  <2>2. OpenAttributes(n, l, Nonce) \in Seq(Attrs)
    <3> DEFINE a == <<Attribute("Mtu", <<0, 0>>), Attribute("Username", n),
                      Attribute("Password", <<1, 2>>), Attribute("Encrypt", <<1>>)>>
               b == IF l = None THEN <<>> ELSE <<Attribute("Link", l)>>
               c == IF \A i \in DOMAIN Nonce : Nonce[i] = 0 THEN <<>> ELSE <<Attribute("AuthVerify", Nonce)>>
    <3>1. {"Mtu", "Username", "Password", "Encrypt", "Link", "AuthVerify"} \subseteq DOMAIN TlvType
      BY DEF TlvType
    <3>2. <<0, 0>> \in Bodies /\ <<1, 2>> \in Bodies /\ <<1>> \in Bodies
      BY DEF Bodies
    <3>3. /\ Attribute("Mtu", <<0, 0>>) \in Attrs /\ Attribute("Username", n) \in Attrs
          /\ Attribute("Password", <<1, 2>>) \in Attrs /\ Attribute("Encrypt", <<1>>) \in Attrs
          /\ Attribute("Link", l) \in Attrs /\ Attribute("AuthVerify", Nonce) \in Attrs
      BY <1>1, <3>1, <3>2, AttributeMade
    <3>4. a \in Seq(Attrs)
      BY <3>3
    <3>5. b \in Seq(Attrs) /\ c \in Seq(Attrs)
      BY <3>3
    <3>6. OpenAttributes(n, l, Nonce) = a \o b \o c
      BY Zenon DEF OpenAttributes
    <3> HIDE DEF a, b, c
    <3>7. QED
      BY <3>4, <3>5, <3>6
  <2>3. /\ reply.type = "Open" /\ reply.text = <<>> /\ reply.meant = OpenAttributes(n, l, Nonce)
        /\ reply.body = reply.text \o Encode(reply.meant) /\ reply.body \in Bodies
    <3> DEFINE tlvs == OpenAttributes(n, l, Nonce)
    <3>1. <<>> \o Encode(tlvs) \in Bodies
      BY <1>1, <2>2, BodyMade
    <3> HIDE DEF tlvs
    <3>2. reply = Datagram("Open", "signed", <<>>, tlvs)
      BY <2>1 DEF tlvs
    <3>3. /\ reply.type = "Open" /\ reply.text = <<>> /\ reply.meant = tlvs
          /\ reply.body = reply.text \o Encode(reply.meant) /\ reply.body \in Bodies
      BY <3>1, <3>2 DEF Datagram
    <3>4. QED
      BY <3>3 DEF tlvs
  <2>4. QED
    BY <1>1, <2>2, <2>3 DEF ReplyMade
<1>4. CASE reply \in StructuredAnswers
  <2> DEFINE acks == BoundedSeq(AckAttributes, MaxAttributes)
             rejects == BoundedSeq(RejectAttributes, MaxAttributes)
  <2>1. \/ \E tlvs \in acks : reply = Datagram("OpenAck", "signed", <<>>, tlvs)
        \/ \E text \in Texts, tlvs \in rejects : reply = Datagram("OpenReject", "signed", text, tlvs)
    <3> DEFINE A == {Datagram("OpenAck", "signed", <<>>, tlvs) : tlvs \in acks}
               R == {Datagram("OpenReject", "signed", text, tlvs) : text \in Texts, tlvs \in rejects}
    <3>1. StructuredAnswers = A \cup R
      BY DEF StructuredAnswers
    <3> HIDE DEF A, R
    <3>2. reply \in A \/ reply \in R
      BY <1>4, <3>1
    <3> HIDE DEF acks, rejects
    <3>3. reply \in A => \E tlvs \in acks : reply = Datagram("OpenAck", "signed", <<>>, tlvs)
      BY DEF A
    <3>4. reply \in R => \E text \in Texts, tlvs \in rejects :
                             reply = Datagram("OpenReject", "signed", text, tlvs)
      BY DEF R
    <3>5. QED
      BY <3>2, <3>3, <3>4
  <2>2. AckAttributes \subseteq Attrs /\ RejectAttributes \subseteq Attrs
    <3>1. {"Mtu", "Ip", "Dns", "Gateway", "Encrypt", "AuthVerify", "ErrorMessage", "Username"}
             \subseteq DOMAIN TlvType
      BY DEF TlvType
    <3>2. <<1>> \in Bodies
      BY DEF Bodies
    <3>3. \A k \in DOMAIN TlvType, v \in Bodies : Attribute(k, v) \in Attrs
      BY AttributeMade
    <3>4. AckAttributes \subseteq Attrs
      BY <1>1, <3>1, <3>3 DEF AckAttributes
    <3>5. RejectAttributes \subseteq Attrs
      BY <1>1, <3>1, <3>2, <3>3 DEF RejectAttributes
    <3>6. QED
      BY <3>4, <3>5
  <2>3. acks \subseteq Seq(Attrs) /\ rejects \subseteq Seq(Attrs)
    BY <1>1, <2>2, BoundedSeqIs
  <2> HIDE DEF acks, rejects
  <2>4. QED
    BY <1>1, <1>2, <2>1, <2>3
<1>5. CASE reply \in AnyBytes
  <2>1. PICK type \in {"OpenAck", "OpenReject"}, body \in BoundedSeq(Bytes, MaxBody) :
           reply = [Datagram(type, "signed", body, <<>>) EXCEPT !.text = <<0>>]
    BY <1>5 DEF AnyBytes
  <2>2. body \in Bodies
    <3>1. Bytes \subseteq Int
      BY OpenAnswerAssumption DEF Byte
    <3>2. QED
      BY <1>1, <3>1, BoundedSeqIs DEF Bodies
  <2>3. body \o Encode(<<>>) \in Bodies
    BY <1>1, <2>2, TextThenBytes
  <2>4. reply.body \in Bodies /\ reply.text = <<0>> /\ reply.meant = <<>>
    BY <2>1, <2>3 DEF Datagram
  <2>5. <<0>> \in Bodies /\ <<0>> # <<>>
    BY DEF Bodies
  <2>6. QED
    BY <1>1, <2>4, <2>5 DEF ReplyMade
<1>6. CASE reply \in Frames
  <2>1. PICK type \in Control \cup {"Data", "SegmentRouting"},
             frame \in {"short", "header", "cut", "wrong", "signed"} :
           reply = Datagram(type, frame, <<>>, <<>>)
    BY <1>6 DEF Frames
  <2>2. reply.text = <<>> /\ reply.meant = <<>> /\ reply.body = <<>> \o Encode(<<>>) /\ reply.body \in Bodies
    <3>1. <<>> \o Encode(<<>>) \in Bodies
      BY <1>1, BodyMade
    <3>2. QED
      BY <2>1, <3>1 DEF Datagram
  <2>3. QED
    BY <1>1, <2>2 DEF ReplyMade
<1>7. QED
  BY <1>3, <1>4, <1>5, <1>6 DEF AnswerInit

LEMMA AnswerInvInductive ==
  /\ AnswerInit => AnswerInv
  /\ AnswerInv /\ [AnswerNext]_answerVars => AnswerInv'
<1>1. AnswerInit => AnswerInv
  BY ReplyIsMade DEF AnswerInv, AnswerInit
<1>2. ASSUME AnswerInv, [AnswerNext]_answerVars PROVE AnswerInv'
  <2>1. CASE Settle
    <3>1. reply' = reply /\ verdict' = Reading(reply)
      BY <2>1, Zenon DEF Settle, Reading
    <3>2. QED
      BY <1>2, <3>1 DEF AnswerInv, ReplyMade
  <2>2. CASE UNCHANGED answerVars
    BY <1>2, <2>2 DEF AnswerInv, ReplyMade, answerVars
  <2>3. QED
    BY <1>2, <2>1, <2>2 DEF AnswerNext, AnswerDone
<1>3. QED
  BY <1>1, <1>2

LEMMA ParsedInv == ASSUME AnswerInv PROVE ParsedExactly
<1> DEFINE body == reply.body
           parsed == ParseAll(body)
           bytes == Encode(parsed.tlvs)
           n == Len(reply.meant)
<1>1. body \in Bodies /\ reply.meant \in Seq(Attrs) /\ Len(body) \in Nat
  BY DEF AnswerInv, ReplyMade, Bodies
<1> HIDE DEF body
<1>2. ReadsBack(body, 1, parsed) /\ Left(body, 1) = Len(body)
  BY <1>1, ParseAllReads
<1>3. ASSUME parsed.ok PROVE IsPrefix(bytes, body) /\ Len(body) - Len(bytes) <= 2
  <2>1. Len(bytes) <= Len(body) /\ Len(body) <= Len(bytes) + 2 /\ StandsAt(bytes, body, 1)
        /\ parsed \in Parsed
    BY <1>2, <1>3 DEF ReadsBack
  <2>2. bytes \in Bodies
    BY <2>1, EncodeIs DEF Parsed
  <2>3. Len(bytes) \in Nat
    BY <2>2 DEF Bodies
  <2> HIDE DEF bytes
  <2>4. \A j \in 1 .. Len(bytes) : bytes[j] = body[j]
    <3>1. \A j \in 1 .. Len(bytes) : 1 + j - 1 = j
      BY <2>3
    <3>2. QED
      BY <2>1, <3>1 DEF StandsAt
  <2>5. QED
    BY <1>1, <2>1, <2>2, <2>3, <2>4, PrefixIs
<1>4. ASSUME reply.text = <<>> PROVE parsed = [ok |-> TRUE, tlvs |-> Seen(reply.meant)]
  <2>1. body = <<>> \o Encode(reply.meant)
    BY <1>4 DEF AnswerInv, ReplyMade, body
  <2>2. body = Encode(reply.meant)
    <3>1. Encode(reply.meant) \in Bodies
      BY <1>1, EncodeIs
    <3>2. QED
      BY <2>1, <3>1 DEF Bodies
  <2>3. QED
    BY <1>1, <2>2, ParseAllReads
<1>5. Seen(reply.meant) = IF n > 0 /\ reply.meant[n].value = <<>> THEN SubSeq(reply.meant, 1, n - 1)
                                                                 ELSE reply.meant
  BY DEF Seen
<1>6. QED
  <2> HIDE DEF bytes
  <2>1. QED
    BY <1>3, <1>4, <1>5 DEF ParsedExactly, body, bytes

LEMMA AckInv == ASSUME AnswerInv PROVE AckRead
<1> DEFINE body == reply.body
           tlvs == ParseAll(body).tlvs
           at == FindTlv(tlvs, "AuthVerify")
           word == IF at = 0 THEN Nonce ELSE FirstWord(tlvs[at].value)
           mtu == SelectLastInSeq(tlvs, LAMBDA t : t.kind = TlvType.Mtu)
<1> SUFFICES ASSUME verdict.kind = "Session" PROVE AckRead
  BY DEF AckRead
<1>1. body \in Bodies
  BY DEF AnswerInv, ReplyMade
<1>2. verdict = OpenAck(body)
  <2>1. verdict = Reading(reply)
    BY DEF AnswerInv, Undecided
  <2>2. Rejection(body).kind # "Session"
    BY DEF Rejection
  <2>3. QED
    BY <2>1, <2>2 DEF Reading
<1> HIDE DEF body
<1>3. ReadsBack(body, 1, ParseAll(body))
  BY <1>1, ParseAllReads
<1>4. tlvs \in Seq(Attrs)
  BY <1>3 DEF ReadsBack, Parsed
<1>5. word = Nonce /\ verdict.info = FoldLeft(Takes, Offered, tlvs)
  <2>1. ParseAll(body).ok \in BOOLEAN
    BY <1>3 DEF ReadsBack, Parsed
  <2>2. OpenAck(body) =
           CASE ~ ParseAll(body).ok \/ word = None -> [kind |-> "Malformed"]
             [] ParseAll(body).ok /\ word \notin {None, Nonce} -> [kind |-> "VerifyMismatch"]
             [] ParseAll(body).ok /\ word = Nonce ->
                  [kind |-> "Session", info |-> FoldLeft(Takes, Offered, tlvs)]
    BY Zenon DEF OpenAck
  <2> HIDE DEF word, tlvs
  <2>3. QED
    BY <1>2, <2>1, <2>2
<1> HIDE DEF tlvs
<1>6. at # 0 => IsPrefix(Nonce, tlvs[at].value)
  <2> SUFFICES ASSUME at # 0 PROVE IsPrefix(Nonce, tlvs[at].value)
    OBVIOUS
  <2>1. "AuthVerify" \in DOMAIN TlvType
    BY DEF TlvType
  <2>2. at \in 1 .. Len(tlvs)
    BY <1>4, <2>1, FindIs
  <2> DEFINE v == tlvs[at].value
  <2>3. v \in Bodies
    <3>1. tlvs[at] \in Attrs
      BY <1>4, <2>2
    <3>2. QED
      BY <3>1 DEF Attrs
  <2>4. FirstWord(v) = Nonce
    BY <1>5
  <2> HIDE DEF v
  <2>5. WordLen \in Nat /\ Len(Nonce) = WordLen /\ Nonce # None /\ Nonce \in Bodies
    <3>1. WordLen \in Nat \ {0} /\ Len(Nonce) = WordLen /\ Nonce \in Seq(Byte)
      BY OpenAnswerAssumption
    <3>2. QED
      BY <3>1, BytesAreBodies DEF None
  <2>6. WordLen <= Len(v) /\ Nonce = SubSeq(v, 1, WordLen)
    BY <2>3, <2>4, <2>5, FirstWordIs
  <2>7. \A j \in 1..WordLen : Nonce[j] = v[j]
    <3>1. v \in Seq(Int) /\ Len(v) \in Nat
      BY <2>3 DEF Bodies
    <3>2. \A j \in 1..WordLen : SubSeq(v, 1, WordLen)[j] = v[j]
      BY <2>5, <2>6, <3>1
    <3>3. QED
      BY <2>6, <3>2
  <2>8. QED
    BY <2>3, <2>5, <2>6, <2>7, PrefixIs DEF v
<1>7. /\ verdict.info \in Infos
      /\ verdict.info.address = LastIn(tlvs, "Ip", {None})
      /\ verdict.info.gateway = LastIn(tlvs, "Gateway", {None})
      /\ verdict.info.dns = LastIn(tlvs, "Dns", {None, Unspecified})
      /\ (\A i \in 1 .. Len(tlvs) : tlvs[i].kind # TlvType.Mtu) => verdict.info.mtu = RequestedMtu
  BY <1>4, <1>5, OfferedAtLast
<1>8. mtu = 0 => \A i \in 1 .. Len(tlvs) : tlvs[i].kind # TlvType.Mtu
  <2> DEFINE I == {i \in 1 .. Len(tlvs) : tlvs[i].kind = TlvType.Mtu}
  <2>1. mtu = IF I # {} THEN Max(I) ELSE 0
    BY Zenon DEF SelectLastInSeq
  <2>2. I \in SUBSET (1 .. Len(tlvs)) /\ Len(tlvs) \in Nat
    BY <1>4
  <2>3. I # {} => Max(I) \in I /\ Max(I) # 0
    <3> HIDE DEF I
    <3>1. I # {} => Max(I) \in I
      BY <2>2, MaxIs
    <3>2. QED
      BY <2>2, <3>1
  <2>4. mtu = 0 => I = {}
    <3> HIDE DEF I, mtu
    <3>1. QED
      BY <2>1, <2>3
  <2>5. QED
    BY <2>4
<1>9. verdict.info.mtu \in MtuRange \cup {RequestedMtu}
  BY <1>7 DEF Infos
<1>10. QED
  <2> HIDE DEF at, mtu
  <2>1. mtu = 0 => verdict.info.mtu = RequestedMtu
    BY <1>7, <1>8
  <2>2. QED
    BY <1>6, <1>7, <1>9, <2>1, Zenon DEF AckRead, LastIn, at, mtu, tlvs, body

LEMMA RejectionInv == ASSUME AnswerInv PROVE RejectionRead
<1> DEFINE n == Len(reply.meant)
           verify == FindTlv(reply.meant, "AuthVerify")
           message == FindTlv(reply.meant, "ErrorMessage")
           text == reply.text
<1> SUFFICES ASSUME reply.type = "OpenReject", verdict # Undecided, n > 0,
                    \A i \in DOMAIN text : text[i] \notin Kinds,
                    FindTlv(reply.meant, "Username") # 0, verify # 0,
                    Len(reply.meant[verify].value) = WordLen, reply.meant[n].value # <<>>
             PROVE  verdict = IF reply.meant[verify].value # Nonce THEN [kind |-> "VerifyMismatch"]
                              ELSE [kind |-> "Rejected",
                                    message |-> IF message = 0 THEN text
                                                ELSE reply.meant[message].value]
  BY Zenon DEF RejectionRead
<1>1. reply.meant # <<>> /\ reply.meant \in Seq(Attrs) /\ text \in Bodies
  BY DEF AnswerInv, ReplyMade
<1>2. DecodesPacket(reply) /\ reply.body = text \o Encode(reply.meant)
  BY <1>1 DEF AnswerInv, ReplyMade
<1>3. verdict = Rejection(text \o Encode(reply.meant))
  BY <1>2 DEF AnswerInv, Reading
<1>4. QED
  <2> HIDE DEF text
  <2>1. QED
    BY <1>1, <1>3, RejectionIs DEF text

\* What is read from an answer is what the server wrote, whatever it sent
\* (decode_packet, the TLV codec, parse_open_ack and parse_rejection).
THEOREM AnswerAlwaysRead == AnswerSpec => []AnswerRead
<1>1. AnswerInv => AnswerRead
  BY ParsedInv, AckInv, RejectionInv DEF AnswerRead
<1>2. QED
  BY <1>1, AnswerInvInductive, PTL DEF AnswerSpec

=============================================================================
