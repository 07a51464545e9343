------------------------------ MODULE DnsProofs ------------------------------
(***************************************************************************)
(* Split DNS for every number of queries, workers, resolvers, ports, relay *)
(* IDs, policies, sessions and updates: which answer a client is given,    *)
(* how the runtime counts its workers, and what the platform's commands    *)
(* leave on the link.                                                      *)
(***************************************************************************)
EXTENDS DnsRuntime, DnsExchange, PlatformDns, FiniteSetTheorems, TLAPS

-----------------------------------------------------------------------------
(* DnsRelay::relay and its exchanges. *)

Legs == {"next", "udp", "tcp", "answered", "failed", "too_long"}

ExchangeTypes ==
    /\ leg \in [Asked -> Legs]
    /\ turn \in [Asked -> Nat]
    /\ DOMAIN request = Asked /\ DOMAIN answer = Asked
    /\ request = [q \in Asked |-> request[q]]
    /\ answer = [q \in Asked |-> answer[q]]

\* While a resolver is asked there is one, and the message relayed to it has
\* the client's question.
AsksOwnQuestion ==
    \A q \in Asked :
        /\ leg[q] \notin {"failed", "too_long"} => turn[q] <= Upstream
        /\ leg[q] \in {"udp", "tcp"} => request[q].question = q.question

ExchangeInv == ExchangeTypes /\ AsksOwnQuestion /\ AnswersOwnQuestion

\* A datagram that parses has the fields of a message, so that replacing its
\* ID keeps the rest.
LEMMA AnswersAreMessages ==
    ASSUME NEW r, NEW m \in AnswersTo(r), m # Garbage, NEW i
    PROVE  /\ [m EXCEPT !.id = i].id = i
           /\ [m EXCEPT !.id = i].kind = m.kind
           /\ [m EXCEPT !.id = i].question = m.question
<1>1. \E k, j, u, t : m = Message(k, j, u, t)
  <2>1. CASE m \in {Message("response", r.id, r.question, t) : t \in BOOLEAN}
    BY <2>1
  <2>2. CASE m = Message("query", r.id, r.question, FALSE)
    BY <2>2
  <2>3. CASE m \in Messages
    BY <2>3 DEF Messages
  <2>4. QED
    BY <2>1, <2>2, <2>3 DEF AnswersTo
<1>2. QED
  BY <1>1 DEF Message

\* Nothing is asked or answered at first.
LEMMA ExchangeStarts == ExchangeInit => ExchangeInv
BY DnsExchangeAssumption
   DEF ExchangeInit, ExchangeInv, ExchangeTypes, Legs, AsksOwnQuestion, AnswersOwnQuestion

\* Moving on to the next resolver, or failing after the last one.
LEMMA ErrorKeeps ==
    ASSUME ExchangeInv, NEW q \in Asked, leg[q] \in {"udp", "tcp"},
           OnError(q), UNCHANGED <<request, answer>>
    PROVE  ExchangeInv'
<1> PICK k \in Nat : k = turn[q] + 1
  BY DEF ExchangeInv, ExchangeTypes
<1>1. turn' = [turn EXCEPT ![q] = k] /\ turn' \in [Asked -> Nat]
  BY DEF OnError, ExchangeInv, ExchangeTypes
<1>2. PICK l \in {"failed", "next"} :
         leg' = [leg EXCEPT ![q] = l] /\ (l = "failed" <=> turn[q] = Upstream)
  BY DEF OnError
<1>3. leg' \in [Asked -> Legs] /\ ExchangeTypes'
  BY <1>1, <1>2 DEF ExchangeInv, ExchangeTypes, Legs
<1>4. turn[q] \in Nat /\ turn[q] <= Upstream
  BY DEF ExchangeInv, ExchangeTypes, AsksOwnQuestion
<1>5. /\ leg'[q] = "failed" => k = Upstream + 1
      /\ leg'[q] # "failed" => k <= Upstream
  BY <1>2, <1>4, DnsExchangeAssumption DEF ExchangeInv, ExchangeTypes
<1>6. \A p \in Asked : p # q => leg'[p] = leg[p] /\ turn'[p] = turn[p]
  BY <1>1, <1>2 DEF ExchangeInv, ExchangeTypes
<1>7. leg'[q] \in {"failed", "next"} /\ turn'[q] = k
  BY <1>1, <1>2 DEF ExchangeInv, ExchangeTypes
<1>8. AsksOwnQuestion'
  BY <1>5, <1>6, <1>7 DEF ExchangeInv, AsksOwnQuestion
<1>9. AnswersOwnQuestion'
  BY <1>5, <1>6, <1>7 DEF ExchangeInv, AnswersOwnQuestion
<1>10. QED
  BY <1>3, <1>8, <1>9 DEF ExchangeInv

\* A message that an exchange returned is checked before it is handed back.
LEMMA ReturnsKeeps ==
    ASSUME ExchangeInv, NEW q \in Asked, leg[q] \in {"udp", "tcp"},
           NEW r, NEW m \in AnswersTo(r), m # Garbage,
           Returns(q, m), UNCHANGED request
    PROVE  ExchangeInv'
<1>1. CASE ~ Valid(request[q], m)
  BY <1>1, ErrorKeeps DEF Returns
<1>2. CASE Valid(request[q], m)
  <2> PICK a : a = [m EXCEPT !.id = q.id]
    OBVIOUS
  <2>1. /\ answer' = [answer EXCEPT ![q] = a]
        /\ leg' = [leg EXCEPT ![q] = "answered"] /\ UNCHANGED turn
    BY <1>2 DEF Returns
  <2>2. a.id = q.id /\ a.kind = "response" /\ a.question = q.question
    BY <1>2, AnswersAreMessages DEF Valid, ExchangeInv, AsksOwnQuestion
  <2>3. /\ answer'[q] = a /\ leg'[q] = "answered"
        /\ \A p \in Asked : p # q => leg'[p] = leg[p] /\ answer'[p] = answer[p]
    BY <2>1 DEF ExchangeInv, ExchangeTypes
  <2>4. ExchangeTypes'
    BY <2>1 DEF ExchangeInv, ExchangeTypes, Legs
  <2>5. AsksOwnQuestion'
    BY <2>1, <2>3 DEF ExchangeInv, AsksOwnQuestion
  <2>6. AnswersOwnQuestion'
    <3>1. turn[q] <= Upstream /\ turn' = turn
      BY <2>1 DEF ExchangeInv, AsksOwnQuestion
    <3>2. AnswersOwnQuestion
      BY DEF ExchangeInv
    <3>3. QED
      BY <2>2, <2>3, <3>1, <3>2 DEF AnswersOwnQuestion
  <2>7. QED
    BY <2>4, <2>5, <2>6 DEF ExchangeInv
<1>3. QED
  BY <1>1, <1>2

\* Every step of every worker keeps it.
LEMMA ExchangeKeeps == ASSUME ExchangeInv, [ExchangeNext]_exchangeVars PROVE ExchangeInv'
<1>1. ASSUME NEW q \in Asked, AskUdp(q) PROVE ExchangeInv'
  <2> PICK m : m = Message("query", relayId, q.question, FALSE)
    OBVIOUS
  <2>1. /\ leg[q] = "next" /\ UNCHANGED <<turn, answer>>
        /\ leg' = [leg EXCEPT ![q] = "udp"] /\ request' = [request EXCEPT ![q] = m]
    BY <1>1 DEF AskUdp
  <2>2. m.question = q.question
    BY DEF Message
  <2>3. QED
    BY <2>1, <2>2 DEF ExchangeInv, ExchangeTypes, Legs, AsksOwnQuestion, AnswersOwnQuestion
<1>2. ASSUME NEW q \in Asked, NEW l \in {"tcp", "too_long"}, leg[q] \in {"udp", "tcp"},
             leg' = [leg EXCEPT ![q] = l], UNCHANGED <<turn, request, answer>>
      PROVE  ExchangeInv'
  BY <1>2 DEF ExchangeInv, ExchangeTypes, Legs, AsksOwnQuestion, AnswersOwnQuestion
<1>3. ASSUME NEW q \in Asked, UdpReceives(q) PROVE ExchangeInv'
  <2>1. leg[q] = "udp" /\ UNCHANGED request
    BY <1>3 DEF UdpReceives, Closes
  <2>2. PICK r \in sent : \E m \in AnswersTo(r) :
          \/ m = Garbage /\ OnError(q) /\ UNCHANGED answer
          \/ leg' = [leg EXCEPT ![q] = "tcp"] /\ UNCHANGED <<turn, answer>>
          \/ m # Garbage /\ Returns(q, m)
    BY <1>3 DEF UdpReceives
  <2>3. QED
    BY <2>1, <2>2, <1>2, ErrorKeeps, ReturnsKeeps
<1>4. ASSUME NEW q \in Asked, UdpTimesOut(q) PROVE ExchangeInv'
  BY <1>4, <1>2 DEF UdpTimesOut, Closes
<1>5. ASSUME NEW q \in Asked, UdpFails(q) PROVE ExchangeInv'
  BY <1>5, ErrorKeeps DEF UdpFails, Closes
<1>6. ASSUME NEW q \in Asked, TcpReceives(q) PROVE ExchangeInv'
  BY <1>6, ReturnsKeeps DEF TcpReceives
<1>7. ASSUME NEW q \in Asked, TcpTooLong(q) PROVE ExchangeInv'
  BY <1>7, <1>2 DEF TcpTooLong
<1>8. ASSUME NEW q \in Asked, TcpFails(q) PROVE ExchangeInv'
  BY <1>8, ErrorKeeps DEF TcpFails
<1>9. CASE UNCHANGED exchangeVars
  BY <1>9 DEF exchangeVars, ExchangeInv, ExchangeTypes, AsksOwnQuestion, AnswersOwnQuestion
<1>10. QED
  BY <1>1, <1>3, <1>4, <1>5, <1>6, <1>7, <1>8, <1>9
     DEF ExchangeNext, ExchangeStep, ExchangeDone

\* A client gets only a response to its own question under its own ID, and an
\* error only after every resolver, for every number of relay IDs and ports:
\* the message relayed has the client's question as long as an exchange lasts,
\* and validate_response compares with that message.
THEOREM AnswersAlwaysOwn == ExchangeSpec => []AnswersOwnQuestion
<1>1. ExchangeInit => ExchangeInv
  BY ExchangeStarts
<1>2. ExchangeInv /\ [ExchangeNext]_exchangeVars => ExchangeInv'
  BY ExchangeKeeps
<1>3. ExchangeInv => AnswersOwnQuestion
  BY DEF ExchangeInv
<1>4. QED
  BY <1>1, <1>2, <1>3, PTL DEF ExchangeSpec

-----------------------------------------------------------------------------
(* PlatformDnsLease and the calls of DnsRuntime. *)

Applying == {"apply", "domain", "default"}

PlatformTypes ==
    /\ at \in {"down", "drop", "up", "gone"} \cup Applying
    /\ goal \in Plans /\ inForce \in Plans /\ held \in {Free, inForce}
    /\ retrying \in BOOLEAN /\ lost \in BOOLEAN /\ running \in BOOLEAN
    /\ original = LinkWith({})

\* The settings of the link after each command, as long as every revert worked:
\* what Windows read before it wrote is then the empty setting.
LinkFollows ==
    ~ lost =>
        /\ saved = {}
        /\ at \notin Applying =>
              link = IF held = Free THEN original ELSE Configured(held)
        /\ at = "apply" => link = original
        /\ at = "domain" => link = [LinkWith({}) EXCEPT !.servers = ServersOf[goal]]
        /\ at = "default" => link = [LinkWith(ServersOf[goal]) EXCEPT !.domain = TRUE]

\* No lease is held while one is applied, the retry is for the policy in
\* force, and a policy in force was filtered for.
CallsFollow ==
    /\ at \in Applying => held = Free
    /\ retrying => at \in Applying /\ goal = inForce
    /\ at \in {"domain", "default"} => backend = "resolved" /\ ServersOf[goal] # {}
    /\ at = "up" => running
    /\ running => /\ usable \cap ServersOf[inForce] = {}
                  /\ ipv6 \/ usable \cap Ipv6Resolvers = {}

PlatformInv == PlatformTypes /\ LinkFollows /\ CallsFollow

\* The link is untouched at first.
LEMMA PlatformStarts == PlatformInit => PlatformInv
BY PlatformDnsAssumption
   DEF PlatformInit, PlatformInv, PlatformTypes, LinkFollows, CallsFollow, Applying

\* Dropping a lease leaves the link as it was found, unless the revert fails.
LEMMA DropRestores ==
    ASSUME PlatformInv, at \notin Applying, DropLease, UNCHANGED <<hostVars, saved>>
    PROVE  /\ held' = Free /\ lost' \in BOOLEAN
           /\ ~ lost' => ~ lost /\ link' = original' /\ saved' = {}
BY DEF PlatformInv, PlatformTypes, LinkFollows, DropLease, Revert, Undone, Configured,
       hostVars

\* A revert in the middle of an application does so, too.
LEMMA RevertRestores ==
    ASSUME PlatformInv, backend # "windows", Revert, UNCHANGED hostVars
    PROVE  lost' \in BOOLEAN /\ (~ lost' => ~ lost /\ link' = original')
BY DEF PlatformInv, PlatformTypes, Revert, Undone, hostVars

\* A failed application, with the link as it was found.
LEMMA FailsKeeps ==
    ASSUME PlatformInv, at \in Applying, Fails,
           lost' \in BOOLEAN, ~ lost' => ~ lost /\ link' = original'
    PROVE  PlatformInv'
<1> USE DEF PlatformInv, PlatformTypes, CallsFollow, Applying, Fails, hostVars, runtimeVars
<1>1. PlatformTypes' /\ CallsFollow'
  BY PlatformDnsAssumption DEF Rest
<1>2. LinkFollows'
  BY DEF LinkFollows, Rest
<1>3. QED
  BY <1>1, <1>2

\* A finished application, with the link set up for its goal.
LEMMA SucceedsKeeps ==
    ASSUME PlatformInv, at \in Applying, Succeeds,
           ~ lost => link' = Configured(goal) /\ saved' = {}
    PROVE  PlatformInv'
<1> USE DEF PlatformInv, PlatformTypes, CallsFollow, Applying, Succeeds, hostVars
<1>1. PlatformTypes'
  BY PlatformDnsAssumption DEF Rest
<1>2. CallsFollow'
  BY PlatformDnsAssumption DEF Rest, FilterPhysical
<1>3. LinkFollows'
  BY PlatformDnsAssumption DEF LinkFollows, Rest, Configured
<1>4. QED
  BY <1>1, <1>2, <1>3

\* resolvectl default-route completes the settings.
LEMMA DefaultRouteLast ==
    ASSUME NEW s, NEW x, NEW y,
           x = [servers |-> s, domain |-> TRUE, default |-> FALSE],
           y = [servers |-> s, domain |-> TRUE, default |-> TRUE]
    PROVE  [x EXCEPT !.default = TRUE] = y
<1> DEFINE Settings == [servers : {s}, domain : BOOLEAN, default : BOOLEAN]
<1>1. x \in Settings /\ y \in Settings /\ x.domain = TRUE /\ y.domain = TRUE /\ y.default = TRUE
  OBVIOUS
<1>2. /\ [x EXCEPT !.default = TRUE] \in Settings
      /\ [x EXCEPT !.default = TRUE].default = TRUE
      /\ [x EXCEPT !.default = TRUE].domain = TRUE
  BY ONLY <1>1
<1>3. \A u, v \in Settings : u.domain = v.domain /\ u.default = v.default => u = v
  OBVIOUS
<1>4. QED
  BY ONLY <1>1, <1>2, <1>3

\* Every call and every command keeps it.
LEMMA PlatformKeeps == ASSUME PlatformInv, [PlatformNext]_platformVars PROVE PlatformInv'
<1> USE DEF Applying
<1>1. CASE Activate \/ UpdatePlan
  <2>1. /\ at \in {"down", "up"} /\ at' = "drop" /\ goal' \in Plans /\ retrying' = FALSE
        /\ UNCHANGED <<hostVars, leaseVars, usable, inForce, running>>
    BY <1>1 DEF Activate, UpdatePlan, runtimeVars
  <2>2. PlatformTypes' /\ CallsFollow'
    BY <2>1 DEF PlatformInv, PlatformTypes, CallsFollow, hostVars, leaseVars
  <2>3. LinkFollows'
    BY <2>1 DEF PlatformInv, LinkFollows, Configured, hostVars, leaseVars
  <2>4. QED
    BY <2>2, <2>3 DEF PlatformInv
<1>2. CASE DropPrevious
  BY <1>2, DropRestores DEF DropPrevious, PlatformInv, PlatformTypes, LinkFollows,
                            CallsFollow, hostVars, runtimeVars
<1>3. CASE ApplyNothing
  BY <1>3, SucceedsKeeps DEF ApplyNothing, PlatformInv, LinkFollows, Configured
<1>4. CASE NoBackend
  BY <1>4, FailsKeeps DEF NoBackend, PlatformInv, PlatformTypes, LinkFollows, Fails, hostVars
<1>5. CASE SetServers
  <2>1. CASE Fails /\ UNCHANGED <<link, lost>>
    BY <1>5, <2>1, FailsKeeps DEF SetServers, PlatformInv, PlatformTypes, LinkFollows,
                                  Fails, hostVars
  <2>2. CASE /\ link' = [link EXCEPT !.servers = ServersOf[goal]] /\ at' = "domain"
             /\ UNCHANGED <<hostVars, held, saved, lost, runtimeVars, goal, retrying>>
    BY <1>5, <2>2 DEF SetServers, PlatformInv, PlatformTypes, LinkFollows, CallsFollow,
                      hostVars, runtimeVars
  <2>3. QED
    BY <1>5, <2>1, <2>2 DEF SetServers
<1>6. CASE SetDomain
  <2>1. CASE Fails /\ Revert
    BY <1>6, <2>1, FailsKeeps, RevertRestores DEF SetDomain, PlatformInv, CallsFollow, Fails
  <2>2. CASE /\ link' = [link EXCEPT !.domain = TRUE] /\ at' = "default"
             /\ UNCHANGED <<hostVars, held, saved, lost, runtimeVars, goal, retrying>>
    BY <1>6, <2>2 DEF SetDomain, PlatformInv, PlatformTypes, LinkFollows, CallsFollow,
                      LinkWith, hostVars, runtimeVars
  <2>3. QED
    BY <1>6, <2>1, <2>2 DEF SetDomain
<1>7. CASE SetDefault
  <2>1. CASE Fails /\ Revert
    BY <1>7, <2>1, FailsKeeps, RevertRestores DEF SetDefault, PlatformInv, CallsFollow, Fails
  <2>2. CASE Succeeds /\ link' = [link EXCEPT !.default = TRUE] /\ UNCHANGED saved
    <3>1. ~ lost => link' = Configured(goal) /\ saved' = {}
      <4> PICK tunnel : tunnel = ServersOf[goal]
        OBVIOUS
      <4>1. Configured(goal) = [servers |-> tunnel, domain |-> TRUE, default |-> TRUE]
        BY <1>7 DEF SetDefault, PlatformInv, CallsFollow, Configured
      <4>2. ~ lost => saved = {} /\ link = [servers |-> tunnel, domain |-> TRUE, default |-> FALSE]
        BY <1>7 DEF SetDefault, PlatformInv, LinkFollows, LinkWith
      <4>3. QED
        BY <2>2, <4>1, <4>2, DefaultRouteLast
    <3>2. QED
      BY <1>7, <2>2, <3>1, SucceedsKeeps DEF SetDefault
  <2>3. QED
    BY <1>7, <2>1, <2>2 DEF SetDefault
<1>8. ~ lost /\ at = "apply" => link = original /\ link.servers = {} /\ saved = {}
  BY DEF PlatformInv, PlatformTypes, LinkFollows, LinkWith
<1>9. CASE AddResolvconf \/ SetKey \/ SetInterface
  <2>1. /\ at = "apply" /\ ServersOf[goal] # {} /\ backend \in {"resolvconf", "scutil", "windows"}
        /\ \/ Succeeds /\ link' = LinkWith(ServersOf[goal]) /\ saved' \in {saved, link.servers, {}}
           \/ Fails /\ Revert /\ backend # "windows"
           \/ Fails /\ UNCHANGED <<link, lost>>
    BY <1>9 DEF AddResolvconf, SetKey, SetInterface
  <2>2. CASE Succeeds /\ link' = LinkWith(ServersOf[goal]) /\ saved' \in {saved, link.servers, {}}
    <3>1. ~ lost => link' = Configured(goal) /\ saved' = {}
      BY <1>8, <2>1, <2>2 DEF LinkWith, Configured
    <3>2. QED
      BY <2>1, <2>2, <3>1, SucceedsKeeps
  <2>3. CASE Fails /\ Revert /\ backend # "windows"
    BY <2>1, <2>3, FailsKeeps, RevertRestores DEF Fails
  <2>4. CASE Fails /\ UNCHANGED <<link, lost>>
    <3>1. lost' \in BOOLEAN /\ (~ lost' => ~ lost /\ link' = original')
      BY <1>8, <2>1, <2>4 DEF Fails, hostVars, PlatformInv, PlatformTypes
    <3>2. QED
      BY <2>1, <2>4, <3>1, FailsKeeps
  <2>5. QED
    BY <2>1, <2>2, <2>3, <2>4
<1>10. CASE Deactivated \/ DropRuntime
  <2>1. /\ at \in {"up", "down"} /\ at' \in {"down", "gone"} /\ DropLease
        /\ running' = FALSE \/ running' = running
        /\ UNCHANGED <<hostVars, saved, usable, inForce, goal, retrying>>
    BY <1>10 DEF Deactivated, DropRuntime, runtimeVars
  <2>2. /\ held' = Free /\ lost' \in BOOLEAN
        /\ ~ lost' => ~ lost /\ link' = original' /\ saved' = {}
    BY <2>1, DropRestores
  <2>3. PlatformTypes'
    BY <2>1, <2>2 DEF PlatformInv, PlatformTypes, hostVars
  <2>4. CallsFollow'
    BY <2>1, <2>2 DEF PlatformInv, CallsFollow, hostVars
  <2>5. LinkFollows'
    BY <2>1, <2>2 DEF LinkFollows
  <2>6. QED
    BY <2>3, <2>4, <2>5 DEF PlatformInv
<1>11. CASE UNCHANGED platformVars
  BY <1>11 DEF platformVars, hostVars, leaseVars, runtimeVars, callVars, PlatformInv,
               PlatformTypes, LinkFollows, CallsFollow, Configured
<1>12. QED
  BY <1>1, <1>2, <1>3, <1>4, <1>5, <1>6, <1>7, <1>9, <1>10, <1>11
     DEF PlatformNext, PlatformDone

\* For every set of policies, servers and resolvers and any number of sessions
\* and changes: between the calls the link is set up exactly for the lease held
\* or as it was found, unless a revert failed, and the relay of an active
\* runtime asks no server of the tunnel, also after a change that failed and
\* was taken back.
THEOREM PlatformAlwaysSound == PlatformSpec => []PlatformSound
<1>1. PlatformInit => PlatformInv
  BY PlatformStarts
<1>2. PlatformInv /\ [PlatformNext]_platformVars => PlatformInv'
  BY PlatformKeeps
<1>3. PlatformInv => PlatformSound
  BY DEF PlatformInv, PlatformTypes, LinkFollows, CallsFollow, Applying, PlatformSound,
         LeaseExact, RelayAvoidsTunnel
<1>4. QED
  BY <1>1, <1>2, <1>3, PTL DEF PlatformSpec

-----------------------------------------------------------------------------
(* DnsRuntime: the session, the reader and the workers. *)

Relaying == {"start", "snapshot", "ask", "answered"}
WorkerPcs == {"none", "permit", "reply", "servfail", "discard", "interrupted", "done"}
             \cup Relaying
WorkerStates == [pc : WorkerPcs, gen : Nat, left : Nat]

Fates == {"none", "passed", "tried", "interrupted", "silent"}

\* The workers that hold a permit of the relay.
InRelay == {q \in Live : worker[q].pc \in Relaying}

RuntimeTypes ==
    /\ owner \in {"idle", "apply", "policy", "resolvers", "generation", "lease", "active",
                  "reset", "join", "release"}
    /\ reader \in {"none", "read", "check", "acquire", "recheck", "load", "spawn", "push"}
    /\ active \in BOOLEAN
    /\ session \in Nat /\ gen \in Nat /\ resolvers \in Nat
    /\ query \in 0..MaxQueries /\ handles \subseteq Queries
    /\ born \in [Queries -> [session : Nat, gen : Nat]]
    /\ worker \in [Queries -> WorkerStates]
    /\ fate \in [Queries -> Fates]

\* The policy a query was read under is being replaced or has been.
Changed(q) == born[q].gen < gen \/ owner = "generation"

\* The reader runs inside a session, has one query at a time that no worker
\* has yet, and finds the resolvers gone only when they changed under it.
ReaderFollows ==
    /\ reader # "none" => active
    /\ active => owner \notin {"idle", "reset", "join", "release"}
    /\ \A q \in Queries : q > query => worker[q].pc = "none" /\ fate[q] = "none"
    /\ reader \notin {"none", "read"} => query \in Queries /\ born[query].session = session
    /\ reader \in {"check", "acquire", "recheck", "load", "spawn"} =>
          worker[query].pc = "none"
    /\ reader \in {"acquire", "recheck"} /\ resolvers = 0 => Changed(query)
    /\ reader = "spawn" => born[query].gen <= worker[query].gen /\ worker[query].gen <= gen

\* A live worker belongs to the session that is up, the session can join it,
\* and it is held to a generation no older than its query.
WorkersFollow ==
    /\ Live # {} => active \/ owner \in {"reset", "join"}
    /\ \A q \in Live :
          /\ born[q].session = session
          /\ q \in handles \/ (reader = "push" /\ q = query)
          /\ worker[q].pc \in {"permit"} \cup Relaying =>
                born[q].gen <= worker[q].gen /\ worker[q].gen <= gen
          /\ worker[q].pc = "discard" => born[q].gen < gen
    /\ \A q \in Queries : born[q].gen <= gen

\* The two counters count what they stand for.
Counted == SlotsAccounted /\ permits = Cardinality(InRelay)

RuntimeInv == RuntimeTypes /\ ReaderFollows /\ WorkersFollow /\ Counted /\ SilenceMeansChange

\* Nobody runs at first.
LEMMA RuntimeStarts == Init => RuntimeInv
<1> SUFFICES ASSUME Init PROVE RuntimeInv
  OBVIOUS
<1>1. Live = {} /\ InRelay = {}
  BY DEF Init, Live, InRelay
<1>2. Cardinality(Live) = 0 /\ Cardinality(InRelay) = 0
  BY <1>1, FS_EmptySet
<1>3. Counted
  BY <1>2, DnsRuntimeAssumption DEF Init, Counted, SlotsAccounted
<1>4. RuntimeTypes
  <2>1. resolvers \in Nat /\ 0 \in 0..MaxQueries
    BY DnsRuntimeAssumption DEF Init
  <2>2. [pc |-> "none", gen |-> 0, left |-> 0] \in WorkerStates
    BY DEF WorkerStates, WorkerPcs
  <2>3. QED
    BY <2>1, <2>2 DEF Init, RuntimeTypes, Fates
<1>5. ReaderFollows /\ SilenceMeansChange
  BY DEF Init, ReaderFollows, SilenceMeansChange, Queries
<1>6. WorkersFollow
  BY <1>1 DEF Init, WorkersFollow
<1>7. QED
  BY <1>3, <1>4, <1>5, <1>6 DEF RuntimeInv

\* There are finitely many workers.
LEMMA PoolFinite ==
    /\ IsFiniteSet(Live) /\ Cardinality(Live) \in Nat
    /\ IsFiniteSet(InRelay) /\ Cardinality(InRelay) \in Nat
<1>1. IsFiniteSet(Queries)
  BY DnsRuntimeAssumption, FS_Interval DEF Queries
<1>2. Live \subseteq Queries /\ InRelay \subseteq Queries
  BY DEF Live, InRelay
<1>3. QED
  BY <1>1, <1>2, FS_Subset, FS_CardinalityType

\* What a change of one worker's state does to the two sets.
LEMMA PoolAfter ==
    ASSUME RuntimeTypes, NEW q \in Queries, NEW w \in WorkerStates,
           worker' = [worker EXCEPT ![q] = w]
    PROVE  /\ worker' \in [Queries -> WorkerStates]
           /\ Live' = IF w.pc \in {"none", "done"} THEN Live \ {q} ELSE Live \cup {q}
           /\ InRelay' = IF w.pc \in Relaying THEN InRelay \cup {q} ELSE InRelay \ {q}
<1>1. worker' \in [Queries -> WorkerStates] /\ worker'[q] = w
      /\ \A p \in Queries : p # q => worker'[p] = worker[p]
  BY DEF RuntimeTypes
<1>2. Live' = IF w.pc \in {"none", "done"} THEN Live \ {q} ELSE Live \cup {q}
  BY <1>1 DEF Live
<1>3. InRelay' = IF w.pc \in Relaying THEN InRelay \cup {q} ELSE InRelay \ {q}
  BY <1>1 DEF Live, InRelay, Relaying
<1>4. QED
  BY <1>1, <1>2, <1>3

\* How many there are then: a worker that starts, takes a permit, gives it
\* back or ends is counted once.
LEMMA CountsAfter ==
    ASSUME RuntimeTypes, NEW q \in Queries, NEW w \in WorkerStates,
           worker' = [worker EXCEPT ![q] = w]
    PROVE  /\ Cardinality(Live') = Cardinality(Live)
                  + (IF q \notin Live /\ w.pc \notin {"none", "done"} THEN 1 ELSE 0)
                  - (IF q \in Live /\ w.pc \in {"none", "done"} THEN 1 ELSE 0)
           /\ Cardinality(InRelay') = Cardinality(InRelay)
                  + (IF q \notin InRelay /\ w.pc \in Relaying THEN 1 ELSE 0)
                  - (IF q \in InRelay /\ w.pc \notin Relaying THEN 1 ELSE 0)
<1>1. ASSUME NEW S, IsFiniteSet(S), Cardinality(S) \in Nat
      PROVE  /\ Cardinality(S \cup {q}) = Cardinality(S) + (IF q \notin S THEN 1 ELSE 0)
             /\ Cardinality(S \ {q}) = Cardinality(S) - (IF q \in S THEN 1 ELSE 0)
  <2>1. CASE q \in S
    <3>1. Cardinality(S \cup {q}) = Cardinality(S)
      <4>1. S \cup {q} = S
        BY <2>1
      <4>2. QED
        BY <4>1, Zenon
    <3>2. Cardinality(S \ {q}) = Cardinality(S) - 1
      BY <1>1, <2>1, FS_RemoveElement
    <3>3. QED
      BY <1>1, <2>1, <3>1, <3>2
  <2>2. CASE q \notin S
    <3>1. Cardinality(S \ {q}) = Cardinality(S)
      <4>1. S \ {q} = S
        BY <2>2
      <4>2. QED
        BY <4>1, Zenon
    <3>2. Cardinality(S \cup {q}) = Cardinality(S) + 1
      BY <1>1, <2>2, FS_AddElement
    <3>3. QED
      BY <1>1, <2>2, <3>1, <3>2
  <2>3. QED
    BY <2>1, <2>2
<1>2. /\ Cardinality(Live \cup {q}) = Cardinality(Live) + (IF q \notin Live THEN 1 ELSE 0)
      /\ Cardinality(Live \ {q}) = Cardinality(Live) - (IF q \in Live THEN 1 ELSE 0)
      /\ Cardinality(Live) \in Nat
  BY <1>1, PoolFinite
<1>3. /\ Cardinality(InRelay \cup {q}) = Cardinality(InRelay) + (IF q \notin InRelay THEN 1 ELSE 0)
      /\ Cardinality(InRelay \ {q}) = Cardinality(InRelay) - (IF q \in InRelay THEN 1 ELSE 0)
      /\ Cardinality(InRelay) \in Nat
  BY <1>1, PoolFinite
<1>4. /\ Live' = IF w.pc \in {"none", "done"} THEN Live \ {q} ELSE Live \cup {q}
      /\ InRelay' = IF w.pc \in Relaying THEN InRelay \cup {q} ELSE InRelay \ {q}
  BY PoolAfter
<1>5. Cardinality(Live') = Cardinality(Live)
                  + (IF q \notin Live /\ w.pc \notin {"none", "done"} THEN 1 ELSE 0)
                  - (IF q \in Live /\ w.pc \in {"none", "done"} THEN 1 ELSE 0)
  BY <1>2, <1>4
<1>6. Cardinality(InRelay') = Cardinality(InRelay)
                  + (IF q \notin InRelay /\ w.pc \in Relaying THEN 1 ELSE 0)
                  - (IF q \in InRelay /\ w.pc \notin Relaying THEN 1 ELSE 0)
  <2>1. CASE w.pc \in Relaying
    BY <1>3, <1>4, <2>1
  <2>2. CASE w.pc \notin Relaying
    BY <1>3, <1>4, <2>2
  <2>3. QED
    BY <2>1, <2>2
<1>7. QED
  BY <1>5, <1>6

\* A step of a worker keeps the invariant, if it is counted and the generation
\* it is held to stays.
LEMMA WorkerKeeps ==
    ASSUME RuntimeInv, NEW q \in Live, NEW w \in WorkerStates,
           worker' = [worker EXCEPT ![q] = w], Frame, w.pc # "none",
           slots' = IF w.pc = "done" THEN slots - 1 ELSE slots,
           permits' = permits + (IF q \notin InRelay /\ w.pc \in Relaying THEN 1 ELSE 0)
                              - (IF q \in InRelay /\ w.pc \notin Relaying THEN 1 ELSE 0),
           w.pc \in {"permit"} \cup Relaying =>
               w.gen = worker[q].gen /\ worker[q].pc \in {"permit"} \cup Relaying,
           w.pc = "discard" => born[q].gen < gen,
           \/ UNCHANGED fate
           \/ \E f \in {"tried", "interrupted", "silent"} :
                 fate' = [fate EXCEPT ![q] = f] /\ (f = "silent" => born[q].gen < gen)
    PROVE  RuntimeInv'
<1> USE DEF Frame, ownerVars, policyVars, readerVars
<1>1. q \in Queries /\ worker[q].pc \notin {"none", "done"} /\ q <= query /\ query \in Nat
  BY DEF Live, RuntimeInv, RuntimeTypes, ReaderFollows, Queries
<1>2. /\ worker' \in [Queries -> WorkerStates]
      /\ worker'[q] = w /\ \A p \in Queries : p # q => worker'[p] = worker[p]
  BY <1>1 DEF RuntimeInv, RuntimeTypes
<1>3. Live' = (IF w.pc = "done" THEN Live \ {q} ELSE Live)
  <2>1. Live' = IF w.pc \in {"none", "done"} THEN Live \ {q} ELSE Live \cup {q}
    BY <1>1, PoolAfter DEF RuntimeInv
  <2>2. QED
    BY <2>1
<1>4. Cardinality(Live') = Cardinality(Live) - (IF w.pc = "done" THEN 1 ELSE 0)
  <2>1. Cardinality(Live') = Cardinality(Live)
                  + (IF q \notin Live /\ w.pc \notin {"none", "done"} THEN 1 ELSE 0)
                  - (IF q \in Live /\ w.pc \in {"none", "done"} THEN 1 ELSE 0)
    BY <1>1, CountsAfter DEF RuntimeInv
  <2>2. Cardinality(Live) \in Nat
    BY PoolFinite
  <2>3. QED
    BY <2>1, <2>2
<1>5. permits' = Cardinality(InRelay')
  BY <1>1, CountsAfter DEF RuntimeInv, Counted
<1>6. Counted'
  BY <1>4, <1>5, PoolFinite, DnsRuntimeAssumption
     DEF RuntimeInv, RuntimeTypes, Counted, SlotsAccounted
<1>7. fate' \in [Queries -> Fates]
      /\ (\A p \in Queries : p # q => fate'[p] = fate[p])
      /\ (fate'[q] = "silent" => born[q].gen < gen \/ owner = "generation")
  BY <1>1 DEF RuntimeInv, RuntimeTypes, SilenceMeansChange, Fates
<1>8. RuntimeTypes' /\ SilenceMeansChange'
  BY <1>2, <1>7 DEF RuntimeInv, RuntimeTypes, SilenceMeansChange
<1>9. ReaderFollows'
  <2>1. reader \in {"check", "acquire", "recheck", "load", "spawn"} => q # query
    BY <1>1 DEF RuntimeInv, ReaderFollows
  <2>2. \A p \in Queries : p > query => p # q
    BY <1>1 DEF Queries
  <2>3. reader \notin {"none", "read"} => query \in Queries
    BY DEF RuntimeInv, ReaderFollows
  <2>4. QED
    BY <1>2, <1>7, <2>1, <2>2, <2>3 DEF RuntimeInv, ReaderFollows, Changed
<1>10. WorkersFollow'
  <2>1. ASSUME NEW p \in Live'
        PROVE  /\ born'[p].session = session'
               /\ p \in handles' \/ (reader' = "push" /\ p = query')
               /\ worker'[p].pc \in {"permit"} \cup Relaying =>
                     born'[p].gen <= worker'[p].gen /\ worker'[p].gen <= gen'
               /\ worker'[p].pc = "discard" => born'[p].gen < gen'
    <3>1. p \in Live /\ p \in Queries
      BY <1>3, <2>1 DEF Live
    <3>2. CASE p = q
      BY <1>2, <3>1, <3>2 DEF RuntimeInv, WorkersFollow
    <3>3. CASE p # q
      BY <1>2, <3>1, <3>3 DEF RuntimeInv, WorkersFollow
    <3>4. QED
      BY <3>2, <3>3
  <2>2. Live' # {} => active' \/ owner' \in {"reset", "join"}
    BY <1>3 DEF RuntimeInv, WorkersFollow
  <2>3. \A p \in Queries : born'[p].gen <= gen'
    BY DEF RuntimeInv, WorkersFollow
  <2>4. QED
    BY <2>1, <2>2, <2>3 DEF WorkersFollow
<1>11. QED
  BY <1>6, <1>8, <1>9, <1>10 DEF RuntimeInv

\* Every step of every worker.
LEMMA WorkersKeep == ASSUME RuntimeInv, NEW q \in Queries, Worker(q) PROVE RuntimeInv'
<1> DEFINE pc == worker[q].pc
<1> USE DEF WorkerStates, WorkerPcs, Relaying
<1>1. worker \in [Queries -> WorkerStates] /\ worker[q] \in WorkerStates
      /\ resolvers \in Nat /\ gen \in Nat /\ permits \in Nat /\ slots \in Nat
      /\ born[q].gen \in Nat
  BY PoolFinite DEF RuntimeInv, RuntimeTypes, Counted, SlotsAccounted
<1>2. pc \in {"permit", "reply", "servfail", "discard", "interrupted"} \cup Relaying => q \in Live
  BY DEF Live
<1>3. q \in InRelay <=> q \in Live /\ pc \in Relaying
  BY DEF InRelay
<1>4. pc \in Relaying /\ worker[q].gen # gen => born[q].gen < gen
  BY <1>1, <1>2 DEF RuntimeInv, WorkersFollow
<1>5. ASSUME NEW to \in {"servfail", "discard", "interrupted", "reply"}, Leave(q, to), pc \in Relaying,
             to = "discard" => worker[q].gen # gen, UNCHANGED <<slots, fate>>, Frame
      PROVE  RuntimeInv'
  <2> PICK w \in WorkerStates : w = [pc |-> to, gen |-> 0, left |-> 0]
    OBVIOUS
  <2>1. worker' = [worker EXCEPT ![q] = w] /\ w.pc = to /\ permits' = permits - 1
    BY <1>5 DEF Leave
  <2>2. /\ w.pc # "none" /\ w.pc \notin {"permit"} \cup Relaying
        /\ slots' = IF w.pc = "done" THEN slots - 1 ELSE slots
    BY <1>5, <2>1
  <2>3. permits' = permits + (IF q \notin InRelay /\ w.pc \in Relaying THEN 1 ELSE 0)
                           - (IF q \in InRelay /\ w.pc \notin Relaying THEN 1 ELSE 0)
    BY <1>1, <1>2, <1>3, <1>5, <2>1, <2>2
  <2>4. q \in Live /\ (w.pc = "discard" => born[q].gen < gen)
    BY <1>2, <1>4, <1>5, <2>1
  <2> HIDE DEF WorkerStates, WorkerPcs, Relaying
  <2>5. QED
    BY <1>5, <2>1, <2>2, <2>3, <2>4, WorkerKeeps
<1>6. ASSUME NEW w \in WorkerStates, worker' = [worker EXCEPT ![q] = w],
             w.gen = worker[q].gen, UNCHANGED <<slots, fate>>, Frame,
             \/ pc = "permit" /\ w.pc = "start" /\ permits' = permits + 1
             \/ pc = "permit" /\ w.pc = "servfail" /\ UNCHANGED permits
             \/ pc \in Relaying /\ w.pc \in Relaying /\ UNCHANGED permits
      PROVE  RuntimeInv'
  <2>1. /\ q \in Live /\ w.pc \notin {"none", "done", "discard"}
        /\ worker[q].pc \in {"permit"} \cup Relaying
    BY <1>2, <1>6
  <2>2. slots' = IF w.pc = "done" THEN slots - 1 ELSE slots
    BY <1>6, <2>1
  <2>3. permits' = permits + (IF q \notin InRelay /\ w.pc \in Relaying THEN 1 ELSE 0)
                           - (IF q \in InRelay /\ w.pc \notin Relaying THEN 1 ELSE 0)
    BY <1>1, <1>3, <1>6, <2>1
  <2> HIDE DEF WorkerStates, WorkerPcs, Relaying
  <2>4. QED
    BY <1>6, <2>1, <2>2, <2>3, WorkerKeeps
<1>7. ASSUME NEW to \in WorkerPcs
      PROVE  [worker[q] EXCEPT !.pc = to] \in WorkerStates
             /\ [worker[q] EXCEPT !.pc = to].pc = to
             /\ [worker[q] EXCEPT !.pc = to].gen = worker[q].gen
  BY <1>1
<1>8. ASSUME NEW to \in WorkerPcs, Goto(q, to)
      PROVE  worker' = [worker EXCEPT ![q] = [worker[q] EXCEPT !.pc = to]]
  BY <1>1, <1>8 DEF Goto
<1>9. CASE TakePermit(q)
  <2>1. pc = "permit" /\ UNCHANGED <<slots, fate>> /\ Frame
    BY <1>9 DEF TakePermit
  <2>2. \/ Goto(q, "start") /\ permits' = permits + 1
        \/ Goto(q, "servfail") /\ UNCHANGED permits
    BY <1>9 DEF TakePermit
  <2>3. QED
    BY <2>1, <2>2, <1>6, <1>7, <1>8
<1>10. CASE Start(q)
  <2>1. pc = "start" /\ UNCHANGED <<slots, fate>> /\ Frame
    BY <1>10 DEF Start
  <2>2. \/ worker[q].gen # gen /\ Leave(q, "discard")
        \/ Goto(q, "snapshot") /\ UNCHANGED permits
    BY <1>10 DEF Start
  <2>3. QED
    BY <2>1, <2>2, <1>5, <1>6, <1>7, <1>8
<1>11. CASE Snapshot(q)
  <2>1. pc = "snapshot" /\ UNCHANGED <<slots, fate>> /\ Frame
    BY <1>11 DEF Snapshot
  <2>2. CASE Leave(q, "servfail")
    BY <2>1, <2>2, <1>5
  <2>3. CASE /\ worker' = [worker EXCEPT ![q].pc = "ask", ![q].left = resolvers]
             /\ UNCHANGED permits
    <3> PICK w : w = [worker[q] EXCEPT !.pc = "ask", !.left = resolvers]
      OBVIOUS
    <3>1. w \in WorkerStates /\ w.pc = "ask" /\ w.gen = worker[q].gen
          /\ worker' = [worker EXCEPT ![q] = w]
      BY <1>1, <2>3
    <3>2. QED
      BY <2>1, <2>3, <3>1, <1>6
  <2>4. QED
    BY <1>11, <2>2, <2>3 DEF Snapshot
<1>12. CASE Ask(q)
  <2>1. pc = "ask" /\ UNCHANGED <<slots, fate>> /\ Frame
    BY <1>12 DEF Ask
  <2>2. CASE \/ worker[q].gen # gen /\ Leave(q, "discard")
             \/ Leave(q, "servfail") \/ Leave(q, "interrupted")
    BY <2>1, <2>2, <1>5
  <2>3. CASE /\ worker' = [worker EXCEPT ![q].pc = "answered", ![q].left = 0]
             /\ UNCHANGED permits
    <3> PICK w : w = [worker[q] EXCEPT !.pc = "answered", !.left = 0]
      OBVIOUS
    <3>1. w \in WorkerStates /\ w.pc = "answered" /\ w.gen = worker[q].gen
          /\ worker' = [worker EXCEPT ![q] = w]
      BY <1>1, <2>3
    <3>2. QED
      BY <2>1, <2>3, <3>1, <1>6
  <2>4. CASE /\ worker' = [worker EXCEPT ![q].left = @ - 1] /\ worker[q].left > 1
             /\ UNCHANGED permits
    <3> PICK left \in Nat : left = worker[q].left - 1
      BY <1>1, <2>4
    <3> PICK w : w = [worker[q] EXCEPT !.left = left]
      OBVIOUS
    <3>1. w \in WorkerStates /\ w.pc = "ask" /\ w.gen = worker[q].gen
          /\ worker' = [worker EXCEPT ![q] = w]
      BY <1>1, <2>1, <2>4
    <3>2. QED
      BY <2>1, <2>4, <3>1, <1>6
  <2>5. QED
    BY <1>12, <2>2, <2>3, <2>4 DEF Ask
<1>13. CASE Answered(q)
  <2>1. pc = "answered" /\ UNCHANGED <<slots, fate>> /\ Frame
    BY <1>13 DEF Answered
  <2>2. \/ worker[q].gen # gen /\ Leave(q, "discard")
        \/ Leave(q, "reply") \/ Leave(q, "servfail")
    BY <1>13 DEF Answered
  <2>3. QED
    BY <2>1, <2>2, <1>5
<1>14. CASE Finish(q)
  <2>1. pc \in {"reply", "servfail", "discard", "interrupted"} /\ slots' = slots - 1 /\ UNCHANGED permits
        /\ Frame /\ Goto(q, "done")
    BY <1>14 DEF Finish
  <2>2. PICK f \in {"tried", "interrupted", "silent"} :
           fate' = [fate EXCEPT ![q] = f] /\ (f = "silent" => pc = "discard")
    BY <1>14 DEF Finish, Try, End
  <2>3. pc = "discard" => born[q].gen < gen
    BY <1>2 DEF RuntimeInv, WorkersFollow
  <2>4. PICK w \in WorkerStates : worker' = [worker EXCEPT ![q] = w] /\ w.pc = "done"
    BY <2>1, <1>7, <1>8
  <2>5. q \in Live /\ q \notin InRelay
    BY <1>2, <1>3, <2>1
  <2>6. \E g \in {"tried", "interrupted", "silent"} :
           fate' = [fate EXCEPT ![q] = g] /\ (g = "silent" => born[q].gen < gen)
    BY <2>2, <2>3
  <2>7. permits' = permits + (IF q \notin InRelay /\ w.pc \in Relaying THEN 1 ELSE 0)
                           - (IF q \in InRelay /\ w.pc \notin Relaying THEN 1 ELSE 0)
    BY <1>1, <2>1, <2>4, <2>5
  <2>8. w.pc \notin {"none", "discard", "permit"} \cup Relaying
        /\ slots' = IF w.pc = "done" THEN slots - 1 ELSE slots
    BY <2>1, <2>4
  <2> HIDE DEF WorkerStates, WorkerPcs, Relaying
  <2>9. QED
    BY <2>1, <2>4, <2>5, <2>6, <2>7, <2>8, WorkerKeeps
<1>15. QED
  BY <1>9, <1>10, <1>11, <1>12, <1>13, <1>14 DEF Worker

\* A step that leaves the workers alone leaves their sets alone.
LEMMA PoolSame == ASSUME UNCHANGED worker PROVE Live' = Live /\ InRelay' = InRelay
BY DEF Live, InRelay

\* The steps of the session: activation, deactivation and the changes of the
\* policy between them.
LEMMA OwnerKeeps ==
    ASSUME RuntimeInv,
           ActivateSession \/ UpdatePolicy \/ Activation \/ EndSession \/ Deactivation
    PROVE  RuntimeInv'
<1> USE DEF ownerVars, policyVars, readerVars, poolVars
<1>0. UNCHANGED <<query, born, slots, worker, permits, fate>>
  BY DEF ActivateSession, UpdatePolicy, Begin, Activation, ApplyLease, StorePolicy,
         StoreResolvers, NextGeneration, FinishActivation, EndSession, Deactivation,
         ResetGeneration, JoinWorkers, ReleaseLease
<1>1. Live' = Live /\ InRelay' = InRelay
  BY <1>0, PoolSame
<1>2. ASSUME reader' = reader \/ (reader \in {"none", "read"} /\ reader' \in {"none", "read"})
      PROVE  Counted'
  BY <1>0, <1>1, <1>2 DEF RuntimeInv, Counted, SlotsAccounted
<1>3. ASSUME UNCHANGED <<session, resolvers, gen, reader, handles>>,
             active' = active \/ (active' = TRUE /\ owner' \notin {"idle", "reset", "join", "release"}),
             owner' \in {"apply", "policy", "resolvers", "generation", "lease", "active", "idle",
                         "reset", "join", "release"},
             owner # "generation",
             active => owner' \notin {"idle", "reset", "join", "release"},
             Live # {} => active' \/ owner' \in {"reset", "join"}
      PROVE  RuntimeInv'
  <2>1. RuntimeTypes'
    BY <1>0, <1>3 DEF RuntimeInv, RuntimeTypes
  <2>2. SilenceMeansChange'
    BY <1>0, <1>3 DEF RuntimeInv, SilenceMeansChange
  <2>3. ReaderFollows'
    BY <1>0, <1>3 DEF RuntimeInv, ReaderFollows, Changed
  <2>4. WorkersFollow'
    BY <1>0, <1>1, <1>3 DEF RuntimeInv, WorkersFollow
  <2>5. QED
    BY <1>2, <1>3, <2>1, <2>2, <2>3, <2>4 DEF RuntimeInv
<1>4. RuntimeTypes /\ ReaderFollows /\ WorkersFollow /\ SilenceMeansChange
  BY DEF RuntimeInv
<1>5. CASE ActivateSession
  <2>1. /\ owner = "idle" /\ session' = session + 1 /\ owner' = "apply"
        /\ UNCHANGED <<active, resolvers, gen, reader, handles>>
    BY <1>5 DEF ActivateSession, Begin
  <2>2. Live = {} /\ reader = "none" /\ session \in Nat /\ session' \in Nat
    BY <1>4, <2>1 DEF RuntimeTypes, ReaderFollows, WorkersFollow
  <2>3. RuntimeTypes' /\ ReaderFollows' /\ SilenceMeansChange'
    BY <1>0, <1>4, <2>1, <2>2 DEF RuntimeTypes, ReaderFollows, SilenceMeansChange
  <2>4. WorkersFollow'
    BY <1>0, <1>1, <1>4, <2>1, <2>2 DEF WorkersFollow
  <2>5. QED
    BY <1>2, <2>1, <2>3, <2>4 DEF RuntimeInv
<1>6. CASE UpdatePolicy \/ ApplyLease \/ StorePolicy
  <2>1. /\ UNCHANGED <<session, resolvers, gen, reader, handles, active>>
        /\ owner \in {"active", "apply", "policy"}
        /\ owner' \in {"apply", "policy", "resolvers", "active", "idle"}
        /\ owner' = "idle" => ~ active
    BY <1>6 DEF UpdatePolicy, Begin, ApplyLease, StorePolicy
  <2>2. Live # {} => active' \/ owner' \in {"reset", "join"}
    BY <1>4, <2>1 DEF WorkersFollow
  <2>3. QED
    BY <1>3, <2>1, <2>2
<1>7. CASE StoreResolvers
  <2>1. /\ UNCHANGED <<session, gen, reader, handles, active>>
        /\ owner = "resolvers" /\ owner' = "generation" /\ resolvers' \in Nat
    BY <1>7, DnsRuntimeAssumption DEF StoreResolvers
  <2>2. RuntimeTypes' /\ ReaderFollows' /\ SilenceMeansChange'
    BY <1>0, <1>4, <2>1 DEF RuntimeTypes, ReaderFollows, SilenceMeansChange, Changed
  <2>3. WorkersFollow'
    BY <1>0, <1>1, <1>4, <2>1 DEF WorkersFollow
  <2>4. QED
    BY <1>2, <2>1, <2>2, <2>3 DEF RuntimeInv
<1>8. CASE NextGeneration \/ ResetGeneration
  <2> PICK g \in Nat : g = gen + 1
    BY <1>4 DEF RuntimeTypes
  <2>1. /\ UNCHANGED <<session, resolvers, reader, handles, active>> /\ gen' = g
        /\ \/ owner = "generation" /\ owner' = "lease"
           \/ owner = "reset" /\ owner' = "join"
    BY <1>8 DEF NextGeneration, ResetGeneration
  <2>2. \A q \in Queries : born[q].gen \in Nat /\ born[q].gen < g
    BY <1>4 DEF RuntimeTypes, WorkersFollow
  <2>3. \A q \in Queries : worker[q].gen \in Nat /\ (worker[q].gen <= gen => worker[q].gen <= g)
    BY <1>4 DEF RuntimeTypes, WorkerStates
  <2>4. Live \subseteq Queries
    BY DEF Live
  <2>5. RuntimeTypes' /\ SilenceMeansChange'
    BY <1>0, <1>4, <2>1, <2>2 DEF RuntimeTypes, SilenceMeansChange
  <2>6. ReaderFollows'
    BY <1>0, <1>4, <2>1, <2>2, <2>3 DEF ReaderFollows, Changed
  <2>7. WorkersFollow'
    BY <1>0, <1>1, <1>4, <2>1, <2>2, <2>3, <2>4 DEF WorkersFollow
  <2>8. QED
    BY <1>2, <2>1, <2>5, <2>6, <2>7 DEF RuntimeInv
<1>9. CASE FinishActivation
  <2>1. /\ UNCHANGED <<session, resolvers, gen, handles>>
        /\ owner = "lease" /\ owner' = "active" /\ active' = TRUE
        /\ reader' = reader \/ (reader = "none" /\ reader' = "read")
    BY <1>9 DEF FinishActivation
  <2>2. RuntimeTypes' /\ ReaderFollows' /\ SilenceMeansChange'
    BY <1>0, <1>4, <2>1 DEF RuntimeTypes, ReaderFollows, SilenceMeansChange, Changed
  <2>3. WorkersFollow'
    BY <1>0, <1>1, <1>4, <2>1 DEF WorkersFollow
  <2>4. QED
    BY <1>2, <2>1, <2>2, <2>3 DEF RuntimeInv
<1>10. CASE EndSession
  <2>1. /\ UNCHANGED <<session, resolvers, gen, handles>> /\ reader = "read" /\ reader' = "none"
        /\ owner = "active" /\ owner' = "reset" /\ active' = FALSE
    BY <1>10 DEF EndSession
  <2>2. RuntimeTypes' /\ ReaderFollows' /\ SilenceMeansChange'
    BY <1>0, <1>4, <2>1 DEF RuntimeTypes, ReaderFollows, SilenceMeansChange
  <2>3. WorkersFollow'
    BY <1>0, <1>1, <1>4, <2>1 DEF WorkersFollow
  <2>4. QED
    BY <1>2, <2>1, <2>2, <2>3 DEF RuntimeInv
<1>11. CASE JoinWorkers
  <2>1. /\ UNCHANGED <<session, resolvers, gen, reader, active>> /\ handles' = {}
        /\ owner = "join" /\ owner' = "release"
        /\ \A q \in handles : worker[q].pc = "done"
    BY <1>11 DEF JoinWorkers
  <2>2. reader = "none" /\ ~ active
    BY <1>4, <2>1 DEF RuntimeTypes, ReaderFollows
  <2>3. Live = {}
    BY <1>4, <2>1, <2>2 DEF WorkersFollow, Live
  <2>4. RuntimeTypes' /\ ReaderFollows' /\ SilenceMeansChange'
    BY <1>0, <1>4, <2>1, <2>2 DEF RuntimeTypes, ReaderFollows, SilenceMeansChange
  <2>5. WorkersFollow'
    BY <1>0, <1>1, <1>4, <2>1, <2>3 DEF WorkersFollow
  <2>6. QED
    BY <1>2, <2>1, <2>4, <2>5 DEF RuntimeInv
<1>12. CASE ReleaseLease
  <2>1. /\ UNCHANGED <<session, resolvers, gen, reader, handles, active>>
        /\ owner = "release" /\ owner' = "idle"
    BY <1>12 DEF ReleaseLease
  <2>2. ~ active /\ Live = {}
    BY <1>4, <2>1 DEF ReaderFollows, WorkersFollow
  <2>3. QED
    BY <1>3, <2>1, <2>2
<1>13. QED
  BY <1>5, <1>6, <1>7, <1>8, <1>9, <1>10, <1>11, <1>12 DEF Activation, Deactivation

\* The steps of the packet sender inside read_packet.
LEMMA ReaderKeeps == ASSUME RuntimeInv, ReadQuery \/ Reader PROVE RuntimeInv'
<1> USE DEF ownerVars, policyVars
<1>0. UNCHANGED <<owner, session, active, resolvers, gen, permits>>
  BY DEF ReadQuery, Reader, CheckResolvers, AcquireWorker, RecheckResolvers, LoadGeneration,
         SpawnFails, Spawn, PushHandle
<1>1. RuntimeTypes /\ ReaderFollows /\ WorkersFollow /\ SilenceMeansChange /\ Counted
  BY DEF RuntimeInv
<1>2. slots \in Nat /\ Cardinality(Live) \in Nat /\ MaxWorkers \in Nat
  BY <1>1, PoolFinite, DnsRuntimeAssumption DEF Counted, SlotsAccounted
<1>3. Live \subseteq Queries
  BY DEF Live
<1>4. CASE ReadQuery
  <2> PICK n : n = query + 1
    OBVIOUS
  <2> PICK b : b = [session |-> session, gen |-> gen]
    OBVIOUS
  <2>1. /\ reader = "read" /\ query < MaxQueries /\ query' = n
        /\ born' = [born EXCEPT ![n] = b]
        /\ UNCHANGED <<slots, handles, worker>>
        /\ \/ reader' = "check" /\ UNCHANGED fate
           \/ reader' = "read" /\ fate' = [fate EXCEPT ![n] = "passed"]
    BY <1>4 DEF ReadQuery, End
  <2>2. n \in Queries /\ n > query /\ query \in Nat /\ n \in 0..MaxQueries
    BY <1>1, <2>1, DnsRuntimeAssumption DEF RuntimeTypes, Queries
  <2>3. worker[n].pc = "none" /\ fate[n] = "none" /\ n \notin Live
    BY <1>1, <2>2 DEF ReaderFollows, Live
  <2>4. b \in [session : Nat, gen : Nat] /\ b.session = session /\ b.gen = gen
    BY <1>1 DEF RuntimeTypes
  <2>5. /\ born' \in [Queries -> [session : Nat, gen : Nat]]
        /\ born'[n] = b /\ \A q \in Queries : q # n => born'[q] = born[q]
    BY <1>1, <2>1, <2>2, <2>4 DEF RuntimeTypes
  <2>6. /\ fate' \in [Queries -> Fates]
        /\ \A q \in Queries : q # n => fate'[q] = fate[q]
        /\ fate'[n] # "silent"
    BY <1>1, <2>1, <2>2, <2>3 DEF RuntimeTypes, Fates
  <2>7. RuntimeTypes'
    BY <1>0, <1>1, <2>1, <2>2, <2>5, <2>6 DEF RuntimeTypes
  <2>8. SilenceMeansChange'
    BY <1>0, <1>1, <2>5, <2>6 DEF SilenceMeansChange
  <2>9. \A q \in Queries : q > n => q # n /\ q > query
    BY <2>2 DEF Queries
  <2>10. ReaderFollows'
    BY <1>0, <1>1, <2>1, <2>2, <2>3, <2>4, <2>5, <2>6, <2>9 DEF ReaderFollows
  <2>11. Live' = Live /\ InRelay' = InRelay
    BY <2>1, PoolSame
  <2>12. gen \in Nat
    BY <1>1 DEF RuntimeTypes
  <2>13. WorkersFollow'
    BY <1>0, <1>1, <1>3, <2>1, <2>3, <2>4, <2>5, <2>11, <2>12 DEF WorkersFollow
  <2>14. Counted'
    BY <1>0, <1>1, <2>1, <2>11 DEF Counted, SlotsAccounted
  <2>15. QED
    BY <2>7, <2>8, <2>10, <2>13, <2>14 DEF RuntimeInv
<1>5. ASSUME UNCHANGED <<query, born, worker>>, handles' \subseteq Queries, SlotsAccounted',
             reader' \in {"read", "acquire", "recheck", "load"},
             reader \notin {"none", "read", "push", "spawn"} \/ reader' = "read",
             reader # "none",
             reader' \in {"acquire", "recheck"} /\ resolvers = 0 => Changed(query),
             \A q \in Live : q \in handles',
             \/ UNCHANGED fate
             \/ \E f \in {"passed", "tried", "silent"} :
                   /\ fate' = [fate EXCEPT ![query] = f] /\ query \in Queries
                   /\ f = "silent" => Changed(query)
      PROVE  RuntimeInv'
  <2>1. Live' = Live /\ InRelay' = InRelay
    BY <1>5, PoolSame
  <2>2. /\ fate' \in [Queries -> Fates]
        /\ \A q \in Queries : q # query => fate'[q] = fate[q]
        /\ query \in Queries /\ fate'[query] = "silent" => Changed(query)
    BY <1>1, <1>5 DEF RuntimeTypes, SilenceMeansChange, Changed, Fates
  <2>3. RuntimeTypes'
    BY <1>0, <1>1, <1>5, <2>2 DEF RuntimeTypes
  <2>4. SilenceMeansChange'
    BY <1>0, <1>1, <1>5, <2>2 DEF SilenceMeansChange, Changed
  <2>5. \A q \in Queries : q > query => q # query
    BY <1>1 DEF Queries, RuntimeTypes
  <2>6. ReaderFollows'
    BY <1>0, <1>1, <1>5, <2>2, <2>5 DEF RuntimeTypes, ReaderFollows, Changed
  <2>7. WorkersFollow'
    BY <1>0, <1>1, <1>5, <2>1 DEF WorkersFollow
  <2>8. Counted'
    BY <1>0, <1>1, <1>5, <2>1 DEF Counted
  <2>9. QED
    BY <2>3, <2>4, <2>6, <2>7, <2>8 DEF RuntimeInv
<1>6. reader \notin {"none", "read"} => query \in Queries
  BY <1>1 DEF ReaderFollows
<1>7. reader # "push" => \A q \in Live : q \in handles
  BY <1>1 DEF WorkersFollow
<1>8. handles \subseteq Queries
  BY <1>1 DEF RuntimeTypes
<1>9. CASE CheckResolvers
  <2>1. /\ reader = "check" /\ UNCHANGED <<query, born, slots, handles, worker>>
        /\ \/ reader' = "read" /\ fate' = [fate EXCEPT ![query] = "passed"]
           \/ reader' = "acquire" /\ resolvers # 0 /\ UNCHANGED fate
    BY <1>9 DEF CheckResolvers, End
  <2>2. SlotsAccounted'
    BY <1>1, <2>1, PoolSame DEF Counted, SlotsAccounted
  <2>3. QED
    BY <1>5, <1>6, <1>7, <1>8, <2>1, <2>2
<1>10. CASE AcquireWorker
  <2>1. /\ reader = "acquire" /\ UNCHANGED <<query, born, worker>>
        /\ handles' = {q \in handles : worker[q].pc # "done"}
        /\ \/ reader' = "recheck" /\ slots < MaxWorkers /\ slots' = slots + 1 /\ UNCHANGED fate
           \/ reader' = "read" /\ fate' = [fate EXCEPT ![query] = "tried"] /\ UNCHANGED slots
    BY <1>10 DEF AcquireWorker, Try, End
  <2>2. Live' = Live
    BY <2>1, PoolSame
  <2>3. SlotsAccounted'
    BY <1>1, <1>2, <2>1, <2>2 DEF Counted, SlotsAccounted
  <2>4. (\A q \in Live : q \in handles') /\ handles' \subseteq Queries
    BY <1>7, <1>8, <2>1 DEF Live
  <2>5. resolvers = 0 => Changed(query)
    BY <1>1, <2>1 DEF ReaderFollows
  <2>6. QED
    BY <1>5, <1>6, <2>1, <2>3, <2>4, <2>5
<1>11. CASE RecheckResolvers
  <2>1. /\ reader = "recheck" /\ UNCHANGED <<query, born, worker, handles>>
        /\ \/ /\ reader' = "read" /\ slots' = slots - 1 /\ resolvers = 0
              /\ fate' = [fate EXCEPT ![query] = "silent"]
           \/ reader' = "load" /\ UNCHANGED <<slots, fate>>
    BY <1>11 DEF RecheckResolvers, End
  <2>2. Live' = Live
    BY <2>1, PoolSame
  <2>3. SlotsAccounted'
    BY <1>1, <1>2, <2>1, <2>2 DEF Counted, SlotsAccounted
  <2>4. resolvers = 0 => Changed(query)
    BY <1>1, <2>1 DEF ReaderFollows
  <2>5. QED
    BY <1>5, <1>6, <1>7, <1>8, <2>1, <2>3, <2>4
<1>12. CASE SpawnFails
  <2>1. /\ reader = "spawn" /\ UNCHANGED <<query, born, worker, handles>>
        /\ reader' = "read" /\ slots' = slots - 1
        /\ fate' = [fate EXCEPT ![query] = "tried"]
    BY <1>12 DEF SpawnFails, Try, End
  <2>2. Live' = Live
    BY <2>1, PoolSame
  <2>3. SlotsAccounted'
    BY <1>1, <1>2, <2>1, <2>2 DEF Counted, SlotsAccounted
  <2>4. QED
    BY <1>5, <1>6, <1>7, <1>8, <2>1, <2>3
<1>13. CASE PushHandle
  <2>1. /\ reader = "push" /\ UNCHANGED <<query, born, worker, slots, fate>>
        /\ reader' = "read" /\ handles' = handles \cup {query}
    BY <1>13 DEF PushHandle
  <2>2. Live' = Live
    BY <2>1, PoolSame
  <2>3. SlotsAccounted'
    BY <1>1, <1>2, <2>1, <2>2 DEF Counted, SlotsAccounted
  <2>4. (\A q \in Live : q \in handles') /\ handles' \subseteq Queries
    BY <1>1, <1>6, <1>8, <2>1 DEF WorkersFollow
  <2>5. QED
    BY <1>5, <2>1, <2>3, <2>4
<1>14. ASSUME NEW w \in WorkerStates, reader \in {"load", "spawn"}, reader' \in {"spawn", "push"},
              worker' = [worker EXCEPT ![query] = w],
              UNCHANGED <<query, born, slots, handles, fate>>,
              reader = "load" => w.pc = "none" /\ w.gen = gen /\ reader' = "spawn",
              reader = "spawn" => w.pc = "permit" /\ w.gen = worker[query].gen /\ reader' = "push"
       PROVE  RuntimeInv'
  <2>1. query \in Queries /\ worker[query].pc = "none" /\ query \notin Live /\ query \notin InRelay
        /\ query \in Nat
    BY <1>1, <1>6, <1>14 DEF ReaderFollows, Live, InRelay, RuntimeTypes
  <2>2. w.pc \notin Relaying
    BY <1>14 DEF Relaying
  <2>3. /\ worker' \in [Queries -> WorkerStates] /\ worker'[query] = w
        /\ \A q \in Queries : q # query => worker'[q] = worker[q]
    BY <1>1, <1>14, <2>1 DEF RuntimeTypes
  <2>4. Live' = IF w.pc = "none" THEN Live ELSE Live \cup {query}
    <3>1. Live' = IF w.pc \in {"none", "done"} THEN Live \ {query} ELSE Live \cup {query}
      BY <1>1, <1>14, <2>1, PoolAfter
    <3>2. QED
      BY <1>14, <2>1, <3>1
  <2>5. /\ Cardinality(Live') = Cardinality(Live) + (IF w.pc = "none" THEN 0 ELSE 1)
        /\ Cardinality(InRelay') = Cardinality(InRelay)
    <3>1. /\ Cardinality(Live') = Cardinality(Live)
                  + (IF query \notin Live /\ w.pc \notin {"none", "done"} THEN 1 ELSE 0)
                  - (IF query \in Live /\ w.pc \in {"none", "done"} THEN 1 ELSE 0)
          /\ Cardinality(InRelay') = Cardinality(InRelay)
                  + (IF query \notin InRelay /\ w.pc \in Relaying THEN 1 ELSE 0)
                  - (IF query \in InRelay /\ w.pc \notin Relaying THEN 1 ELSE 0)
      BY <1>1, <1>14, <2>1, CountsAfter
    <3>2. Cardinality(Live) \in Nat /\ Cardinality(InRelay) \in Nat
      BY PoolFinite
    <3>3. QED
      BY <1>14, <2>1, <2>2, <3>1, <3>2
  <2>6. Counted'
    BY <1>0, <1>1, <1>2, <1>14, <2>5 DEF Counted, SlotsAccounted
  <2>7. RuntimeTypes' /\ SilenceMeansChange'
    BY <1>0, <1>1, <1>14, <2>3 DEF RuntimeTypes, SilenceMeansChange
  <2>8. \A q \in Queries : q > query => q # query
    BY <2>1 DEF Queries
  <2>9. /\ gen \in Nat /\ born[query].gen <= gen /\ born[query].session = session
        /\ reader = "spawn" => born[query].gen <= worker[query].gen /\ worker[query].gen <= gen
    BY <1>1, <1>14, <2>1 DEF RuntimeTypes, WorkersFollow, ReaderFollows
  <2>10. ReaderFollows'
    BY <1>0, <1>1, <1>14, <2>1, <2>3, <2>8, <2>9 DEF ReaderFollows
  <2>11. WorkersFollow'
    <3>1. ASSUME NEW p \in Live'
          PROVE  /\ born'[p].session = session'
                 /\ p \in handles' \/ (reader' = "push" /\ p = query')
                 /\ worker'[p].pc \in {"permit"} \cup Relaying =>
                       born'[p].gen <= worker'[p].gen /\ worker'[p].gen <= gen'
                 /\ worker'[p].pc = "discard" => born'[p].gen < gen'
      <4>1. CASE p = query
        <5>1. reader = "spawn"
          BY <1>14, <2>1, <2>4, <3>1, <4>1
        <5>2. QED
          BY <1>0, <1>14, <2>3, <2>9, <4>1, <5>1
      <4>2. CASE p # query
        <5>1. p \in Live /\ p \in Queries /\ worker'[p] = worker[p] /\ p \in handles
          BY <1>3, <1>7, <1>14, <2>3, <2>4, <3>1, <4>2
        <5>2. QED
          BY <1>0, <1>1, <1>14, <5>1 DEF WorkersFollow
      <4>3. QED
        BY <4>1, <4>2
    <3>2. active'
      BY <1>0, <1>1, <1>14 DEF ReaderFollows
    <3>3. \A p \in Queries : born'[p].gen <= gen'
      BY <1>0, <1>1, <1>14 DEF WorkersFollow
    <3>4. QED
      BY <3>1, <3>2, <3>3 DEF WorkersFollow
  <2>12. QED
    BY <2>6, <2>7, <2>10, <2>11 DEF RuntimeInv
<1>15. CASE LoadGeneration
  <2> PICK w : w = [worker[query] EXCEPT !.gen = gen]
    OBVIOUS
  <2>1. /\ reader = "load" /\ reader' = "spawn" /\ worker' = [worker EXCEPT ![query] = w]
        /\ UNCHANGED <<query, born, slots, handles, fate>>
    BY <1>1, <1>15 DEF LoadGeneration, RuntimeTypes
  <2>2. worker[query] \in WorkerStates /\ worker[query].pc = "none" /\ gen \in Nat
    BY <1>1, <1>6, <2>1 DEF RuntimeTypes, ReaderFollows
  <2>3. w \in WorkerStates /\ w.pc = "none" /\ w.gen = gen
    BY <2>2 DEF WorkerStates
  <2>4. QED
    BY <1>14, <2>1, <2>3
<1>16. CASE Spawn
  <2> PICK w : w = [worker[query] EXCEPT !.pc = "permit"]
    OBVIOUS
  <2>1. /\ reader = "spawn" /\ reader' = "push" /\ worker' = [worker EXCEPT ![query] = w]
        /\ UNCHANGED <<query, born, slots, handles, fate>>
    BY <1>1, <1>16 DEF Spawn, RuntimeTypes
  <2>2. worker[query] \in WorkerStates
    BY <1>1, <1>6, <2>1 DEF RuntimeTypes
  <2>3. w \in WorkerStates /\ w.pc = "permit" /\ w.gen = worker[query].gen
    BY <2>2 DEF WorkerStates, WorkerPcs
  <2>4. QED
    BY <1>14, <2>1, <2>3
<1>17. QED
  BY <1>4, <1>9, <1>10, <1>11, <1>12, <1>13, <1>15, <1>16 DEF Reader

\* Every step of every thread keeps it.
LEMMA RuntimeKeeps == ASSUME RuntimeInv, [Next]_vars PROVE RuntimeInv'
<1>1. CASE UNCHANGED vars
  <2>1. Live' = Live /\ InRelay' = InRelay
    BY <1>1, PoolSame DEF vars, poolVars
  <2>2. QED
    BY <1>1, <2>1 DEF vars, ownerVars, policyVars, readerVars, poolVars, RuntimeInv,
                      RuntimeTypes, ReaderFollows, WorkersFollow, Counted, SlotsAccounted,
                      SilenceMeansChange, Changed
<1>2. CASE ActivateSession \/ UpdatePolicy \/ Activation \/ EndSession \/ Deactivation
  BY <1>2, OwnerKeeps
<1>3. CASE ReadQuery \/ Reader
  BY <1>3, ReaderKeeps
<1>4. CASE \E q \in Queries : Worker(q)
  BY <1>4, WorkersKeep
<1>5. QED
  BY <1>1, <1>2, <1>3, <1>4 DEF Next, Done

\* The invariant of the runtime is inductive.
LEMMA RuntimeInductive == Spec => []RuntimeInv
<1>1. Init => RuntimeInv
  BY RuntimeStarts
<1>2. RuntimeInv /\ [Next]_vars => RuntimeInv'
  BY RuntimeKeeps
<1>3. QED
  BY <1>1, <1>2, PTL DEF Spec

\* A worker that waits for a permit is one more than those that hold one, and
\* all of them have slots: the relay has a permit for it.
LEMMA PermitLeft ==
    ASSUME RuntimeInv, NEW q \in Live, worker[q].pc = "permit"
    PROVE  permits < MaxWorkers
<1>1. InRelay \subseteq Live \ {q}
  BY DEF InRelay, Relaying
<1>2. IsFiniteSet(Live \ {q}) /\ Cardinality(Live \ {q}) = Cardinality(Live) - 1
  BY PoolFinite, FS_RemoveElement
<1>3. Cardinality(InRelay) <= Cardinality(Live \ {q})
  BY <1>1, <1>2, FS_Subset
<1>4. QED
  BY <1>2, <1>3, PoolFinite, DnsRuntimeAssumption DEF RuntimeInv, Counted, SlotsAccounted

\* For every number of workers, queries, resolvers, sessions and updates: no
\* worker is alive between two sessions or serves another session's query, the
\* slots are counted exactly and never more than the limit, and a worker never
\* finds the relay full, whichever thread is where when the policy changes,
\* the session ends or a spawn fails.
THEOREM PoolAlwaysSound == Spec => []PoolSound
<1>1. RuntimeInv => PoolSound
  <2> SUFFICES ASSUME RuntimeInv PROVE PoolSound
    OBVIOUS
  <2>1. WorkersInsideSession
    BY DEF RuntimeInv, WorkersFollow, ReaderFollows, WorkersInsideSession
  <2>2. InRelay = {q \in Live : worker[q].pc \in {"start", "snapshot", "ask", "answered"}}
    BY DEF InRelay, Relaying
  <2>3. PermitsSuffice
    BY <2>2, PermitLeft DEF RuntimeInv, Counted, PermitsSuffice
  <2>4. QED
    BY <2>1, <2>3 DEF RuntimeInv, Counted, PoolSound, PoolAccounted
<1>2. QED
  BY <1>1, RuntimeInductive, PTL

\* No answer is tried for a query only when the policy changed or the session
\* ended after it was read, or a signal interrupted its last exchange: a worker
\* is held to a generation at least as new as its query's, and resolvers vanish
\* only together with one.
THEOREM SilenceAlwaysMeansChange == Spec => []SilenceMeansChange
<1>1. RuntimeInv => SilenceMeansChange
  BY DEF RuntimeInv
<1>2. QED
  BY <1>1, RuntimeInductive, PTL

=============================================================================
