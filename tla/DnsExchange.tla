----------------------------- MODULE DnsExchange -----------------------------
(***************************************************************************)
(* What a relay worker does with the physical resolvers: the loop of       *)
(* DnsRelay::relay with exchange, exchange_udp, exchange_tcp and           *)
(* validate_response (src/src/dns/relay.rs).  Module DnsRuntime has the    *)
(* workers, and the tests of the generation around each exchange.          *)
(*                                                                         *)
(* A message is its ID, its question, and whether it is a response and     *)
(* truncated; Garbage does not parse, be it malformed or longer than the   *)
(* buffer.  Resolvers and network are external: any answer to any request  *)
(* that was ever sent from a port may arrive there as long as a socket     *)
(* with that port is connected to that resolver, late or again.            *)
(***************************************************************************)
EXTENDS Integers

CONSTANTS
    Asked,       \* queries: [id, question], one worker each
    Ports,       \* UDP ports, which are used again
    RelayIds,    \* number of relay IDs, 2^16 in the code
    Upstream     \* number of physical resolvers

ASSUME DnsExchangeAssumption == RelayIds \in Nat \ {0} /\ Upstream \in Nat \ {0}

VARIABLES
    relayId,   \* DnsRelay::next_id
    sent,      \* every request sent by UDP: [port, to, id, question]
    leg,       \* query -> "next", "udp", "tcp", "answered", "failed" or "too_long"
    turn,      \* query -> the resolver it is at
    request,   \* query -> the relayed message
    socket,    \* query -> its UDP port
    answer     \* query -> the response handed back

exchangeVars == <<relayId, sent, leg, turn, request, socket, answer>>

Garbage == [kind |-> "garbage"]
NoMessage == [kind |-> "none"]
NoPort == 0
Message(kind, id, question, truncated) ==
    [kind |-> kind, id |-> id, question |-> question, truncated |-> truncated]
Messages == {Message(k, i, q.question, t) : k \in {"query", "response"},
                i \in 0..(RelayIds - 1), q \in Asked, t \in BOOLEAN}

\* A resolver's answer to a request: right or truncated, one to something else,
\* or the query itself.
AnswersTo(r) ==
    {Message("response", r.id, r.question, t) : t \in BOOLEAN}
        \cup {Message("query", r.id, r.question, FALSE), Garbage}
        \cup {m \in Messages : m.kind = "response" /\ (m.id = r.id) # (m.question = r.question)}

ExchangeInit ==
    /\ relayId \in 0..(RelayIds - 1) /\ sent = {}
    /\ leg = [q \in Asked |-> "next"] /\ turn = [q \in Asked |-> 1]
    /\ request = [q \in Asked |-> NoMessage] /\ answer = [q \in Asked |-> NoMessage]
    /\ socket = [q \in Asked |-> NoPort]

-----------------------------------------------------------------------------

\* The next resolver, or the last error.
OnError(q) ==
    /\ turn' = [turn EXCEPT ![q] = @ + 1]
    /\ leg' = [leg EXCEPT ![q] = IF turn[q] = Upstream THEN "failed" ELSE "next"]

\* Mutant: a response is known by its ID.
ValidById(asked, response) == response.kind = "response" /\ response.id = asked.id

\* validate_response.
Valid(asked, response) ==
    response.kind = "response" /\ response.id = asked.id /\ response.question = asked.question

\* An exchange returned a message: the response goes back under the client's
\* ID, one that does not match is an error of this resolver.
Returns(q, response) ==
    IF Valid(request[q], response)
      THEN /\ answer' = [answer EXCEPT ![q] = [response EXCEPT !.id = q.id]]
           /\ leg' = [leg EXCEPT ![q] = "answered"]
           /\ UNCHANGED turn
      ELSE OnError(q) /\ UNCHANGED answer

\* A new relay ID, a UDP socket with a free port, and the request.
AskUdp(q) ==
    /\ leg[q] = "next"
    /\ \E port \in Ports \ {socket[p] : p \in Asked} :
          /\ socket' = [socket EXCEPT ![q] = port]
          /\ sent' = sent \cup {[port |-> port, to |-> turn[q], id |-> relayId,
                                 question |-> q.question]}
    /\ request' = [request EXCEPT ![q] = Message("query", relayId, q.question, FALSE)]
    /\ relayId' = (relayId + 1) % RelayIds
    /\ leg' = [leg EXCEPT ![q] = "udp"]
    /\ UNCHANGED <<turn, answer>>

Closes(q) == socket' = [socket EXCEPT ![q] = NoPort] /\ UNCHANGED <<relayId, sent, request>>

\* recv returns a datagram: a truncated message is asked for again by TCP.
UdpReceives(q) ==
    /\ leg[q] = "udp" /\ Closes(q)
    /\ \E r \in {s \in sent : s.port = socket[q] /\ s.to = turn[q]} : \E m \in AnswersTo(r) :
          \/ m = Garbage /\ OnError(q) /\ UNCHANGED answer
          \/ /\ m # Garbage /\ m.truncated
             /\ leg' = [leg EXCEPT ![q] = "tcp"] /\ UNCHANGED <<turn, answer>>
          \/ m # Garbage /\ ~ m.truncated /\ Returns(q, m)

\* Nothing within the timeout.
UdpTimesOut(q) ==
    /\ leg[q] = "udp" /\ Closes(q)
    /\ leg' = [leg EXCEPT ![q] = "tcp"]
    /\ UNCHANGED <<turn, answer>>

\* The socket cannot be made, bound or used, or the resolver refuses.
UdpFails(q) ==
    /\ leg[q] = "udp" /\ Closes(q)
    /\ OnError(q) /\ UNCHANGED answer

\* exchange_tcp: a stream carries the answer to its own request only; it is not
\* looked at whether that is truncated.
TcpReceives(q) ==
    /\ leg[q] = "tcp"
    /\ \E m \in AnswersTo(request[q]) \ {Garbage} : Returns(q, m)
    /\ UNCHANGED <<relayId, sent, request, socket>>

\* A right answer that no UDP packet can carry back ends the query at once.
TcpTooLong(q) ==
    /\ leg[q] = "tcp" /\ leg' = [leg EXCEPT ![q] = "too_long"]
    /\ UNCHANGED <<relayId, sent, turn, request, socket, answer>>

\* No connection, an empty or malformed answer, a timeout.
TcpFails(q) ==
    /\ leg[q] = "tcp"
    /\ OnError(q)
    /\ UNCHANGED <<relayId, sent, request, socket, answer>>

ExchangeStep(q) == AskUdp(q) \/ UdpReceives(q) \/ UdpTimesOut(q) \/ UdpFails(q)
                   \/ TcpReceives(q) \/ TcpTooLong(q) \/ TcpFails(q)

ExchangeDone == (\A q \in Asked : leg[q] \in {"answered", "failed", "too_long"}) /\ UNCHANGED exchangeVars

ExchangeNext == ExchangeDone \/ \E q \in Asked : ExchangeStep(q)

ExchangeSpec == ExchangeInit /\ [][ExchangeNext]_exchangeVars

-----------------------------------------------------------------------------
(* Properties. *)

\* A client is answered only with a response to its own question under its own
\* ID, although relay IDs wrap, ports are used again and answers come late and
\* twice ("DNS replies are checked for transaction and question consistency",
\* SECURITY.md), and a query fails only after every resolver was tried or one
\* gave an answer that is too long.
AnswersOwnQuestion ==
    \A q \in Asked :
        /\ leg[q] = "answered" =>
              /\ answer[q].kind = "response"
              /\ answer[q].id = q.id /\ answer[q].question = q.question
              /\ turn[q] <= Upstream
        /\ leg[q] = "failed" => turn[q] = Upstream + 1 
        /\ leg[q] # "answered" => answer[q] = NoMessage

=============================================================================
