---------------------------- MODULE MCDnsRuntime ----------------------------
(* TLC instance of DNS on the host: DnsRuntime, the threads that answer      *)
(* queries, DnsExchange, what they do with the resolvers, and PlatformDns,   *)
(* the servers on the link and the resolvers the relay uses.  A behaviour is *)
(* about one of them while the others rest.                                  *)
EXTENDS DnsRuntime, DnsExchange, PlatformDns

VARIABLE part   \* "runtime", "exchange" or "platform"

dnsVars == <<part, vars, exchangeVars, platformVars>>

\* Two queries under one client ID, with fewer relay IDs than requests.
MCAsked == {[id |-> 7, question |-> "x"], [id |-> 7, question |-> "y"]}

MCServersOf == [p |-> {"t1"}, q |-> {"t2"}, off |-> {}]

RuntimeRests == resolvers = 0
ExchangeRests == relayId = 0
PlatformRests == backend = "missing" /\ ~ ipv6

DnsInit ==
    /\ part \in {"runtime", "exchange", "platform"}
    /\ Init /\ ExchangeInit /\ PlatformInit
    /\ part # "runtime" => RuntimeRests
    /\ part # "exchange" => ExchangeRests
    /\ part # "platform" => PlatformRests

DnsNext ==
    \/ part = "runtime" /\ Next /\ UNCHANGED <<part, exchangeVars, platformVars>>
    \/ part = "exchange" /\ ExchangeNext /\ UNCHANGED <<part, vars, platformVars>>
    \/ part = "platform" /\ PlatformNext /\ UNCHANGED <<part, vars, exchangeVars>>

\* The threads of DnsRuntime are not enabled while it rests.
DnsSpec == DnsInit /\ [][DnsNext]_dnsVars /\ Fairness

=============================================================================
