------------------------------ MODULE DnsPolicy ------------------------------
(***************************************************************************)
(* The DNS policy and what it does to packets: the DNS layer of a profile  *)
(* and the one-shot flags over it (src/src/bin/openiwan.rs), the           *)
(* controller's defaults (src/src/managed/controller.rs), their resolution *)
(* (src/src/dns/policy.rs) and DnsPacketEngine (src/src/dns/packet.rs).    *)
(*                                                                         *)
(* Names are normalised.  Of a name and the domain of a rule only their    *)
(* relation is kept: the same name, a name below the domain, one that ends *)
(* in it without a label boundary ("glued"), or none of these.  Of the     *)
(* flags, one aspect is exercised in a behaviour.                          *)
(***************************************************************************)
EXTENDS Integers, Sequences, FiniteSets, SequencesExt

CONSTANTS
    Names, Related,  \* Related[name][domain] \in Relations
    Canary,          \* DEFAULT_DOH_CANARY, a name
    Unusable,        \* server addresses that is_usable_server refuses
    Fallback,        \* the servers of last resort of a controller service
    ServerLists,     \* lists of server addresses
    RuleLists,       \* lists of rules [kind, domain]
    HostLists,       \* lists of names to block
    Unset,           \* None
    MaxEdits         \* bound: changes of the profile

Relations == {"same", "below", "glued", "apart"}

ASSUME DnsPolicyAssumption ==
    /\ \A n \in Names : \A d \in DOMAIN Related[n] : Related[n][d] \in Relations
    /\ Canary \in Names /\ MaxEdits \in Nat

\* The two fallback servers of the code are unicast addresses.
ASSUME ServersAssumption ==
    /\ \A s \in ServerLists \cup {Fallback} : s \in Seq(ToSet(s))
    /\ Len(Fallback) <= 2
    /\ \A i, j \in DOMAIN Fallback :
          Fallback[i] \notin Unusable /\ (Fallback[i] = Fallback[j] => i = j)

VARIABLES
    focus,      \* the aspect the flags are about
    defaults,   \* DnsDefaults: the controller's layer
    layer,      \* ManagedProfile::dns: DnsOverrides
    edits,      \* changes of the profile so far
    effective,  \* the EffectiveDnsPolicy, or why there is none
    handled     \* the last packet and its DnsPacketAction

dnsPolicyVars == <<focus, defaults, layer, edits, effective, handled>>

Aspects == {"servers", "split", "encrypted"}
NoOverrides == [mode |-> Unset, servers |-> Unset, split |-> Unset,
                domains |-> Unset, encrypted |-> Unset, hosts |-> Unset]

\* DnsOverrideArgs, restricted to one aspect.
ServerFlag(m, s) == [NoOverrides EXCEPT !.mode = m, !.servers = s]
SplitFlag(m, d) == [NoOverrides EXCEPT !.split = m, !.domains = d]
EncryptedFlag(m, h) == [NoOverrides EXCEPT !.encrypted = m, !.hosts = h]

Flags(aspect) ==
    CASE aspect = "servers" ->
           {ServerFlag(m, s) : m \in {Unset, "inherit", "server", "custom", "disabled"},
                               s \in ServerLists \cup {Unset}}
      [] aspect = "split" ->
           {SplitFlag(m, d) :
                m \in {Unset, "inherit", "off", "tunnel_all", "managed", "custom"},
                d \in RuleLists \cup {Unset}}
      [] aspect = "encrypted" ->
           {EncryptedFlag(m, h) : m \in {Unset, "inherit", "block", "allow"},
                                  h \in HostLists \cup {Unset}}

\* into_policy of the server and split modes.
Mode(m) == IF m = "inherit" THEN Unset ELSE m
Given(flag, under) == IF flag = Unset THEN under ELSE flag

\* A list given without a mode asks for the custom mode.
ModeGiven(flag, list, under) ==
    IF flag # Unset THEN Mode(flag) ELSE IF list # Unset THEN "custom" ELSE under

\* An inherited mode takes the list of the same layer away with it.
ListGiven(flag, list, under) ==
    IF list # Unset THEN list ELSE IF flag = "inherit" THEN Unset ELSE under

AppliedTo(flags, lower) ==
    [mode      |-> ModeGiven(flags.mode, flags.servers, lower.mode),
     servers   |-> ListGiven(flags.mode, flags.servers, lower.servers),
     split     |-> ModeGiven(flags.split, flags.domains, lower.split),
     domains   |-> ListGiven(flags.split, flags.domains, lower.domains),
     encrypted |-> Given(flags.encrypted, lower.encrypted),
     hosts     |-> Given(flags.hosts, lower.hosts)]

\* A profile keeps its lists when a mode becomes inherited.
PatchProfile(flags, target) ==
    [mode      |-> ModeGiven(flags.mode, flags.servers, target.mode),
     servers   |-> Given(flags.servers, target.servers),
     split     |-> ModeGiven(flags.split, flags.domains, target.split),
     domains   |-> Given(flags.domains, target.domains),
     encrypted |-> IF flags.encrypted = "inherit" THEN Unset
                   ELSE Given(flags.encrypted, target.encrypted),
     hosts     |-> Given(flags.hosts, target.hosts)]

\* DnsOverrides::validate; the caps on the number of rules and the syntax of
\* names are left out.
Valid(o) ==
    /\ o.servers # Unset => Len(o.servers) <= 2
    /\ o.mode = "custom" => o.servers # Unset /\ o.servers # <<>>
    /\ o.split = "custom" => o.domains # Unset /\ o.domains # <<>>

-----------------------------------------------------------------------------
(* DnsPolicyResolver::resolve. *)

IsUsableServer(address) == address \notin Unusable

\* The elements of s at some positions, in order.
At(s, positions) ==
    LET t == CHOOSE t \in [1 .. Cardinality(positions) -> positions] :
                \A j, k \in DOMAIN t : j < k => t[j] < t[k]
    IN [i \in DOMAIN t |-> s[t[i]]]

\* dedup keeps the first occurrences.
Firsts(s) == {i \in DOMAIN s : \A j \in 1..(i - 1) : s[j] # s[i]}
Distinct(s) == At(s, Firsts(s))

UsableServers(s) ==
    LET d == At(s, {i \in Firsts(s) : IsUsableServer(s[i])})
    IN SubSeq(d, 1, IF Len(d) < 2 THEN Len(d) ELSE 2)

\* resolve_server_dns: the server list's own servers, those of the session,
\* the fallback of a controller service.
ServerDns(sessionDns) ==
    IF defaults.serverMode = "custom" /\ UsableServers(defaults.serverDns) # <<>>
      THEN UsableServers(defaults.serverDns)
    ELSE IF UsableServers(sessionDns) # <<>> THEN UsableServers(sessionDns)
    ELSE IF defaults.controllerService THEN Fallback ELSE <<>>

ServerMode(o) ==
    LET requested == Given(o.mode, defaults.localMode)
    IN IF requested = "server" /\ defaults.serverMode = "disabled" THEN "disabled"
                                                                   ELSE requested

CustomServers(o) == Given(o.servers, defaults.localDns)
ValidCustom(s) == Len(s) \in 1..2 /\ \A i \in DOMAIN s : IsUsableServer(s[i])

SplitMode(o) == Given(o.split, defaults.splitMode)

Inclusive(o) ==
    CASE SplitMode(o) \in {"off", "tunnel_all"} -> <<>>
      [] SplitMode(o) = "managed" -> defaults.inclusive
      [] SplitMode(o) = "custom" ->
            Given(o.domains, defaults.customDomains)
                \o (IF defaults.domainFilter THEN defaults.inclusive ELSE <<>>)

\* Mutant: the controller's exclusions are taken with its inclusions, only
\* when its domain filter is on.
ExclusiveFiltered(o) ==
    IF SplitMode(o) = "managed" \/ (SplitMode(o) = "custom" /\ defaults.domainFilter)
      THEN defaults.exclusive ELSE <<>>

Exclusive(o) ==
    IF SplitMode(o) \in {"off", "tunnel_all"} THEN <<>> ELSE defaults.exclusive

Blocks(o) == CASE o.encrypted \in {Unset, "inherit"} -> defaults.block
               [] o.encrypted = "block" -> TRUE
               [] o.encrypted = "allow" -> FALSE

DohHosts(o) == ToSet(defaults.secureHosts) \cup {Canary}
               \cup (IF o.hosts = Unset THEN {} ELSE ToSet(o.hosts))

Resolved(o, sessionDns) ==
    [mode      |-> ServerMode(o),
     servers   |-> CASE ServerMode(o) = "disabled" -> <<>>
                     [] ServerMode(o) = "custom" -> Distinct(CustomServers(o))
                     [] ServerMode(o) = "server" -> ServerDns(sessionDns),
     split     |-> SplitMode(o),
     inclusive |-> Inclusive(o),
     exclusive |-> Exclusive(o),
     block     |-> Blocks(o),
     hosts     |-> DohHosts(o)]

Resolvable(o) ==
    Valid(o) /\ (ServerMode(o) = "custom" => ValidCustom(CustomServers(o)))

-----------------------------------------------------------------------------
(* EffectiveDnsPolicy and DnsPacketEngine::process. *)

Matches(rule, name) ==
    Related[name][rule.domain] \in
        (CASE rule.kind = "suffix" -> {"same", "below", "glued"}
           [] rule.kind = "domain" -> {"same", "below"}
           [] rule.kind = "exact"  -> {"same"})

AnyMatches(rules, name) == \E i \in DOMAIN rules : Matches(rules[i], name)

DnsRoutingEnabled(p) == p.mode # "disabled" /\ p.servers # <<>> /\ p.split # "off"
EngineEnabled(p) == p.block \/ DnsRoutingEnabled(p)
BlocksDohHost(p, name) == p.block /\ name \in p.hosts

RoutesThroughTunnel(p, name) ==
    \/ p.split \in {"off", "tunnel_all"}
    \/ /\ ~ AnyMatches(p.exclusive, name)
       /\ p.inclusive = <<>> \/ AnyMatches(p.inclusive, name)

\* Packets the engine looks no further into (not IPv4, fragmented, neither
\* TCP nor UDP, another port, not a query with one question), packets to the
\* port of encrypted DNS, and queries.
Packets == [kind : {"other", "encrypted"}]
           \cup [kind : {"query"}, name : Names, type : {"A", "AAAA"}]

\* Mutant: AAAA queries are answered before the blocked names are looked up.
ProcessAaaaFirst(p, packet) ==
    IF ~ EngineEnabled(p) \/ packet.kind = "other" THEN "pass"
    ELSE IF packet.kind = "encrypted" THEN IF p.block THEN "drop" ELSE "pass"
    ELSE IF DnsRoutingEnabled(p) /\ packet.type = "AAAA" THEN "NoError"
    ELSE IF BlocksDohHost(p, packet.name) THEN "NXDomain"
    ELSE IF ~ DnsRoutingEnabled(p) THEN "pass"
    ELSE IF RoutesThroughTunnel(p, packet.name) THEN "pass" ELSE "relay"

\* An injected answer is named by its response code.
Process(p, packet) ==
    IF ~ EngineEnabled(p) \/ packet.kind = "other" THEN "pass"
    ELSE IF packet.kind = "encrypted" THEN IF p.block THEN "drop" ELSE "pass"
    ELSE IF BlocksDohHost(p, packet.name) THEN "NXDomain"
    ELSE IF DnsRoutingEnabled(p) /\ packet.type = "AAAA" THEN "NoError"
    ELSE IF ~ DnsRoutingEnabled(p) THEN "pass"
    ELSE IF RoutesThroughTunnel(p, packet.name) THEN "pass" ELSE "relay"

-----------------------------------------------------------------------------
(* The commands and the device. *)

Untouched == [kind |-> "none"]
NoPolicy == [mode |-> Unset]
Refused == [mode |-> "refused"]

\* DnsDefaults::default, and what dns_defaults makes of a configuration: a
\* managed split mode without a domain filter becomes tunnel_all.
DirectDefaults ==
    [serverMode |-> "auto", serverDns |-> <<>>, localMode |-> "server",
     localDns |-> <<>>, splitMode |-> "off", customDomains |-> <<>>,
     domainFilter |-> FALSE, inclusive |-> <<>>, exclusive |-> <<>>,
     block |-> FALSE, secureHosts |-> <<>>, controllerService |-> FALSE]

ServerDefaults(m, s, l, c, b) ==
    [DirectDefaults EXCEPT !.serverMode = m, !.serverDns = s, !.localMode = l,
                           !.localDns = c, !.controllerService = b]

SplitDefaults(i, e, f, c, m) ==
    [DirectDefaults EXCEPT !.controllerService = TRUE, !.inclusive = i,
                           !.exclusive = e, !.domainFilter = f, !.customDomains = c,
                           !.splitMode = IF m = "managed" /\ ~ f THEN "tunnel_all" ELSE m]

EncryptedDefaults(c, b, h, m) ==
    [DirectDefaults EXCEPT !.controllerService = c, !.block = b,
                           !.secureHosts = h, !.splitMode = m]

DnsDefaults(aspect) ==
    CASE aspect = "servers" ->
           {ServerDefaults(m, s, l, c, b) :
                m \in {"auto", "custom", "disabled"}, s \in ServerLists,
                l \in {"server", "custom", "disabled"},
                c \in {a \in ServerLists : Len(a) <= 2} \cup {<<>>}, b \in BOOLEAN}
      [] aspect = "split" ->
           {SplitDefaults(i, e, f, c, m) :
                i \in RuleLists \cup {<<>>}, e \in RuleLists \cup {<<>>},
                f \in BOOLEAN, c \in RuleLists \cup {<<>>},
                m \in {"off", "tunnel_all", "managed", "custom"}}
      [] aspect = "encrypted" ->
           {EncryptedDefaults(c, b, h, m) :
                c \in BOOLEAN, b \in BOOLEAN, h \in HostLists \cup {<<>>},
                m \in {"off", "tunnel_all"}}

DnsPolicyInit ==
    /\ focus \in Aspects
    /\ defaults \in DnsDefaults(focus) \cup {DirectDefaults}
    /\ layer = NoOverrides /\ edits = 0
    /\ effective = NoPolicy /\ handled = Untouched

\* --unset-dns of a list.
ListOf == [servers |-> "servers", split |-> "domains", encrypted |-> "hosts"]
WithoutLists(o, lists) == [l \in DOMAIN o |-> IF l \in lists THEN Unset ELSE o[l]]

\* `profile set`: --reset-dns, the flags, --unset-dns; an invalid layer is not
\* saved.
ProfileSet(flags, reset, unset) ==
    /\ effective = NoPolicy /\ edits < MaxEdits
    /\ LET patched == PatchProfile(flags, IF reset THEN NoOverrides ELSE layer)
       IN /\ Valid(WithoutLists(patched, unset))
          /\ layer' = WithoutLists(patched, unset)
    /\ edits' = edits + 1
    /\ UNCHANGED <<focus, defaults, effective, handled>>

\* connect with one-shot flags; a direct connection has no profile and no
\* managed split DNS.
Connect(flags, sessionDns) ==
    /\ effective = NoPolicy
    /\ LET overrides == AppliedTo(flags, layer)
           direct == layer = NoOverrides /\ defaults = DirectDefaults
       IN effective' = IF Resolvable(overrides) /\ ~ (direct /\ overrides.split = "managed")
                         THEN Resolved(overrides, sessionDns) ELSE Refused
    /\ UNCHANGED <<focus, defaults, layer, edits, handled>>

ReadPacket(packet) ==
    /\ effective \notin {NoPolicy, Refused}
    /\ handled = Untouched
    /\ handled' = [kind |-> "packet", packet |-> packet,
                   action |-> Process(effective, packet)]
    /\ UNCHANGED <<focus, defaults, layer, edits, effective>>

DnsPolicyDone == (effective = Refused \/ handled # Untouched) /\ UNCHANGED dnsPolicyVars

DnsPolicyNext ==
    \/ \E flags \in Flags(focus), reset \in BOOLEAN,
          unset \in {{}, {ListOf[focus]}} : ProfileSet(flags, reset, unset)
    \/ \E flags \in Flags(focus), s \in ServerLists \cup {<<>>} : Connect(flags, s)
    \/ \E packet \in Packets : ReadPacket(packet)
    \/ DnsPolicyDone

-----------------------------------------------------------------------------
(* Properties. *)

\* Whatever the layers ask for, the servers installed are at most two, each
\* one once and a unicast address, and a disabled mode installs none.
ServersSound ==
    effective \notin {NoPolicy, Refused} =>
        /\ Len(effective.servers) <= 2
        /\ \A i, j \in DOMAIN effective.servers :
              effective.servers[i] = effective.servers[j] => i = j
        /\ \A i \in DOMAIN effective.servers : IsUsableServer(effective.servers[i])
        /\ effective.mode = "disabled" => effective.servers = <<>>

\* A name the controller excludes never goes into the tunnel while names are
\* routed by rules, whatever a profile or a flag includes ("controller
\* exclusions remain in force", docs/CONFIGURATION.md).
ExclusionsHold(q) ==
    /\ DnsRoutingEnabled(effective) /\ effective.split \in {"managed", "custom"}
    /\ AnyMatches(defaults.exclusive, q.packet.name)
    => q.action # "pass"

\* A blocked name is answered with NXDOMAIN, whatever its type, and neither
\* passed on nor relayed; other AAAA queries are answered while DNS is routed.
BlockedAnswered(q) ==
    /\ BlocksDohHost(effective, q.packet.name) => q.action = "NXDomain"
    /\ q.action = "relay" => /\ DnsRoutingEnabled(effective) /\ q.packet.type = "A"
                             /\ effective.split \notin {"off", "tunnel_all"}

\* The layers combine into a usable policy, and no query escapes it.
PolicyHonoured ==
    /\ ServersSound
    /\ handled # Untouched /\ handled.packet.kind = "query" =>
          ExclusionsHold(handled) /\ BlockedAnswered(handled)

=============================================================================
