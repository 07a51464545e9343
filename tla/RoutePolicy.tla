---------------------------- MODULE RoutePolicy ----------------------------
(***************************************************************************)
(* The route plan of a TUN connection: what run_client and                 *)
(* run_managed_client (src/src/bin/openiwan.rs) collect, and how           *)
(* resolve_route_policy (src/src/tun.rs) turns inclusions and exclusions   *)
(* into prefixes for RouteGuard::configure.                                *)
(*                                                                         *)
(* An address of family f is a number below 2^Width[f] (32 and 128 in the  *)
(* code).  A CIDR as text is a record of its numbers, not yet canonical    *)
(* and possibly with too long a prefix, or Malformed.  Names and resolvers *)
(* are abstract: a domain resolves to any short list of addresses.         *)
(***************************************************************************)
EXTENDS Integers, Sequences, SequencesExt, FiniteSets

CONSTANTS
    Width,          \* family -> bits of an address
    Protected,      \* base_full_ipv4_exclusions: loopback, link-local, multicast
    Peers,          \* addresses the session's UDP peer may have
    Malformed,      \* a CIDR text that does not parse
    MaxTargets,     \* bound: texts given as inclusions
    MaxExclusions   \* bound: texts given as exclusions

Families == {4, 6}

PowerOf2[n \in Nat] == IF n = 0 THEN 1 ELSE 2 * PowerOf2[n - 1]

Address ==
    UNION {{[family |-> f, bits |-> b] : b \in 0..(PowerOf2[Width[f]] - 1)} : f \in Families}

\* A route has an address and a prefix of its family.
Routes == {r \in [network : Address, prefix : Nat] : r.prefix <= Width[r.network.family]}

\* network_address: the host bits are cleared, all of them for prefix 0.
NetworkAddress(a, prefix) ==
    [a EXCEPT !.bits = @ - (@ % PowerOf2[Width[a.family] - prefix])]

ASSUME RoutePolicyAssumption ==
    /\ Width \in [Families -> Nat \ {0}]
    /\ MaxTargets \in Nat /\ MaxExclusions \in Nat
    /\ IsFiniteSet(Protected) /\ Protected \subseteq Routes
    /\ \A r \in Protected : NetworkAddress(r.network, r.prefix) = r.network
    /\ Peers \subseteq Address

\* A prefix may exceed the width by one: Route::parse_allow_default refuses.
Text == {Malformed}
        \cup UNION {{[address |-> a, prefix |-> n] : n \in 0..(Width[a.family] + 1)} : a \in Address}

VARIABLES
    command,    \* "direct" (run_client) or "managed" (run_managed_client)
    mode,       \* the routing mode in force: "all", "custom" or "ipfilter"
    hasFilter,  \* the controller sent IP-filter rules
    blockIpv6,
    peer,       \* session.info().peer.ip()
    step,       \* what is being collected, then "subtract", "unique",
                \* "planned", "accepted" or "refused"
    routes,     \* the routes so far, a sequence
    exclusions, \* the exclusions not yet subtracted, a sequence
    count,      \* inclusions given so far, at most MaxTargets
    included,   \* history: the addresses the inclusions denote
    excluded    \* history: the addresses the exclusions denote

inputs == <<command, mode, hasFilter, blockIpv6, peer>>
policyVars == <<inputs, step, routes, exclusions, count, included, excluded>>

\* The addresses a CIDR denotes: those that agree with it in every bit of the
\* prefix.  The reference definition: no masks, no canonical form.
Bit(f, b, i) == (b \div PowerOf2[Width[f] - i]) % 2
Denotes(a0, prefix) ==
    {a \in Address : /\ a.family = a0.family
                     /\ \A i \in 1..prefix : Bit(a.family, a.bits, i) = Bit(a.family, a0.bits, i)}

-----------------------------------------------------------------------------
(* Route *)

Parses(text) == text # Malformed /\ text.prefix <= Width[text.address.family]

\* Route::parse_allow_default of a text that parses.
ParsedRoute(text) ==
    [network |-> NetworkAddress(text.address, text.prefix), prefix |-> text.prefix]

Host(a) == [network |-> a, prefix |-> Width[a.family]]

ContainsAddress(route, a) ==
    /\ route.network.family = a.family
    /\ NetworkAddress(a, route.prefix) = route.network

\* Mutant: the prefix lengths are not compared.
ContainsRouteByNetwork(route, other) == ContainsAddress(route, other.network)

ContainsRoute(route, other) == /\ route.prefix <= other.prefix
                               /\ ContainsAddress(route, other.network)

\* Route::split of a route that is not a host.
Split(route) ==
    LET child == route.prefix + 1
        bit == PowerOf2[Width[route.network.family] - child]
    IN  << [network |-> route.network, prefix |-> child],
           [network |-> [route.network EXCEPT !.bits = @ + bit], prefix |-> child] >>

\* subtract_route.  A host route that contains the exclusion is contained in
\* it, so the code's last early return (split gives None) is never reached.
SubtractRoute(route, exclusion) ==
    LET Parts[r \in Routes] ==
          IF ContainsRoute(exclusion, r) THEN <<>>
          ELSE IF ~ ContainsRoute(r, exclusion) THEN <<r>>
          ELSE Parts[Split(r)[1]] \o Parts[Split(r)[2]]
    IN  Parts[route]

PushUnique(list, route) ==
    IF \E i \in DOMAIN list : list[i] = route THEN list ELSE Append(list, route)

\* The routes of more are pushed one after the other.
PushAll(list, more) ==
    LET Pushed[n \in 0..Len(more)] ==
          IF n = 0 THEN list ELSE PushUnique(Pushed[n - 1], more[n])
    IN  Pushed[Len(more)]

-----------------------------------------------------------------------------
(* Collecting the plan's inputs. *)

\* resolve_route_policy's full_ipv4, and the two halves it stands for.
FullIpv4 == mode = "all" \/ (mode = "ipfilter" /\ ~ hasFilter)
Halves(f) == Split([network |-> [family |-> f, bits |-> 0], prefix |-> 0])

PolicyInit ==
    /\ \/ command = "direct" /\ mode \in {"all", "custom"} /\ hasFilter = FALSE
       \/ command = "managed" /\ mode \in {"all", "custom", "ipfilter"}
          /\ hasFilter \in BOOLEAN /\ (mode = "all" => ~ hasFilter)
    /\ blockIpv6 \in BOOLEAN
    /\ peer \in Peers
    /\ step = "cidrs"
    /\ routes = IF FullIpv4 THEN Halves(4) ELSE <<>>
    /\ exclusions = <<>> /\ count = 0
    /\ included = (IF FullIpv4 THEN {a \in Address : a.family = 4} ELSE {})
                  \cup (IF blockIpv6 THEN {a \in Address : a.family = 6} ELSE {})
    /\ excluded = {peer}

Room == count < MaxTargets

Refuse == /\ step' = "refused"
          /\ UNCHANGED <<inputs, routes, exclusions, count, included, excluded>>

Include(text) == /\ routes' = PushUnique(routes, ParsedRoute(text))
                 /\ count' = count + 1
                 /\ included' = included \cup Denotes(text.address, text.prefix)
                 /\ UNCHANGED <<inputs, step, exclusions, excluded>>

\* --route, the profile's routes and the controller's custom_routes.
AddCidr(text) ==
    /\ step = "cidrs" /\ Room
    /\ IF Parses(text) THEN Include(text) ELSE Refuse

\* An inclusive IP-filter rule: valid_filter_cidrs drops one that is invalid.
AddRule(text) ==
    /\ step = "cidrs" /\ Room /\ hasFilter
    /\ Parses(text) /\ Include(text)

\* append_ipv6_capture_routes comes last.
CidrsCollected ==
    /\ step = "cidrs"
    /\ step' = "addresses"
    /\ routes' = IF blockIpv6
                 THEN PushUnique(PushUnique(routes, Halves(6)[1]), Halves(6)[2])
                 ELSE routes
    /\ UNCHANGED <<inputs, exclusions, count, included, excluded>>

HostText(a) == [address |-> a, prefix |-> Width[a.family]]

\* --route-ip, and the tunnel's DNS servers.
AddAddress(a) ==
    /\ step = "addresses" /\ Room
    /\ Include(HostText(a))

AddressRefused == step = "addresses" /\ Room /\ Refuse

AddressesCollected ==
    /\ step = "addresses"
    /\ step' = "domains"
    /\ UNCHANGED <<inputs, routes, exclusions, count, included, excluded>>

\* --route-domain: all its addresses, in the resolver's order.
AddDomain(resolved) ==
    /\ step = "domains" /\ Room
    /\ routes' = PushAll(routes, [i \in DOMAIN resolved |-> Host(resolved[i])])
    /\ count' = count + 1
    /\ included' = included \cup Range(resolved)
    /\ UNCHANGED <<inputs, step, exclusions, excluded>>

\* An empty name, a failed resolution or one without addresses.
DomainRefused == step = "domains" /\ Room /\ Refuse

DomainsCollected ==
    /\ step = "domains"
    /\ step' = "exclusions"
    /\ UNCHANGED <<inputs, routes, exclusions, count, included, excluded>>

\* An exclusive IP-filter rule (an invalid one is dropped), a managed ingress
\* or a physical resolver.
Exclude(text) ==
    /\ step = "exclusions" /\ Len(exclusions) < MaxExclusions
    /\ Parses(text)
    /\ hasFilter \/ text.prefix = Width[text.address.family]
    /\ exclusions' = Append(exclusions, ParsedRoute(text))
    /\ excluded' = excluded \cup Denotes(text.address, text.prefix)
    /\ UNCHANGED <<inputs, step, routes, count, included>>

\* managed_server_exclusions always, run_client only for a full tunnel.
BaseExclusions == IF command = "managed" \/ mode = "all" THEN Protected ELSE {}

PeerExclusion == <<Host(peer)>>

ExclusionsCollected ==
    /\ step = "exclusions"
    /\ step' = "subtract"
    /\ exclusions' = exclusions \o SetToSeq(BaseExclusions) \o PeerExclusion
    /\ UNCHANGED <<inputs, routes, count, included, excluded>>

-----------------------------------------------------------------------------
(* resolve_route_policy once its inputs are parsed. *)

Subtract ==
    /\ step = "subtract" /\ exclusions # <<>>
    /\ routes' = FlattenSeq([i \in DOMAIN routes |->
                               SubtractRoute(routes[i], Head(exclusions))])
    /\ exclusions' = Tail(exclusions)
    /\ UNCHANGED <<inputs, step, count, included, excluded>>

UniqueRoutes(list) == PushAll(<<>>, list)

Unique ==
    /\ step = "subtract" /\ exclusions = <<>>
    /\ step' = "planned"
    /\ routes' = UniqueRoutes(routes)
    /\ UNCHANGED <<inputs, exclusions, count, included, excluded>>

\* RouteGuard::configure parses every route again and refuses a default one.
Configure ==
    /\ step = "planned"
    /\ step' = IF \E i \in DOMAIN routes : routes[i].prefix = 0 THEN "refused" ELSE "accepted"
    /\ UNCHANGED <<inputs, routes, exclusions, count, included, excluded>>

PolicyDone == step \in {"accepted", "refused"} /\ UNCHANGED policyVars

PolicyNext ==
    \/ \E text \in Text : AddCidr(text) \/ AddRule(text) \/ Exclude(text)
    \/ \E a \in Address : AddAddress(a)
    \/ \E resolved \in [1..1 -> Address] \cup [1..2 -> Peers] : AddDomain(resolved)
    \/ AddressRefused \/ DomainRefused
    \/ CidrsCollected \/ AddressesCollected \/ DomainsCollected \/ ExclusionsCollected
    \/ Subtract \/ Unique \/ Configure \/ PolicyDone

PolicySpec == PolicyInit /\ [][PolicyNext]_policyVars

-----------------------------------------------------------------------------
(* Properties. *)

Covered == UNION {Denotes(routes[i].network, routes[i].prefix) : i \in DOMAIN routes}

\* What a plan must keep out of the tunnel.
Outside == excluded \cup UNION {Denotes(r.network, r.prefix) : r \in BaseExclusions}

\* Every route is canonical: no host bit is set, the prefix fits the family.
PolicyTypeOK ==
    /\ command \in {"direct", "managed"} /\ mode \in {"all", "custom", "ipfilter"}
    /\ \A i \in DOMAIN routes :
          /\ routes[i].network \in Address
          /\ routes[i].prefix \in 0..Width[routes[i].network.family]
          /\ NetworkAddress(routes[i].network, routes[i].prefix) = routes[i].network

\* "Broad routes are split around these exclusions" (docs/CONFIGURATION.md):
\* the finished plan routes exactly the addresses included and not excluded,
\* the active peer among the excluded, however the CIDRs overlap and in
\* whatever order they are subtracted.
CoverageExact == step \in {"planned", "accepted"} => Covered = included \ Outside

\* "Routes are canonicalized and deduplicated before the TUN interface is
\* opened": no route is planned twice (macOS's `route add` refuses the second
\* and the whole connection fails).
NoDuplicates ==
    step \in {"planned", "accepted"} =>
        \A i, j \in DOMAIN routes : routes[i] = routes[j] => i = j

\* The plan is what the lists mean: canonical routes, each once, that cover
\* exactly the addresses asked for.
PlanSound == PolicyTypeOK /\ CoverageExact /\ NoDuplicates

=============================================================================
