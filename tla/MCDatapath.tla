----------------------------- MODULE MCDatapath -----------------------------
(* TLC instance of what decides the way of a packet: RoutePolicy and        *)
(* RouteGuard, with three-bit IPv4 and one-bit IPv6 addresses for the plan  *)
(* and two prefixes to install, the two reassemblers, SrReassembly and      *)
(* TraditionalReassembly, of which a session uses one, and DnsPolicy,       *)
(* which takes DNS queries out of it.  They share no state; a behaviour is  *)
(* about one of them while the others rest.                                 *)
EXTENDS RoutePolicy, RouteGuard, SrReassembly, TraditionalReassembly, DnsPolicy

VARIABLE part   \* "plan", "install", "sr", "traditional" or "dns"

datapathVars == <<part, policyVars, vars, srVars, pairVars, dnsPolicyVars>>

V4(b) == [family |-> 4, bits |-> b]
V6(b) == [family |-> 6, bits |-> b]

MCWidth == [f \in Families |-> IF f = 4 THEN 3 ELSE 1]
MCProtected == {[network |-> V4(6), prefix |-> 2], [network |-> V4(3), prefix |-> 3]}
MCPeers == {V4(1), V6(1)}

\* How a name stands to a rule's domain: n1 is d1, n2 ends in d1 without a dot
\* before it and is below d2, the canary has nothing to do with either.
MCRelated == [name |-> [d1 |-> "glued", d2 |-> "below"],
              canary |-> [d1 |-> "same", d2 |-> "apart"]]
Rule(k, d) == [kind |-> k, domain |-> d]
MCRules == {<<Rule("suffix", "d1")>>, <<Rule("exact", "d1"), Rule("domain", "d2")>>}
MCLists == {<<"s1">>, <<"s2", "s1", "s2">>, <<"z", "s2">>}
MCHosts == {<<"name">>}
MCFallback == <<"f1", "f2">>

PlanRests == command = "direct" /\ mode = "custom" /\ ~ blockIpv6 /\ peer = V4(1)
InstallRests ==
    /\ platform = "linux" /\ requests = <<>>
    /\ original = [p \in Cidrs |-> [s \in Slots |-> "none"]]

DnsRests == defaults = DirectDefaults /\ focus = CHOOSE a \in Aspects : TRUE

DatapathInit ==
    /\ part \in {"plan", "install", "sr", "traditional", "dns"}
    /\ PolicyInit /\ (part # "plan" => PlanRests)
    /\ Init /\ (part # "install" => InstallRests)
    /\ DnsPolicyInit /\ (part # "dns" => DnsRests)
    /\ SrInit /\ PairInit

DatapathNext ==
    \/ /\ part = "plan" /\ PolicyNext
       /\ UNCHANGED <<part, vars, srVars, pairVars, dnsPolicyVars>>
    \/ /\ part = "install" /\ Next
       /\ UNCHANGED <<part, policyVars, srVars, pairVars, dnsPolicyVars>>
    \/ /\ part = "sr" /\ SrNext
       /\ UNCHANGED <<part, policyVars, vars, pairVars, dnsPolicyVars>>
    \/ /\ part = "traditional" /\ PairNext
       /\ UNCHANGED <<part, policyVars, vars, srVars, dnsPolicyVars>>
    \/ /\ part = "dns" /\ DnsPolicyNext
       /\ UNCHANGED <<part, policyVars, vars, srVars, pairVars>>

DatapathSpec == DatapathInit /\ [][DatapathNext]_datapathVars

=============================================================================
