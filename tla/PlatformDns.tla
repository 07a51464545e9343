----------------------------- MODULE PlatformDns -----------------------------
(***************************************************************************)
(* The host's side of split DNS: PlatformDnsLease with the commands of     *)
(* each platform, and discover_physical_resolvers                          *)
(* (src/src/dns/platform.rs), as DnsRuntime activates and deactivates      *)
(* policies session after session (src/src/dns/runtime.rs).                *)
(*                                                                         *)
(* The DNS settings of the tunnel link are the external state.  A command  *)
(* takes effect or fails without one; the revert of a dropped lease is     *)
(* best effort and its result ignored.  Module DnsRuntime has the threads  *)
(* around the calls; here they are sequential, as the session makes them.  *)
(***************************************************************************)
EXTENDS Integers, FiniteSets

CONSTANTS
    Plans,        \* effective policies; FirstPlan is the one of DnsRuntime::new
    FirstPlan,
    ServersOf,    \* [Plans -> sets of tunnel DNS servers]
    HostResolvers, \* the resolvers of the host's own links
    Ipv6Resolvers, \* those of them with IPv6 addresses
    MaxPhysical,  \* resolvers kept by a discovery, 8 in the code
    Backends,
    MaxTries,     \* bound: activations
    MaxChanges    \* bound: calls of update_policy

Free == "free"   \* no lease

ASSUME PlatformDnsAssumption ==
    /\ FirstPlan \in Plans /\ Free \notin Plans
    /\ \A p \in Plans : ServersOf[p] \cap HostResolvers = {}
    /\ Ipv6Resolvers \subseteq HostResolvers
    /\ Backends \subseteq {"resolved", "resolvconf", "scutil", "windows", "missing"}

VARIABLES
    backend,   \* what the platform offers
    ipv6,      \* DnsRuntime::physical_ipv6
    original,  \* the link's settings before the first lease
    link,      \* the link's settings: [servers, domain, default]
    at,        \* the next step of the call under way, or where there is none
    goal,      \* the policy being applied
    retrying,  \* it is the previous policy's turn
    held,      \* the policy of the lease held; Free when there is none
    saved,     \* WindowsDnsLease::previous
    lost,      \* a revert has failed
    physical,  \* DnsRuntime::physical
    usable,    \* the resolvers of the relay
    inForce,   \* DnsRuntime::policy
    running,   \* DnsRuntime::active
    tries, changes

hostVars == <<backend, ipv6, original>>
leaseVars == <<link, held, saved, lost>>
runtimeVars == <<physical, usable, inForce, running>>
callVars == <<at, goal, retrying, tries, changes>>
platformVars == <<hostVars, leaseVars, runtimeVars, callVars>>

LinkWith(s) == [servers |-> s, domain |-> FALSE, default |-> FALSE]

\* The settings a lease stands for.
Configured(p) ==
    IF ServersOf[p] = {} THEN original
    ELSE [servers |-> ServersOf[p], domain |-> backend = "resolved",
          default |-> backend = "resolved"]

\* resolvectl revert, resolvconf -d and the removal of the scutil key forget
\* the link; Windows writes back what was read before.
Undone == IF backend = "windows" THEN LinkWith(saved) ELSE LinkWith({})

\* Drop for PlatformDnsLease.
Revert ==
    \/ link' = Undone /\ UNCHANGED lost
    \/ lost' = TRUE /\ UNCHANGED link

DropLease ==
    /\ IF held = Free \/ ServersOf[held] = {}
         THEN UNCHANGED <<link, lost>> ELSE Revert
    /\ held' = Free

-----------------------------------------------------------------------------
(* discover_physical_resolvers. *)

\* What the platform lists: resolvectl and resolv.conf name the servers of
\* every link; elsewhere the link's may be among them or not.
Listed ==
    IF backend \in {"resolved", "resolvconf"} THEN {HostResolvers \cup link.servers}
    ELSE {HostResolvers, HostResolvers \cup link.servers}

\* At most MaxPhysical are kept.
Kept(s) == {k \in SUBSET s : Cardinality(k) = MaxPhysical
                             \/ (k = s /\ Cardinality(s) <= MaxPhysical)}

\* A file that cannot be read keeps the previous snapshot.
Discover ==
    \/ \E s \in Listed : physical' \in Kept(s)
    \/ UNCHANGED physical

\* filter_physical_resolvers.
FilterPhysical(p) ==
    {r \in physical : r \notin ServersOf[p] /\ (ipv6 \/ r \notin Ipv6Resolvers)}

-----------------------------------------------------------------------------
(* activate_policy: the previous lease is dropped, the new one applied, and  *)
(* on failure the previous policy's.                                         *)

Activate ==
    /\ at = "down" /\ tries < MaxTries
    /\ tries' = tries + 1
    /\ Discover
    /\ goal' \in Plans /\ retrying' = FALSE /\ at' = "drop"
    /\ UNCHANGED <<hostVars, leaseVars, usable, inForce, running, changes>>

UpdatePlan ==
    /\ at = "up" /\ changes < MaxChanges
    /\ changes' = changes + 1
    /\ goal' \in Plans /\ retrying' = FALSE /\ at' = "drop"
    /\ UNCHANGED <<hostVars, leaseVars, runtimeVars, tries>>

DropPrevious ==
    /\ at = "drop"
    /\ DropLease
    /\ at' = "apply"
    /\ UNCHANGED <<hostVars, saved, runtimeVars, goal, retrying, tries, changes>>

Rest == IF running THEN "up" ELSE "down"

\* apply returns an error.
Fails ==
    /\ IF retrying THEN at' = Rest /\ goal' = FirstPlan /\ retrying' = FALSE
                   ELSE at' = "apply" /\ goal' = inForce /\ retrying' = TRUE
    /\ UNCHANGED <<hostVars, saved, held, runtimeVars, tries, changes>>

\* apply returns a lease: a new policy takes effect, its predecessor's lease
\* is only put back.
Succeeds ==
    /\ held' = goal
    /\ IF retrying THEN UNCHANGED <<usable, inForce, running>> /\ at' = Rest
       ELSE /\ inForce' = goal /\ usable' = FilterPhysical(goal)
            /\ running' = TRUE /\ at' = "up"
    /\ goal' = FirstPlan /\ retrying' = FALSE
    /\ UNCHANGED <<hostVars, lost, physical, tries, changes>>

\* Without servers there is nothing to apply.
ApplyNothing ==
    /\ at = "apply" /\ ServersOf[goal] = {}
    /\ Succeeds
    /\ UNCHANGED <<link, saved>>

NoBackend ==
    /\ at = "apply" /\ ServersOf[goal] # {} /\ backend = "missing"
    /\ Fails
    /\ UNCHANGED <<link, lost>>

\* resolvectl dns; its failure is returned at once.
SetServers ==
    /\ at = "apply" /\ ServersOf[goal] # {} /\ backend = "resolved"
    /\ \/ /\ link' = [link EXCEPT !.servers = ServersOf[goal]]
          /\ at' = "domain"
          /\ UNCHANGED <<hostVars, held, saved, lost, runtimeVars, goal, retrying,
                         tries, changes>>
       \/ Fails /\ UNCHANGED <<link, lost>>

\* resolvectl domain; what was set so far is reverted when it fails.
SetDomain ==
    /\ at = "domain"
    /\ \/ /\ link' = [link EXCEPT !.domain = TRUE]
          /\ at' = "default"
          /\ UNCHANGED <<hostVars, held, saved, lost, runtimeVars, goal, retrying,
                         tries, changes>>
       \/ Fails /\ Revert

\* Mutant: only the second command's failure is reverted.
SetDefaultUnreverted ==
    /\ at = "default"
    /\ \/ Succeeds /\ link' = [link EXCEPT !.default = TRUE] /\ UNCHANGED saved
       \/ Fails /\ UNCHANGED <<link, lost>>

\* resolvectl default-route, likewise.
SetDefault ==
    /\ at = "default"
    /\ \/ Succeeds /\ link' = [link EXCEPT !.default = TRUE] /\ UNCHANGED saved
       \/ Fails /\ Revert

\* resolvconf -a; -d after a failure.
AddResolvconf ==
    /\ at = "apply" /\ ServersOf[goal] # {} /\ backend = "resolvconf"
    /\ \/ Succeeds /\ link' = LinkWith(ServersOf[goal]) /\ UNCHANGED saved
       \/ Fails /\ Revert

\* scutil sets a key of its own.
SetKey ==
    /\ at = "apply" /\ ServersOf[goal] # {} /\ backend = "scutil"
    /\ \/ Succeeds /\ link' = LinkWith(ServersOf[goal]) /\ UNCHANGED saved
       \/ Fails /\ UNCHANGED <<link, lost>>

\* WindowsDnsLease::apply reads the current setting and writes the new one.
SetInterface ==
    /\ at = "apply" /\ ServersOf[goal] # {} /\ backend = "windows"
    /\ \/ /\ Succeeds
          /\ link' = LinkWith(ServersOf[goal])
          /\ saved' \in {link.servers, {}}     \* what could be read
       \/ Fails /\ UNCHANGED <<link, lost>>

\* DnsRuntime::deactivate, at the end of a session.
Deactivated ==
    /\ at = "up"
    /\ DropLease
    /\ running' = FALSE /\ at' = "down"
    /\ UNCHANGED <<hostVars, saved, physical, usable, inForce, goal, retrying,
                   tries, changes>>

\* Drop for DnsRuntime deactivates once more, when the command ends.
DropRuntime ==
    /\ at = "down"
    /\ DropLease
    /\ at' = "gone"
    /\ UNCHANGED <<hostVars, saved, runtimeVars, goal, retrying, tries, changes>>

PlatformInit ==
    /\ backend \in Backends /\ ipv6 \in BOOLEAN
    /\ original = LinkWith({}) /\ link = original
    /\ held = Free /\ saved = {} /\ lost = FALSE
    /\ physical = HostResolvers /\ Cardinality(HostResolvers) <= MaxPhysical
    /\ usable = physical /\ inForce = FirstPlan /\ running = FALSE
    /\ at = "down" /\ goal = FirstPlan /\ retrying = FALSE
    /\ tries = 0 /\ changes = 0

PlatformDone == at = "gone" /\ UNCHANGED platformVars

PlatformNext ==
    \/ Activate \/ UpdatePlan \/ DropPrevious \/ ApplyNothing \/ NoBackend
    \/ SetServers \/ SetDomain \/ SetDefault \/ AddResolvconf \/ SetKey
    \/ SetInterface \/ Deactivated \/ DropRuntime \/ PlatformDone

PlatformSpec == PlatformInit /\ [][PlatformNext]_platformVars

-----------------------------------------------------------------------------
(* Properties. *)

\* Between calls the link is set up completely for the policy whose lease is
\* held, and untouched when none is, whichever commands failed on the way; so
\* it is as it was found when the command ends.  Only a revert that fails
\* leaves anything behind.
LeaseExact ==
    at \in {"up", "down", "gone"} /\ ~ lost =>
        link = IF held = Free THEN original ELSE Configured(held)

\* While a policy is in force the relay never asks a server of the tunnel,
\* nor one over IPv6 when that is blocked, after a failed change either.
RelayAvoidsTunnel ==
    at = "up" => /\ usable \cap ServersOf[inForce] = {}
                 /\ ipv6 \/ usable \cap Ipv6Resolvers = {}
                 /\ held \in {inForce, Free}

\* The host's DNS is either its own or the session's.
PlatformSound == LeaseExact /\ RelayAvoidsTunnel

\* "Physical resolvers are captured before OpeniWAN changes platform DNS"
\* (docs/CONFIGURATION.md): as long as every revert works, the relay asks the
\* host's resolvers only.
SnapshotBeforeChange == ~ lost => usable \subseteq HostResolvers

=============================================================================
