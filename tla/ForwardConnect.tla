--------------------------- MODULE ForwardConnect ---------------------------
(***************************************************************************)
(* TcpConnector (src/src/bin/openiwan/forward.rs) with lookup of           *)
(* src/src/dns/transport.rs: preflight once, then any number of connection *)
(* tasks that share the cached resolution, the lock around it and the flag *)
(* that says the userspace stack has a default route.                      *)
(*                                                                         *)
(* Time is kept as what is left: of a call's budget, of the timer it       *)
(* awaits, of the cached resolution's life.  A tick is a millisecond, and  *)
(* timers are served when they expire.  Addresses are counted.             *)
(***************************************************************************)
EXTENDS Integers

CONSTANTS
    Tasks,         \* the connection tasks
    Preflight,     \* the call made before there are any
    Budget,        \* --connect-timeout
    QueryTimeout,  \* dns.timeout, for one query
    MinTtl, MaxTtl,
    MaxHops,       \* MAX_CNAME_DEPTH
    MaxServers,    \* bound: DNS servers of the session's family
    MaxAddresses   \* bound: addresses in a resolution

ASSUME ForwardConnectAssumption ==
    /\ Preflight \notin Tasks
    /\ Budget \in Nat \ {0} /\ QueryTimeout \in Nat \ {0} /\ MaxHops \in Nat \ {0}
    /\ MinTtl \in Nat /\ MaxTtl \in Nat /\ MinTtl <= MaxTtl
    /\ MaxServers \in Nat /\ MaxAddresses \in Nat

Calls == Tasks \cup {Preflight}

VARIABLES
    via,       \* "fixed", "system" or "tunnel": how the target is resolved
    resolvers, \* DNS servers of the session's family
    flag,      \* synthetic_route
    route,     \* the stack has a default route
    lock,      \* holder of dns_cache, or "free"
    cache,     \* [addresses, life]; 0 addresses when there is none
    call,      \* per call, see Resting
    phase      \* "preflight", "serving", "stopped"

connectorVars == <<via, resolvers, flag, route, lock, cache, call, phase>>

NoCache == [addresses |-> 0, life |-> 0]

\* pc; what is left of the budget and of the timer; the purpose of the route
\* being ensured; the server and the CNAME hop; the addresses and how many of
\* them were tried; whether each could have had a tick.
Resting == [pc |-> "rest", left |-> 0, timer |-> 0, purpose |-> "query", server |-> 0,
            hop |-> 0, addresses |-> 0, tried |-> 0, ample |-> FALSE]

Become(c, r) == call' = [call EXCEPT ![c] = r]
Failed(c) == [call[c] EXCEPT !.pc = "failed", !.timer = 0]
Unlock(c) == lock' = IF lock = c THEN "free" ELSE lock

-----------------------------------------------------------------------------
(* Resolving. *)

\* timeout(self.timeout, self.resolve()).
Start(c) ==
    /\ call[c].pc \in {"rest", "failed", "connected"}
    /\ IF c = Preflight THEN phase = "preflight" /\ call[c].pc = "rest" ELSE phase = "serving"
    /\ Become(c, [Resting EXCEPT !.pc = "resolve", !.left = Budget])
    /\ UNCHANGED <<via, resolvers, flag, route, lock, cache, phase>>

\* With addresses at hand the route to the next one is ensured.
WithAddresses(c, n) ==
    IF n = 0 THEN Failed(c)
    ELSE [call[c] EXCEPT !.pc = "ensure", !.purpose = "attempt", !.addresses = n,
                         !.server = 0, !.hop = 0, !.timer = 0, !.ample = call[c].left >= n]

\* A target that is an address; normalize_addresses drops the other family.
ResolveFixed(c) ==
    /\ call[c].pc = "resolve" /\ via = "fixed"
    /\ \E n \in {0, 1} : Become(c, WithAddresses(c, n))
    /\ UNCHANGED <<via, resolvers, flag, route, lock, cache, phase>>

Fresh == cache # NoCache /\ cache.life > 0

\* The lock is taken; a fresh resolution is used, otherwise it is kept while
\* the first server, or the host's resolver, is asked.
TakeLock(c) ==
    /\ call[c].pc = "resolve" /\ via # "fixed" /\ lock = "free"
    /\ IF Fresh
         THEN Become(c, WithAddresses(c, cache.addresses)) /\ UNCHANGED lock
         ELSE IF via = "tunnel" /\ resolvers = 0
         THEN Become(c, Failed(c)) /\ UNCHANGED lock
         ELSE /\ lock' = c
              /\ Become(c, IF via = "tunnel"
                           THEN [call[c] EXCEPT !.pc = "ensure", !.server = 1]
                           ELSE [call[c] EXCEPT !.pc = "query", !.timer = call[c].left])
    /\ UNCHANGED <<via, resolvers, flag, route, cache, phase>>

\* clamp_dns_ttl.
ClampTtl(ttl) == IF ttl < MinTtl THEN MinTtl ELSE IF ttl > MaxTtl THEN MaxTtl ELSE ttl

\* Addresses of the session's family: they are cached and the lock is freed.
\* The host's answers live SYSTEM_DNS_TTL, which is between the two limits.
QueryAnswers(c) ==
    /\ call[c].pc = "query"
    /\ \E n \in 1..MaxAddresses, ttl \in 0..(MaxTtl + 1) :
          /\ cache' = [addresses |-> n, life |-> ClampTtl(ttl)]
          /\ Become(c, WithAddresses(c, n))
    /\ Unlock(c)
    /\ UNCHANGED <<via, resolvers, flag, route, phase>>

\* lookup asks again for the canonical name, up to MAX_CNAME_DEPTH times.
QueryCname(c) ==
    /\ call[c].pc = "query" /\ via = "tunnel" /\ call[c].hop + 1 < MaxHops
    /\ Become(c, [call[c] EXCEPT !.hop = @ + 1, !.timer = QueryTimeout])
    /\ UNCHANGED <<via, resolvers, flag, route, lock, cache, phase>>

\* An error, silence, a loop or a chain that is too long: the next server is
\* asked, and after the last one resolving fails.
QueryFails(c) ==
    /\ call[c].pc = "query"
    /\ IF via = "tunnel" /\ call[c].server < resolvers
         THEN /\ Become(c, [call[c] EXCEPT !.pc = "ensure", !.server = @ + 1, !.hop = 0,
                                           !.timer = 0])
              /\ UNCHANGED lock
         ELSE Become(c, Failed(c)) /\ Unlock(c)
    /\ UNCHANGED <<via, resolvers, flag, route, cache, phase>>

\* The timeout cancels resolve where it waits, and the guard is dropped.
ResolveTimesOut(c) ==
    /\ call[c].pc \in {"resolve", "query"} /\ call[c].left = 0
    /\ Become(c, Failed(c))
    /\ Unlock(c)
    /\ UNCHANGED <<via, resolvers, flag, route, cache, phase>>

-----------------------------------------------------------------------------
(* ensure_userspace_route: the flag first, then the route. *)

\* Mutant: the first address gets all that is left.
ShareAll(left, attempts) == left

\* An equal share of the rest, at least a millisecond.
Share(left, attempts) ==
    LET part == left \div attempts
    IN  IF part = 0 THEN 1 ELSE part

\* What follows when there is a route.  The check that time is left follows
\* ensuring the route.
Routed(c) ==
    IF call[c].purpose = "query"
      THEN [call[c] EXCEPT !.pc = "query", !.timer = QueryTimeout]
      ELSE IF c = Preflight THEN [call[c] EXCEPT !.pc = "connected"]
      ELSE IF call[c].left = 0 THEN Failed(c)
      ELSE [call[c] EXCEPT !.pc = "attempt", !.tried = @ + 1,
                !.timer = Share(call[c].left, call[c].addresses - call[c].tried)]

\* Mutant: preflight does not install the route.
EnsureRouteSkipped(c) ==
    /\ call[c].pc = "ensure"
    /\ IF flag \/ (c = Preflight /\ call[c].purpose = "attempt")
         THEN Become(c, Routed(c)) /\ UNCHANGED flag
         ELSE Become(c, [call[c] EXCEPT !.pc = "add"]) /\ flag' = TRUE
    /\ UNCHANGED <<via, resolvers, route, lock, cache, phase>>

\* swap(true).
EnsureRoute(c) ==
    /\ call[c].pc = "ensure"
    /\ IF flag THEN Become(c, Routed(c)) /\ UNCHANGED flag
       ELSE Become(c, [call[c] EXCEPT !.pc = "add"]) /\ flag' = TRUE
    /\ UNCHANGED <<via, resolvers, route, lock, cache, phase>>

AddRoute(c) ==
    /\ call[c].pc = "add"
    /\ route' = TRUE
    /\ Become(c, Routed(c))
    /\ UNCHANGED <<via, resolvers, flag, lock, cache, phase>>

\* The routing table refuses; the flag is taken back and the call fails.
AddRouteFails(c) ==
    /\ call[c].pc = "add"
    /\ flag' = FALSE
    /\ Become(c, Failed(c))
    /\ Unlock(c)
    /\ UNCHANGED <<via, resolvers, route, cache, phase>>

-----------------------------------------------------------------------------
(* Connecting. *)

\* tcp_connect and, for HTTPS, the handshake.
AttemptConnects(c) ==
    /\ call[c].pc = "attempt"
    /\ Become(c, [call[c] EXCEPT !.pc = "connected", !.timer = 0])
    /\ UNCHANGED <<via, resolvers, flag, route, lock, cache, phase>>

\* An error at any time, a timeout when the timer has run out.
AttemptEnds(c) ==
    /\ call[c].pc = "attempt"
    /\ Become(c, IF call[c].tried = call[c].addresses THEN Failed(c)
                 ELSE [call[c] EXCEPT !.pc = "ensure", !.timer = 0])
    /\ UNCHANGED <<via, resolvers, flag, route, lock, cache, phase>>

PreflightDone ==
    /\ phase = "preflight" /\ call[Preflight].pc \in {"connected", "failed"}
    /\ phase' = IF call[Preflight].pc = "connected" THEN "serving" ELSE "stopped"
    /\ call' = [call EXCEPT ![Preflight] = [Resting EXCEPT !.pc = "done"]]
    /\ UNCHANGED <<via, resolvers, flag, route, lock, cache>>

-----------------------------------------------------------------------------

\* A millisecond passes unless a timer is due or a call is between two awaits.
Due(c) == \/ call[c].pc \in {"ensure", "add"}
          \/ call[c].pc \in {"query", "attempt"} /\ call[c].timer = 0
          \/ call[c].pc \in {"resolve", "query"} /\ call[c].left = 0

Less(n) == IF n = 0 THEN 0 ELSE n - 1

Millisecond ==
    /\ \A c \in Calls : ~ Due(c)
    /\ call' = [c \in Calls |->
                   IF call[c].pc \in {"rest", "failed", "connected", "done"} THEN call[c]
                   ELSE [call[c] EXCEPT !.left = Less(@), !.timer = Less(@)]]
    /\ cache' = [cache EXCEPT !.life = Less(@)]
    /\ UNCHANGED <<via, resolvers, flag, route, lock, phase>>

\* resolve_uncached: Auto is the tunnel when there are servers and the host
\* otherwise.  A session with a gateway brings its route.
ConnectorInit ==
    /\ via \in {"fixed", "system", "tunnel"}
    /\ resolvers \in (IF via = "tunnel" THEN 0..MaxServers ELSE {0})
    /\ route \in BOOLEAN /\ flag = route
    /\ lock = "free" /\ cache = NoCache /\ phase = "preflight"
    /\ call = [c \in Calls |-> Resting]

CallStep(c) ==
    \/ Start(c) \/ ResolveFixed(c) \/ TakeLock(c) \/ QueryAnswers(c) \/ QueryCname(c)
    \/ QueryFails(c) \/ ResolveTimesOut(c) \/ EnsureRoute(c) \/ AddRoute(c)
    \/ AddRouteFails(c) \/ AttemptConnects(c) \/ AttemptEnds(c)

ConnectorNext == (\E c \in Calls : CallStep(c)) \/ PreflightDone \/ Millisecond

ConnectorSpec == ConnectorInit /\ [][ConnectorNext]_connectorVars

-----------------------------------------------------------------------------

\* Nothing is sent into the userspace stack, neither a query nor a connection,
\* before it has a route, although the flag is raised before the route is
\* there and other tasks then go ahead: preflight is alone when it installs it.
RouteReady ==
    \A c \in Calls :
        call[c].pc = "attempt" \/ (call[c].pc = "query" /\ via = "tunnel") => route

\* An address that swallows packets does not use up a connection's budget: a
\* call with a tick for each address fails only after it tried all of them, and
\* no attempt is given more than the budget has left.  And no lock is left
\* behind by a call that failed or was cancelled.
FairShare ==
    /\ \A c \in Tasks :
          /\ call[c].pc = "failed" /\ call[c].addresses > 0 /\ call[c].ample =>
                 call[c].tried = call[c].addresses
          /\ call[c].pc = "attempt" => call[c].timer <= call[c].left
    /\ lock # "free" => call[lock].pc \in {"query", "ensure", "add"}

\* Concurrent calls of the forwarder never get ahead of the route, no address
\* of a call takes the share of the later ones, and no lock stays behind.  DNS
\* servers have no such share: they are asked in turn under the lock, and silent
\* ones may use up the budget of the call that holds it and of the calls that
\* wait for it, which then fail without an address.
CallsSound == RouteReady /\ FairShare

=============================================================================
