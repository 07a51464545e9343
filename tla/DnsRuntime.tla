----------------------------- MODULE DnsRuntime -----------------------------
(***************************************************************************)
(* DnsRuntime, DnsPacketDevice and DnsRelay (src/src/dns/runtime.rs,       *)
(* relay.rs): split DNS inside a session.                                  *)
(*                                                                         *)
(*   owner    the session thread: activate, deactivate, and the callers    *)
(*            of update_policy between them                                *)
(*   reader   the packet sender, inside DnsPacketDevice::read_packet; the  *)
(*            session joins it before deactivate_session                   *)
(*   workers  one thread per relayed query                                 *)
(*                                                                         *)
(* Queries are numbered and stand for their workers.  DNS messages are     *)
(* left out: an exchange with a resolver yields a valid response or not.   *)
(***************************************************************************)
EXTENDS Integers, FiniteSets

CONSTANTS
    Policies,     \* effective policies; the runtime starts with Initial
    Initial,
    MaxWorkers,   \* RelayConfig::max_concurrent
    MaxResolvers, \* bound: physical resolvers found
    MaxQueries,   \* bound: queries read that the policy relays
    MaxSessions,  \* bound: activations
    MaxUpdates    \* bound: calls of update_policy

ASSUME DnsRuntimeAssumption ==
    /\ Initial \in Policies
    /\ MaxWorkers \in Nat \ {0} /\ MaxResolvers \in Nat /\ MaxQueries \in Nat
    /\ MaxSessions \in Nat /\ MaxUpdates \in Nat

VARIABLES
    owner,      \* program counter of the session thread
    session,    \* sessions activated so far
    updates,    \* calls of update_policy so far
    next,       \* the policy being activated; Initial when there is none
    active,     \* DnsRuntime::active
    policy,     \* DnsRuntime::policy
    lease,      \* DnsRuntime::lease: the policy applied, or "none"
    resolvers,  \* DnsRelay::resolvers: how many
    gen,        \* DnsRelay::generation
    reader,     \* program counter of the reader
    query,      \* queries read so far; the reader's current one
    born,       \* query -> [session, gen] when it was read
    slots,      \* DnsRuntime::worker_count
    handles,    \* DnsRuntime::workers: queries whose handle is in the list
    worker,     \* query -> [pc, gen, left] of its worker; 0 when unused
    permits,    \* DnsRelay::active
    fate        \* query -> how it ended: "passed" on, "tried", "interrupted",
                \* "silent"

ownerVars  == <<owner, session, updates, next>>
policyVars == <<active, policy, lease, resolvers, gen>>
readerVars == <<reader, query, born>>
poolVars   == <<slots, handles, worker, permits, fate>>
vars == <<ownerVars, policyVars, readerVars, poolVars>>

Queries == 1..MaxQueries
Live == {q \in Queries : worker[q].pc \notin {"none", "done"}}
End(q, f) == fate' = [fate EXCEPT ![q] = f]

\* An answer is tried: whether its packet can be built and written is logged
\* at most, and nothing else depends on it.
Try(q) == End(q, "tried")

-----------------------------------------------------------------------------
(* activate_policy, under the lease's mutex, one shared cell at a time. *)

Begin(p) ==
    /\ next' = p
    /\ lease' = "none"                   \* take and drop the previous lease
    /\ owner' = "apply"
    /\ UNCHANGED <<active, policy, resolvers, gen, readerVars, poolVars>>

\* DnsPacketDevice::activate_session, then DnsRuntime::activate.
ActivateSession ==
    /\ owner = "idle" /\ session < MaxSessions
    /\ session' = session + 1
    /\ \E p \in Policies : Begin(p)
    /\ UNCHANGED updates

UpdatePolicy ==
    /\ owner = "active" /\ updates < MaxUpdates
    /\ updates' = updates + 1
    /\ \E p \in Policies : Begin(p)
    /\ UNCHANGED session

\* PlatformDnsLease::apply succeeds, or fails and the previous policy's
\* servers are applied again, which may fail too.
ApplyLease ==
    /\ owner = "apply"
    /\ \/ owner' = "policy" /\ UNCHANGED <<next, lease>>
       \/ /\ owner' = IF active THEN "active" ELSE "idle"
          /\ lease' \in {policy, "none"}
          /\ next' = Initial
    /\ UNCHANGED <<session, updates, active, policy, resolvers, gen,
                   readerVars, poolVars>>

StorePolicy ==
    /\ owner = "policy"
    /\ policy' = next /\ next' = Initial
    /\ owner' = "resolvers"
    /\ UNCHANGED <<session, updates, active, lease, resolvers, gen,
                   readerVars, poolVars>>

\* update_resolvers, first half: what the host has, less the tunnel servers.
StoreResolvers ==
    /\ owner = "resolvers"
    /\ resolvers' \in 0..MaxResolvers
    /\ owner' = "generation"
    /\ UNCHANGED <<session, updates, next, active, policy, lease, gen,
                   readerVars, poolVars>>

NextGeneration ==
    /\ owner = "generation"
    /\ gen' = gen + 1
    /\ owner' = "lease"
    /\ UNCHANGED <<session, updates, next, active, policy, lease, resolvers,
                   readerVars, poolVars>>

\* The lease is stored and the runtime made active; the session starts its
\* packet sender on the first activation.
FinishActivation ==
    /\ owner = "lease"
    /\ lease' = policy
    /\ active' = TRUE
    /\ reader' = IF reader = "none" THEN "read" ELSE reader
    /\ owner' = "active"
    /\ UNCHANGED <<session, updates, next, policy, resolvers, gen, query,
                   born, poolVars>>

-----------------------------------------------------------------------------
(* deactivate. *)

\* Mutant: the device is deactivated before the packet sender is joined.
EndSessionEarly ==
    /\ owner = "active"
    /\ active' = FALSE
    /\ owner' = "reset"
    /\ UNCHANGED <<session, updates, next, policy, lease, resolvers, gen,
                   readerVars, poolVars>>

\* The session joins its packet sender, which is then between two reads, and
\* calls deactivate_session: active is cleared first.
EndSession ==
    /\ owner = "active" /\ reader = "read"
    /\ reader' = "none"
    /\ active' = FALSE
    /\ owner' = "reset"
    /\ UNCHANGED <<session, updates, next, policy, lease, resolvers, gen,
                   query, born, poolVars>>

ResetGeneration ==
    /\ owner = "reset"
    /\ gen' = gen + 1
    /\ owner' = "join"
    /\ UNCHANGED <<session, updates, next, active, policy, lease, resolvers,
                   readerVars, poolVars>>

\* Mutant: finished workers are polled, but never taken off the list.
JoinWorkersPolling ==
    /\ owner = "join"
    /\ IF handles = {}
         THEN /\ owner' = "release"
              /\ UNCHANGED <<session, updates, next, policyVars, readerVars,
                             poolVars>>
         ELSE UNCHANGED vars

\* The list is taken and every worker in it joined.
JoinWorkers ==
    /\ owner = "join" /\ \A q \in handles : worker[q].pc = "done"
    /\ handles' = {}
    /\ owner' = "release"
    /\ UNCHANGED <<session, updates, next, policyVars, readerVars, slots,
                   worker, permits, fate>>

ReleaseLease ==
    /\ owner = "release"
    /\ lease' = "none"
    /\ owner' = "idle"
    /\ UNCHANGED <<session, updates, next, active, policy, resolvers, gen,
                   readerVars, poolVars>>

-----------------------------------------------------------------------------
(* DnsPacketDevice::read_packet and spawn_relay. *)

\* A query the policy relays is read; an inactive runtime passes it on.
ReadQuery ==
    /\ reader = "read" /\ query < MaxQueries
    /\ query' = query + 1
    /\ born' = [born EXCEPT ![query'] = [session |-> session, gen |-> gen]]
    /\ IF active THEN reader' = "check" /\ UNCHANGED fate
                 ELSE reader' = "read" /\ End(query', "passed")
    /\ UNCHANGED <<ownerVars, policyVars, slots, handles, worker, permits>>

\* No physical resolver: the query goes through the tunnel.
CheckResolvers ==
    /\ reader = "check"
    /\ IF resolvers = 0 THEN reader' = "read" /\ End(query, "passed")
                        ELSE reader' = "acquire" /\ UNCHANGED fate
    /\ UNCHANGED <<ownerVars, policyVars, query, born, slots, handles,
                   worker, permits>>

\* Mutant: a query that finds the pool full is dropped.
AcquireWorkerSilently ==
    /\ reader = "acquire"
    /\ handles' = {q \in handles : worker[q].pc # "done"}
    /\ IF slots < MaxWorkers
         THEN reader' = "recheck" /\ slots' = slots + 1 /\ UNCHANGED fate
         ELSE reader' = "read" /\ End(query, "silent") /\ UNCHANGED slots
    /\ UNCHANGED <<ownerVars, policyVars, query, born, worker, permits>>

\* reap_workers and try_acquire_worker; a full pool answers SERVFAIL.
AcquireWorker ==
    /\ reader = "acquire"
    /\ handles' = {q \in handles : worker[q].pc # "done"}
    /\ IF slots < MaxWorkers
         THEN reader' = "recheck" /\ slots' = slots + 1 /\ UNCHANGED fate
         ELSE reader' = "read" /\ UNCHANGED slots /\ Try(query)
    /\ UNCHANGED <<ownerVars, policyVars, query, born, worker, permits>>

\* The resolvers are gone by now: the slot is given back, the query dropped.
RecheckResolvers ==
    /\ reader = "recheck"
    /\ IF resolvers = 0
         THEN reader' = "read" /\ slots' = slots - 1 /\ End(query, "silent")
         ELSE reader' = "load" /\ UNCHANGED <<slots, fate>>
    /\ UNCHANGED <<ownerVars, policyVars, query, born, handles, worker,
                   permits>>

\* The generation the worker will be held to.
LoadGeneration ==
    /\ reader = "load"
    /\ reader' = "spawn"
    /\ worker' = [worker EXCEPT ![query].gen = gen]
    /\ UNCHANGED <<ownerVars, policyVars, query, born, slots, handles,
                   permits, fate>>

\* Mutant: a failed spawn keeps its slot.
SpawnFailsKeepingSlot ==
    /\ reader = "spawn"
    /\ reader' = "read"
    /\ Try(query)
    /\ UNCHANGED <<ownerVars, policyVars, query, born, slots, handles, worker,
                   permits>>

SpawnFails ==
    /\ reader = "spawn"
    /\ reader' = "read"
    /\ slots' = slots - 1
    /\ Try(query)
    /\ UNCHANGED <<ownerVars, policyVars, query, born, handles, worker,
                   permits>>

\* The worker runs before its handle is in the list.
Spawn ==
    /\ reader = "spawn"
    /\ reader' = "push"
    /\ worker' = [worker EXCEPT ![query].pc = "permit"]
    /\ UNCHANGED <<ownerVars, policyVars, query, born, slots, handles,
                   permits, fate>>

PushHandle ==
    /\ reader = "push"
    /\ handles' = handles \cup {query}
    /\ reader' = "read"
    /\ UNCHANGED <<ownerVars, policyVars, query, born, slots, worker, permits,
                   fate>>

-----------------------------------------------------------------------------
(* A worker: relay, then the reply. *)

Goto(q, pc) == worker' = [worker EXCEPT ![q].pc = pc]
Frame == UNCHANGED <<ownerVars, policyVars, readerVars, handles>>

\* DnsRelay::acquire; no permit is an error, answered with SERVFAIL.
TakePermit(q) ==
    /\ worker[q].pc = "permit"
    /\ IF permits < MaxWorkers
         THEN Goto(q, "start") /\ permits' = permits + 1
         ELSE Goto(q, "servfail") /\ UNCHANGED permits
    /\ UNCHANGED <<slots, fate>> /\ Frame

\* relay returns: its permit is dropped before the reply is written.
Leave(q, pc) ==
    /\ worker' = [worker EXCEPT ![q] = [pc |-> pc, gen |-> 0, left |-> 0]]
    /\ permits' = permits - 1

\* The first generation test.
Start(q) ==
    /\ worker[q].pc = "start"
    /\ IF worker[q].gen # gen THEN Leave(q, "discard")
                             ELSE Goto(q, "snapshot") /\ UNCHANGED permits
    /\ UNCHANGED <<slots, fate>> /\ Frame

\* The resolvers are taken as they are now; an empty list is an error.
Snapshot(q) ==
    /\ worker[q].pc = "snapshot"
    /\ IF resolvers = 0 THEN Leave(q, "servfail")
       ELSE /\ worker' = [worker EXCEPT ![q].pc = "ask",
                                        ![q].left = resolvers]
            /\ UNCHANGED permits
    /\ UNCHANGED <<slots, fate>> /\ Frame

\* One turn of the loop over the resolvers: the generation is tested, then
\* the exchange yields a valid response, or an error or an invalid response
\* moves on to the next resolver.  The last resolver's error is the result: a
\* send or recv that a signal interrupted has the kind that stands for a
\* change of generation.  A query that cannot be encoded asks nobody.
Ask(q) ==
    /\ worker[q].pc = "ask"
    /\ \/ worker[q].gen # gen /\ Leave(q, "discard")
       \/ /\ worker[q].gen = gen
          /\ worker' = [worker EXCEPT ![q].pc = "answered", ![q].left = 0]
          /\ UNCHANGED permits
       \/ /\ worker[q].gen = gen /\ worker[q].left > 1
          /\ worker' = [worker EXCEPT ![q].left = @ - 1]
          /\ UNCHANGED permits
       \/ worker[q].gen = gen /\ Leave(q, "servfail")
       \/ worker[q].gen = gen /\ worker[q].left = 1 /\ Leave(q, "interrupted")
    /\ UNCHANGED <<slots, fate>> /\ Frame

\* The generation is tested once more before the response is returned; one
\* that cannot be encoded or is too long is an error.
Answered(q) ==
    /\ worker[q].pc = "answered"
    /\ IF worker[q].gen # gen THEN Leave(q, "discard")
                             ELSE Leave(q, "reply") \/ Leave(q, "servfail")
    /\ UNCHANGED <<slots, fate>> /\ Frame

\* The reply or SERVFAIL is tried, or the query is discarded without one;
\* then the WorkerCounter is dropped.
Finish(q) ==
    /\ \/ worker[q].pc \in {"reply", "servfail"} /\ Try(q)
       \/ worker[q].pc = "discard" /\ End(q, "silent")
       \/ worker[q].pc = "interrupted" /\ End(q, "interrupted")
    /\ slots' = slots - 1
    /\ Goto(q, "done")
    /\ UNCHANGED permits /\ Frame

Worker(q) == \/ TakePermit(q) \/ Start(q) \/ Snapshot(q) \/ Ask(q)
             \/ Answered(q) \/ Finish(q)

-----------------------------------------------------------------------------

Init ==
    /\ owner = "idle" /\ session = 0 /\ updates = 0 /\ next = Initial
    /\ active = FALSE /\ policy = Initial /\ lease = "none"
    /\ resolvers \in 0..MaxResolvers /\ gen = 1
    /\ reader = "none" /\ query = 0
    /\ born = [q \in Queries |-> [session |-> 0, gen |-> 0]]
    /\ slots = 0 /\ handles = {} /\ permits = 0
    /\ worker = [q \in Queries |-> [pc |-> "none", gen |-> 0, left |-> 0]]
    /\ fate = [q \in Queries |-> "none"]

Activation == ApplyLease \/ StorePolicy \/ StoreResolvers \/ NextGeneration
              \/ FinishActivation
Deactivation == ResetGeneration \/ JoinWorkers \/ ReleaseLease
Reader == \/ CheckResolvers \/ AcquireWorker \/ RecheckResolvers
          \/ LoadGeneration \/ SpawnFails \/ Spawn \/ PushHandle

Done == owner = "idle" /\ session = MaxSessions /\ UNCHANGED vars

Next == \/ ActivateSession \/ UpdatePolicy \/ Activation
        \/ EndSession \/ Deactivation \/ ReadQuery \/ Reader
        \/ \E q \in Queries : Worker(q)
        \/ Done

\* Every thread runs; an exchange ends because its sockets have timeouts.
Fairness == /\ WF_vars(Activation) /\ WF_vars(Deactivation) /\ WF_vars(Reader)
            /\ \A q \in Queries : WF_vars(Worker(q))

Spec == Init /\ [][Next]_vars
FairSpec == Spec /\ Fairness

-----------------------------------------------------------------------------
(* Properties. *)

\* No worker outlives its session, so no reply can enter the next one
\* ("replies from an old session cannot enter a new one",
\* docs/ARCHITECTURE.md): between sessions no worker is alive, and a live
\* one belongs to the session that is up.
WorkersInsideSession ==
    \A q \in Live : born[q].session = session /\ owner \notin {"release", "idle"}

\* The slots taken are the live workers and the one being spawned, never more
\* than the limit: no failed spawn, lost resolver or finished worker leaks a
\* slot or frees one twice.
SlotsAccounted ==
    /\ slots <= MaxWorkers
    /\ slots = Cardinality(Live)
               + (IF reader \in {"recheck", "load", "spawn"} THEN 1 ELSE 0)

\* The relay has the same limit as the worker pool and gives its permit back
\* first, so a worker never finds the relay full.
PermitsSuffice ==
    /\ permits = Cardinality({q \in Live :
                        worker[q].pc \in {"start", "snapshot", "ask", "answered"}})
    /\ \A q \in Live : worker[q].pc = "permit" => permits < MaxWorkers

\* The two limits of the pool are counted exactly, whatever fails, ends or is
\* discarded in whatever order.
PoolAccounted == SlotsAccounted /\ PermitsSuffice

\* The workers stay within their session and within the limits of the pool.
PoolSound == WorkersInsideSession /\ PoolAccounted

\* No answer is tried for a query only when the policy changed, or the session
\* ended, after it was read - or when a signal interrupts the exchange with
\* its last resolver, which the worker cannot tell from such a change.  Whether
\* an answer that is tried arrives is up to the device.
SilenceMeansChange ==
    \A q \in Queries : fate[q] = "silent" =>
        born[q].gen < gen \/ owner = "generation"

\* Deactivation is not held up for good by the queries in flight.
DeactivationEnds == owner = "reset" ~> owner = "idle"

=============================================================================
