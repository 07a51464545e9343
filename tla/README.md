# A TLA+ verification project for openiwan

openiwan is an iWAN (SD-WAN) client: it authenticates to a server over UDP,
carries IP packets between a TUN device and the server, supervises the
connection, reconnects, and owns the host's routes and DNS settings while it
runs. Around that core, "managed" commands find a controller for a domain,
authenticate a user, and choose a line; profiles and credentials are kept on
disk and in the operating system's credential store.

The modules in this directory model the parts in which the order of steps
decides whether the program is right. Each `MC*.tla` module, with its `.cfg`
files, checks some of them with TLC on a small instance; each `*Proofs.tla`
module proves results for every value of the constants with TLAPS.
`PROJECT.json` lists the components, the runs, which source lines every
definition stands for, the hazards, and the findings. Source paths below are
relative to the repository.

## 1. Inventory

| Component (source) | State | Operations | Hard behaviour | What makes it correct |
|---|---|---|---|---|
| iWAN session (`src/client.rs`) | `running` flag, failure channel, close-sent flag, heartbeat and SR counters, activation of the device | `run`, `receive_loop`, packet sender, heartbeat or SR worker | three threads sharing a flag and a channel without a lock; time | one CLOSE, joins before deactivation, no early timeout, the session ends when it has a reason to |
| Reconnecting loop (`src/client.rs`) | attempts left, delay, first assignment | `run_reconnecting_inner` | shutdown at any point, assignment that changes | budget, no leaked server session, final ends are final |
| Authentication (`src/client.rs`) | nonce, deadline | `authenticate`, `authenticate_once` | late, lost, repeated answers | inside the budget, one server session |
| SR monitor (`src/sr.rs`) | last heard, counters, initial flag | request, respond, accept | lossy network, two ends | healthy peers stay up, death is noticed |
| SR packets (`src/sr.rs`), reassembly (`src/fragment.rs`) | tables of partial packets with byte counters | encode, decode, insert, purge, evict | reordering, reused IDs, limits | what is delivered is what was sent; counters are exact |
| Host routes (`src/tun.rs`) | installed changes | configure, drop | a command fails half way | the table is put back |
| Route policy (`src/tun.rs`, `src/bin/openiwan.rs`) | none | plan of prefixes | prefix arithmetic at the ends of the range | exactly the requested addresses |
| Connect command (`src/bin/openiwan.rs`) | device, routes, DNS lease, session | `run_client` | early returns, Ctrl-C anywhere | everything released, in order |
| DNS runtime, relay (`src/dns/runtime.rs`, `relay.rs`) | policy, generation, worker slots, permits, relay ID | activate, deactivate, update, relay a query | workers outliving the session, queue limits, IDs that wrap, UDP then TCP | slots and permits accounted, an answer belongs to its question |
| Platform DNS (`src/dns/platform.rs`) | the lease on the link, the physical resolvers | apply, revert, discover | commands that fail half way, retries over a link already changed | the link is the session's or the host's own |
| DNS policy, packets (`src/dns/policy.rs`, `packet.rs`) | profile layer, controller defaults | resolve, classify a packet | layers, modes and rules that overlap | exclusions hold, blocked names are answered |
| Domain lookup (`src/managed/lookup.rs`) | cache file | lookup | several processes, fallback endpoint, age | a fresh or a cached answer of the same domain |
| Managed workflow, posture, lines (`src/managed/workflow.rs`, `posture.rs`) | line list, latencies | probe, select | ties, SR primaries and failover | a usable line is chosen, runtime IDs distinct |
| Controller requests, keepalive (`src/managed/http.rs`, `security.rs`, `keepalive.rs`, `controller.rs`) | none here; the controller remembers nonces | fetch, report, retry | a lost answer to a request that was acted on | a retry is no replay, a 401 ends it |
| Managed authentication (`src/managed/auth.rs`, `password.rs`, `oidc.rs`) | tokens, state and nonce | password and OIDC login, refresh | callbacks of another process, refresh with rotation, no lock | a code is spent by who asked for it, the saved token stays usable |
| Credential storage (`src/bin/openiwan/credentials.rs`) | manifest and chunks in the OS store | save, delete, load | several calls that may fail or be cut short | a saved credential stays readable, no chunk is forgotten |
| Profiles (`src/bin/openiwan/state.rs`, `openiwan.rs`) | `profiles.toml` under a lock | profile commands, login, connect | work between an unlocked read and a locked update; kills and power failures while the file is replaced | no lost update, a credential goes only to its domain, a whole document at every moment |
| Forwarding (`src/bin/openiwan/forward.rs`, `http_forward.rs`) | connection tasks, tunnel task, DNS cache and route flag of a user-space stack | preflight, accept, connect, proxy HTTP, relay, finish | connections that never end, one budget for several servers and addresses, streamed responses on pooled connections | it returns and leaves nothing running; no address of a call uses up the time of the later ones; a response answers its own request; messages are rewritten cleanly |
| Codec (`src/protocol.rs`) | none | parse an answer's attributes | attributes at the end of the body, text before them | the client reads what the server wrote |
| Crypto, configuration (`src/crypto.rs`, `config.rs`) | none | pure conversions | none that depends on order | |

Interactions: the connect command drives the reconnecting loop with a device
that wraps the TUN in the DNS runtime; a session activates that device, and so
the DNS workers and the platform lease live inside a session; the first
session's answer decides the routes. A login writes a credential to the store
and then its ID into the profile, and a connect does the same when a refresh
token was rotated. `PROJECT.json` lists every hazard with the line at which it
bites.

## 2. Modules

| Module | Models | Composes |
|---|---|---|
| `SessionContract` | what a session promises its caller: activated, running, one CLOSE, a result with a cause | |
| `Session` | `ConnectedSession::run` and its threads, one action per load, store, channel or socket operation | implements `SessionContract` |
| `Reconnect` | `run_reconnecting_inner` | on `SessionContract` |
| `TunConnect` | `run_client`: device, routes, DNS lease and session, and their release | on `Reconnect` |
| `Forward` | `run_async`: listener, tunnel task, connection tasks, finishing | |
| `ForwardConnect` | `TcpConnector`: resolving under a lock, the route flag, one address after the other | |
| `HttpForward` | `HttpForwarder`: header rewriting, redirects, streamed responses on pooled connections, CA files | |
| `Authenticate` | OPEN, its answers, the time budget, and the server | |
| `OpenAnswer` | the attribute walk, OPEN_ACK and OPEN_REJECT, byte by byte | |
| `SrMonitor` | the SR monitor and the peer's responder over a network | |
| `SrReassembly` | the SR reassembler | |
| `SrTransfer` | splitting, inner encryption and MTU, sent through the reassembler | on `SrReassembly` |
| `TraditionalReassembly` | the two-part reassembler | |
| `RouteGuard` | `SystemRouteGuard` by the rules of Linux, macOS and Windows | |
| `RoutePolicy` | from the command line's and the controller's lists to prefixes | |
| `DnsRuntime` | runtime, worker pool, packet reader | |
| `DnsExchange` | a worker's exchange with the physical resolvers, UDP then TCP | |
| `PlatformDns` | the lease on each platform, command by command; discovery of resolvers | |
| `DnsPolicy` | defaults, profile and flags to a policy, and a packet's fate under it | |
| `LookupCache` | the lookup of a domain and its cache files, shared by processes | |
| `ManagedLogin` | authentication method, configuration, device binding, posture gate, probe session | |
| `ControllerCalls` | signed requests and keepalive reports, and a controller that refuses replays | |
| `OidcLogin` | sign-in and refresh of concurrent processes, and a provider that rotates tokens | |
| `LineSelection` | sanitising SR groups, runtime IDs, choosing a line by pinging | |
| `CredentialStore` | `save_to`, `delete_from`, `load_from`, call by call | |
| `ProfileStore` | the locked document and the commands that change it | |
| `StateFile` | how that document is replaced on a file system that may lose power | |
| `SessionProofs` | theorems about `Session` and its refinement of `SessionContract` | |
| `TunnelProofs` | theorems about `Reconnect`, `TunConnect`, `Forward`, `ForwardConnect` and `HttpForward` | |
| `NetworkProofs` | theorems about `Authenticate`, `OpenAnswer`, `SrMonitor`, `SrReassembly` and `SrTransfer` | `SumLemmas` |
| `DatapathProofs` | theorems about `RouteGuard`, `RoutePolicy`, `TraditionalReassembly` and `DnsPolicy` | `SumLemmas` |
| `DnsProofs` | theorems about `DnsExchange`, `PlatformDns` and `DnsRuntime` | |
| `ManagedProofs` | theorems about `ManagedLogin`, `ControllerCalls`, `OidcLogin`, `LineSelection`, `LookupCache` and `StateFile` | |
| `CredentialStoreProofs` | theorems about `CredentialStore` and `ProfileStore` | |
| `SumLemmas` | induction over numbers and finite sets; what the library's sums, sorted listings and flattened sequences are | |

TLC instances: `MCSession` (Session), `MCConnect` (TunConnect, Forward,
ForwardConnect, HttpForward), `MCNetwork` (Authenticate, OpenAnswer, SrMonitor,
SrTransfer), `MCDatapath` (RoutePolicy, RouteGuard, SrReassembly,
TraditionalReassembly, DnsPolicy), `MCDnsRuntime` (DnsRuntime, DnsExchange,
PlatformDns), `MCManaged` (LookupCache, ManagedLogin, ControllerCalls,
OidcLogin, LineSelection, CredentialStore, ProfileStore, StateFile) and
`MCStorage` (CredentialStore and ProfileStore, for the two findings about
them). Where an instance
has several modules they share no variable: a variable `part` chooses at the
start which of them runs while the others rest in one initial state, so the
state space is the sum of theirs and never a product.

Correspondence. A thread or process is a `pc` value and its actions are the
code between two points at which another thread can see or change something:
a load or store of an atomic, a channel operation, a system call, a lock, an
await. What the code does without such a point in between is one action,
including trailing clean-up. Time is a counter advanced by a tick; where a
variable is compared with "now", the model keeps its age or what is left,
capped just above the largest threshold. Packets, names, addresses and answers
are members of small sets; what parsing can say about them is a
nondeterministic outcome. Definitions keep the names of the functions they come
from where they can.

Deliberate simplifications:

* `Session` leaves packet contents out. A device read always returns: the TUN
  is non-blocking or has a timeout. Its modes are `traditional`, `sr_monitor`
  and `sr_quiet` (segment routing without a monitor).
* `CredentialStore`: one call on the operating system's store takes effect or
  fails without effect; generations are fresh numbers (UUIDs in the code);
  `load_from` is the predicate `Loads`.
* `ProfileStore`: the credential store's save, delete and load are one step
  each (their inside is `CredentialStore`); the default profile and the fields
  that play no role in authentication are left out; changed user names and
  Device IDs appear only as "something that invalidates was changed".
* `RoutePolicy` uses 3-bit and 1-bit addresses. The code's prefix arithmetic
  is the same for every width.
* `DnsRuntime`: one resolver exchange is one step that answers, times out,
  fails or is interrupted by a signal, as `DnsExchange` shows it does but for
  the signal. What can be told of a query is whether an answer was tried: a
  packet that cannot be built or written is logged at most
  (`src/dns/runtime.rs:213`, `233`, `244`, `259`), and nothing depends on it. `DnsExchange` leaves the tests of the
  generation to `DnsRuntime`; the network may deliver any answer to any request
  ever sent from a port, as long as a socket has that port and that peer.
* `PlatformDns`: a command takes effect or fails without one; calls are
  sequential, as a session makes them. A retried activation follows a failed
  one directly, because `run` returns before it would deactivate
  (`src/client.rs:403`).
* `DnsPolicy`: of a name and a rule's domain only their relation is kept (same,
  below, ends in it without a label boundary, apart); in one behaviour the
  flags are about one aspect (servers, split or encrypted DNS), since the
  aspects are resolved independently. Header layouts are left out.
* `HttpForward`: of a message its header names, the names its Connection
  headers list, readable or not, Host and Location; of a Location where it leads
  and whether it can be read. A body is under way or has been read. The pool is
  hyper's and external: what the code relies on is that a connection is idle
  only after a response was read to its end, that it is closed when its exchange
  is given up, and that the target answers the requests on it in order.
* `OpenAnswer`: a body is a sequence of bytes, with words of one byte instead of
  four; the header is its packet type.
* `SrTransfer`: a fragment ID comes round again only when no fragment that
  carries it is in flight or waits in a group (`IdIsFresh`); in the code 2^32
  packets lie in between.
* `ControllerCalls`: what a signature adds is its nonce; the controller refuses
  a nonce it knows and may revoke the token.
* `OidcLogin`: state, nonce and verifier of an authorization are one fresh
  number. A provider may or may not rotate; one that does revokes what it
  replaces. Loading and saving the account are one step each.
* `StateFile`: a file's content and a directory entry each have a value in
  memory and one on the disk; a power failure keeps either. A rename is atomic.
  A document is its version; what an update changes is in `ProfileStore`.
* `Forward`: what a connection task relays is left out; it is running or ended
  and may run forever. The tunnel task is `Reconnect`.
* `ForwardConnect`: addresses are counted, not named, and a query is one wait:
  the retry over TCP after a truncated UDP answer happens inside it, under the
  same timer. The user-space TCP/IP stack is external.
* `LookupCache`: files are names that denote inodes, as the file system keeps
  them; two writers of one inode leave the last content or one that does not
  parse. The clock does not step back.
* `LineSelection`: 0 stands for every entry ID that is not a positive `u32`; a
  ping is its lowest latency or silence.

## 3. Runs

Expected to pass:

| Run | Bounds | Shows |
|---|---|---|
| `session` | heartbeat interval 2, 3 misses, timeout 6, peer down after 5, three modes | one CLOSE on every way out (`ClosedOnce`), workers joined before deactivation (`WorkersInsideActivation`), no early timeout, `Session` implements `SessionContract`, a session with a reason to end returns, a silent peer is such a reason |
| `connect` | 2 attempts, delays 1..3, 2 assignments, 2 server addresses, 4 sessions; 3 connection slots for a limit of 2; 2 connecting tasks, budget 4, query timeout 2, 2 servers, 3 addresses; 2 callers with a request each, 2 upstream connections, 2 CA files | the retry budget holds, every opened session is closed and keeps the assignment (`LoopAccounted`); every exit releases device, routes and lease in order (`HostReleased`); final ends are not retried; an interrupt ends the command; the forwarder returns although connections go on forever and leaves nothing running; nothing enters the user-space stack before its route, a silent address does not use up the time of a call's later ones, and no lock stays behind (`CallsSound`); the response a caller gets answers its own request, whatever was given up on the connection before, messages are clean of what a readable Connection header lists, and redirects stay with the forwarder where it can read them (`ProxySound`) |
| `network` | attempt 3, budget 13, retry 1, a sleep up to 2 too long; monitor period 1, down after 5, 3 losses, 1 duplicate; MTU 3, block 2, packets of 3, 6 and 7, 2 IDs for 3 packets; bodies of up to 5 bytes, lists of up to 3 attributes | OPENs are spaced, inside the budget (a late wake-up may end after it, but sends no more), and make one server session (`AttemptsSound`), and authenticate returns; how much loss the monitor survives and how soon death is noticed (`MonitorSound`); what was sent decodes, fits the MTU and is never mixed with a packet that reuses the ID (`TransferSound`); the client reads from an answer what the server wrote (`AnswerRead`) |
| `datapath` | 2 inclusions, 1 exclusion; 2 prefixes, 3 requests, 3 platforms; 3 IDs for 2 groups, packets of 3 bytes; 3 keys for 2 half packets; 2 names, 2 changes of the DNS profile | the plan covers exactly what is included and not excluded, without duplicates (`PlanSound`); a failed configure and a drop restore the table and spare other routes; byte counters and limits are exact and a delivered packet is live fragments of one packet (`ReassemblySound`); pairing and eviction of half packets (`HalvesSound`); exclusions win, blocked names are answered and servers usable under every policy that defaults, profile and flags make (`PolicyHonoured`) |
| `dns_runtime` | 2 workers, 2 resolvers, 3 queries, 2 sessions, 1 policy change, to the one policy there is (what policies differ in matters to `PlatformDns` only); 2 queries under one client ID, 2 relay IDs, 2 ports; 5 backends, 3 activations, 2 policies with servers | workers stay inside the session, slots and permits are exact (`PoolSound`); an answer is tried for a query unless the policy changed or the session ended, or a signal looks like that (`SilenceMeansChange`); an answer is one to the client's own question (`AnswersOwnQuestion`); whichever commands fail, the link is set up for the lease held or as it was found, and the relay avoids the tunnel's servers (`PlatformSound`); deactivation ends with queries in flight |
| `managed` | 2 processes, 2 domains, 3 lookups, 3 inodes, an entry expires with the next tick; 3 requests for the method; 2 calls, one a keepalive; 2 processes, 3 commands, 3 tokens; 4 entries in 2 groups, 3 looked at, IDs below 9, counter at the wrap; 1 process on an account, 3 generations; 2 processes with 4 profile commands; 2 writers, 2 process IDs, 3 files, 2 names tried, 2 faults | a cached answer is whole, of that domain and not expired, whoever writes or dies (`CacheHonest`); no line is contacted before the binding and posture gates passed, and no probe session stays open (`GatesPassed`); a retry is never refused as a replay and nothing follows a 401 (`RequestsSound`); a code is spent by the process that asked and the saved token stays usable (`SavedSessionSound`); runtime IDs are distinct, and the fastest line is chosen, the primary before its failover entries (`SelectionSound`); the manifest is valid, the last acknowledged save stays readable and no chunk is forgotten, although any call may fail and the process die anywhere (`ManifestDecodes`, `SavesSound`); a credential belongs to a profile, no update is lost and one Device ID is made (`ProfilesSound`); readers find a whole document and no acknowledged update is undone by kills and power failures (`StateFileSound`) |

Why the bounds are enough. Thresholds are the smallest at which "just below",
"at" and "above" are different states; tables hold one entry fewer than there
are keys, so that eviction or refusal happens; there is one more session than
the retry budget allows in a row, so that the budget is reset and spent again;
two processes or workers suffice for every race between two steps, which is
what the code's unlocked sections expose; the runtime ID counter begins just
below its wrap, and relay IDs are fewer than the requests, so that one is used
again. Two faults let a process meet two leftovers of one that had its ID, which
exhausts the names it tries. In `managed`, whose parts never run together, the
parts share model values, so that one symmetry set (lines, profile names and
processes; domains and process IDs) serves all of them; the other runs use no
symmetry. A property that names several things is the conjunction of
parts that are defined, each with its comment, in the component's module.

Expected to be violated. Each run states one sentence of the documentation, a
comment or a test, and TLC shows what the code does instead:

| Run | Property | Finding |
|---|---|---|
| `session_report` | `FailureReported` | a worker sends its failure and then clears `running`; the receive loop tests `running` first, so the session can end as `LocalShutdown` and is not reconnected |
| `connect_backoff` | `BackoffObserved` | the backoff waits on a flag of the opposite polarity and returns at once |
| `connect_transport` | `TransportOutsideTunnel` | a reconnection resolves the server again, but the routes exclude only the first address |
| `dns_snapshot` | `SnapshotBeforeChange` | a failed activation puts the previous policy's lease back; the retry takes its snapshot of that link and keeps the old tunnel server as a physical resolver |
| `storage_shared` | `SavedStaysReadable` | two concurrent saves can leave a manifest whose chunks are deleted |
| `storage_domain` | `SentToOwner` | a login that races a change of domain attaches the old domain's credential to the new one |

About the rotation of refresh tokens (`SavedSessionSound`): two processes may
load the same token, but a provider that rotates refuses the second use, and
that process then saves nothing; so an older token never replaces a newer one.
The exception is in the property: a process cut off between the refresh and
the save leaves a token behind that the provider no longer takes, and the next
connect has to sign in again.

Also seen while modelling, without a run of their own: an OPEN_REJECT whose
last attribute has no value is read as one with a suffix and shown as text
(`src/protocol.rs:331`, which asks for three bytes where two are an attribute;
`AnswerRead` says so by excluding it); `authenticate_once`,
"one authentication attempt" (`src/client.rs:131`), may send OPEN several
times; the safety exclusions apply only in routing mode `all`
(`src/bin/openiwan.rs:846`, `docs/CLI.md:94`); a login that races a removal of
its profile leaves a credential no profile names (`src/bin/openiwan.rs:1335`);
`profile set` asserts under the lock what it checked before it took it
(`src/bin/openiwan.rs:1301`); `drop(net)` in the forwarder releases nothing
while the connection handler holds the connector; the lifetime of a resolution
ignores the CNAME records that earlier answers held
(`src/dns/transport.rs`).

What the properties leave out because the code does not promise it:

* A DNS query whose last resolver's `send` or `recv` is interrupted by a signal
  gets no answer, since its error has the kind that stands for a change of
  generation (`src/dns/runtime.rs:239`). `SilenceMeansChange` keeps that case
  apart; whether an answer that is tried arrives it does not say.
* The DNS servers of a forwarded connection have no share of its budget: they
  are asked in turn, under the lock of the resolution, and silent ones may use
  up the time of the call that holds it and of those that wait
  (`src/bin/openiwan/forward.rs:936`, `970`). `CallsSound` is about addresses.
* The HTTP proxy reads a Connection header as text: a value with a byte outside
  of visible ASCII is passed over, and the headers it names stay
  (`src/bin/openiwan/http_forward.rs:343`). A Location that is not visible ASCII
  or does not parse is returned as it came (`369`), and one of the target whose
  path begins with two slashes becomes a reference to another host (`387`).
  `ProxySound` excepts these.
* Connections of the HTTP client's pool are driven by tasks of the library,
  outside the set that `run_async` joins; they end with the runtime.
  `NothingOutlives` is about the forwarder's own tasks.

## 4. Fairness

Safety properties assume none; fairness is part of these specifications for
their liveness properties only:

* `session`: the operating system keeps scheduling each thread that can run
  (weak fairness of the main thread, the sender and the worker), and time
  passes.
* `connect`: the same of the loop; a session that was told to stop, or has a
  cause to end, ends, which is what `session` shows; the command's destructors
  run. For the forwarder, weak fairness of what `run_async` does by itself
  (`select!` polls its branches in random order, timers expire, aborted tasks
  are dropped) and of the tunnel's end once the flag is set. Nothing makes a
  connection task end, a client connect or an accept fail.
* `network`: the authenticating thread runs and time passes; nothing is assumed
  of the network.
* `dns_runtime`: each worker, because a resolver exchange has a deadline, the
  reader, and the thread that activates and deactivates.

## 5. Proofs

Each theorem says of a component what a run checks on one instance, for every
value of the constants: any number of processes, threads, tasks, queries,
addresses, sessions, tokens or files, any interval, budget and limit, and no
bound on time or faults but the constants that name them. The specifications
proved about are the ones the runs explore, part by part. A property is seldom
inductive: what makes it true is where everyone else is when a step happens.
Each proof therefore rests on an invariant that says so, a conjunction of named
parts. A proof that a step keeps the invariant has one case per action; what a
step does to one process, call or worker and not to the others is stated once,
as a lemma.

| Theorem (property) | Invariant | What it adds to the property |
|---|---|---|
| `TypeCorrect`, `OneClose`, `WorkersBracketed`, `TimeoutIsLate` of `Session` | `IInv` | which threads exist for each position of the main thread (`ThreadsFollowMain`), when the device is active, what `close_sent` means, at most one report per worker in the channel (`ReportsOnce`), k misses cost k intervals (`MissesTakeTime`) |
| `SessionRefines` (`ImplementsContract`) | `RInv` with `IInv` | a cause for whatever may still be returned: a report pending explains a cleared flag (`ReportPending`, `ShutdownExplained`), an outcome is set only where main may return it; then every step is a step of `SessionContract` or a stutter |
| `LoopAlwaysAccounted`, `FinalEndsStayFinal`, `LoopAccountedInCommand` (`LoopAccounted`, `FinalEndsAreFinal`) | `LoopInv` | an attempt comes after the retry it belongs to was counted; opened minus closed is 1 exactly where a session is held; the session that runs was compared with the first assignment |
| `HostAlwaysReleased` (`HostReleased`) | `CommandInv` with `LoopInv` | what is held at each stage of setup and of the drops, and that the loop rests outside of its stage |
| `NothingEverOutlives` | `ForwardInv` | the tunnel's handle is polled only where its result was not taken; tasks exist only while the loop runs or waits for them |
| `CallsAlwaysSound` (`CallsSound`) | `ConnectorInv` | preflight is alone until the route is there (`RouteFirst`); who holds the resolver's lock (`LockHeld`); with a millisecond for each address at first, an attempt's timer leaves one for each address after it (`Shares`, lemma `ShareFair` about the division) |
| `ProxyAlwaysSound` (`ProxySound`) | `HttpInv` | a connection in use is in the hands of one exchange, whose response is all the target owes on it; on any other it owes nothing (`Owned`) |
| `AttemptsAlwaysSound` (`AttemptsSound`) | `AuthInv` | when the present wait ends and what it leaves of the budget (`Timed`); n OPENs cost n - 1 spacings (`Spaced`); an acceptance under way carries the session of the one nonce |
| `MonitorAlwaysSound` (`MonitorSound`) | `MonitorInv` | each request since the last answer is on its way, answered and on its way back, or counted among the losses (`Chains`, `LossesCounted`), with the time at which each was sent |
| `AnswerAlwaysRead` (`AnswerRead`) | `AnswerInv` | how each reply was made (`ReplyMade`); then it is about the operators: cutting a body undoes encoding, from every offset (`EncodedIsCut`, by induction on the attributes) and reads what the bytes say (`CutsReadBack`, by induction on what is left); the loop over the attributes keeps the last good value of each field (`OfferedAtLast`); no offset inside the text of a rejection fits (`RejectionIs`) |
| `ReassemblyAlwaysSound` (`ReassemblySound`) | `ReassemblyInv` | each group's counter is the sum of its parts and they fit one packet, the table's counter is the sum over the groups (`TableInv`); a packet returned is in order and without gaps (`PacketExact`) |
| `TransferAlwaysSound` (`TransferSound`) | `TransferInv` with `ReassemblyInv` | fragments with one ID that are stored or under way are of one packet (`Whence`); the last fragment ends where its packet does (`Ends`) |
| `PlanAlwaysSound` (`PlanSound`) | `PlanInv` | what the lists collected so far mean at each stage (`PlanCovers`); subtracting a prefix from another leaves exactly the other addresses, by induction on the bits between them; removing duplicates keeps what is covered |
| `PolicyAlwaysHonoured` (`PolicyHonoured`) | `PolicyInv` | a policy in force was resolved from layers that are well formed (`PolicyOf`); without duplicates and unusable servers a list of servers is one the relay can use |
| `SelectionAlwaysSound` (`SelectionSound`) | `SelectInv` | a runtime ID handed out is its entry's own or one the controller does not use, and no other entry has it (`IdSound`), one for each entry kept so far (`IdsInv`); there are few enough entries that a free one is found (`Numbered`); pings and targets are in the order of the lines, and all were looked at (`LinesInv`) |
| `HalvesAlwaysSound` (`HalvesSound`) | `PairInv` | what waits under a key is the last half seen of it, unused and as old (`WaitsLast`); the table is no larger than its limit |
| `AnswersAlwaysOwn` (`AnswersOwnQuestion`) | `ExchangeInv` | the relayed message has the client's question as long as an exchange lasts |
| `PlatformAlwaysSound` (`PlatformSound`) | `PlatformInv` | what the link is at each command of an apply (`LinkFollows`), and which policy a call will fall back to |
| `PoolAlwaysSound`, `SilenceAlwaysMeansChange` | `RuntimeInv` | which session and generation a worker, and the packet in the reader's hands, belong to; the slots and permits count sets of workers |
| `GatesAlwaysPassed` (`GatesPassed`) | `LoginInv` | what is settled at each place of a login, the probe session included |
| `RequestsAlwaysSound` (`RequestsSound`) | `RequestInv` | every nonce on its way or seen was drawn, and no two calls have the same |
| `SavedSessionAlwaysSound` (`SavedSessionSound`) | `OidcInv` | no process holds a token newer than what was issued (`NoneAhead`); a process about to save a rotated token loaded the one it replaces, which nobody else can redeem any more (`RotationKept`) |
| `CacheAlwaysHonest` (`CacheHonest`) | `LookupInv` | a file is only ever written by lookups of one domain (`OneDomain`), and what a whole one holds was answered for it before it was written (`Fitting`) |
| `StateFileAlwaysSound` (`StateFileSound`) | `StateFileInv` | what is written and synced at each step of an update (`WritesFollow`), and that the document, in memory and on the disk, is a synced file (`DocumentSettled`) |
| `AlwaysDecodes` (`ManifestDecodes`) | `StoreInv` | every list of generations that a process holds or the manifest names has distinct members, not the current one, and fits the limit |
| `SavesAlwaysSound` (`SavesSound`), one process on the account | `SaveInv` | which generation each call of a save or delete is about, where its chunks are, and which list names it, at each of the places it can be cut off (`StoredNamed`, `CurrentNamed`) |
| `ProfilesAlwaysSound` (`ProfilesSound`) | `ProfileInv` | a draft is made of the document there is, by the holder of the lock (`LockFollows`), and keeps a Device ID anybody got (`DevicesFollow`); for a command that runs alone, document and draft own every saved credential (`Owns`) and the credential is deleted before the profile forgets it (`Steady`) |
| `RoutesRestored`, `OtherRoutesKept` of `RouteGuard` | | the first change recorded for a prefix holds what the table held at the start, and a prefix without a record is as it was; rolling back in reverse order ends at the original |

Assumptions on the constants are named in the modules that declare them and
evaluated by TLC in every run. Most say that a bound is a natural number or that
a marker (no lease, no holder) is not a member of the set it is compared with.
The others are margins of the code's own constants: `MaxMisses * Interval <=
Timeout` (`Session`); `AttemptTimeout <= Overall` and `RetryDelay <= Overall`
(`Authenticate`); `(Tolerated + 1) * Period + 2 * Delay <= PeerDownAfter` and
`Delay <= Period` (`SrMonitor`); `MaxGroups * MaxPacket <= MaxBytes`, so that
the byte limit of the SR reassembler is never what refuses a fragment
(`SrReassembly`); at most half of the runtime IDs can be in use
(`LineSelection`); the protected prefixes are canonical (`RoutePolicy`); the
fallback servers are two usable addresses (`DnsPolicy`); the tunnel's servers
are not resolvers of the host (`PlatformDns`). Only `SavesAlwaysSound` assumes
more than its module does: one process on the account, because two break it
(`storage_shared`).

Induction over data. The library's induction theorems take an operator as a
parameter, which the provers here cannot instantiate; `SumLemmas` does without.
That the natural numbers have a least element in every non-empty set follows
from `WFMin`, and gives induction for a *set* of numbers (`AllNaturals`) or of
subsets of a finite set (`AllSubsets`): a proof names the set of those that have
the property. A recursive function is `CHOOSE g : g = [...]`, so each is proved
to exist, by such an induction, before its equation is used: the sums and the
flattened sequences of the community modules in `SumLemmas`, `ParseAll` and the
loop over an answer's attributes in `NetworkProofs`, the prefixes of
`RoutePolicy` in `DatapathProofs`. The models use no RECURSIVE operator.

What the proofs showed about the models. That authentication ends within its
budget was true of a wake-up late by one unit only: `until < Overall` is tested
before the sleep, so a longer one ends after the budget (by less than it lasted
too long, and no OPEN follows); `WithinBudget` says so now, and the run has a
longer one. That `Tolerated` losses do not end a healthy SR session needs a
delay of at most a period: requests that overtake the initial one, which the
responder ignores, count like lost ones.

Only model-checked are the liveness properties, which need fairness and ENABLED:
`StopsEventually` and `SilentPeerEnds` of `Session`, `InterruptExits` of
`TunConnect`, `ForwardReturns` of `Forward`, `Returns` of `Authenticate` and
`DeactivationEnds` of `DnsRuntime`. Every safety invariant and every action
property of a passing run, and the refinement, is stated by a theorem. The six
properties of the runs that expect a violation are false and have none.

## 6. Not modelled

Packet crypto, request signing, password transformations and the validation of
the client configuration are pure functions of bytes and numbers, without
state or order. Controller documents are parsed tolerantly into inputs of the
models. Building an OPEN and the fixed headers are layouts.

The user-space TCP/IP stack of the forwarder is a library; its packet channels
and the relay of bytes between two sockets are left out with it: its reactor is
assumed to drain the packets the tunnel hands it, so a device write in a
forwarded session returns. If it should wait for a send before it receives, a
session whose sender stopped while both channels are full would not end
(`src/bin/openiwan/forward.rs:704`). Wintun's ring buffers and the `resolvectl`,
`scutil`, `ip`, `route` and `netsh` commands are external: modelled by how they
succeed or fail and what they leave.

A packet reader that never runs out of DNS packets to relay or drop
(`src/dns/runtime.rs:379`) does not return to its caller; `Session` takes a
device read to return, which is an assumption about the host's traffic. A
process killed while it holds routes or a DNS lease leaves them, as the
documents say; nothing in the code recovers from it.

`probe_lines`, which shows latencies and decides nothing, argument parsing,
printing, `ping` and `decode` are left out.

## 7. Plan

The components that decide something are modelled, and their safety properties
proved. What is left of modelling is `probe_lines` beside `LineSelection`, and
the half-close of a forwarded connection once the stack's interface is worth a
model. When the code changes, the order is: the component's module, its run, and
then the step of the invariant that the change disturbs.
