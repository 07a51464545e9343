----------------------------- MODULE HttpForward -----------------------------
(***************************************************************************)
(* HttpForwarder (src/src/bin/openiwan/http_forward.rs): local HTTP        *)
(* connections whose requests go to the one configured target, over        *)
(* connections through the tunnel that a client pool keeps for reuse.      *)
(*                                                                         *)
(* Of a message the names of its headers are kept, the names its           *)
(* Connection headers list, and what its Host or Location header says.     *)
(* The pool is hyper's, external: an idle connection is reused when there  *)
(* is one, a connection is idle again when a response has been read to its *)
(* end, and the one of a failed or abandoned exchange is closed.  The      *)
(* target answers the requests on a connection in the order they came.     *)
(***************************************************************************)
EXTENDS Integers, Sequences, FiniteSets, SequencesExt

CONSTANTS
    Callers,       \* local connections
    Upstreams,     \* names for connections to the target
    MaxRequests,   \* bound: requests of a caller
    MaxFiles       \* bound: CA files given

ASSUME HttpForwardAssumption == MaxRequests \in Nat /\ MaxFiles \in Nat

VARIABLES
    proxy,     \* "start", "serving" or "refused"
    secure,    \* Target::uses_tls
    exchange,  \* caller -> [at, ...] of its request under way
    served,    \* caller -> requests answered
    pool,      \* upstream -> "none", "idle" or "busy"
    wire       \* upstream -> requests whose responses are still to come, in
               \* whole or in part

httpVars == <<proxy, secure, exchange, served, pool, wire>>

Quiet == [at |-> "idle"]
None == "none"

\* "te" stands for the names that are always removed, "x" and "y" for others.
\* Connection headers may list any name, Host too; "masked" are the names in
\* those that hold a byte outside of visible ASCII.
HopByHop == {"te"}
Headers == [names : {{"te", "x", "y"}}, listed : SUBSET {"host", "x"}, masked : SUBSET {"y"}]
Requests == [method : {"CONNECT", "GET"}, upgrade : BOOLEAN, headers : Headers,
             host : {"caller"}]

\* Where a client is led that follows a Location: "slashes" is an absolute URL
\* of the target whose path begins with two slashes, "network" what begins
\* with them itself, and "opaque" a URL of the target that to_str or Url::parse
\* refuses.
Leads == [none |-> "nowhere", relative |-> "forwarder", target |-> "target",
          slashes |-> "target", opaque |-> "target", network |-> "elsewhere",
          elsewhere |-> "elsewhere"]
Responses == [headers : Headers, location : DOMAIN Leads]

-----------------------------------------------------------------------------
(* build_tls_connector. *)

\* CA files are for https targets only, and each has to give a certificate;
\* native roots may be missing.
BuildTls ==
    /\ proxy = "start"
    /\ \E given \in BoundedSeq({"good", "unreadable", "empty"}, MaxFiles), native \in 0..1 :
         LET usable == IF secure THEN /\ \A i \in DOMAIN given : given[i] = "good"
                                      /\ native + Len(given) > 0
                                 ELSE given = <<>>
         IN proxy' = IF usable THEN "serving" ELSE "refused"
    /\ UNCHANGED <<secure, exchange, served, pool, wire>>

-----------------------------------------------------------------------------
(* proxy_request. *)

\* strip_hop_by_hop: the names that readable Connection headers list, then the
\* fixed ones, Connection among them.
StripHopByHop(h) ==
    [names |-> (h.names \ h.listed) \ HopByHop, listed |-> {}, masked |-> {}]

\* Mutant: Host is set first, and lost when Connection lists it.
RewriteHostFirst(r) ==
    [r EXCEPT !.headers = StripHopByHop(r.headers),
              !.host = IF "host" \in r.headers.listed THEN None ELSE "target"]

\* What is sent: stripped, then Host replaced and the target's authority.
Rewrite(r) == [r EXCEPT !.headers = StripHopByHop(r.headers), !.host = "target"]

\* rewrite_location: of an absolute URL of the target that can be read only
\* path, query and fragment are kept.
RewriteLocation(l) ==
    CASE l = "target" -> "relative" [] l = "slashes" -> "network" [] OTHER -> l

Put(c, e) == exchange' = [exchange EXCEPT ![c] = e]

Fail(c, status) == Put(c, [at |-> "reply", status |-> status])

\* CONNECT, upgrades and a path that makes no URL of the target are answered
\* with 400 before anything is sent.
Receive(c) ==
    /\ proxy = "serving" /\ exchange[c] = Quiet /\ served[c] < MaxRequests
    /\ \E r \in Requests :
         \/ Fail(c, 400)
         \/ /\ r.method # "CONNECT" /\ ~ r.upgrade
            /\ Put(c, [at |-> "checkout", request |-> Rewrite(r), over |-> None,
                       given |-> r])
    /\ UNCHANGED <<proxy, secure, served, pool, wire>>

\* The request goes over a connection, plain or TLS, behind whatever the target
\* still has to answer there.
Over(c, u) ==
    /\ Put(c, [exchange[c] EXCEPT !.at = "sent", !.over = u])
    /\ pool' = [pool EXCEPT ![u] = "busy"]
    /\ wire' = [wire EXCEPT ![u] = Append(@, <<c, served[c]>>)]

\* The pool has an idle connection, still open when the request is written: the
\* client passes on from one that is not.
Reuse(c) ==
    /\ exchange[c].at = "checkout"
    /\ \E u \in Upstreams : pool[u] = "idle" /\ Over(c, u)
    /\ UNCHANGED <<proxy, secure, served>>

\* HttpConnector::connect: TCP through the tunnel, and TLS for an https target.
Dial(c) ==
    /\ exchange[c].at = "checkout" /\ \A u \in Upstreams : pool[u] # "idle"
    /\ \E u \in Upstreams : pool[u] = "none" /\ Over(c, u)
    /\ UNCHANGED <<proxy, secure, served>>

\* is_timeout_error looks for a timeout in the chain of causes.
DialFails(c) ==
    /\ exchange[c].at = "checkout"
    /\ \E status \in {502, 504} : Fail(c, status)
    /\ UNCHANGED <<proxy, secure, served, pool, wire>>

\* The target's next response on the connection begins: its headers are handed
\* on at once, and its body as it comes.
Answer(c) ==
    /\ exchange[c].at = "sent"
    /\ \E r \in Responses :
         Put(c, [at |-> "body", status |-> 200, over |-> exchange[c].over, given |-> r,
                 answers |-> Head(wire[exchange[c].over]),
                 headers |-> StripHopByHop(r.headers),
                 location |-> RewriteLocation(r.location)])
    /\ UNCHANGED <<proxy, secure, served, pool, wire>>

\* The connection is closed, whatever is still to come on it.
Close(u) == pool' = [pool EXCEPT ![u] = "none"] /\ wire' = [wire EXCEPT ![u] = <<>>]

\* The body has been read: the connection is idle, unless the target closes it.
BodyEnds(c) ==
    /\ exchange[c].at = "body"
    /\ Put(c, [exchange[c] EXCEPT !.at = "reply"])
    /\ LET u == exchange[c].over IN
         \/ pool' = [pool EXCEPT ![u] = "idle"] /\ wire' = [wire EXCEPT ![u] = Tail(@)]
         \/ Close(u)
    /\ UNCHANGED <<proxy, secure, served>>

\* The exchange breaks off or times out before its response.
Breaks(c) ==
    /\ exchange[c].at = "sent"
    /\ \E status \in {502, 504} : Fail(c, status)
    /\ Close(exchange[c].over)
    /\ UNCHANGED <<proxy, secure, served>>

Reply(c) ==
    /\ exchange[c].at = "reply"
    /\ Put(c, Quiet)
    /\ served' = [served EXCEPT ![c] = @ + 1]
    /\ UNCHANGED <<proxy, secure, pool, wire>>

\* The connection to the target that a caller's exchange has.
Holds(c) == exchange[c].at \in {"sent", "body"}

\* Mutant: the connection of an abandoned exchange goes back to the pool.
HangupKeepsConnection(c) ==
    /\ exchange[c] # Quiet
    /\ Put(c, Quiet)
    /\ served' = [served EXCEPT ![c] = MaxRequests]
    /\ pool' = IF Holds(c) THEN [pool EXCEPT ![exchange[c].over] = "idle"] ELSE pool
    /\ UNCHANGED <<proxy, secure, wire>>

\* The local connection is closed in the middle, by the caller or because the
\* target breaks off the body: serve drops what is under way, the connection
\* to the target with it.
Hangup(c) ==
    /\ exchange[c] # Quiet
    /\ Put(c, Quiet)
    /\ served' = [served EXCEPT ![c] = MaxRequests]
    /\ IF Holds(c) THEN Close(exchange[c].over) ELSE UNCHANGED <<pool, wire>>
    /\ UNCHANGED <<proxy, secure>>

\* The target closes an idle connection; the pool drops it.
IdleClosed(u) ==
    /\ pool[u] = "idle"
    /\ Close(u)
    /\ UNCHANGED <<proxy, secure, exchange, served>>

HttpInit ==
    /\ proxy = "start" /\ secure \in BOOLEAN
    /\ exchange = [c \in Callers |-> Quiet] /\ served = [c \in Callers |-> 0]
    /\ pool = [u \in Upstreams |-> "none"]
    /\ wire = [u \in Upstreams |-> <<>>]

HttpDone ==
    /\ proxy = "refused" \/ \A c \in Callers : exchange[c] = Quiet /\ served[c] = MaxRequests
    /\ UNCHANGED httpVars

HttpNext ==
    \/ BuildTls
    \/ \E c \in Callers : Receive(c) \/ Reuse(c) \/ Dial(c) \/ DialFails(c) \/ Answer(c)
                          \/ BodyEnds(c) \/ Breaks(c) \/ Reply(c) \/ Hangup(c)
    \/ \E u \in Upstreams : IdleClosed(u)
    \/ HttpDone

HttpSpec == HttpInit /\ [][HttpNext]_httpVars

-----------------------------------------------------------------------------
(* Properties. *)

\* Names that only an unreadable Connection header lists are left in.
Clean(h, given) == h.names \cap (HopByHop \cup given.listed) = {}

\* What leaves for the target names the target as its host and carries neither
\* a fixed hop-by-hop header nor one that a readable Connection header lists,
\* even when that lists Host.
RequestClean(e) == /\ e.request.host = "target"
                   /\ Clean(e.request.headers, e.given.headers)

\* What comes back carries none either.  A redirect within the target does not
\* lead around the forwarder unless the forwarder cannot read it, and it leads
\* to another host only if its path begins with two slashes.
ReplyClean(e) ==
    /\ Clean(e.headers, e.given.headers)
    /\ Leads[e.location] = "target" => e.given.location = "opaque"
    /\ Leads[e.location] = "elsewhere" =>
           Leads[e.given.location] = "elsewhere" \/ e.given.location = "slashes"

\* Every response that reaches a caller answers the request this caller has
\* under way, although connections are reused and exchanges are abandoned
\* before their response or in the middle of its body, with requests still
\* unanswered on the wire.  Every message is clean.
ProxySound ==
    \A c \in Callers : LET e == exchange[c] IN
         /\ e.at \in {"checkout", "sent"} => RequestClean(e)
         /\ e.at \in {"body", "reply"} /\ e.status = 200 =>
                e.answers = <<c, served[c]>> /\ ReplyClean(e)

=============================================================================
