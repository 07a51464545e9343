----------------------------- MODULE LookupCache -----------------------------
(***************************************************************************)
(* LookupClient::lookup (src/src/managed/lookup.rs): ask the primary and   *)
(* then the fallback service, remember the answer in a file per domain,    *)
(* and fall back on the file when nobody answers.                          *)
(*                                                                         *)
(* Nothing locks the directory and every writer of a domain uses the same  *)
(* temporary name, so the model keeps files as the file system does:       *)
(* names that denote inodes, and writers that hold an inode.  An answer is *)
(* the domain it was given for, the active domain it names and the time;   *)
(* two writes into one inode leave the last one, or a mixture that does    *)
(* not parse.                                                              *)
(***************************************************************************)
EXTENDS Integers

CONSTANTS
    Lookers,        \* processes that look domains up
    LookupDomains,
    Ttl,            \* LOOKUP_CACHE_TTL
    PerServer,      \* LOOKUP_ATTEMPTS_PER_SERVER
    Endpoints,      \* how many services there are
    MaxInodes,      \* bound: temporary files created
    MaxClock,       \* bound on the clock
    MaxLookups      \* bound: lookups begun

ASSUME LookupAssumption ==
    /\ Ttl \in Nat /\ PerServer \in Nat \ {0} /\ Endpoints \in Nat \ {0}
    /\ MaxInodes \in Nat /\ MaxClock \in Nat /\ MaxLookups \in Nat

NoFile == 0
Inodes == 1..MaxInodes

VARIABLES
    clock,     \* the system time; it does not step back
    looker,    \* process -> [pc, domain, now, failed, answer, file]
    temporary, \* domain -> inode named <domain>.json.tmp, or NoFile
    entry,     \* domain -> inode named <domain>.json, or NoFile
    content,   \* inode -> [form, answer, cachedAt]
    created,   \* inodes used so far
    lookups,   \* lookups begun so far
    served     \* the last answer taken from the cache: [answer, domain, now]

lookupVars == <<clock, looker, temporary, entry, content, created, lookups, served>>

Nobody == "none"   \* no domain
NoAnswer == [domain |-> Nobody, active |-> Nobody, at |-> 0]
Empty == [form |-> "empty", answer |-> NoAnswer, cachedAt |-> 0]
Torn == [Empty EXCEPT !.form = "torn"]
Idle == [pc |-> "idle", domain |-> Nobody, now |-> 0, failed |-> 0,
         answer |-> NoAnswer, file |-> NoFile]

Set(p, r) == looker' = [looker EXCEPT ![p] = r]

\* lookup: the time is taken before the first request.
Begin(p) ==
    /\ looker[p].pc = "idle" /\ lookups < MaxLookups
    /\ lookups' = lookups + 1
    /\ \E d \in LookupDomains :
          Set(p, [Idle EXCEPT !.pc = "ask", !.domain = d, !.now = clock])
    /\ UNCHANGED <<clock, temporary, entry, content, created, served>>

\* An attempt with a valid answer ends lookup_live; a fuzzy match names another
\* active domain.
AttemptOk(p) ==
    /\ looker[p].pc = "ask"
    /\ \E active \in LookupDomains :
          Set(p, [looker[p] EXCEPT !.pc = "open", !.failed = 0,
                     !.answer = [domain |-> looker[p].domain, active |-> active,
                                 at |-> clock]])
    /\ UNCHANGED <<clock, temporary, entry, content, created, lookups, served>>

\* A transport error, another status or an answer that does not parse; after
\* every endpoint had its attempts the cache is read.
AttemptFails(p) ==
    /\ looker[p].pc = "ask"
    /\ Set(p, IF looker[p].failed + 1 < Endpoints * PerServer
              THEN [looker[p] EXCEPT !.failed = @ + 1]
              ELSE [looker[p] EXCEPT !.pc = "read", !.failed = 0])
    /\ UNCHANGED <<clock, temporary, entry, content, created, lookups, served>>

-----------------------------------------------------------------------------
(* LookupCache::write, first for the domain asked for, then for the active  *)
(* one if it differs.                                                       *)

Target(p) == IF looker[p].pc \in {"open", "write", "rename"}
             THEN looker[p].domain ELSE looker[p].answer.active
PcFor(p, first, second) == IF Target(p) = looker[p].domain THEN first ELSE second
Done(p) == IF Target(p) = looker[p].domain /\ looker[p].answer.active # looker[p].domain
           THEN [looker[p] EXCEPT !.pc = "open_active", !.file = NoFile] ELSE Idle

\* fs::write creates the temporary file or empties the one that is there.
OpenTemporary(p) ==
    /\ looker[p].pc \in {"open", "open_active"}
    /\ LET d == Target(p)
           i == IF temporary[d] = NoFile THEN created + 1 ELSE temporary[d]
       IN  /\ i <= MaxInodes
           /\ created' = IF temporary[d] = NoFile THEN created + 1 ELSE created
           /\ temporary' = [temporary EXCEPT ![d] = i]
           /\ content' = [content EXCEPT ![i] = Empty]
           /\ Set(p, [looker[p] EXCEPT !.pc = PcFor(p, "write", "write_active"), !.file = i])
    /\ UNCHANGED <<clock, entry, lookups, served>>

\* The data goes to the inode that was opened, wherever its name is by now.
WriteTemporary(p) ==
    /\ looker[p].pc \in {"write", "write_active"}
    /\ LET i == looker[p].file
           mine == [form |-> "whole", answer |-> looker[p].answer, cachedAt |-> looker[p].now]
       IN  \/ content' = [content EXCEPT ![i] = mine]
           \/ content[i] # Empty /\ content' = [content EXCEPT ![i] = Torn]
    /\ Set(p, [looker[p] EXCEPT !.pc = PcFor(p, "rename", "rename_active")])
    /\ UNCHANGED <<clock, temporary, entry, created, lookups, served>>

\* fs::rename moves whatever has the temporary name; a missing one is an error.
RenameTemporary(p) ==
    /\ looker[p].pc \in {"rename", "rename_active"}
    /\ LET d == Target(p)
       IN  IF temporary[d] = NoFile THEN UNCHANGED <<temporary, entry>>
           ELSE /\ entry' = [entry EXCEPT ![d] = temporary[d]]
                /\ temporary' = [temporary EXCEPT ![d] = NoFile]
    /\ Set(p, Done(p))
    /\ UNCHANGED <<clock, content, created, lookups, served>>

\* A write that fails is ignored.
CacheWriteFails(p) ==
    /\ looker[p].pc \in {"open", "open_active", "write", "write_active"}
    /\ Set(p, Done(p))
    /\ UNCHANGED <<clock, temporary, entry, content, created, lookups, served>>

-----------------------------------------------------------------------------
(* LookupCache::read. *)

\* Mutant: an entry is used whatever its age.
UsableAnyAge(i, now) == i # NoFile /\ content[i].form = "whole"

\* A missing, malformed or expired entry is not used; the age is never below 0.
Usable(i, now) ==
    /\ i # NoFile /\ content[i].form = "whole"
    /\ now - content[i].cachedAt <= Ttl

ReadCache(p) ==
    /\ looker[p].pc = "read"
    /\ LET i == entry[looker[p].domain]
       IN  IF Usable(i, looker[p].now)
           THEN served' = [answer |-> content[i].answer, domain |-> looker[p].domain,
                           now |-> looker[p].now]
           ELSE UNCHANGED served
    /\ Set(p, Idle)
    /\ UNCHANGED <<clock, temporary, entry, content, created, lookups>>

\* The process is killed; what it wrote stays.
Killed(p) ==
    /\ looker[p].pc # "idle"
    /\ Set(p, Idle)
    /\ UNCHANGED <<clock, temporary, entry, content, created, lookups, served>>

ClockTick ==
    /\ clock < MaxClock
    /\ clock' = clock + 1
    /\ UNCHANGED <<looker, temporary, entry, content, created, lookups, served>>

LookupInit ==
    /\ clock = 0 /\ created = 0 /\ lookups = 0
    /\ looker = [p \in Lookers |-> Idle]
    /\ temporary = [d \in LookupDomains |-> NoFile]
    /\ entry = [d \in LookupDomains |-> NoFile]
    /\ content = [i \in Inodes |-> Empty]
    /\ served = [answer |-> NoAnswer, domain |-> Nobody, now |-> 0]

LookupStep(p) ==
    \/ Begin(p) \/ AttemptOk(p) \/ AttemptFails(p) \/ OpenTemporary(p)
    \/ WriteTemporary(p) \/ RenameTemporary(p) \/ CacheWriteFails(p) \/ ReadCache(p)
    \/ Killed(p)

LookupEnded ==
    /\ clock = MaxClock /\ lookups = MaxLookups
    /\ \A p \in Lookers : looker[p].pc = "idle"
    /\ UNCHANGED lookupVars

LookupNext == (\E p \in Lookers : LookupStep(p)) \/ ClockTick \/ LookupEnded

LookupSpec == LookupInit /\ [][LookupNext]_lookupVars

-----------------------------------------------------------------------------

\* "an entry no older than seven days may satisfy the request" and "malformed
\* or expired entries do not mask the live error" (docs/MANAGED_CONNECTIONS.md):
\* whatever processes write the files of a domain at once and wherever one is
\* killed, an answer taken from the cache is one a service gave, for that
\* domain or naming it the active one, at most the lifetime before.
CacheHonest ==
    served.answer # NoAnswer =>
        /\ served.domain \in {served.answer.domain, served.answer.active}
        /\ served.now - served.answer.at <= Ttl

=============================================================================
