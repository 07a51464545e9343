---------------------------- MODULE LineSelection ----------------------------
(***************************************************************************)
(* select_ingress (src/src/managed/workflow.rs): the lines of a controller *)
(* configuration are read, the segment-routing groups sanitised, and a     *)
(* line is chosen by pinging.                                              *)
(*                                                                         *)
(* A traditional line is a server, a segment-routing line a group of       *)
(* entries in failover order.  Of an entry the ID, whether it is valid and *)
(* its place are kept; ID 0 stands for every ID that is not a positive     *)
(* u32.  A ping, the lowest of three, is a latency or Silent.              *)
(***************************************************************************)
EXTENDS Integers, Sequences, FiniteSets, SequencesExt

CONSTANTS
    EntryLimit,    \* entries of a group that are looked at, 5 in the code
    IdSpace,       \* runtime SR IDs are below it, 2^32 in the code
    Counters,      \* values NEXT_LOCAL_SR_ID may have when the call begins
    SrIds,         \* IDs the controller uses for entries; 0 is unusable
    LineIds,       \* IDs of servers and groups
    Latencies,
    MaxServers,    \* bound: servers in a configuration
    MaxGroupCount, \* bound: groups in a configuration
    MaxEntries     \* bound: entries in a configuration

ASSUME LineSelectionAssumption ==
    /\ EntryLimit \in Nat \ {0} /\ IdSpace \in Nat
    /\ {MaxServers, MaxGroupCount, MaxEntries} \subseteq Nat
    /\ SrIds \cup Counters \subseteq 0..(IdSpace - 1)
    /\ Latencies \subseteq Nat \ {0}
    /\ MaxEntries + MaxEntries < IdSpace  \* next_local_sr_id finds one

Silent == 0   \* no ping was answered

VARIABLES
    select,     \* where the call is; "selected" and "unselected" end it
    wanted,     \* LinePreference: AnyLine or [kind, id]
    servers,    \* IDs of the servers, in order
    groups,     \* the SR groups as received: [id, primary, entries]
    runtimeIds, \* per group looked at, the runtime IDs of its entries
    counter,    \* NEXT_LOCAL_SR_ID
    targets,    \* lines still to ping: [kind, id, group, order]
    pings,      \* the pings so far: [kind, id, group, at, latency]
    chosen      \* the ping of the line selected

selectVars == <<select, wanted, servers, groups, runtimeIds, counter, targets, pings, chosen>>

AnyLine == [kind |-> "auto"]
Preferences == {AnyLine} \cup [kind : {"iwan", "sr"}, id : LineIds]

Entries == [id : SrIds, valid : BOOLEAN]
Nothing == [kind |-> "none"]

Given(g) == groups[g].entries
Kept(g) == SubSeq(Given(g), 1, IF Len(Given(g)) < EntryLimit
                                    THEN Len(Given(g)) ELSE EntryLimit)

-----------------------------------------------------------------------------
(* Reading the lines, and sanitize_sr_groups entry by entry. *)

\* The entries of the first n groups.
Total(sizes, n) == SumFunctionOnSet(sizes, 1..n)
GroupSizes ==
    {s \in BoundedSeq(0..MaxEntries, MaxGroupCount) : Total(s, Len(s)) <= MaxEntries}

\* iwan_servers and sr_groups: a configuration has one kind of line, both is
\* an error, and so are malformed lists and entries that cannot be decrypted.
ReadFails ==
    /\ select = "lines"
    /\ select' = "unselected"
    /\ UNCHANGED <<wanted, servers, groups, runtimeIds, counter, targets, pings, chosen>>

\* A group's primary is an index of its entries, from 0, or one beyond them.
ReadLines ==
    /\ select = "lines"
    /\ \/ /\ servers' \in BoundedSeq(LineIds, MaxServers) \ {<<>>}
          /\ groups' = <<>>
       \/ /\ servers' = <<>>
          /\ \E sizes \in GroupSizes :
             \E all \in [1..Total(sizes, Len(sizes)) -> Entries],
                names \in [DOMAIN sizes -> LineIds],
                firsts \in {f \in [DOMAIN sizes -> 0..MaxEntries] :
                              \A g \in DOMAIN sizes : f[g] <= sizes[g]} :
                groups' = [g \in DOMAIN sizes |->
                    [id |-> names[g], primary |-> firsts[g],
                     entries |-> SubSeq(all, 1 + Total(sizes, g - 1), Total(sizes, g))]]
    /\ select' = "sanitize"
    /\ UNCHANGED <<wanted, runtimeIds, counter, targets, pings, chosen>>

Uses(entries, id) == {i \in DOMAIN entries : entries[i].id = id}

\* Positive IDs that occur once in the whole configuration.
Reserved ==
    {id \in SrIds \ {0} :
        \E g \in DOMAIN groups : \E i \in Uses(Given(g), id) :
            \A h \in DOMAIN groups : Uses(Given(h), id) \subseteq
                                     (IF h = g THEN {i} ELSE {})}

Assigned == UNION {Range(runtimeIds[g]) : g \in DOMAIN runtimeIds}

\* Mutant: reserved IDs are handed out.
NextLocalSrIdUnreserved ==
    LET Free(k) == (counter + k) % IdSpace \notin Assigned \cup {0}
    IN  (counter + CHOOSE k \in 1..IdSpace :
                       Free(k) /\ \A j \in 1..(k - 1) : ~ Free(j)) % IdSpace

\* next_local_sr_id: the counter advances, wrapping, past 0 and what is taken.
NextLocalSrId ==
    LET Free(k) == (counter + k) % IdSpace \notin Assigned \cup Reserved \cup {0}
    IN  (counter + CHOOSE k \in 1..IdSpace :
                       Free(k) /\ \A j \in 1..(k - 1) : ~ Free(j)) % IdSpace

\* One entry: it keeps a positive ID that is single in its group and not yet
\* assigned, and is given a local one otherwise.
AssignId ==
    /\ select = "sanitize" /\ runtimeIds # <<>>
    /\ LET g == Len(runtimeIds)
           e == Len(runtimeIds[g]) + 1
           own == Kept(g)[e].id
           keep == /\ own # 0 /\ own \notin Assigned
                   /\ Uses(Kept(g), own) = {e}
       IN  /\ e <= Len(Kept(g))
           /\ counter' = IF keep THEN counter ELSE NextLocalSrId
           /\ runtimeIds' = [runtimeIds EXCEPT ![g] = Append(@, IF keep THEN own ELSE counter')]
    /\ UNCHANGED <<select, wanted, servers, groups, targets, pings, chosen>>

GroupDone == runtimeIds # <<>> => Len(Last(runtimeIds)) = Len(Kept(Len(runtimeIds)))
Sanitised == Len(runtimeIds) = Len(groups) /\ GroupDone

NextGroup ==
    /\ select = "sanitize" /\ wanted.kind # "iwan"
    /\ Len(runtimeIds) < Len(groups) /\ GroupDone
    /\ runtimeIds' = Append(runtimeIds, <<>>)
    /\ UNCHANGED <<select, wanted, servers, groups, counter, targets, pings, chosen>>

-----------------------------------------------------------------------------
(* Selecting a line. *)

\* The members of a set of indexes, in order.
InOrder(indexes) == CHOOSE s \in [1..Cardinality(indexes) -> indexes] :
                        \A j, k \in DOMAIN s : j < k => s[j] < s[k]

\* The entries of a group that survive, as indexes into Kept.
Survivors(g) == InOrder({i \in DOMAIN Kept(g) : Kept(g)[i].valid})

\* Mutant: the primary's index is not recomputed after entries are dropped.
PrimaryOfStale(g) ==
    IF groups[g].primary < Len(Survivors(g)) THEN groups[g].primary + 1 ELSE 1

\* The primary entry's place among the survivors, found again by its runtime
\* ID; the first one when it is out of range or did not survive.
PrimaryOf(g) ==
    LET primary == IF groups[g].primary < Len(Kept(g)) THEN groups[g].primary + 1 ELSE 1
        places == {p \in DOMAIN Survivors(g) : runtimeIds[g][Survivors(g)[p]] = runtimeIds[g][primary]}
    IN  IF places = {} THEN 1 ELSE CHOOSE p \in places : \A q \in places : p <= q

\* ordered_sr_entries: the primary swaps places with the first.
OrderedSrEntries(g) ==
    LET p == PrimaryOf(g)
    IN  [Survivors(g) EXCEPT ![1] = Survivors(g)[p], ![p] = Survivors(g)[1]]

ServerLines ==
    [i \in DOMAIN servers |->
        [kind |-> "iwan", id |-> servers[i], group |-> i, order |-> <<1>>]]

\* Groups without a survivor are left out.
GroupLines ==
    LET usable == InOrder({g \in DOMAIN groups : Survivors(g) # <<>>})
    IN  [k \in DOMAIN usable |->
            [kind |-> "sr", id |-> groups[usable[k]].id, group |-> usable[k],
             order |-> OrderedSrEntries(usable[k])]]

Lines == CASE wanted.kind = "auto" -> ServerLines \o GroupLines
           [] wanted.kind = "iwan" -> ServerLines
           [] wanted.kind = "sr"   -> GroupLines
Matching == {i \in DOMAIN Lines : Lines[i].id = wanted.id}

\* select_ingress_with_preference: every line, or the first server or the only
\* group with the wanted ID; a wanted server needs no sanitised groups.
SelectIngress ==
    /\ select = "sanitize" /\ (wanted.kind = "iwan" \/ Sanitised)
    /\ \/ wanted = AnyLine /\ targets' = Lines /\ select' = "ping"
       \/ /\ wanted # AnyLine
          /\ IF Matching = {} \/ (wanted.kind = "sr" /\ Cardinality(Matching) > 1)
               THEN select' = "unselected" /\ UNCHANGED targets
               ELSE /\ select' = "ping"
                    /\ \E i \in Matching :
                          (\A j \in Matching : i <= j) /\ targets' = <<Lines[i]>>
    /\ UNCHANGED <<wanted, servers, groups, runtimeIds, counter, pings, chosen>>

\* The next entry of the next line is pinged: the first answer settles a line.
Ping ==
    /\ select = "ping" /\ targets # <<>>
    /\ \E latency \in Latencies \cup {Silent} :
          LET next == Head(targets)
          IN  /\ pings' = Append(pings, [kind |-> next.kind, id |-> next.id,
                                         group |-> next.group, at |-> Head(next.order),
                                         latency |-> latency])
              /\ targets' = IF latency # Silent \/ Tail(next.order) = <<>>
                            THEN Tail(targets)
                            ELSE [targets EXCEPT ![1].order = Tail(@)]
    /\ UNCHANGED <<select, wanted, servers, groups, runtimeIds, counter, chosen>>

Answered == {i \in DOMAIN pings : pings[i].latency # Silent}

\* min_by: the first of the fastest; an error when no line answered.
ChooseLine ==
    /\ select = "ping" /\ targets = <<>>
    /\ IF Answered = {}
         THEN select' = "unselected" /\ UNCHANGED chosen
         ELSE /\ select' = "selected"
              /\ \E i \in Answered :
                    /\ \A j \in Answered :
                          \/ pings[i].latency < pings[j].latency
                          \/ pings[i].latency = pings[j].latency /\ i <= j
                    /\ chosen' = pings[i]
    /\ UNCHANGED <<wanted, servers, groups, runtimeIds, counter, targets, pings>>

-----------------------------------------------------------------------------

SelectInit ==
    /\ select = "lines" /\ wanted \in Preferences
    /\ servers = <<>> /\ groups = <<>> /\ runtimeIds = <<>> /\ counter \in Counters
    /\ targets = <<>> /\ pings = <<>> /\ chosen = Nothing

SelectEnded == select \in {"selected", "unselected"} /\ UNCHANGED selectVars

SelectNext == \/ ReadFails \/ ReadLines \/ NextGroup \/ AssignId \/ SelectIngress \/ Ping
              \/ ChooseLine \/ SelectEnded

SelectSpec == SelectInit /\ [][SelectNext]_selectVars

-----------------------------------------------------------------------------
(* Properties. *)

Places == UNION {{<<g, e>> : e \in DOMAIN runtimeIds[g]} : g \in DOMAIN runtimeIds}

\* The SR entries of one configuration never share a runtime ID, whatever IDs
\* the controller repeats, leaves out or truncates and wherever the process-wide
\* counter stands, and an ID used once in the configuration stays what it is.
RuntimeIdsSound ==
    /\ 0 \notin Assigned
    /\ \A p, q \in Places : runtimeIds[p[1]][p[2]] = runtimeIds[q[1]][q[2]] => p = q
    /\ \A p \in Places : Kept(p[1])[p[2]].id \in Reserved =>
                             runtimeIds[p[1]][p[2]] = Kept(p[1])[p[2]].id

\* What the controller calls the primary of a group, if it can be used.
ControllerPrimary(g) ==
    {e \in 1..Len(Kept(g)) : e = groups[g].primary + 1 /\ Kept(g)[e].valid}

PingedAt(g, e) == {i \in DOMAIN pings : pings[i].group = g /\ pings[i].at = e}

\* The line selected is the wanted one and no answered line is faster; a
\* group's failover entries are used only when its primary, wherever the
\* controller put it and whichever entries were dropped, did not answer; and a
\* line is given up only after all of its usable entries were tried.
BestLineChosen ==
    /\ chosen # Nothing =>
          /\ wanted # AnyLine => chosen.kind = wanted.kind /\ chosen.id = wanted.id
          /\ \A i \in Answered : chosen.latency <= pings[i].latency
    /\ \A i \in DOMAIN pings : pings[i].kind = "sr" =>
          \A e \in ControllerPrimary(pings[i].group) :
              \/ pings[i].at = e
              \/ \E j \in PingedAt(pings[i].group, e) : j < i /\ pings[j].latency = Silent
    /\ select = "ping" /\ targets = <<>> /\ wanted = AnyLine =>
          /\ \A s \in DOMAIN servers : PingedAt(s, 1) # {}
          /\ \A g \in DOMAIN groups : \A e \in 1..Len(Kept(g)) :
                Kept(g)[e].valid =>
                    \/ PingedAt(g, e) # {}
                    \/ \E i \in Answered : pings[i].group = g

\* The line a managed connection uses is the best one, told apart from every
\* other by its runtime ID.
SelectionSound == RuntimeIdsSound /\ BestLineChosen

=============================================================================
