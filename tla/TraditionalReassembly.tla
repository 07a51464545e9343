------------------------ MODULE TraditionalReassembly ------------------------
(***************************************************************************)
(* TraditionalFragmentReassembler (src/src/fragment.rs): packets of        *)
(* exactly two fragments, told apart by EOP, matched by IP version and     *)
(* fragment ID within a short window, in a table that evicts its oldest    *)
(* group when it is full.  Offsets are parsed and then ignored.            *)
(***************************************************************************)
EXTENDS Integers, FiniteSets, Sequences

CONSTANTS
    Keys,       \* (context, fragment ID): the context is the IP version
    HalfLengths, \* fragment payload lengths
    MaxJoined,  \* MAX_REASSEMBLED_PACKET
    MaxPairs,   \* TRADITIONAL_MAX_GROUPS
    Window      \* TRADITIONAL_TIMEOUT, in ticks

ASSUME TraditionalAssumption ==
    /\ HalfLengths \subseteq 1..MaxJoined
    /\ MaxJoined \in Nat /\ MaxPairs \in Nat \ {0} /\ Window \in Nat

VARIABLES
    pairs,      \* key -> [age, half], for the keys that wait for a half
    answer,     \* what the last insertion returned
    joined,     \* the two halves of the packet it returned
    lastSeen    \* history: key -> the last half inserted and whether it has
                \* been used in a packet, for the keys ever seen

pairVars == <<pairs, answer, joined, lastSeen>>

Half == [key: Keys, eop: BOOLEAN, len: HalfLengths]

\* purge_expired keeps a group whose age does not exceed the window.
LivePairs == {k \in DOMAIN pairs : pairs[k].age <= Window}

KeptPairs(keys) == [k \in keys |-> pairs[k]]
With(keys, f) == [k \in keys \cup {f.key} |->
                     IF k = f.key THEN [age |-> 0, half |-> f] ELSE pairs[k]]

Pending(f) == f.key \in LivePairs
Waiting(f) == pairs[f.key].half

Saw(f, used) ==
    lastSeen' = [k \in DOMAIN lastSeen \cup {f.key} |->
                    IF k = f.key THEN [half |-> f, age |-> 0, used |-> used]
                                 ELSE lastSeen[k]]

-----------------------------------------------------------------------------
(* insert_in_context: one action per way it returns. *)

\* Mutant: the first of two halves of the same kind is kept.
ReplaceKeepsFirst(f) ==
    /\ Pending(f) /\ Waiting(f).eop = f.eop
    /\ pairs' = KeptPairs(LivePairs)
    /\ answer' = "none" /\ joined' = <<>>
    /\ Saw(f, FALSE)

\* A second half of the same kind replaces the first and restarts its window.
Replace(f) ==
    /\ Pending(f) /\ Waiting(f).eop = f.eop
    /\ pairs' = With(LivePairs, f)
    /\ answer' = "none" /\ joined' = <<>>
    /\ Saw(f, FALSE)

\* The other half: the group is gone before the total length is tested.
Join(f) ==
    /\ Pending(f) /\ Waiting(f).eop # f.eop
    /\ pairs' = KeptPairs(LivePairs \ {f.key})
    /\ IF f.len + Waiting(f).len > MaxJoined
         THEN answer' = "too_large" /\ joined' = <<>>
         ELSE /\ answer' = "packet"
              /\ joined' = IF f.eop THEN <<Waiting(f), f>>
                                    ELSE <<f, Waiting(f)>>
    /\ Saw(f, TRUE)

Open(f) ==
    /\ ~Pending(f) /\ Cardinality(LivePairs) < MaxPairs
    /\ pairs' = With(LivePairs, f)
    /\ answer' = "none" /\ joined' = <<>>
    /\ Saw(f, FALSE)

\* Mutant: the youngest group is evicted.
VictimYoungest(k) == \A j \in LivePairs : pairs[k].age <= pairs[j].age

\* min_by_key(created): any of the oldest groups, in the map's order.
Victim(k) == \A j \in LivePairs : pairs[k].age >= pairs[j].age

Evict(f) ==
    /\ ~Pending(f) /\ Cardinality(LivePairs) >= MaxPairs
    /\ \E k \in LivePairs : Victim(k) /\ pairs' = With(LivePairs \ {k}, f)
    /\ answer' = "none" /\ joined' = <<>>
    /\ Saw(f, FALSE)

InsertHalf(f) == Replace(f) \/ Join(f) \/ Open(f) \/ Evict(f)

\* Ages stop just above the value they are compared with.
Older(a) == IF a > Window THEN a ELSE a + 1

PairTick ==
    /\ pairs' = [k \in DOMAIN pairs |-> [pairs[k] EXCEPT !.age = Older(@)]]
    /\ lastSeen' = [k \in DOMAIN lastSeen |->
                       [lastSeen[k] EXCEPT !.age = Older(@)]]
    /\ answer' = "none" /\ joined' = <<>>

PairInit == /\ pairs = <<>> /\ answer = "none" /\ joined = <<>>
        /\ lastSeen = <<>>

PairNext == (\E f \in Half : InsertHalf(f)) \/ PairTick

PairSpec == PairInit /\ [][PairNext]_pairVars

-----------------------------------------------------------------------------
(* Properties. *)

\* A packet joins the last two halves inserted for its key, in the order
\* their EOP marks give and not the order of arrival, neither of which is in
\* another packet, no further apart than the window: a half is never used
\* twice, and never after a newer one or its expiry.
JoinsLastTwo ==
    [][answer' = "packet" =>
         LET k == joined'[1].key IN
         /\ joined'[2].key = k /\ ~joined'[1].eop /\ joined'[2].eop
         /\ joined'[1].len + joined'[2].len <= MaxJoined
         /\ k \in DOMAIN lastSeen
         /\ lastSeen[k].half \in {joined'[1], joined'[2]}
         /\ ~lastSeen[k].used /\ lastSeen[k].age <= Window]_pairVars

\* A half that still waits within its window is lost only to its own key
\* (joined or replaced) or to a full table in which no group is older.
NothingLostEarly ==
    [][\A k \in DOMAIN pairs :
         pairs[k].age <= Window /\ k \notin DOMAIN pairs' =>
            \/ lastSeen'[k].age = 0 /\ lastSeen'[k].used
            \/ /\ Cardinality(DOMAIN pairs') = MaxPairs
               /\ \A j \in DOMAIN pairs' \cap DOMAIN pairs :
                     pairs'[j].age > 0 => pairs[j].age <= pairs[k].age]_pairVars

\* What the pair reassembler promises of the halves it is given: it joins the
\* right ones and forgets none too early.
HalvesSound == JoinsLastTwo /\ NothingLostEarly

=============================================================================
