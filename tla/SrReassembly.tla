---------------------------- MODULE SrReassembly ----------------------------
(***************************************************************************)
(* SrFragmentReassembler (src/src/fragment.rs): the offset-aware bounded   *)
(* reassembler of Segment Routing fragments, with Fragment::parse as the   *)
(* filter in front of it.                                                  *)
(*                                                                         *)
(* A fragment covers the bytes off .. off + len - 1 of its packet; which   *)
(* packet that was is carried in `pay`, which the code cannot see.  Time   *)
(* is counted in ticks, and purging happens only when a fragment is        *)
(* inserted, as in the code.                                               *)
(***************************************************************************)
EXTENDS Integers, Sequences, FiniteSets, Functions, SequencesExt

CONSTANTS
    Ids,        \* fragment IDs
    Payloads,   \* the packets fragments are cut from
    MaxPacket,  \* MAX_REASSEMBLED_PACKET
    MaxLen,     \* MAX_FRAGMENT_LENGTH
    MaxGroups,  \* SR_MAX_GROUPS
    MaxBytes,   \* SR_MAX_BUFFERED_BYTES
    Lifetime    \* SR_TIMEOUT, in ticks

ASSUME SrReassemblyAssumption ==
    /\ MaxPacket \in Nat \ {0} /\ MaxLen \in Nat \ {0}
    /\ MaxGroups \in Nat \ {0} /\ MaxBytes \in Nat
    /\ Lifetime \in Nat
    \* 16 groups of 8192 bytes are half of the 262144 byte limit.
    /\ MaxGroups * MaxPacket <= MaxBytes

VARIABLES
    groups,     \* id -> [age, parts, bytes], for the ids that have a group
    buffered,   \* SrFragmentReassembler::buffered_bytes
    result,     \* what the last insertion returned
    packet      \* the parts of the packet it returned, in order

srVars == <<groups, buffered, result, packet>>

\* What the wire can carry, and what Fragment::parse lets through: a non-empty
\* payload that ends inside the largest packet.
WireFragment == [id: Ids, off: 0..MaxPacket, len: 0..MaxLen, eop: BOOLEAN,
                 pay: Payloads]
FragmentParses(f) == f.len > 0 /\ f.off + f.len <= MaxPacket
Fragment == {f \in WireFragment : FragmentParses(f)}

Result == {"none", "packet", "invalid", "full", "overlap", "trailing"}

\* Fragment::end_offset.
EndOffset(f) == f.off + f.len
Overlaps(f, g) == f.off < EndOffset(g) /\ g.off < EndOffset(f)

BytesOf(ids) == SumFunction([i \in ids |-> groups[i].bytes])

\* Mutant: a group is dropped from the map but its bytes stay counted.
PurgedBytesLeaky == buffered

\* Mutant: expired groups are not purged before a fragment is inserted.
LiveForever == DOMAIN groups

\* purge_expired: a group lives while its age does not exceed the timeout.
Live == {i \in DOMAIN groups : groups[i].age <= Lifetime}
PurgedBytes == buffered - BytesOf(DOMAIN groups \ Live)

\* The group a fragment joins: or_insert_with creates it now.
GroupOf(id) == IF id \in Live THEN groups[id]
                              ELSE [age |-> 0, parts |-> {}, bytes |-> 0]

Kept(ids) == [i \in ids |-> groups[i]]

\* The groups once f is stored in its group.
Stored(f) ==
    LET g == GroupOf(f.id) IN
    [i \in Live \cup {f.id} |->
        IF i = f.id THEN [g EXCEPT !.parts = @ \cup {f}, !.bytes = @ + f.len]
                    ELSE groups[i]]

\* Mutant: an EOP fragment completes a packet whatever lies before it.
EndsPacketEarly(p, parts) ==
    /\ p \in parts /\ p.eop
    /\ \A q \in parts : q.off < p.off => ~q.eop

\* The walk over the sorted parts stops at p: p ends the packet, and the parts
\* before it leave no gap and do not end it themselves.
EndsPacket(p, parts) ==
    /\ p \in parts /\ p.eop
    /\ \A q \in parts : q.off < p.off => ~q.eop
    /\ \A b \in 0 .. p.off - 1 :
          \E q \in parts : q.off <= b /\ b < EndOffset(q)

InOrder(parts) ==
    CHOOSE s \in [1 .. Cardinality(parts) -> parts] :
        \A j, k \in DOMAIN s : j < k => s[j].off < s[k].off

-----------------------------------------------------------------------------
(* insert: one action per way it returns. *)

Return(r) == result' = r /\ packet' = <<>>

\* Fragment::parse refuses the datagram: the reassembler is not called.
ParseFails(f) ==
    /\ ~FragmentParses(f)
    /\ Return("invalid")
    /\ UNCHANGED <<groups, buffered>>

Duplicate(f) ==
    f.id \in Live /\ \E p \in groups[f.id].parts : p.off = f.off

IgnoreDuplicate(f) ==
    /\ FragmentParses(f) /\ Duplicate(f)
    /\ groups' = Kept(Live) /\ buffered' = PurgedBytes
    /\ Return("none")

\* The two limits, in the order insert tests them.
NoRoom(f) == \/ f.id \notin Live /\ Cardinality(Live) >= MaxGroups
             \/ PurgedBytes + f.len > MaxBytes

RefuseForRoom(f) ==
    /\ FragmentParses(f) /\ ~Duplicate(f) /\ NoRoom(f)
    /\ groups' = Kept(Live) /\ buffered' = PurgedBytes
    /\ Return("full")

Admitted(f) == FragmentParses(f) /\ ~Duplicate(f) /\ ~NoRoom(f)

Conflicts(f) == \E p \in GroupOf(f.id).parts : Overlaps(f, p)

\* An overlapping fragment discards the whole group with its bytes.
DiscardOverlap(f) ==
    /\ Admitted(f) /\ Conflicts(f)
    /\ groups' = Kept(Live \ {f.id})
    /\ buffered' = PurgedBytes - GroupOf(f.id).bytes
    /\ Return("overlap")

Store(f) ==
    /\ Admitted(f) /\ ~Conflicts(f)
    /\ ~\E p \in Stored(f)[f.id].parts : EndsPacket(p, Stored(f)[f.id].parts)
    /\ groups' = Stored(f)
    /\ buffered' = PurgedBytes + f.len
    /\ Return("none")

\* A packet is complete.  Data after its end discards the group; otherwise
\* the group leaves the table and its parts are joined in order.
Complete(f) ==
    LET g == Stored(f)[f.id] IN
    /\ Admitted(f) /\ ~Conflicts(f)
    /\ \E p \in g.parts :
          /\ EndsPacket(p, g.parts)
          /\ IF \E q \in g.parts : q.off >= EndOffset(p)
               THEN Return("trailing")
               ELSE result' = "packet" /\ packet' = InOrder(g.parts)
    /\ groups' = Kept(Live \ {f.id})
    /\ buffered' = PurgedBytes + f.len - g.bytes

Insert(f) == \/ ParseFails(f) \/ IgnoreDuplicate(f) \/ RefuseForRoom(f)
             \/ DiscardOverlap(f) \/ Store(f) \/ Complete(f)

\* Ages stop just above the value they are compared with.
AgeGroups ==
    groups' = [i \in DOMAIN groups |->
                 [groups[i] EXCEPT !.age = IF @ > Lifetime THEN @ ELSE @ + 1]]

SrInit == groups = <<>> /\ buffered = 0 /\ result = "none" /\ packet = <<>>

SrTick ==
    /\ AgeGroups
    /\ Return("none")
    /\ UNCHANGED buffered

SrNext == (\E f \in WireFragment : Insert(f)) \/ SrTick

SrSpec == SrInit /\ [][SrNext]_srVars

-----------------------------------------------------------------------------
(* Properties. *)

Group == [age: 0 .. Lifetime + 1, parts: SUBSET Fragment, bytes: Nat]

\* The table maps ids to groups of parsed fragments.
SrTypeOK ==
    /\ DOMAIN groups \subseteq Ids
    /\ \A i \in DOMAIN groups : groups[i] \in Group
    /\ buffered \in Nat
    /\ result \in Result
    /\ packet \in Seq(Fragment)

\* The two counters the limits are tested against never drift from what is
\* stored, through duplicates, overlaps, expiries and completions, and the
\* subtraction in remove_group cannot wrap.
BytesAccounted ==
    /\ \A i \in DOMAIN groups :
          groups[i].bytes = SumFunction([p \in groups[i].parts |-> p.len])
    /\ buffered = BytesOf(DOMAIN groups)

\* The table is bounded: at most MaxGroups groups, none of them empty, and so
\* few bytes that the byte limit never refuses what the group limit allows.
Bounded ==
    /\ Cardinality(DOMAIN groups) <= MaxGroups
    /\ \A i \in DOMAIN groups : groups[i].parts # {}
    /\ buffered <= MaxGroups * MaxPacket

\* Parts of a group belong to its id and never overlap.
Disjoint ==
    \A i \in DOMAIN groups : \A p, q \in groups[i].parts :
        p.id = i /\ (p # q => ~Overlaps(p, q))

\* A packet whose parts are all there is returned at once: none waits in the
\* table for another fragment or for its expiry.
NothingCompleteWaits ==
    \A i \in DOMAIN groups : \A p \in groups[i].parts :
        ~EndsPacket(p, groups[i].parts)

\* The table is sound after every insertion and expiry: the parts above, which
\* later insertions rely on when they test the limits, sort the fragments and
\* take a group out again.
TableSound == SrTypeOK /\ BytesAccounted /\ Bounded /\ Disjoint /\ NothingCompleteWaits

\* A returned packet is the bytes 0 .. n-1 in order, each exactly once, and
\* only its last part is marked as the end of the packet.
PacketExact ==
    result = "packet" =>
        /\ packet # <<>> /\ packet[1].off = 0
        /\ \A k \in 2 .. Len(packet) :
              packet[k].off = EndOffset(packet[k - 1])
        /\ \A k \in 1 .. Len(packet) : packet[k].eop <=> k = Len(packet)

\* The table and what it returns stay exact however fragments of several
\* packets are interleaved, repeated, overlapped, evicted or expired.
ReassemblySound == TableSound /\ PacketExact

=============================================================================
