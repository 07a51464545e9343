---------------------------- MODULE DatapathProofs ---------------------------
(***************************************************************************)
(* What decides the way of a packet: the route guard for every set of      *)
(* prefixes and every list of routes, duplicates included; the route plan  *)
(* it is given, for every width of an address; the pairs of fragments of   *)
(* the traditional reassembler for every table and window; and the DNS     *)
(* policy for every list of servers, rules and hosts.                      *)
(***************************************************************************)
EXTENDS RouteGuard, RoutePolicy, TraditionalReassembly, DnsPolicy, SumLemmas

-----------------------------------------------------------------------------
(* RouteGuard: setup failure and Drop restore the routes they replaced. *)

Change == [prefix : Cidrs, previous : [Slots -> Owners]]

Types ==
    /\ platform \in {"linux", "macos", "windows"}
    /\ requests \in Seq(Cidrs)
    /\ table \in [Cidrs -> [Slots -> Owners]]
    /\ original \in [Cidrs -> [Slots -> {"none", "host"}]]
    /\ changes \in Seq(Change)
    /\ failed \subseteq Cidrs

\* No route is recorded any more once the rollback has ended, and nothing has
\* been rolled back before it begins.
PhaseOrder ==
    /\ phase \in {"linkdown", "refused", "dropped"} => changes = <<>>
    /\ phase \in {"configure", "up"} => failed = {}

\* What a slot "tunnel" can hold: nothing, the tunnel's or the host's route.
SlotHolds ==
    \A p \in Cidrs : table[p]["tunnel"] \in {"none", "tun", original[p]["tunnel"]}

\* A recorded change never holds a route of slot "other" that was not there.
OthersRecorded ==
    \A i \in DOMAIN changes :
        changes[i].previous["other"]
            \in {"none", original[changes[i].prefix]["other"]}

TunnelRecorded ==
    \A i \in DOMAIN changes :
        changes[i].previous["tunnel"]
            \in {"none", "tun", original[changes[i].prefix]["tunnel"]}

FirstFor(i) == \A j \in DOMAIN changes : j < i => changes[j].prefix # changes[i].prefix

\* Only the first change recorded for a prefix holds what configure found:
\* a later one for the same prefix holds the tunnel's own route.
FirstIsOriginal ==
    \A i \in DOMAIN changes :
        FirstFor(i) => changes[i].previous["tunnel"] = original[changes[i].prefix]["tunnel"]

\* A prefix with nothing recorded is as configure found it.
UnrecordedIsOriginal ==
    \A p \in Cidrs \ failed :
        (\A i \in DOMAIN changes : changes[i].prefix # p) => table[p] = original[p]

IInv == /\ Types /\ PhaseOrder /\ SlotHolds /\ OthersRecorded /\ TunnelRecorded
        /\ FirstIsOriginal /\ UnrecordedIsOriginal /\ OthersSurvive

-----------------------------------------------------------------------------

\* The initial states: nothing is recorded and the table is the original.
LEMMA InitInv == Init => IInv
<1> SUFFICES ASSUME Init PROVE IInv
    OBVIOUS
<1>1. Types
    BY RouteGuardAssumption DEF Init, Types, Owners
<1>2. SlotHolds /\ OthersSurvive
    BY DEF Init, SlotHolds, OthersSurvive
<1> QED
    BY <1>1, <1>2 DEF Init, IInv, PhaseOrder, OthersRecorded, TunnelRecorded,
        FirstIsOriginal, UnrecordedIsOriginal

\* Installing a route: the first change for a prefix records the original,
\* since a prefix with nothing recorded is still original.
LEMMA InstallInv == IInv /\ Install => IInv'
<1> SUFFICES ASSUME IInv, Install PROVE IInv'
    OBVIOUS
<1> DEFINE p == Head(requests)
           new == [prefix |-> p, previous |-> Snapshot(p)]
<1>1. p \in Cidrs /\ requests' \in Seq(Cidrs) /\ failed = {}
    BY DEF IInv, Types, PhaseOrder, Install
<1>2. /\ table' = [table EXCEPT ![p]["tunnel"] = "tun"]
      /\ changes' = IF Equivalent(p) THEN changes ELSE Append(changes, new)
      /\ UNCHANGED <<platform, phase, original, failed>>
      /\ CanInstall(p)
    BY DEF Install
<1>3. new \in Change
    BY <1>1 DEF Snapshot, Change, IInv, Types, Owners, Slots
<1>4. Types'
    BY <1>1, <1>2, <1>3 DEF IInv, Types, Owners, Slots
<1>5. PhaseOrder'
    BY <1>1, <1>2 DEF IInv, PhaseOrder, Install
<1>6. SlotHolds' /\ OthersSurvive'
    BY <1>1, <1>2 DEF IInv, SlotHolds, OthersSurvive, Types, Slots
<1>7. /\ new.prefix = p
      /\ new.previous["other"] \in {"none", original[p]["other"]}
      /\ new.previous["tunnel"] \in {"none", "tun", original[p]["tunnel"]}
    BY <1>1 DEF Snapshot, IInv, SlotHolds, OthersSurvive, Types, Slots
<1>8. (\A i \in DOMAIN changes : changes[i].prefix # p)
        => /\ table[p] = original[p] /\ ~ Equivalent(p)
           /\ new.previous["tunnel"] = original[p]["tunnel"]
  <2> SUFFICES ASSUME \A i \in DOMAIN changes : changes[i].prefix # p
               PROVE  /\ table[p] = original[p] /\ ~ Equivalent(p)
                      /\ new.previous["tunnel"] = original[p]["tunnel"]
    OBVIOUS
  <2>1. table[p] = original[p]
    BY <1>1 DEF IInv, UnrecordedIsOriginal
  <2>2. original[p]["tunnel"] \in {"none", "host"}
    BY <1>1 DEF IInv, Types, Slots
  <2> QED
    BY <1>2, <2>1, <2>2 DEF Equivalent, Snapshot, CanInstall, Slots, IInv, Types
<1>9. CASE Equivalent(p)
  <2>1. changes' = changes
    BY <1>2, <1>9
  <2>2. OthersRecorded' /\ TunnelRecorded' /\ FirstIsOriginal'
    BY <1>2, <2>1 DEF IInv, OthersRecorded, TunnelRecorded, FirstIsOriginal, FirstFor
  <2>3. UnrecordedIsOriginal'
    BY <1>1, <1>2, <1>8, <1>9, <2>1 DEF IInv, UnrecordedIsOriginal, Types
  <2> QED
    BY <1>4, <1>5, <1>6, <2>2, <2>3 DEF IInv
<1>10. CASE ~ Equivalent(p)
  <2>1. changes' = Append(changes, new) /\ changes \in Seq(Change)
    BY <1>2, <1>10 DEF IInv, Types
  <2>2. /\ DOMAIN changes = 1..Len(changes) /\ Len(changes) \in Nat
        /\ DOMAIN changes' = 1..(Len(changes) + 1)
        /\ \A i \in 1..Len(changes) : changes'[i] = changes[i]
        /\ changes'[Len(changes) + 1] = new
    BY <2>1, <1>3
  <2>3. OthersRecorded' /\ TunnelRecorded'
    <3>1. ASSUME NEW i \in DOMAIN changes'
          PROVE  /\ changes'[i].previous["other"] \in {"none", original[changes'[i].prefix]["other"]}
                 /\ changes'[i].previous["tunnel"]
                       \in {"none", "tun", original[changes'[i].prefix]["tunnel"]}
      <4>1. i \in 1..Len(changes) \/ i = Len(changes) + 1
        BY <2>2
      <4>2. CASE i \in 1..Len(changes)
        <5>1. i \in DOMAIN changes /\ changes'[i] = changes[i]
          BY <2>2, <4>2
        <5>2. QED
          BY <5>1 DEF IInv, OthersRecorded, TunnelRecorded
      <4>3. CASE i = Len(changes) + 1
        <5>1. changes'[i] = new
          BY <2>2, <4>3
        <5>2. QED
          BY <1>7, <5>1
      <4>4. QED
        BY <4>1, <4>2, <4>3
    <3>2. original' = original
      BY <1>2
    <3>3. QED
      BY <3>1, <3>2 DEF OthersRecorded, TunnelRecorded
  <2>4. FirstIsOriginal'
    BY <1>2, <1>7, <1>8, <2>2 DEF IInv, FirstIsOriginal, FirstFor
  <2>5. UnrecordedIsOriginal'
    <3> SUFFICES ASSUME NEW q \in Cidrs \ failed,
                        \A i \in DOMAIN changes' : changes'[i].prefix # q
                 PROVE  table'[q] = original[q]
      BY <1>2 DEF UnrecordedIsOriginal
    <3>1. q # p /\ \A i \in DOMAIN changes : changes[i].prefix # q
      BY <1>7, <2>2
    <3> QED
      BY <1>1, <1>2, <3>1 DEF IInv, UnrecordedIsOriginal, Types
  <2> QED
    BY <1>4, <1>5, <1>6, <2>3, <2>4, <2>5 DEF IInv
<1> QED
    BY <1>9, <1>10

\* What every step of a rollback does to the recorded changes and to one
\* prefix, whether its commands succeed or not.
LEMMA PopInv ==
    ASSUME IInv, changes # <<>>, NEW c \in Recorded, UndoneNext(c),
           NEW slots \in [Slots -> Owners],
           slots["other"] = table[c.prefix]["other"],
           slots["tunnel"] \in {table[c.prefix]["tunnel"], Undone(c)["tunnel"],
                                Cleared(table[c.prefix]["tunnel"])},
           table' = [table EXCEPT ![c.prefix] = slots],
           phase \in {"undo", "drop"},
           UNCHANGED <<platform, requests, phase, original>>,
           \/ failed' = failed \cup {c.prefix}
           \/ failed' = failed /\ slots = Undone(c)
    PROVE  IInv'
<1> DEFINE n == Len(changes)
<1>1. /\ n \in Nat \ {0} /\ c = changes[n] /\ c \in Change
      /\ changes' = SubSeq(changes, 1, n - 1)
    BY DEF IInv, Types, Recorded, UndoneNext
<1>2. /\ changes' \in Seq(Change) /\ DOMAIN changes' = 1..(n - 1)
      /\ \A i \in 1..(n - 1) : changes'[i] = changes[i]
      /\ DOMAIN changes = 1..n
    BY <1>1 DEF IInv, Types
<1>a. \A i \in 1..n : i \in 1..(n - 1) \/ (i = n /\ ~ (i < n))
    BY <1>1
<1>3. c.prefix \in Cidrs /\ c.previous \in [Slots -> Owners]
    BY <1>1 DEF Change
<1>4. Types'
    BY <1>2, <1>3 DEF IInv, Types
<1>5. PhaseOrder'
    BY DEF PhaseOrder
<1>6. c.previous["tunnel"] \in {"none", "tun", original[c.prefix]["tunnel"]}
    BY <1>1, <1>2 DEF IInv, TunnelRecorded
<1>7. SlotHolds' /\ OthersSurvive'
    BY <1>3, <1>6 DEF IInv, SlotHolds, OthersSurvive, Types, Undone, Cleared, Slots
<1>8. OthersRecorded' /\ TunnelRecorded'
    BY <1>2 DEF IInv, OthersRecorded, TunnelRecorded
<1>9. FirstIsOriginal'
  <2> SUFFICES ASSUME NEW i \in DOMAIN changes', FirstFor(i)'
               PROVE  changes'[i].previous["tunnel"] = original'[changes'[i].prefix]["tunnel"]
    BY DEF FirstIsOriginal
  <2>1. i \in 1..(n - 1) /\ i \in DOMAIN changes /\ changes'[i] = changes[i]
    BY <1>1, <1>2
  <2>2. ASSUME NEW j \in DOMAIN changes, j < i PROVE changes[j].prefix # changes[i].prefix
    <3>1. j \in DOMAIN changes' /\ changes'[j] = changes[j]
      BY <1>1, <1>2, <2>1, <2>2
    <3>2. QED
      BY <2>1, <2>2, <3>1 DEF FirstFor
  <2>3. FirstFor(i)
    BY <2>2 DEF FirstFor
  <2>4. changes[i].previous["tunnel"] = original[changes[i].prefix]["tunnel"]
    BY <2>1, <2>3 DEF IInv, FirstIsOriginal
  <2>5. QED
    BY <2>1, <2>4
<1>10. UnrecordedIsOriginal'
  <2> SUFFICES ASSUME NEW q \in Cidrs \ failed',
                      \A i \in DOMAIN changes' : changes'[i].prefix # q
               PROVE  table'[q] = original[q]
    BY DEF UnrecordedIsOriginal
  <2>1. CASE q # c.prefix
    <3>1. \A i \in DOMAIN changes : changes[i].prefix # q
      BY <1>1, <1>2, <1>a, <2>1
    <3>2. q \notin failed
      OBVIOUS
    <3> QED
      BY <1>3, <2>1, <3>1, <3>2 DEF IInv, UnrecordedIsOriginal, Types
  <2>2. CASE q = c.prefix
    <3>1. failed' = failed /\ slots = Undone(c)
      BY <2>2
    <3>2. FirstFor(n)
      BY <1>1, <1>2, <1>a, <2>2 DEF FirstFor
    <3>3. c.previous["tunnel"] = original[q]["tunnel"]
      BY <1>1, <1>2, <2>2, <3>2 DEF IInv, FirstIsOriginal
    <3>4. table[q]["tunnel"] \in {"none", "tun", original[q]["tunnel"]}
      BY DEF IInv, SlotHolds
    <3>5. slots["tunnel"] = original[q]["tunnel"]
      BY <2>2, <3>1, <3>3, <3>4 DEF Undone, Cleared, Slots
    <3>6. slots["other"] = original[q]["other"]
      BY <2>2 DEF IInv, OthersSurvive
    <3>7. original[q] \in [Slots -> {"none", "host"}]
      BY DEF IInv, Types
    <3>8. slots = original[q]
      BY <3>5, <3>6, <3>7 DEF Slots
    <3> QED
      BY <1>3, <2>2, <3>8 DEF IInv, Types
  <2> QED
    BY <2>1, <2>2
<1> QED
    BY <1>4, <1>5, <1>7, <1>8, <1>9, <1>10 DEF IInv

\* What undoing a recorded change yields is a state of the prefix with its
\* slot "other" untouched.
LEMMA UndoneKeepsOther ==
    ASSUME IInv, NEW c \in Recorded
    PROVE  /\ c.prefix \in Cidrs
           /\ Undone(c) \in [Slots -> Owners]
           /\ Undone(c)["other"] = table[c.prefix]["other"]
<1>1. c \in Change /\ \E i \in DOMAIN changes : c = changes[i]
    BY DEF IInv, Types, Recorded
<1>2. c.prefix \in Cidrs /\ c.previous \in [Slots -> Owners]
    BY <1>1 DEF Change
<1>3. c.previous["other"] \in {"none", original[c.prefix]["other"]}
    BY <1>1 DEF IInv, OthersRecorded
<1>4. table[c.prefix] \in [Slots -> Owners]
      /\ table[c.prefix]["other"] = original[c.prefix]["other"]
      /\ original[c.prefix]["other"] \in {"none", "host"}
    BY <1>2 DEF IInv, Types, OthersSurvive, Slots
<1> QED
    BY <1>2, <1>3, <1>4 DEF Undone, Cleared, Owners, Slots

LEMMA UndoInv == IInv /\ Undo => IInv'
<1> SUFFICES ASSUME IInv, Undo PROVE IInv'
    OBVIOUS
<1>1. PICK c \in Recorded : UndoneNext(c) /\ table' = [table EXCEPT ![c.prefix] = Undone(c)]
    BY DEF Undo
<1> QED
    BY <1>1, UndoneKeepsOther, PopInv DEF Undo

LEMMA UndoFailsInv == IInv /\ UndoFails => IInv'
<1> SUFFICES ASSUME IInv, UndoFails PROVE IInv'
    OBVIOUS
<1>1. PICK c \in Recorded, slots \in [Slots -> Owners] :
          /\ UndoneNext(c)
          /\ \A s \in Slots :
                slots[s] \in {table[c.prefix][s], Cleared(table[c.prefix][s]), Undone(c)[s]}
          /\ table' = [table EXCEPT ![c.prefix] = slots]
          /\ failed' = failed \cup {c.prefix}
    BY DEF UndoFails
<1>2. c.prefix \in Cidrs /\ Undone(c)["other"] = table[c.prefix]["other"]
    BY UndoneKeepsOther
<1>3. table[c.prefix]["other"] # "tun"
    BY <1>2 DEF IInv, OthersSurvive, Types, Slots
<1>4. slots["other"] = table[c.prefix]["other"]
    BY <1>1, <1>2, <1>3 DEF Cleared, Slots
<1> QED
    BY <1>1, <1>4, PopInv DEF UndoFails, Slots

\* The link goes down with nothing recorded: it finds a tunnel route only at
\* a prefix whose rollback failed.
LEMMA LinkDownInv == IInv /\ LinkDown => IInv'
<1> SUFFICES ASSUME IInv, LinkDown PROVE IInv'
    OBVIOUS
<1>1. changes = <<>> /\ changes' = <<>> /\ phase' = "dropped"
      /\ UNCHANGED <<platform, requests, original, failed>>
    BY DEF IInv, PhaseOrder, LinkDown
<1>2. CASE table' = [p \in Cidrs |-> [s \in Slots |-> Cleared(table[p][s])]]
  <2>1. Types'
    BY <1>1, <1>2 DEF IInv, Types, Cleared, Owners
  <2>2. SlotHolds' /\ OthersSurvive'
    BY <1>1, <1>2 DEF IInv, Types, SlotHolds, OthersSurvive, Cleared, Slots
  <2>3. UnrecordedIsOriginal'
    <3> SUFFICES ASSUME NEW p \in Cidrs \ failed PROVE table'[p] = original[p]
      BY <1>1 DEF UnrecordedIsOriginal
    <3>1. table[p] = original[p] /\ original[p] \in [Slots -> {"none", "host"}]
      BY <1>1 DEF IInv, UnrecordedIsOriginal, Types
    <3> QED
      BY <1>2, <3>1 DEF Cleared
  <2> QED
    BY <1>1, <2>1, <2>2, <2>3 DEF IInv, PhaseOrder, OthersRecorded, TunnelRecorded,
        FirstIsOriginal
<1>3. CASE UNCHANGED table
    BY <1>1, <1>3 DEF IInv, Types, PhaseOrder, SlotHolds, OthersSurvive, OthersRecorded,
        TunnelRecorded, FirstIsOriginal, UnrecordedIsOriginal
<1> QED
    BY <1>2, <1>3 DEF LinkDown

\* The steps that touch neither the table nor the recorded changes.
LEMMA PhaseStepInv ==
    ASSUME IInv, UNCHANGED <<platform, requests, table, changes, original, failed>>,
           phase' \in {"linkdown", "refused", "dropped"} => changes = <<>>,
           phase' \in {"configure", "up"} => failed = {}
    PROVE  IInv'
BY DEF IInv, Types, PhaseOrder, SlotHolds, OthersSurvive, OthersRecorded,
        TunnelRecorded, FirstIsOriginal, FirstFor, UnrecordedIsOriginal

\* The inductive invariant, for every set of prefixes and every request.
THEOREM Inductive == Spec => []IInv
<1>1. IInv /\ [Next]_vars => IInv'
  <2> SUFFICES ASSUME IInv, [Next]_vars PROVE IInv'
    OBVIOUS
  <2>1. CASE Install
    BY <2>1, InstallInv
  <2>2. CASE InstallFails
    BY <2>2, PhaseStepInv DEF InstallFails
  <2>3. CASE Configured
    BY <2>3, PhaseStepInv DEF Configured, IInv, PhaseOrder
  <2>4. CASE DropGuard
    BY <2>4, PhaseStepInv DEF DropGuard
  <2>5. CASE Undo
    BY <2>5, UndoInv
  <2>6. CASE UndoFails
    BY <2>6, UndoFailsInv
  <2>7. CASE UndoEnds
    BY <2>7, PhaseStepInv DEF UndoEnds
  <2>8. CASE LinkDown
    BY <2>8, LinkDownInv
  <2>9. CASE UNCHANGED vars
    BY <2>9, PhaseStepInv DEF vars, IInv, PhaseOrder
  <2> QED
    BY <2>1, <2>2, <2>3, <2>4, <2>5, <2>6, <2>7, <2>8, <2>9 DEF Next, Done
<1> QED
    BY <1>1, InitInv, PTL DEF Spec

\* A refused configure and a dropped RouteGuard leave every prefix whose
\* rollback commands succeeded as configure found it.
THEOREM RoutesRestored == Spec => []Restored
<1>1. IInv => Restored
  <2> SUFFICES ASSUME IInv, phase \in {"refused", "dropped"}, NEW p \in Cidrs \ failed
               PROVE  table[p] = original[p]
    BY DEF Restored
  <2>1. changes = <<>>
    BY DEF IInv, PhaseOrder
  <2>2. \A i \in DOMAIN changes : changes[i].prefix # p
    BY <2>1
  <2> QED
    BY <2>2 DEF IInv, UnrecordedIsOriginal
<1> QED
    BY <1>1, Inductive, PTL

\* No step of setup or rollback, failing ones included, removes a route the
\* tunnel does not replace.
THEOREM OtherRoutesKept == Spec => []OthersSurvive
<1>1. IInv => OthersSurvive
    BY DEF IInv
<1> QED
    BY <1>1, Inductive, PTL

-----------------------------------------------------------------------------
(* TraditionalFragmentReassembler. *)

WaitingHalves == [age : Nat, half : Half]
SeenHalves == [half : Half, age : Nat, used : BOOLEAN]

\* What waits under a key is the last half seen of it, unused and as old.
WaitsLast ==
    \A k \in DOMAIN pairs :
        /\ pairs[k] \in WaitingHalves /\ pairs[k].half.key = k
        /\ k \in DOMAIN lastSeen
        /\ lastSeen[k].half = pairs[k].half /\ lastSeen[k].age = pairs[k].age
        /\ ~ lastSeen[k].used

PairsBounded == IsFiniteSet(DOMAIN pairs) /\ Cardinality(DOMAIN pairs) <= MaxPairs

PairInv == /\ \A k \in DOMAIN lastSeen : lastSeen[k] \in SeenHalves
           /\ WaitsLast /\ PairsBounded

\* Nothing waits at first.
LEMMA PairsStart == PairInit => PairInv
<1> SUFFICES ASSUME PairInit PROVE PairInv
  OBVIOUS
<1>1. DOMAIN pairs = {} /\ DOMAIN lastSeen = {}
  BY DEF PairInit
<1>2. IsFiniteSet(DOMAIN pairs) /\ Cardinality(DOMAIN pairs) <= MaxPairs
  BY <1>1, FS_EmptySet, TraditionalAssumption
<1>3. QED
  BY <1>1, <1>2 DEF PairInv, WaitsLast, PairsBounded

\* The keys that still wait, and what one more or one less makes of them.
LEMMA LiveCounted ==
    ASSUME PairInv
    PROVE  /\ LivePairs \subseteq DOMAIN pairs
           /\ IsFiniteSet(LivePairs) /\ Cardinality(LivePairs) \in Nat
           /\ Cardinality(LivePairs) <= MaxPairs
<1>1. LivePairs \subseteq DOMAIN pairs
  BY DEF LivePairs
<1>2. QED
  BY <1>1, FS_Subset, FS_CardinalityType, TraditionalAssumption DEF PairInv, PairsBounded

\* What an insertion notes of its key.
LEMMA SawOne ==
    ASSUME PairInv, NEW f \in Half, NEW used \in BOOLEAN, Saw(f, used)
    PROVE  /\ DOMAIN lastSeen' = DOMAIN lastSeen \cup {f.key}
           /\ \A k \in DOMAIN lastSeen' : lastSeen'[k] \in SeenHalves
           /\ lastSeen'[f.key].half = f /\ lastSeen'[f.key].age = 0
           /\ lastSeen'[f.key].used = used
           /\ \A k \in DOMAIN lastSeen : k # f.key => lastSeen'[k] = lastSeen[k]
BY DEF PairInv, Saw, SeenHalves

\* An insertion that leaves its half waiting, beside some of those that live.
LEMMA HalfWaits ==
    ASSUME PairInv, NEW f \in Half, NEW keys \in SUBSET LivePairs, pairs' = With(keys, f),
           Saw(f, FALSE), Cardinality(keys \cup {f.key}) <= MaxPairs
    PROVE  PairInv'
<1>1. LivePairs \subseteq DOMAIN pairs /\ IsFiniteSet(LivePairs)
  BY LiveCounted
<1>2. /\ DOMAIN lastSeen' = DOMAIN lastSeen \cup {f.key}
      /\ \A k \in DOMAIN lastSeen' : lastSeen'[k] \in SeenHalves
      /\ lastSeen'[f.key].half = f /\ lastSeen'[f.key].age = 0
      /\ lastSeen'[f.key].used = FALSE
      /\ \A k \in DOMAIN lastSeen : k # f.key => lastSeen'[k] = lastSeen[k]
  BY SawOne
<1>3. /\ DOMAIN pairs' = keys \cup {f.key}
      /\ pairs'[f.key] = [age |-> 0, half |-> f]
      /\ \A k \in keys : k # f.key => pairs'[k] = pairs[k]
  BY DEF With
<1>4. [age |-> 0, half |-> f] \in WaitingHalves
  BY DEF WaitingHalves
<1>5. WaitsLast'
  BY <1>1, <1>2, <1>3, <1>4 DEF PairInv, WaitsLast
<1>6. IsFiniteSet(keys \cup {f.key})
  BY <1>1, FS_Subset, FS_AddElement
<1>7. PairsBounded'
  BY <1>3, <1>6 DEF PairsBounded
<1>8. QED
  BY <1>2, <1>5, <1>7 DEF PairInv

\* Every insertion and every tick keeps the table and the history together.
LEMMA PairsKeep == ASSUME PairInv, [PairNext]_pairVars PROVE PairInv'
<1>0. /\ LivePairs \subseteq DOMAIN pairs /\ IsFiniteSet(LivePairs)
      /\ Cardinality(LivePairs) \in Nat /\ Cardinality(LivePairs) <= MaxPairs
  BY LiveCounted
<1>1. ASSUME NEW f \in Half, Replace(f) PROVE PairInv'
  <2>1. pairs' = With(LivePairs, f) /\ Saw(f, FALSE) /\ LivePairs \cup {f.key} = LivePairs
    BY <1>1 DEF Replace, Pending
  <2>2. QED
    BY <1>0, <2>1, HalfWaits
<1>2. ASSUME NEW f \in Half, Open(f) PROVE PairInv'
  <2>1. /\ pairs' = With(LivePairs, f) /\ Saw(f, FALSE)
        /\ f.key \notin LivePairs /\ Cardinality(LivePairs) < MaxPairs
    BY <1>2 DEF Open, Pending
  <2>2. Cardinality(LivePairs \cup {f.key}) = Cardinality(LivePairs) + 1
    BY <1>0, <2>1, FS_AddElement
  <2>3. Cardinality(LivePairs \cup {f.key}) <= MaxPairs
    BY <1>0, <2>1, <2>2, TraditionalAssumption
  <2>4. QED
    BY <2>1, <2>3, HalfWaits
<1>3. ASSUME NEW f \in Half, Evict(f) PROVE PairInv'
  <2>1. PICK k \in LivePairs : pairs' = With(LivePairs \ {k}, f)
    BY <1>3 DEF Evict
  <2>2. Saw(f, FALSE) /\ f.key \notin LivePairs
    BY <1>3 DEF Evict, Pending
  <2>3. /\ IsFiniteSet(LivePairs \ {k})
        /\ Cardinality(LivePairs \ {k}) = Cardinality(LivePairs) - 1
    BY <1>0, FS_RemoveElement
  <2>4. Cardinality((LivePairs \ {k}) \cup {f.key}) = Cardinality(LivePairs)
    <3>1. f.key \notin LivePairs \ {k}
      BY <2>2
    <3>2. Cardinality((LivePairs \ {k}) \cup {f.key}) = Cardinality(LivePairs \ {k}) + 1
      BY <2>3, <3>1, FS_AddElement
    <3>3. QED
      BY <1>0, <2>3, <3>2
  <2>5. QED
    BY <1>0, <2>1, <2>2, <2>4, HalfWaits
<1>4. ASSUME NEW f \in Half, Join(f) PROVE PairInv'
  <2>1. pairs' = [k \in LivePairs \ {f.key} |-> pairs[k]] /\ Saw(f, TRUE)
    BY <1>4 DEF Join, KeptPairs
  <2>2. /\ DOMAIN pairs' = LivePairs \ {f.key}
        /\ \A k \in LivePairs \ {f.key} : pairs'[k] = pairs[k]
    BY <2>1
  <2>3. /\ DOMAIN lastSeen' = DOMAIN lastSeen \cup {f.key}
        /\ \A k \in DOMAIN lastSeen' : lastSeen'[k] \in SeenHalves
        /\ \A k \in DOMAIN lastSeen : k # f.key => lastSeen'[k] = lastSeen[k]
    BY <2>1, SawOne
  <2>4. WaitsLast'
    BY <1>0, <2>2, <2>3 DEF PairInv, WaitsLast
  <2>5. LivePairs \ {f.key} \subseteq LivePairs
    OBVIOUS
  <2>6. PairsBounded'
    BY <1>0, <2>2, <2>5, FS_Subset, FS_CardinalityType, TraditionalAssumption DEF PairsBounded
  <2>7. QED
    BY <2>3, <2>4, <2>6 DEF PairInv
<1>5. CASE PairTick
  <2>1. /\ DOMAIN pairs' = DOMAIN pairs /\ DOMAIN lastSeen' = DOMAIN lastSeen
        /\ \A k \in DOMAIN pairs : pairs'[k] = [pairs[k] EXCEPT !.age = Older(pairs[k].age)]
        /\ \A k \in DOMAIN lastSeen :
              lastSeen'[k] = [lastSeen[k] EXCEPT !.age = Older(lastSeen[k].age)]
    BY <1>5 DEF PairTick
  <2>2. \A a \in Nat : Older(a) \in Nat
    BY DEF Older
  <2>3. ASSUME NEW k \in DOMAIN lastSeen
        PROVE  /\ lastSeen'[k] \in SeenHalves /\ lastSeen'[k].half = lastSeen[k].half
               /\ lastSeen'[k].used = lastSeen[k].used
               /\ lastSeen'[k].age = Older(lastSeen[k].age)
    BY <2>1, <2>2 DEF PairInv, SeenHalves
  <2>4. ASSUME NEW k \in DOMAIN pairs
        PROVE  /\ pairs'[k] \in WaitingHalves /\ pairs'[k].half = pairs[k].half
               /\ pairs'[k].age = Older(pairs[k].age)
    BY <2>1, <2>2 DEF PairInv, WaitsLast, WaitingHalves
  <2>5. WaitsLast'
    BY <2>1, <2>3, <2>4 DEF PairInv, WaitsLast
  <2>6. QED
    BY <2>1, <2>3, <2>5 DEF PairInv, PairsBounded
<1>6. CASE UNCHANGED pairVars
  BY <1>6 DEF pairVars, PairInv, WaitsLast, PairsBounded
<1>7. QED
  BY <1>1, <1>2, <1>3, <1>4, <1>5, <1>6 DEF PairNext, InsertHalf

\* A packet joins the two last halves of its key.
LEMMA JoinExact ==
    ASSUME PairInv, PairNext, answer' = "packet"
    PROVE  LET k == joined'[1].key IN
           /\ joined'[2].key = k /\ ~joined'[1].eop /\ joined'[2].eop
           /\ joined'[1].len + joined'[2].len <= MaxJoined
           /\ k \in DOMAIN lastSeen
           /\ lastSeen[k].half \in {joined'[1], joined'[2]}
           /\ ~lastSeen[k].used /\ lastSeen[k].age <= Window
<1>1. PICK f \in Half : Join(f)
  BY DEF PairNext, InsertHalf, PairTick, Replace, Open, Evict
<1>2. PICK w : w = Waiting(f)
  OBVIOUS
<1>3. f.key \in DOMAIN pairs /\ pairs[f.key].age <= Window
  BY <1>1 DEF Join, Pending, LivePairs
<1>4. /\ w \in Half /\ w.key = f.key /\ f.key \in DOMAIN lastSeen /\ lastSeen[f.key].half = w
      /\ ~ lastSeen[f.key].used /\ lastSeen[f.key].age <= Window
  BY <1>2, <1>3 DEF PairInv, WaitsLast, WaitingHalves, Waiting
<1>5. /\ w.eop # f.eop /\ ~ (f.len + w.len > MaxJoined)
      /\ joined' = IF f.eop THEN <<w, f>> ELSE <<f, w>>
  BY <1>1, <1>2 DEF Join
<1>6. f.len \in Nat /\ w.len \in Nat /\ MaxJoined \in Nat
  <2>1. f.len \in HalfLengths /\ w.len \in HalfLengths
    BY <1>4 DEF Half
  <2>2. HalfLengths \subseteq 1..MaxJoined /\ MaxJoined \in Nat
    BY TraditionalAssumption
  <2>3. f.len \in 1..MaxJoined /\ w.len \in 1..MaxJoined
    BY <2>1, <2>2
  <2>4. QED
    BY <2>2, <2>3
<1>7. f.eop \in BOOLEAN /\ w.eop \in BOOLEAN
  BY <1>4 DEF Half
<1>8. CASE f.eop
  <2>1. joined'[1] = w /\ joined'[2] = f
    BY <1>5, <1>8
  <2>2. ~ w.eop
    BY <1>5, <1>7, <1>8, Zenon
  <2>3. w.len + f.len <= MaxJoined
    BY <1>5, <1>6
  <2>4. QED
    BY <1>4, <1>8, <2>1, <2>2, <2>3
<1>9. CASE ~ f.eop
  <2>1. joined'[1] = f /\ joined'[2] = w
    BY <1>5, <1>9
  <2>2. w.eop
    BY <1>5, <1>7, <1>9, Zenon
  <2>3. f.len + w.len <= MaxJoined
    BY <1>5, <1>6
  <2>4. QED
    BY <1>4, <1>9, <2>1, <2>2, <2>3
<1>10. QED
  BY <1>8, <1>9

\* A half within its window goes only with its own key, or as the oldest.
LEMMA LossExplained ==
    ASSUME PairInv, PairNext, NEW k \in DOMAIN pairs, pairs[k].age <= Window, k \notin DOMAIN pairs'
    PROVE  \/ lastSeen'[k].age = 0 /\ lastSeen'[k].used
           \/ /\ Cardinality(DOMAIN pairs') = MaxPairs
              /\ \A j \in DOMAIN pairs' \cap DOMAIN pairs :
                    pairs'[j].age > 0 => pairs[j].age <= pairs[k].age
<1>0. /\ LivePairs \subseteq DOMAIN pairs /\ IsFiniteSet(LivePairs)
      /\ Cardinality(LivePairs) \in Nat /\ Cardinality(LivePairs) <= MaxPairs
  BY LiveCounted
<1>1. k \in LivePairs
  BY DEF LivePairs
<1>2. ~ PairTick
  BY DEF PairTick
<1>3. PICK f \in Half : InsertHalf(f)
  BY <1>2 DEF PairNext
<1>4. ~ Replace(f) /\ ~ Open(f)
  BY <1>1 DEF Replace, Open, With
<1>5. CASE Join(f)
  <2>1. DOMAIN pairs' = LivePairs \ {f.key} /\ Saw(f, TRUE)
    BY <1>5 DEF Join, KeptPairs
  <2>2. k = f.key
    BY <1>1, <2>1
  <2>3. QED
    BY <2>1, <2>2, SawOne
<1>6. CASE Evict(f)
  <2>1. PICK v \in LivePairs : Victim(v) /\ pairs' = With(LivePairs \ {v}, f)
    BY <1>6 DEF Evict
  <2>2. f.key \notin LivePairs /\ Cardinality(LivePairs) >= MaxPairs
    BY <1>6 DEF Evict, Pending
  <2>3. /\ DOMAIN pairs' = (LivePairs \ {v}) \cup {f.key} /\ pairs'[f.key].age = 0
        /\ \A j \in LivePairs \ {v} : j # f.key => pairs'[j] = pairs[j]
    BY <2>1 DEF With
  <2>4. k = v
    BY <1>1, <2>3
  <2>5. Cardinality(DOMAIN pairs') = MaxPairs
    <3>1. /\ IsFiniteSet(LivePairs \ {v})
          /\ Cardinality(LivePairs \ {v}) = Cardinality(LivePairs) - 1
      BY <1>0, FS_RemoveElement
    <3>2. f.key \notin LivePairs \ {v}
      BY <2>2
    <3>3. Cardinality((LivePairs \ {v}) \cup {f.key}) = Cardinality(LivePairs \ {v}) + 1
      BY <3>1, <3>2, FS_AddElement
    <3>4. QED
      BY <1>0, <2>2, <2>3, <3>1, <3>3, TraditionalAssumption
  <2>6. ASSUME NEW j \in DOMAIN pairs' \cap DOMAIN pairs, pairs'[j].age > 0
        PROVE  pairs[j].age <= pairs[k].age
    <3>1. j \in LivePairs
      BY <2>3, <2>6
    <3>2. pairs[j].age \in Nat /\ pairs[k].age \in Nat
      BY DEF PairInv, WaitsLast, WaitingHalves
    <3>3. QED
      BY <2>1, <2>4, <3>1, <3>2 DEF Victim
  <2>7. QED
    BY <2>5, <2>6
<1>7. QED
  BY <1>3, <1>4, <1>5, <1>6 DEF InsertHalf

\* For every set of keys and lengths, every table size and window, and whatever
\* order halves arrive in, repeat or stay away: a packet is the two last halves
\* of its key in their order, each used once and within the window, and a half
\* leaves the table early only when it is the oldest of a full one.
THEOREM HalvesAlwaysSound == PairSpec => HalvesSound
<1>1. PairInit => PairInv
  BY PairsStart
<1>2. PairInv /\ [PairNext]_pairVars => PairInv'
  BY PairsKeep
<1>3. PairInv /\ [PairNext]_pairVars =>
         [answer' = "packet" =>
            LET k == joined'[1].key IN
            /\ joined'[2].key = k /\ ~joined'[1].eop /\ joined'[2].eop
            /\ joined'[1].len + joined'[2].len <= MaxJoined
            /\ k \in DOMAIN lastSeen
            /\ lastSeen[k].half \in {joined'[1], joined'[2]}
            /\ ~lastSeen[k].used /\ lastSeen[k].age <= Window]_pairVars
  BY JoinExact
<1>4. PairInv /\ [PairNext]_pairVars =>
         [\A k \in DOMAIN pairs :
            pairs[k].age <= Window /\ k \notin DOMAIN pairs' =>
               \/ lastSeen'[k].age = 0 /\ lastSeen'[k].used
               \/ /\ Cardinality(DOMAIN pairs') = MaxPairs
                  /\ \A j \in DOMAIN pairs' \cap DOMAIN pairs :
                        pairs'[j].age > 0 => pairs[j].age <= pairs[k].age]_pairVars
  BY LossExplained
<1>5. PairSpec => JoinsLastTwo
  BY <1>1, <1>2, <1>3, PTL DEF PairSpec, JoinsLastTwo
<1>6. PairSpec => NothingLostEarly
  BY <1>1, <1>2, <1>4, PTL DEF PairSpec, NothingLostEarly
<1>7. QED
  BY <1>5, <1>6 DEF HalvesSound

-----------------------------------------------------------------------------
(* DnsPolicy. *)

\* The elements at some positions of a sequence, in order.
LEMMA AtPositions ==
  ASSUME NEW S, NEW s \in Seq(S), NEW K \in SUBSET DOMAIN s
  PROVE  /\ At(s, K) \in Seq(S)
         /\ \E t \in [1 .. Len(At(s, K)) -> K] :
               /\ \A i \in 1 .. Len(At(s, K)) : At(s, K)[i] = s[t[i]]
               /\ \A j, k \in 1 .. Len(At(s, K)) : j < k => t[j] < t[k]
<1> DEFINE n == Cardinality(K)
           Id == [i \in K |-> i]
           t == CHOOSE r \in [1 .. Cardinality(K) -> K] :
                   \A j, k \in DOMAIN r : j < k => r[j] < r[k]
<1>1. DOMAIN s = 1 .. Len(s) /\ Len(s) \in Nat
  OBVIOUS
<1>2. IsFiniteSet(K) /\ n \in Nat
  <2>1. IsFiniteSet(1 .. Len(s))
    BY <1>1, FS_Interval
  <2>2. K \in SUBSET (1 .. Len(s))
    BY <1>1
  <2>3. IsFiniteSet(K)
    BY <2>1, <2>2, FS_Subset
  <2>4. QED
    BY <2>3, FS_CardinalityType
<1>3. \A i \in K : Id[i] = i /\ Id[i] \in Int
  BY <1>1
<1>4. \E r \in [1..n -> K] : \A j, k \in DOMAIN r : j < k => r[j] < r[k]
  <2>1. (\A x \in K : Id[x] \in Int) /\ (\A x, y \in K : Id[x] = Id[y] => x = y)
    BY <1>3
  <2>2. \E r \in [1 .. Cardinality(K) -> K] : Ascending(r, Id)
    <3> HIDE DEF Id
    <3>1. QED
      BY <1>2, <2>1, AscendingExists
  <2>3. QED
    BY <1>3, <2>2 DEF Ascending
<1>5. t \in [1..n -> K] /\ \A j, k \in DOMAIN t : j < k => t[j] < t[k]
  BY <1>4
<1>6. At(s, K) = [i \in DOMAIN t |-> s[t[i]]]
  BY DEF At
<1> HIDE DEF t, n
<1>7. /\ At(s, K) = [i \in 1..n |-> s[t[i]]]
      /\ \A i \in 1..n : t[i] \in DOMAIN s /\ s[t[i]] \in S
  BY <1>1, <1>5, <1>6
<1>8. At(s, K) \in [1..n -> S]
  BY <1>7
<1>9. At(s, K) \in Seq(S) /\ Len(At(s, K)) = n
  <2> DEFINE a == At(s, K)
  <2>1. a \in [1..n -> S] /\ n \in Nat
    BY <1>2, <1>8
  <2> HIDE DEF a
  <2>2. a \in Seq(S) /\ Len(a) = n
    BY <2>1
  <2>3. QED
    BY <2>2 DEF a
<1>10. QED
  BY <1>5, <1>7, <1>9

\* What a list of servers may be installed.
Installable(s) ==
    /\ Len(s) <= 2
    /\ \A i, j \in DOMAIN s : s[i] = s[j] => i = j
    /\ \A i \in DOMAIN s : IsUsableServer(s[i])

\* Usable first occurrences are distinct.
LEMMA UsableAt ==
  ASSUME NEW S, NEW s \in Seq(S), NEW K \in SUBSET Firsts(s),
         \A i \in K : IsUsableServer(s[i])
  PROVE  LET d == At(s, K)
         IN  /\ d \in Seq(S)
             /\ \A i, j \in DOMAIN d : d[i] = d[j] => i = j
             /\ \A i \in DOMAIN d : IsUsableServer(d[i])
<1> DEFINE d == At(s, K)
<1>1. K \in SUBSET DOMAIN s /\ DOMAIN s = 1 .. Len(s) /\ Len(s) \in Nat
  BY DEF Firsts
<1>2. d \in Seq(S)
  BY <1>1, AtPositions
<1>3. PICK t \in [1 .. Len(d) -> K] :
         /\ \A i \in 1 .. Len(d) : d[i] = s[t[i]]
         /\ \A j, k \in 1 .. Len(d) : j < k => t[j] < t[k]
  BY <1>1, AtPositions
<1> HIDE DEF d
<1>4. DOMAIN d = 1 .. Len(d) /\ Len(d) \in Nat
  BY <1>2
<1>5. ASSUME NEW i \in 1 .. Len(d), NEW j \in 1 .. Len(d), i < j PROVE d[i] # d[j]
  <2>1. t[i] < t[j] /\ t[i] \in 1 .. Len(s) /\ t[j] \in Firsts(s) /\ t[j] \in 1 .. Len(s)
    BY <1>1, <1>3, <1>5
  <2>2. t[i] \in 1 .. (t[j] - 1)
    BY <1>1, <2>1
  <2>3. s[t[i]] # s[t[j]]
    BY <2>1, <2>2 DEF Firsts
  <2>4. QED
    BY <1>3, <2>3
<1>6. QED
  BY <1>2, <1>3, <1>4, <1>5 DEF d

LEMMA UsableInstallable ==
  ASSUME NEW S, NEW s \in Seq(S)
  PROVE  Installable(UsableServers(s))
<1> DEFINE K == {i \in Firsts(s) : IsUsableServer(s[i])}
           d == At(s, K)
           m == IF Len(d) < 2 THEN Len(d) ELSE 2
           r == SubSeq(d, 1, m)
<1>1. /\ d \in Seq(S)
      /\ \A i, j \in DOMAIN d : d[i] = d[j] => i = j
      /\ \A i \in DOMAIN d : IsUsableServer(d[i])
  <2>1. K \in SUBSET Firsts(s) /\ \A i \in K : IsUsableServer(s[i])
    OBVIOUS
  <2> HIDE DEF K
  <2>2. QED
    BY <2>1, UsableAt
<1> HIDE DEF d
<1>2. Len(d) \in Nat /\ m \in Nat /\ m <= 2 /\ m <= Len(d) /\ DOMAIN d = 1 .. Len(d)
  BY <1>1
<1> HIDE DEF m
<1>3. Len(r) = m /\ DOMAIN r = 1..m /\ \A i \in 1..m : r[i] = d[i] /\ i \in DOMAIN d
  BY <1>1, <1>2
<1>4. r = UsableServers(s)
  BY DEF UsableServers, d, m
<1> HIDE DEF r
<1>5. Installable(r)
  BY <1>1, <1>2, <1>3 DEF Installable
<1>6. QED
  BY <1>4, <1>5

LEMMA CustomInstallable ==
  ASSUME NEW S, NEW s \in Seq(S), ValidCustom(s)
  PROVE  Installable(Distinct(s))
<1> DEFINE d == Distinct(s)
<1>1. Firsts(s) \in SUBSET DOMAIN s /\ DOMAIN s = 1 .. Len(s) /\ Len(s) \in Nat
  BY DEF Firsts
<1>2. \A i \in Firsts(s) : IsUsableServer(s[i])
  BY <1>1 DEF ValidCustom
<1>3. /\ d \in Seq(S)
      /\ \A i, j \in DOMAIN d : d[i] = d[j] => i = j
      /\ \A i \in DOMAIN d : IsUsableServer(d[i])
  BY <1>2, UsableAt DEF Distinct
<1>4. PICK t \in [1 .. Len(d) -> Firsts(s)] :
         \A j, k \in 1 .. Len(d) : j < k => t[j] < t[k]
  BY <1>1, AtPositions DEF Distinct
<1> HIDE DEF d
<1>5. Len(d) <= 2
  <2>1. SUFFICES ASSUME Len(d) > 2 PROVE FALSE
    BY <1>3
  <2>2. 1 \in 1 .. Len(d) /\ 2 \in 1 .. Len(d) /\ 3 \in 1 .. Len(d)
    BY <1>3, <2>1
  <2>3. t[1] < t[2] /\ t[2] < t[3] /\ t[1] \in 1 .. Len(s) /\ t[2] \in 1 .. Len(s) /\ t[3] \in 1 .. Len(s)
    BY <1>1, <1>4, <2>2
  <2>4. Len(s) <= 2
    BY DEF ValidCustom
  <2>5. QED
    BY <1>1, <2>3, <2>4
<1>6. QED
  BY <1>3, <1>5 DEF Installable, d

Lists == ServerLists \cup {<<>>}
ServerModes == {"server", "custom", "disabled"}

\* What a layer may say about servers.
LayerOK(o) ==
    /\ o.mode \in ServerModes \cup {Unset}
    /\ o.servers \in ServerLists \cup {Unset}

DefaultsOK(d) == d.localMode \in ServerModes /\ d.localDns \in Lists /\ d.serverDns \in Lists

PolicyOf(o, s) == effective = Resolved(o, s) /\ Resolvable(o) /\ LayerOK(o)

PolicyInv ==
    /\ focus \in Aspects /\ DefaultsOK(defaults) /\ LayerOK(layer)
    /\ effective \notin {NoPolicy, Refused} => \E o, s : s \in Lists /\ PolicyOf(o, s)
    /\ handled # Untouched =>
          /\ effective \notin {NoPolicy, Refused} /\ handled.packet \in Packets
          /\ handled.action = Process(effective, handled.packet)

LEMMA ListIsSeq ==
  ASSUME NEW s \in Lists \cup {Fallback} PROVE \E S : s \in Seq(S)
<1>1. CASE s = <<>>
  BY <1>1
<1>2. CASE s # <<>>
  BY <1>2, ServersAssumption DEF Lists
<1>3. QED
  BY <1>1, <1>2

LEMMA ResolvedServers ==
  ASSUME DefaultsOK(defaults), NEW o, LayerOK(o), Resolvable(o), NEW s \in Lists
  PROVE  /\ Installable(Resolved(o, s).servers)
         /\ Resolved(o, s).mode = "disabled" => Resolved(o, s).servers = <<>>
<1>1. ServerMode(o) \in ServerModes
  BY DEF ServerMode, Given, LayerOK, DefaultsOK, ServerModes
<1>2. CASE ServerMode(o) = "disabled"
  BY <1>2 DEF Resolved, Installable
<1>3. CASE ServerMode(o) = "custom"
  <2>1. CustomServers(o) \in Lists
    BY DEF CustomServers, Given, LayerOK, DefaultsOK, Lists
  <2>2. ValidCustom(CustomServers(o))
    BY <1>3 DEF Resolvable
  <2>3. Installable(Distinct(CustomServers(o)))
    BY <2>1, <2>2, ListIsSeq, CustomInstallable
  <2>4. Resolved(o, s).servers = Distinct(CustomServers(o)) /\ Resolved(o, s).mode = "custom"
    BY <1>3 DEF Resolved
  <2>5. QED
    BY <2>3, <2>4
<1>4. CASE ServerMode(o) = "server"
  <2>1. Installable(Fallback) /\ Installable(<<>>)
    BY ServersAssumption DEF Installable, IsUsableServer
  <2>2. \A l \in Lists : Installable(UsableServers(l))
    BY ListIsSeq, UsableInstallable
  <2>3. Installable(ServerDns(s))
    BY <2>1, <2>2 DEF ServerDns, DefaultsOK
  <2>4. Resolved(o, s).servers = ServerDns(s) /\ Resolved(o, s).mode = "server"
    BY <1>4 DEF Resolved
  <2>5. QED
    BY <2>3, <2>4
<1>5. QED
  BY <1>1, <1>2, <1>3, <1>4 DEF ServerModes
LEMMA FlagsTyped ==
  ASSUME focus \in Aspects, NEW flags, flags \in Flags(focus)
  PROVE  /\ flags.mode \in {Unset, "inherit", "server", "custom", "disabled"}
         /\ flags.servers \in ServerLists \cup {Unset}
<1>1. CASE focus = "servers"
  <2>1. PICK m \in {Unset, "inherit", "server", "custom", "disabled"},
             s \in ServerLists \cup {Unset} : flags = ServerFlag(m, s)
    BY <1>1 DEF Flags
  <2>2. flags.mode = m /\ flags.servers = s
    BY <2>1 DEF ServerFlag, NoOverrides
  <2>3. QED
    BY <2>2
<1>2. CASE focus = "split"
  <2>1. PICK m, d : flags = SplitFlag(m, d)
    BY <1>2 DEF Flags
  <2>2. flags.mode = Unset /\ flags.servers = Unset
    BY <2>1 DEF SplitFlag, NoOverrides
  <2>3. QED
    BY <2>2
<1>3. CASE focus = "encrypted"
  <2>1. PICK m, h : flags = EncryptedFlag(m, h)
    BY <1>3 DEF Flags
  <2>2. flags.mode = Unset /\ flags.servers = Unset
    BY <2>1 DEF EncryptedFlag, NoOverrides
  <2>3. QED
    BY <2>2
<1>4. QED
  BY <1>1, <1>2, <1>3 DEF Aspects

LEMMA DefaultsTyped ==
  ASSUME focus \in Aspects, NEW d, d \in DnsDefaults(focus) \cup {DirectDefaults}
  PROVE  DefaultsOK(d)
<1>1. DefaultsOK(DirectDefaults)
  BY DEF DefaultsOK, DirectDefaults, ServerModes, Lists
<1>2. CASE focus = "servers" /\ d \in DnsDefaults(focus)
  <2>1. PICK m, s, l, c, b :
           /\ d = ServerDefaults(m, s, l, c, b)
           /\ s \in ServerLists /\ l \in ServerModes /\ c \in Lists
    BY <1>2 DEF DnsDefaults, ServerModes, Lists
  <2>2. d.localMode = l /\ d.localDns = c /\ d.serverDns = s
    BY <2>1 DEF ServerDefaults, DirectDefaults
  <2>3. QED
    BY <2>1, <2>2 DEF DefaultsOK, Lists
<1>3. CASE focus = "split" /\ d \in DnsDefaults(focus)
  <2>1. PICK i, e, f, c, m : d = SplitDefaults(i, e, f, c, m)
    BY <1>3 DEF DnsDefaults
  <2>2. d.localMode = "server" /\ d.localDns = <<>> /\ d.serverDns = <<>>
    BY <2>1 DEF SplitDefaults, DirectDefaults
  <2>3. QED
    BY <2>2 DEF DefaultsOK, Lists, ServerModes
<1>4. CASE focus = "encrypted" /\ d \in DnsDefaults(focus)
  <2>1. PICK c, b, h, m : d = EncryptedDefaults(c, b, h, m)
    BY <1>4 DEF DnsDefaults
  <2>2. d.localMode = "server" /\ d.localDns = <<>> /\ d.serverDns = <<>>
    BY <2>1 DEF EncryptedDefaults, DirectDefaults
  <2>3. QED
    BY <2>2 DEF DefaultsOK, Lists, ServerModes
<1>5. QED
  BY <1>1, <1>2, <1>3, <1>4 DEF Aspects

\* What a layer resolves to depends on the defaults only.
LEMMA ResolvedStays ==
  ASSUME UNCHANGED defaults, NEW CONSTANT o, NEW CONSTANT s
  PROVE  Resolved(o, s)' = Resolved(o, s) /\ (Resolvable(o)' <=> Resolvable(o))
<1>1. QED
  BY DEF Resolved, Resolvable, ServerMode, CustomServers, ServerDns, SplitMode,
     Inclusive, Exclusive, Blocks, DohHosts

LEMMA PolicyStarts == ASSUME DnsPolicyInit PROVE PolicyInv
<1>1. LayerOK(NoOverrides)
  BY DEF LayerOK, NoOverrides
<1>2. QED
  BY <1>1, DefaultsTyped DEF DnsPolicyInit, PolicyInv

\* A layer over another one says nothing new about servers.
LEMMA LayersCombine ==
  ASSUME focus \in Aspects, NEW flags \in Flags(focus), NEW under, LayerOK(under)
  PROVE  LayerOK(AppliedTo(flags, under)) /\ LayerOK(PatchProfile(flags, under))
<1>1. /\ flags.mode \in {Unset, "inherit", "server", "custom", "disabled"}
      /\ flags.servers \in ServerLists \cup {Unset}
  BY FlagsTyped
<1>2. ModeGiven(flags.mode, flags.servers, under.mode) \in ServerModes \cup {Unset}
  BY <1>1 DEF ModeGiven, Mode, LayerOK, ServerModes
<1>3. /\ ListGiven(flags.mode, flags.servers, under.servers) \in ServerLists \cup {Unset}
      /\ Given(flags.servers, under.servers) \in ServerLists \cup {Unset}
  BY <1>1 DEF ListGiven, Given, LayerOK
<1>4. QED
  BY <1>2, <1>3 DEF LayerOK, AppliedTo, PatchProfile

LEMMA ProfileSetKeeps ==
  ASSUME PolicyInv, NEW flags \in Flags(focus), NEW reset \in BOOLEAN,
         NEW unset \in {{}, {ListOf[focus]}}, ProfileSet(flags, reset, unset)
  PROVE  PolicyInv'
<1> DEFINE patched == PatchProfile(flags, IF reset THEN NoOverrides ELSE layer)
<1>1. layer' = WithoutLists(patched, unset) /\ UNCHANGED <<focus, defaults, effective, handled>>
  BY DEF ProfileSet
<1>2. effective = NoPolicy
  BY DEF ProfileSet
<1>3. LayerOK(patched) /\ "mode" \in DOMAIN patched /\ "servers" \in DOMAIN patched
  <2>1. LayerOK(IF reset THEN NoOverrides ELSE layer)
    BY DEF LayerOK, NoOverrides, PolicyInv
  <2>2. QED
    BY <2>1, LayersCombine DEF PolicyInv, PatchProfile
<1>4. "mode" \notin unset
  BY DEF ListOf, PolicyInv, Aspects
<1> HIDE DEF patched
<1>5. LayerOK(layer')
  BY <1>1, <1>3, <1>4 DEF WithoutLists, LayerOK
<1>6. QED
  BY <1>1, <1>2, <1>5 DEF PolicyInv, PolicyOf, Resolved, Resolvable

LEMMA ConnectKeeps ==
  ASSUME PolicyInv, NEW flags \in Flags(focus), NEW s \in ServerLists \cup {<<>>}, Connect(flags, s)
  PROVE  PolicyInv'
<1> DEFINE o == AppliedTo(flags, layer)
<1>1. /\ effective = NoPolicy /\ UNCHANGED <<focus, defaults, layer, edits, handled>>
      /\ effective' = Refused \/ (Resolvable(o) /\ effective' = Resolved(o, s))
  BY DEF Connect
<1>2. LayerOK(o) /\ s \in Lists
  BY LayersCombine DEF PolicyInv, Lists
<1>3. handled = Untouched
  BY <1>1 DEF PolicyInv
<1> HIDE DEF o
<1>4. PICK r : r = o
  OBVIOUS
<1>5. effective' \notin {NoPolicy, Refused} => PolicyOf(r, s)'
  <2>1. Resolved(r, s)' = Resolved(r, s) /\ (Resolvable(r)' <=> Resolvable(r))
    BY <1>1, ResolvedStays
  <2>2. LayerOK(r) /\ LayerOK(r)'
    BY <1>2, <1>4 DEF LayerOK
  <2>3. QED
    BY <1>1, <1>4, <2>1, <2>2 DEF PolicyOf
<1>6. QED
  BY <1>1, <1>2, <1>3, <1>5 DEF PolicyInv

LEMMA PolicyStays ==
  ASSUME PolicyInv, UNCHANGED <<focus, defaults, layer, effective>>,
         handled' = handled
         \/ (effective \notin {NoPolicy, Refused}
             /\ \E packet \in Packets : handled' = [kind |-> "packet", packet |-> packet,
                                                    action |-> Process(effective, packet)])
  PROVE  PolicyInv'
<1>1. \A o, s : PolicyOf(o, s) => PolicyOf(o, s)'
  BY DEF PolicyOf, Resolved, Resolvable, ServerMode, CustomServers, ServerDns, SplitMode,
     Inclusive, Exclusive, Blocks, DohHosts
<1>2. QED
  BY <1>1 DEF PolicyInv

LEMMA PolicyHolds == ASSUME PolicyInv PROVE PolicyHonoured
<1>1. ASSUME effective \notin {NoPolicy, Refused}
      PROVE  \E o, s : s \in Lists /\ PolicyOf(o, s)
  BY <1>1 DEF PolicyInv
<1>2. ServersSound
  <2>1. SUFFICES ASSUME effective \notin {NoPolicy, Refused}
                 PROVE  /\ Installable(effective.servers)
                        /\ effective.mode = "disabled" => effective.servers = <<>>
    BY DEF ServersSound, Installable
  <2>2. QED
    BY <1>1, <2>1, ResolvedServers DEF PolicyInv, PolicyOf
<1>3. ASSUME handled # Untouched, handled.packet.kind = "query"
      PROVE  ExclusionsHold(handled) /\ BlockedAnswered(handled)
  <2>1. /\ effective \notin {NoPolicy, Refused} /\ handled.packet \in Packets
        /\ handled.action = Process(effective, handled.packet)
    BY <1>3 DEF PolicyInv
  <2>2. handled.packet.type \in {"A", "AAAA"}
    BY <1>3, <2>1 DEF Packets
  <2>3. effective.split \in {"managed", "custom"} => effective.exclusive = defaults.exclusive
    <3>1. PICK o, s : PolicyOf(o, s)
      BY <1>1, <2>1
    <3>2. effective.split = SplitMode(o) /\ effective.exclusive = Exclusive(o)
      BY <3>1 DEF PolicyOf, Resolved
    <3>3. QED
      BY <3>2 DEF Exclusive
  <2>4. ExclusionsHold(handled)
    BY <1>3, <2>1, <2>3 DEF ExclusionsHold, Process, EngineEnabled, RoutesThroughTunnel
  <2>5. BlockedAnswered(handled)
    BY <1>3, <2>1, <2>2 DEF BlockedAnswered, Process, EngineEnabled, BlocksDohHost, RoutesThroughTunnel
  <2>6. QED
    BY <2>4, <2>5
<1>4. QED
  BY <1>2, <1>3 DEF PolicyHonoured

DnsPolicySpec == DnsPolicyInit /\ [][DnsPolicyNext]_dnsPolicyVars

\* For every set of names, rules, servers and layers: at most two usable
\* servers, each once, are installed, no name the controller excludes passes
\* into the tunnel while rules route names, and a blocked name is answered with
\* NXDOMAIN (DnsPolicyResolver::resolve, DnsPacketEngine::process).
THEOREM PolicyAlwaysHonoured == DnsPolicySpec => []PolicyHonoured
<1>1. DnsPolicyInit => PolicyInv
  BY PolicyStarts
<1>2. PolicyInv /\ [DnsPolicyNext]_dnsPolicyVars => PolicyInv'
  <2>1. SUFFICES ASSUME PolicyInv, [DnsPolicyNext]_dnsPolicyVars PROVE PolicyInv'
    OBVIOUS
  <2>2. CASE UNCHANGED dnsPolicyVars
    BY <2>1, <2>2, PolicyStays DEF dnsPolicyVars
  <2>3. CASE \E flags \in Flags(focus), reset \in BOOLEAN,
               unset \in {{}, {ListOf[focus]}} : ProfileSet(flags, reset, unset)
    BY <2>1, <2>3, ProfileSetKeeps
  <2>4. CASE \E flags \in Flags(focus), s \in ServerLists \cup {<<>>} : Connect(flags, s)
    BY <2>1, <2>4, ConnectKeeps
  <2>5. CASE \E packet \in Packets : ReadPacket(packet)
    <3>1. PICK packet \in Packets : ReadPacket(packet)
      BY <2>5
    <3>2. QED
      BY <2>1, <3>1, PolicyStays DEF ReadPacket
  <2>6. QED
    BY <2>1, <2>2, <2>3, <2>4, <2>5 DEF DnsPolicyNext, DnsPolicyDone
<1>3. PolicyInv => PolicyHonoured
  BY PolicyHolds
<1>4. QED
  BY <1>1, <1>2, <1>3, PTL DEF DnsPolicySpec

-----------------------------------------------------------------------------
(* RoutePolicy: powers of two and the bits of an address. *)

PowerStep(g, n) == IF n = 0 THEN 1 ELSE 2 * g[n - 1]

LEMMA PowerIs ==
  /\ PowerOf2[0] = 1
  /\ \A n \in Nat : PowerOf2[n] \in Nat \ {0} /\ PowerOf2[n + 1] = 2 * PowerOf2[n]
<1> DEFINE Upto(n) == \E g : \A i \in 0..n : g[i] = PowerStep(g, i) /\ g[i] \in Nat \ {0}
           good == {n \in Nat : Upto(n)}
<1>1. Upto(0)
  <2>1. \A i \in 0..0 : [j \in 0..0 |-> 1][i] = PowerStep([j \in 0..0 |-> 1], i)
                        /\ [j \in 0..0 |-> 1][i] \in Nat \ {0}
    BY DEF PowerStep
  <2>2. QED
    BY <2>1
<1>2. ASSUME NEW n \in Nat, Upto(n) PROVE Upto(n + 1)
  <2>1. PICK g : \A i \in 0..n : g[i] = PowerStep(g, i) /\ g[i] \in Nat \ {0}
    BY <1>2
  <2> DEFINE h == [i \in 0 .. (n + 1) |-> PowerStep(g, i)]
  <2>2. \A i \in 0..n : i \in 0 .. (n + 1) /\ h[i] = g[i] /\ h[i] \in Nat \ {0}
    BY <2>1
  <2>3. \A i \in 0..n : i # 0 => i - 1 \in 0..n
    OBVIOUS
  <2>4. h[n + 1] = 2 * g[n]
    BY DEF PowerStep
  <2> HIDE DEF h
  <2>5. \A i \in 0..n : h[i] = PowerStep(h, i)
    BY <2>1, <2>2, <2>3 DEF PowerStep
  <2>6. n \in 0..n /\ n + 1 # 0 /\ (n + 1) - 1 = n
    OBVIOUS
  <2>7. h[n + 1] = PowerStep(h, n + 1)
    BY <2>2, <2>4, <2>6 DEF PowerStep
  <2>8. h[n + 1] \in Nat \ {0}
    BY <2>1, <2>4, <2>6
  <2>9. \A i \in 0 .. (n + 1) : i \in 0..n \/ i = n + 1
    OBVIOUS
  <2>10. QED
    BY <2>2, <2>5, <2>7, <2>8, <2>9
<1>3. \A n \in Nat : Upto(n)
  <2>1. 0 \in good /\ \A n \in Nat : n \in good => n + 1 \in good
    <3> HIDE DEF Upto
    <3>1. QED
      BY <1>1, <1>2
  <2> HIDE DEF good
  <2>2. Nat \subseteq good
    BY <2>1, AllNaturals
  <2>3. QED
    BY <2>2 DEF good
<1> DEFINE Is(n, g) == \A i \in 0..n : g[i] = PowerStep(g, i) /\ g[i] \in Nat \ {0}
           at(n) == CHOOSE g : Is(n, g)
           f == [n \in Nat |-> at(n)[n]]
<1>4. \A n \in Nat : Is(n, at(n))
  BY <1>3
<1>5. ASSUME NEW n \in Nat, NEW g, NEW h, Is(n, g), Is(n + 1, h) PROVE g[n] = h[n]
  <2> DEFINE same == {i \in Nat : i <= n => g[i] = h[i]}
  <2>1. 0 \in 0..n /\ 0 \in 0 .. (n + 1)
    OBVIOUS
  <2>2. 0 \in same
    BY <1>5, <2>1 DEF PowerStep
  <2>3. ASSUME NEW i \in Nat, i \in same PROVE i + 1 \in same
    <3>1. SUFFICES ASSUME i + 1 <= n PROVE g[i + 1] = h[i + 1]
      OBVIOUS
    <3>2. i + 1 \in 0..n /\ i + 1 \in 0 .. (n + 1) /\ i + 1 # 0 /\ (i + 1) - 1 = i
      BY <3>1
    <3>3. g[i + 1] = 2 * g[i] /\ h[i + 1] = 2 * h[i]
      BY <1>5, <3>2 DEF PowerStep
    <3>4. QED
      BY <2>3, <3>1, <3>3
  <2> HIDE DEF same
  <2>4. Nat \subseteq same
    BY <2>2, <2>3, AllNaturals
  <2>5. QED
    BY <2>4 DEF same
<1> HIDE DEF at
<1>6. ASSUME NEW n \in Nat PROVE f[n] = PowerStep(f, n)
  <2>1. CASE n = 0
    <3>1. 0 \in 0..0
      OBVIOUS
    <3>2. QED
      BY <1>4, <2>1, <3>1 DEF PowerStep
  <2>2. CASE n # 0
    <3>1. n - 1 \in Nat /\ (n - 1) + 1 = n /\ n \in 0..n
      BY <2>2
    <3>2. at(n)[n] = 2 * at(n)[n - 1]
      BY <1>4, <2>2, <3>1 DEF PowerStep
    <3>3. Is(n - 1, at(n - 1)) /\ Is((n - 1) + 1, at(n))
      BY <1>4, <3>1
    <3>4. at(n - 1)[n - 1] = at(n)[n - 1]
      <4> HIDE DEF Is
      <4>1. QED
        BY <1>5, <3>1, <3>3
    <3>5. QED
      BY <2>2, <3>1, <3>2, <3>4 DEF PowerStep
  <2>3. QED
    BY <2>1, <2>2
<1>7. \E g : g = [n \in Nat |-> IF n = 0 THEN 1 ELSE 2 * g[n - 1]]
  <2> HIDE DEF f
  <2>1. f = [n \in Nat |-> PowerStep(f, n)]
    <3>1. f = [n \in Nat |-> f[n]]
      BY DEF f
    <3>2. QED
      BY <1>6, <3>1
  <2>2. QED
    BY <2>1 DEF PowerStep
<1>8. PowerOf2 = [n \in Nat |-> IF n = 0 THEN 1 ELSE 2 * PowerOf2[n - 1]]
  BY <1>7 DEF PowerOf2
<1>9. PowerOf2[0] = 1 /\ \A n \in Nat : PowerOf2[n + 1] = 2 * PowerOf2[n]
  <2>1. \A n \in Nat : n + 1 \in Nat /\ n + 1 # 0 /\ (n + 1) - 1 = n
    OBVIOUS
  <2>2. QED
    BY <1>8, <2>1
<1>10. Nat \subseteq {n \in Nat : PowerOf2[n] \in Nat \ {0}}
  <2> DEFINE T == {n \in Nat : PowerOf2[n] \in Nat \ {0}}
  <2>1. 0 \in T /\ \A n \in Nat : n \in T => n + 1 \in T
    BY <1>9
  <2> HIDE DEF T
  <2>2. Nat \subseteq T
    BY <2>1, AllNaturals
  <2>3. QED
    BY <2>2 DEF T
<1>11. QED
  BY <1>9, <1>10

LEMMA DivMod ==
  ASSUME NEW b \in Nat, NEW m \in Nat \ {0}
  PROVE  /\ b \div m \in Nat /\ b % m \in 0 .. (m - 1)
         /\ b = m * (b \div m) + (b % m)
OBVIOUS

LEMMA DivModUnique ==
  ASSUME NEW m \in Nat \ {0}, NEW p \in Nat, NEW r \in 0 .. (m - 1)
  PROVE  (m * p + r) \div m = p /\ (m * p + r) % m = r
OBVIOUS

\* A number halved twice as deep.
LEMMA DivTwice ==
  ASSUME NEW b \in Nat, NEW m \in Nat \ {0}
  PROVE  b \div (2 * m) = (b \div m) \div 2
<1> DEFINE q == b \div m
           r == b % m
           p == q \div 2
           s == q % 2
<1>1. q \in Nat /\ r \in 0 .. (m - 1) /\ b = m * q + r
  BY DivMod
<1> HIDE DEF q, r
<1>2. p \in Nat /\ s \in 0..1 /\ q = 2 * p + s
  BY <1>1, DivMod
<1> HIDE DEF p, s
<1>3. m * q = (2 * m) * p + m * s
  BY <1>2
<1>4. m * s + r \in 0 .. (2 * m - 1)
  BY <1>1, <1>2
<1>5. b = (2 * m) * p + (m * s + r) /\ 2 * m \in Nat \ {0}
  BY <1>1, <1>2, <1>3, <1>4
<1>6. b \div (2 * m) = p
  BY <1>2, <1>4, <1>5, DivModUnique
<1>7. QED
  BY <1>6 DEF p, q

LEMMA PowerSplits ==
  ASSUME NEW m \in Nat
  PROVE  \A n \in Nat : PowerOf2[m + n] = PowerOf2[m] * PowerOf2[n]
<1> DEFINE T == {n \in Nat : PowerOf2[m + n] = PowerOf2[m] * PowerOf2[n]}
<1>1. 0 \in T
  BY PowerIs
<1>2. ASSUME NEW n \in Nat, n \in T PROVE n + 1 \in T
  <2>1. PowerOf2[m + (n + 1)] = 2 * PowerOf2[m + n]
    <3>1. m + (n + 1) = (m + n) + 1 /\ m + n \in Nat
      OBVIOUS
    <3>2. QED
      BY <3>1, PowerIs
  <2>2. PowerOf2[n + 1] = 2 * PowerOf2[n]
    BY PowerIs
  <2> DEFINE x == PowerOf2[m]
             y == PowerOf2[n]
  <2>3. x \in Nat /\ y \in Nat
    BY PowerIs
  <2>4. PowerOf2[m + n] = x * y
    BY <1>2
  <2> HIDE DEF x, y
  <2>5. 2 * (x * y) = x * (2 * y)
    BY <2>3
  <2>6. QED
    BY <2>1, <2>2, <2>4, <2>5 DEF x, y
<1> HIDE DEF T
<1>3. Nat \subseteq T
  BY <1>1, <1>2, AllNaturals
<1>4. QED
  BY <1>3 DEF T

\* What is left of an address above the last bits.
Quotient(f, b, n) == b \div PowerOf2[Width[f] - n]

LEMMA QuotientIs ==
  ASSUME NEW f \in Families, NEW b \in 0 .. (PowerOf2[Width[f]] - 1)
  PROVE  /\ Width[f] \in Nat \ {0}
         /\ Quotient(f, b, 0) = 0
         /\ \A n \in 0 .. Width[f] :
               /\ PowerOf2[Width[f] - n] \in Nat \ {0} /\ Quotient(f, b, n) \in Nat
               /\ n < Width[f] => /\ PowerOf2[Width[f] - n] = 2 * PowerOf2[Width[f] - (n + 1)]
                                  /\ Quotient(f, b, n) = Quotient(f, b, n + 1) \div 2
                                  /\ Bit(f, b, n + 1) = Quotient(f, b, n + 1) % 2
<1> DEFINE w == Width[f]
<1>1. w \in Nat \ {0}
  BY RoutePolicyAssumption
<1> HIDE DEF w
<1>2. PowerOf2[w] \in Nat \ {0} /\ b \in 0 .. (PowerOf2[w] - 1) /\ b \in Nat
  BY <1>1, PowerIs DEF w
<1>3. b \div PowerOf2[w] = 0
  <2>1. b = PowerOf2[w] * 0 + b
    BY <1>2
  <2>2. QED
    BY <1>2, <2>1, DivModUnique
<1>4. w - 0 = w
  BY <1>1
<1>5. ASSUME NEW n \in 0..w PROVE PowerOf2[w - n] \in Nat \ {0} /\ b \div PowerOf2[w - n] \in Nat
  <2>1. w - n \in Nat
    BY <1>1
  <2>2. PowerOf2[w - n] \in Nat \ {0}
    BY <2>1, PowerIs
  <2>3. QED
    BY <1>2, <2>2, DivMod
<1>6. ASSUME NEW n \in 0..w, n < w
      PROVE  /\ PowerOf2[w - n] = 2 * PowerOf2[w - (n + 1)]
             /\ b \div PowerOf2[w - n] = (b \div PowerOf2[w - (n + 1)]) \div 2
  <2>1. w - (n + 1) \in Nat /\ (w - (n + 1)) + 1 = w - n
    BY <1>1, <1>6
  <2>2. PowerOf2[w - n] = 2 * PowerOf2[w - (n + 1)] /\ PowerOf2[w - (n + 1)] \in Nat \ {0}
    BY <2>1, PowerIs
  <2>3. QED
    BY <1>2, <2>2, DivTwice
<1>7. QED
  BY <1>1, <1>3, <1>4, <1>5, <1>6 DEF w, Quotient, Bit

SameBits(f, b, c, n) == \A i \in 1..n : Bit(f, b, i) = Bit(f, c, i)

\* Two addresses agree in their first bits when the quotients are equal.
LEMMA SameQuotient ==
  ASSUME NEW f \in Families, NEW b \in 0 .. (PowerOf2[Width[f]] - 1),
         NEW c \in 0 .. (PowerOf2[Width[f]] - 1)
  PROVE  \A n \in 0 .. Width[f] : SameBits(f, b, c, n) <=> Quotient(f, b, n) = Quotient(f, c, n)
<1> DEFINE w == Width[f]
           T == {n \in Nat : n <= w => (SameBits(f, b, c, n) <=> Quotient(f, b, n) = Quotient(f, c, n))}
<1>1. w \in Nat
  BY QuotientIs
<1>2. 0 \in T
  <2>1. 1..0 = {}
    OBVIOUS
  <2>2. QED
    BY <2>1, QuotientIs DEF SameBits
<1>3. ASSUME NEW n \in Nat, n \in T PROVE n + 1 \in T
  <2>1. SUFFICES ASSUME n + 1 <= w
                 PROVE  SameBits(f, b, c, n + 1) <=> Quotient(f, b, n + 1) = Quotient(f, c, n + 1)
    OBVIOUS
  <2>2. n \in 0..w /\ n < w /\ n + 1 \in 0..w
    BY <1>1, <2>1
  <2> DEFINE x == Quotient(f, b, n + 1)
             y == Quotient(f, c, n + 1)
  <2>3. /\ x \in Nat /\ y \in Nat
        /\ Quotient(f, b, n) = x \div 2 /\ Quotient(f, c, n) = y \div 2
        /\ Bit(f, b, n + 1) = x % 2 /\ Bit(f, c, n + 1) = y % 2
    BY <2>2, QuotientIs DEF w
  <2>4. SameBits(f, b, c, n) <=> x \div 2 = y \div 2
    BY <1>3, <2>2, <2>3
  <2>5. SameBits(f, b, c, n + 1) <=> SameBits(f, b, c, n) /\ Bit(f, b, n + 1) = Bit(f, c, n + 1)
    <3>1. \A i \in 1 .. (n + 1) : i \in 1..n \/ i = n + 1
      OBVIOUS
    <3>2. n + 1 \in 1 .. (n + 1) /\ 1..n \subseteq 1 .. (n + 1)
      OBVIOUS
    <3>3. QED
      BY <3>1, <3>2 DEF SameBits
  <2> HIDE DEF x, y
  <2>6. x = y <=> x \div 2 = y \div 2 /\ x % 2 = y % 2
    BY <2>3
  <2>7. QED
    BY <2>3, <2>4, <2>5, <2>6 DEF x, y
<1> HIDE DEF T
<1>4. Nat \subseteq T
  BY <1>2, <1>3, AllNaturals
<1>5. QED
  BY <1>1, <1>4 DEF T

Agree(a, c, n) == a.family = c.family /\ SameBits(a.family, a.bits, c.bits, n)

LEMMA AddressIs ==
  ASSUME NEW a \in Address
  PROVE  /\ a.family \in Families /\ a.bits \in 0 .. (PowerOf2[Width[a.family]] - 1)
         /\ a = [family |-> a.family, bits |-> a.bits]
BY DEF Address

LEMMA AddressMade ==
  ASSUME NEW f \in Families, NEW b \in 0 .. (PowerOf2[Width[f]] - 1)
  PROVE  LET a == [family |-> f, bits |-> b] IN a \in Address /\ a.family = f /\ a.bits = b
BY DEF Address

LEMMA NetworkIs ==
  ASSUME NEW a \in Address, NEW n \in 0 .. Width[a.family]
  PROVE  LET net == NetworkAddress(a, n)
             m == PowerOf2[Width[a.family] - n]
         IN  /\ net \in Address /\ net.family = a.family
             /\ net = [family |-> a.family, bits |-> m * Quotient(a.family, a.bits, n)]
             /\ Quotient(a.family, net.bits, n) = Quotient(a.family, a.bits, n)
<1> DEFINE f == a.family
           b == a.bits
           m == PowerOf2[Width[f] - n]
           q == b \div m
<1>1. /\ f \in Families /\ b \in 0 .. (PowerOf2[Width[f]] - 1) /\ a = [family |-> f, bits |-> b]
      /\ n \in 0 .. Width[f]
  BY AddressIs
<1>2. m \in Nat \ {0} /\ PowerOf2[Width[f]] \in Nat
  <2>1. Width[f] \in Nat
    BY <1>1, QuotientIs
  <2>2. QED
    BY <1>1, <2>1, QuotientIs, PowerIs
<1>3. NetworkAddress(a, n) = [family |-> f, bits |-> b - (b % m)]
  <2>1. NetworkAddress(a, n) = [a EXCEPT !.bits = b - (b % m)]
    BY DEF NetworkAddress
  <2> DEFINE x == b - (b % m)
  <2> HIDE DEF x
  <2>2. [a EXCEPT !.bits = x] = [family |-> f, bits |-> x]
    BY <1>1
  <2>3. QED
    BY <2>1, <2>2 DEF x
<1> HIDE DEF f, b, m
<1>4. b \in Nat /\ q \in Nat /\ b % m \in 0 .. (m - 1) /\ b = m * q + (b % m)
  <2>1. b \in Nat
    BY <1>1
  <2>2. QED
    BY <1>2, <2>1, DivMod
<1> HIDE DEF q
<1>5. b - (b % m) = m * q /\ m * q \in Nat /\ m * q <= b
  <2>1. m * q \in Nat
    BY <1>2, <1>4
  <2>2. QED
    BY <1>2, <1>4, <2>1
<1>6. m * q \in 0 .. (PowerOf2[Width[f]] - 1)
  <2> DEFINE x == m * q
             top == PowerOf2[Width[f]] - 1
  <2>1. x \in Nat /\ x <= b
    BY <1>5
  <2>2. top \in Int /\ b \in 0..top
    BY <1>1, <1>2
  <2> HIDE DEF x, top
  <2>3. x \in 0..top
    BY <2>1, <2>2
  <2>4. QED
    BY <2>3 DEF x, top
<1>7. (m * q) \div m = q
  <2>1. m * q = m * q + 0 /\ 0 \in 0 .. (m - 1)
    BY <1>2, <1>5
  <2>2. QED
    BY <1>2, <1>4, <2>1, DivModUnique
<1>8. /\ NetworkAddress(a, n) = [family |-> f, bits |-> m * q]
      /\ NetworkAddress(a, n) \in Address /\ NetworkAddress(a, n).family = f
      /\ NetworkAddress(a, n).bits = m * q
  BY <1>1, <1>3, <1>5, <1>6, AddressMade
<1>9. QED
  BY <1>7, <1>8 DEF f, b, m, q, Quotient

-----------------------------------------------------------------------------
(* RoutePolicy: routes. *)

Canonical == {r \in Routes : NetworkAddress(r.network, r.prefix) = r.network}
Covers(r) == Denotes(r.network, r.prefix)

LEMMA AgreeIs ==
  ASSUME NEW a \in Address, NEW c \in Address, a.family = c.family, NEW n \in 0 .. Width[a.family]
  PROVE  /\ NetworkAddress(a, n) = NetworkAddress(c, n) <=> Agree(a, c, n)
         /\ NetworkAddress(NetworkAddress(a, n), n) = NetworkAddress(a, n)
         /\ Agree(a, NetworkAddress(a, n), n)
<1> DEFINE f == a.family
           net == NetworkAddress(a, n)
           m == PowerOf2[Width[f] - n]
<1>1. /\ f \in Families /\ c.family = f /\ n \in 0 .. Width[f]
      /\ a.bits \in 0 .. (PowerOf2[Width[f]] - 1) /\ c.bits \in 0 .. (PowerOf2[Width[f]] - 1)
  BY AddressIs
<1>2. /\ net \in Address /\ net.family = f
      /\ net = [family |-> f, bits |-> m * Quotient(f, a.bits, n)]
      /\ Quotient(f, net.bits, n) = Quotient(f, a.bits, n)
      /\ NetworkAddress(c, n) = [family |-> f, bits |-> m * Quotient(f, c.bits, n)]
      /\ Quotient(f, NetworkAddress(c, n).bits, n) = Quotient(f, c.bits, n)
  BY <1>1, NetworkIs
<1>3. net.bits \in 0 .. (PowerOf2[Width[f]] - 1)
  BY <1>2, AddressIs
<1>4. NetworkAddress(net, n) = [family |-> f, bits |-> m * Quotient(f, net.bits, n)]
  BY <1>1, <1>2, NetworkIs
<1> HIDE DEF f, net, m
<1>5. SameBits(f, a.bits, c.bits, n) <=> Quotient(f, a.bits, n) = Quotient(f, c.bits, n)
  BY <1>1, SameQuotient
<1>6. SameBits(f, a.bits, net.bits, n)
  BY <1>1, <1>2, <1>3, SameQuotient
<1>7. net = NetworkAddress(c, n) <=> Quotient(f, a.bits, n) = Quotient(f, c.bits, n)
  BY <1>2
<1>8. QED
  BY <1>1, <1>2, <1>4, <1>5, <1>6, <1>7 DEF Agree, f, net

LEMMA AgreeRelates ==
  ASSUME NEW a, NEW c, NEW n \in Nat
  PROVE  /\ Agree(a, a, n)
         /\ Agree(a, c, n) => Agree(c, a, n)
         /\ \A d : Agree(a, c, n) /\ Agree(c, d, n) => Agree(a, d, n)
         /\ \A k \in 0..n : Agree(a, c, n) => Agree(a, c, k)
<1>1. \A k \in 0..n : 1..k \subseteq 1..n
  OBVIOUS
<1>2. QED
  BY <1>1 DEF Agree, SameBits

LEMMA CoversIs ==
  ASSUME NEW r PROVE Covers(r) = {a \in Address : Agree(a, r.network, r.prefix)}
BY DEF Covers, Denotes, Agree, SameBits

LEMMA RouteIs ==
  ASSUME NEW r \in Routes
  PROVE  /\ r.network \in Address /\ r.prefix \in 0 .. Width[r.network.family] /\ r.prefix \in Nat
         /\ Width[r.network.family] \in Nat \ {0}
         /\ r = [network |-> r.network, prefix |-> r.prefix]
<1>1. r.network \in Address /\ r.prefix \in Nat /\ r.prefix <= Width[r.network.family]
      /\ r = [network |-> r.network, prefix |-> r.prefix]
  BY DEF Routes
<1>2. Width[r.network.family] \in Nat \ {0}
  BY <1>1, AddressIs, QuotientIs
<1>3. QED
  BY <1>1, <1>2

LEMMA RouteMade ==
  ASSUME NEW a \in Address, NEW n \in 0 .. Width[a.family]
  PROVE  LET r == [network |-> a, prefix |-> n]
         IN  r \in Routes /\ r.network = a /\ r.prefix = n
BY DEF Routes

LEMMA ContainsIs ==
  ASSUME NEW e \in Canonical, NEW r \in Canonical
  PROVE  ContainsRoute(e, r) <=> e.prefix <= r.prefix /\ Agree(e.network, r.network, e.prefix)
<1>1. e \in Routes /\ r \in Routes /\ NetworkAddress(e.network, e.prefix) = e.network
  BY DEF Canonical
<1>2. /\ e.network \in Address /\ r.network \in Address
      /\ e.prefix \in 0 .. Width[e.network.family]
  BY <1>1, RouteIs
<1>3. e.network.family = r.network.family =>
         (NetworkAddress(e.network, e.prefix) = NetworkAddress(r.network, e.prefix)
            <=> Agree(e.network, r.network, e.prefix))
  BY <1>2, AgreeIs
<1>4. QED
  BY <1>1, <1>3 DEF ContainsRoute, ContainsAddress, Agree

\* Two routes are nested or apart.
LEMMA NestedOrApart ==
  ASSUME NEW e \in Canonical, NEW r \in Canonical
  PROVE  /\ ContainsRoute(e, r) => Covers(r) \subseteq Covers(e)
         /\ ~ ContainsRoute(e, r) /\ ~ ContainsRoute(r, e) => Covers(r) \cap Covers(e) = {}
<1>1. e.prefix \in Nat /\ r.prefix \in Nat
  BY RouteIs DEF Canonical
<1>2. ASSUME ContainsRoute(e, r), NEW a \in Covers(r) PROVE a \in Covers(e)
  <2>1. e.prefix \in 0 .. r.prefix /\ Agree(e.network, r.network, e.prefix)
    BY <1>1, <1>2, ContainsIs
  <2>2. a \in Address /\ Agree(a, r.network, r.prefix)
    BY <1>2, CoversIs
  <2>3. Agree(a, r.network, e.prefix) /\ Agree(r.network, e.network, e.prefix)
    BY <1>1, <2>1, <2>2, AgreeRelates
  <2>4. Agree(a, e.network, e.prefix)
    BY <1>1, <2>3, AgreeRelates
  <2>5. QED
    BY <2>2, <2>4, CoversIs
<1>3. ASSUME NEW a \in Covers(r), a \in Covers(e)
      PROVE  ContainsRoute(e, r) \/ ContainsRoute(r, e)
  <2>1. a \in Address /\ Agree(a, r.network, r.prefix) /\ Agree(a, e.network, e.prefix)
    BY <1>3, CoversIs
  <2>2. CASE e.prefix <= r.prefix
    <3>1. e.prefix \in 0 .. r.prefix
      BY <1>1, <2>2
    <3>2. Agree(a, r.network, e.prefix) /\ Agree(e.network, a, e.prefix)
      BY <1>1, <2>1, <3>1, AgreeRelates
    <3>3. Agree(e.network, r.network, e.prefix)
      BY <1>1, <3>2, AgreeRelates
    <3>4. QED
      BY <2>2, <3>3, ContainsIs
  <2>3. CASE r.prefix <= e.prefix
    <3>1. r.prefix \in 0 .. e.prefix
      BY <1>1, <2>3
    <3>2. Agree(a, e.network, r.prefix) /\ Agree(r.network, a, r.prefix)
      BY <1>1, <2>1, <3>1, AgreeRelates
    <3>3. Agree(r.network, e.network, r.prefix)
      BY <1>1, <3>2, AgreeRelates
    <3>4. QED
      BY <2>3, <3>3, ContainsIs
  <2>4. QED
    BY <1>1, <2>2, <2>3
<1>4. QED
  BY <1>2, <1>3

\* A host route that contains another route is that route.
LEMMA HostContains ==
  ASSUME NEW e \in Canonical, NEW r \in Canonical, r.prefix = Width[r.network.family],
         ContainsRoute(r, e)
  PROVE  ContainsRoute(e, r)
<1>1. /\ r.prefix <= e.prefix /\ Agree(r.network, e.network, r.prefix)
      /\ e.network.family = r.network.family
  BY ContainsIs DEF Agree
<1>2. e.prefix \in 0 .. Width[r.network.family] /\ Width[r.network.family] \in Nat /\ r.prefix \in Nat
  BY <1>1, RouteIs DEF Canonical
<1>3. e.prefix = r.prefix
  BY <1>1, <1>2
<1>4. Agree(e.network, r.network, e.prefix)
  BY <1>1, <1>2, <1>3, AgreeRelates
<1>5. QED
  BY <1>2, <1>3, <1>4, ContainsIs

LEMMA HalvesOf ==
  ASSUME NEW q \in Nat
  PROVE  /\ 2 * q \in Nat /\ (2 * q) \div 2 = q /\ (2 * q) % 2 = 0
         /\ 2 * q + 1 \in Nat /\ (2 * q + 1) \div 2 = q /\ (2 * q + 1) % 2 = 1
OBVIOUS

LEMMA NextBlockFits ==
  ASSUME NEW m \in Nat \ {0}, NEW p \in Nat, NEW q \in Nat, m * q < m * p
  PROVE  m * q + m <= m * p
<1>1. q < p
  <2>1. SUFFICES ASSUME p <= q PROVE FALSE
    OBVIOUS
  <2>2. PICK d \in Nat : q = p + d
    <3>1. q - p \in Nat /\ q = p + (q - p)
      BY <2>1
    <3>2. QED
      BY <3>1
  <2>3. m * q = m * p + m * d /\ m * d \in Nat /\ m * p \in Nat
    BY <2>2
  <2>4. QED
    BY <2>3
<1>2. PICK d \in Nat : p = q + 1 + d
  <2>1. p - q - 1 \in Nat /\ p = q + 1 + (p - q - 1)
    BY <1>1
  <2>2. QED
    BY <2>1
<1>3. m * p = m * q + m + m * d /\ m * d \in Nat /\ m * q \in Nat
  BY <1>2
<1>4. QED
  BY <1>3

\* What Route::split does to the bits of a network.
LEMMA SplitBits ==
  ASSUME NEW f \in Families, NEW b \in 0 .. (PowerOf2[Width[f]] - 1), NEW n \in 0 .. Width[f],
         n < Width[f], b = PowerOf2[Width[f] - n] * Quotient(f, b, n)
  PROVE  LET h == PowerOf2[Width[f] - (n + 1)]
             c == b + h
         IN  /\ b = h * Quotient(f, b, n + 1)
             /\ c \in 0 .. (PowerOf2[Width[f]] - 1)
             /\ c = h * Quotient(f, c, n + 1)
             /\ SameBits(f, c, b, n)
             /\ Bit(f, b, n + 1) = 0 /\ Bit(f, c, n + 1) = 1
<1> DEFINE w == Width[f]
           m == PowerOf2[w - n]
           h == PowerOf2[w - (n + 1)]
           q == Quotient(f, b, n)
           c == b + h
           top == PowerOf2[w]
<1>1. /\ w \in Nat /\ n \in Nat /\ n + 1 \in 0..w /\ w - n \in Nat
      /\ m \in Nat \ {0} /\ q \in Nat /\ h \in Nat \ {0} /\ m = 2 * h /\ b = m * q
      /\ top \in Nat \ {0}
  <2>1. w \in Nat
    BY QuotientIs
  <2>2. n + 1 \in 0..w /\ n \in Nat /\ w - n \in Nat
    BY <2>1
  <2>3. QED
    BY <2>1, <2>2, QuotientIs, PowerIs
<1>2. top = PowerOf2[n] * m /\ PowerOf2[n] \in Nat
  <2>1. PICK d \in Nat : d = w - n /\ n + d = w
    BY <1>1
  <2>2. PowerOf2[n + d] = PowerOf2[n] * PowerOf2[d]
    BY <1>1, PowerSplits
  <2>3. PowerOf2[n] \in Nat
    BY <1>1, PowerIs
  <2>4. QED
    BY <2>1, <2>2, <2>3
<1> DEFINE p == PowerOf2[n]
<1> HIDE DEF p
<1>3. top = m * p /\ p \in Nat
  BY <1>1, <1>2 DEF p
<1>4. b \in 0 .. (top - 1)
  OBVIOUS
<1> HIDE DEF m, h, q, c, top
<1>5. m * q + m <= m * p
  <2>1. m * q < m * p
    BY <1>1, <1>3, <1>4
  <2>2. QED
    BY <1>1, <1>3, <2>1, NextBlockFits
<1>6. c \in 0 .. (top - 1)
  <2> DEFINE x == m * q
             y == m * p
  <2>1. x = b /\ y = top /\ x + m <= y
    BY <1>1, <1>3, <1>5
  <2> HIDE DEF x, y
  <2>2. b + m <= top
    BY <2>1
  <2>3. b + h <= top - 1 /\ b + h \in Nat
    BY <1>1, <1>4, <2>2
  <2>4. QED
    BY <1>1, <2>3 DEF c
<1>7. b = h * (2 * q) /\ c = h * (2 * q + 1)
  BY <1>1 DEF c
<1>8. b \div h = 2 * q /\ c \div h = 2 * q + 1
  <2>1. 2 * q \in Nat /\ 2 * q + 1 \in Nat /\ 0 \in 0 .. (h - 1)
    BY <1>1
  <2>2. b = h * (2 * q) + 0 /\ c = h * (2 * q + 1) + 0
    <3>1. h * (2 * q) \in Nat /\ h * (2 * q + 1) \in Nat
      BY <1>1
    <3>2. QED
      BY <1>7, <3>1
  <2>3. (h * (2 * q) + 0) \div h = 2 * q /\ (h * (2 * q + 1) + 0) \div h = 2 * q + 1
    BY <1>1, <2>1, DivModUnique
  <2>4. QED
    BY <2>2, <2>3
<1>9. Quotient(f, b, n + 1) = 2 * q /\ Quotient(f, c, n + 1) = 2 * q + 1
  BY <1>8 DEF Quotient, h
<1>10. /\ Bit(f, b, n + 1) = (2 * q) % 2
       /\ Bit(f, c, n + 1) = (2 * q + 1) % 2
       /\ Quotient(f, c, n) = (2 * q + 1) \div 2
  <2>1. n + 1 \in 0 .. Width[f] /\ n \in 0 .. Width[f] /\ n < Width[f]
    BY <1>1
  <2>2. b \in 0 .. (PowerOf2[Width[f]] - 1) /\ c \in 0 .. (PowerOf2[Width[f]] - 1)
    BY <1>4, <1>6 DEF top
  <2>3. /\ Bit(f, b, n + 1) = Quotient(f, b, n + 1) % 2
        /\ Bit(f, c, n + 1) = Quotient(f, c, n + 1) % 2
        /\ Quotient(f, c, n) = Quotient(f, c, n + 1) \div 2
    BY <2>1, <2>2, QuotientIs
  <2>4. QED
    BY <1>9, <2>3
<1>11. Quotient(f, c, n) = q /\ Bit(f, b, n + 1) = 0 /\ Bit(f, c, n + 1) = 1
  BY <1>1, <1>10, HalvesOf
<1>12. SameBits(f, c, b, n)
  BY <1>1, <1>4, <1>6, <1>11, SameQuotient DEF top, q
<1>13. QED
  BY <1>6, <1>7, <1>9, <1>11, <1>12 DEF h, c, top

LEMMA SplitIs ==
  ASSUME NEW r \in Canonical, r.prefix < Width[r.network.family]
  PROVE  /\ \A k \in 1..2 : /\ Split(r)[k] \in Canonical
                            /\ Split(r)[k].prefix = r.prefix + 1
                            /\ Split(r)[k].network.family = r.network.family
         /\ Covers(r) = Covers(Split(r)[1]) \cup Covers(Split(r)[2])
<1> DEFINE f == r.network.family
           b == r.network.bits
           n == r.prefix
           h == PowerOf2[Width[f] - (n + 1)]
           c1 == [network |-> r.network, prefix |-> n + 1]
           net == [family |-> f, bits |-> b + h]
           c2 == [network |-> net, prefix |-> n + 1]
<1>1. /\ r.network \in Address /\ n \in 0 .. Width[f] /\ Width[f] \in Nat /\ f \in Families
      /\ b \in 0 .. (PowerOf2[Width[f]] - 1)
      /\ r.network = [family |-> f, bits |-> b]
      /\ n \in Nat /\ n + 1 \in 0 .. Width[f]
      /\ NetworkAddress(r.network, n) = r.network
  <2>1. r \in Routes /\ NetworkAddress(r.network, n) = r.network
    BY DEF Canonical
  <2>2. r.network \in Address /\ n \in 0 .. Width[f] /\ n \in Nat /\ Width[f] \in Nat
    BY <2>1, RouteIs
  <2>3. n + 1 \in 0 .. Width[f]
    BY <2>2
  <2>4. QED
    BY <2>1, <2>2, <2>3, AddressIs
<1>2. Split(r)[1] = c1 /\ Split(r)[2] = c2
  <2>1. [r.network EXCEPT !.bits = @ + h] = net
    BY <1>1
  <2>2. Split(r) = <<c1, [network |-> [r.network EXCEPT !.bits = @ + h], prefix |-> n + 1]>>
    BY DEF Split
  <2>3. QED
    BY <2>1, <2>2
<1>3. b = PowerOf2[Width[f] - n] * Quotient(f, b, n)
  <2>1. r.network = [family |-> f, bits |-> PowerOf2[Width[f] - n] * Quotient(f, b, n)]
    BY <1>1, NetworkIs
  <2>2. QED
    BY <2>1
<1>4. /\ b = h * Quotient(f, b, n + 1)
      /\ b + h \in 0 .. (PowerOf2[Width[f]] - 1)
      /\ b + h = h * Quotient(f, b + h, n + 1)
      /\ SameBits(f, b + h, b, n)
      /\ Bit(f, b, n + 1) = 0 /\ Bit(f, b + h, n + 1) = 1
  BY <1>1, <1>3, SplitBits
<1>5. net \in Address /\ net.family = f /\ net.bits = b + h
  BY <1>1, <1>4, AddressMade
<1>6. NetworkAddress(r.network, n + 1) = r.network /\ NetworkAddress(net, n + 1) = net
  <2>1. NetworkAddress(r.network, n + 1) = [family |-> f, bits |-> h * Quotient(f, b, n + 1)]
    BY <1>1, NetworkIs
  <2>2. NetworkAddress(net, n + 1) = [family |-> f, bits |-> h * Quotient(f, b + h, n + 1)]
    <3> HIDE DEF net
    <3>1. QED
      BY <1>1, <1>5, NetworkIs
  <2>3. QED
    BY <1>1, <1>4, <2>1, <2>2
<1> HIDE DEF net
<1>7. /\ c1 \in Routes /\ c1.network = r.network /\ c1.prefix = n + 1
      /\ c2 \in Routes /\ c2.network = net /\ c2.prefix = n + 1
  BY <1>1, <1>5, RouteMade
<1> HIDE DEF c1, c2, f, b, h
<1>8. /\ c1 \in Canonical /\ c2 \in Canonical
      /\ c1.network.family = f /\ c2.network.family = f
  BY <1>5, <1>6, <1>7 DEF Canonical, f
<1>9. \A i \in 1 .. (n + 1) : i \in 1..n \/ i = n + 1
  BY <1>1
<1>10. 1..n \subseteq 1 .. (n + 1) /\ n + 1 \in 1 .. (n + 1)
  BY <1>1
<1>11. ASSUME NEW a \in Address
       PROVE  Agree(a, r.network, n) <=> Agree(a, r.network, n + 1) \/ Agree(a, net, n + 1)
  <2>1. CASE a.family # f
    BY <1>5, <2>1 DEF Agree, f
  <2>2. CASE a.family = f
    <3> DEFINE x == a.bits
    <3>1. Bit(f, x, n + 1) \in 0..1
      <4>1. x \in 0 .. (PowerOf2[Width[f]] - 1)
        BY <2>2, AddressIs
      <4>2. n < Width[f]
        BY <1>1 DEF f
      <4>3. Bit(f, x, n + 1) = Quotient(f, x, n + 1) % 2 /\ Quotient(f, x, n + 1) \in Nat
        BY <1>1, <4>1, <4>2, QuotientIs
      <4>4. QED
        BY <4>3
    <3>2. SameBits(f, x, b, n + 1) <=> SameBits(f, x, b, n) /\ Bit(f, x, n + 1) = 0
      BY <1>4, <1>9, <1>10 DEF SameBits
    <3>3. SameBits(f, x, b + h, n + 1) <=> SameBits(f, x, b + h, n) /\ Bit(f, x, n + 1) = 1
      BY <1>4, <1>9, <1>10 DEF SameBits
    <3>4. SameBits(f, x, b + h, n) <=> SameBits(f, x, b, n)
      BY <1>4 DEF SameBits
    <3>5. SameBits(f, x, b, n) <=> SameBits(f, x, b, n + 1) \/ SameBits(f, x, b + h, n + 1)
      BY <3>1, <3>2, <3>3, <3>4
    <3>6. QED
      BY <1>5, <2>2, <3>5 DEF Agree, f, b
  <2>3. QED
    BY <2>1, <2>2
<1>12. Covers(r) = Covers(c1) \cup Covers(c2)
  BY <1>7, <1>11, CoversIs
<1>13. \A k \in 1..2 : k = 1 \/ k = 2
  OBVIOUS
<1>14. QED
  BY <1>2, <1>7, <1>8, <1>12, <1>13 DEF f

\* What a list of routes covers.
CoveredBy(s) == UNION {Covers(s[i]) : i \in DOMAIN s}

LEMMA ConcatenatedCovers ==
  ASSUME NEW s \in Seq(Canonical), NEW t \in Seq(Canonical)
  PROVE  s \o t \in Seq(Canonical) /\ CoveredBy(s \o t) = CoveredBy(s) \cup CoveredBy(t)
<1> DEFINE l == s \o t
           n == Len(s)
           m == Len(t)
<1>1. n \in Nat /\ m \in Nat /\ DOMAIN s = 1..n /\ DOMAIN t = 1..m
  OBVIOUS
<1>2. /\ l \in Seq(Canonical) /\ Len(l) = n + m
      /\ \A k \in 1 .. (n + m) : l[k] = IF k <= n THEN s[k] ELSE t[k - n]
  OBVIOUS
<1> HIDE DEF l, n, m
<1>3. DOMAIN l = 1 .. (n + m)
  BY <1>1, <1>2
<1>4. \A i \in 1..n : i \in 1 .. (n + m) /\ l[i] = s[i]
  BY <1>1, <1>2
<1>5. \A i \in 1..m : n + i \in 1 .. (n + m) /\ l[n + i] = t[i]
  BY <1>1, <1>2
<1>6. ASSUME NEW k \in 1 .. (n + m)
      PROVE  (k \in 1..n /\ l[k] = s[k]) \/ (k - n \in 1..m /\ l[k] = t[k - n])
  BY <1>1, <1>2
<1>7. ASSUME NEW a \in CoveredBy(l) PROVE a \in CoveredBy(s) \cup CoveredBy(t)
  <2>1. PICK k \in 1 .. (n + m) : a \in Covers(l[k])
    BY <1>3, <1>7 DEF CoveredBy
  <2>2. QED
    BY <1>1, <1>6, <2>1 DEF CoveredBy
<1>8. CoveredBy(s) \subseteq CoveredBy(l)
  BY <1>1, <1>3, <1>4 DEF CoveredBy
<1>9. CoveredBy(t) \subseteq CoveredBy(l)
  BY <1>1, <1>3, <1>5 DEF CoveredBy
<1>10. QED
  BY <1>2, <1>7, <1>8, <1>9 DEF l

\* One call of subtract_route, the recursive ones being g.
SubtractStep(e, g, r) ==
    IF ContainsRoute(e, r) THEN <<>>
    ELSE IF ~ ContainsRoute(r, e) THEN <<r>>
    ELSE g[Split(r)[1]] \o g[Split(r)[2]]
Subtracts(e, g) == g = [r \in Routes |-> SubtractStep(e, g, r)]

Depth(r) == Width[r.network.family] - r.prefix

LEMMA DepthIs == ASSUME NEW r \in Routes PROVE Depth(r) \in Nat /\ Depth(r) <= Width[4] + Width[6]
<1>1. /\ r.prefix \in 0 .. Width[r.network.family] /\ r.network.family \in Families
      /\ r.prefix \in Nat
  BY RouteIs, AddressIs
<1>2. Width[4] \in Nat /\ Width[6] \in Nat /\ r.network.family \in {4, 6}
  BY <1>1, RoutePolicyAssumption DEF Families
<1>3. QED
  BY <1>1, <1>2 DEF Depth

\* The halves are asked for only of a route that has them.
LEMMA Deeper ==
  ASSUME NEW e \in Canonical, NEW r \in Routes, ContainsRoute(r, e), ~ ContainsRoute(e, r)
  PROVE  /\ r \in Canonical /\ r.prefix < Width[r.network.family]
         /\ \A k \in 1..2 : /\ Split(r)[k] \in Canonical /\ Split(r)[k] \in Routes
                            /\ Depth(Split(r)[k]) = Depth(r) - 1
<1>1. /\ r.prefix <= e.prefix /\ r.network.family = e.network.family
      /\ NetworkAddress(e.network, r.prefix) = r.network
  BY DEF ContainsRoute, ContainsAddress
<1>2. e.network \in Address /\ r.prefix \in 0 .. Width[r.network.family]
      /\ r.prefix \in Nat /\ Width[r.network.family] \in Nat
  BY RouteIs DEF Canonical
<1>3. NetworkAddress(r.network, r.prefix) = r.network
  BY <1>1, <1>2, AgreeIs
<1>4. r \in Canonical
  BY <1>3 DEF Canonical
<1>5. r.prefix # Width[r.network.family]
  BY <1>4, HostContains
<1>6. r.prefix < Width[r.network.family]
  BY <1>2, <1>5
<1>7. ASSUME NEW k \in 1..2
      PROVE  /\ Split(r)[k] \in Canonical /\ Split(r)[k] \in Routes
             /\ Depth(Split(r)[k]) = Depth(r) - 1
  <2>1. /\ Split(r)[k] \in Canonical /\ Split(r)[k].prefix = r.prefix + 1
        /\ Split(r)[k].network.family = r.network.family
    BY <1>4, <1>6, SplitIs
  <2>2. QED
    BY <1>2, <2>1 DEF Depth, Canonical
<1>8. QED
  BY <1>4, <1>6, <1>7

LEMMA SubtractsExists == ASSUME NEW e \in Canonical PROVE \E g : Subtracts(e, g)
<1> DEFINE Upto(n) == \E g : \A r \in Routes : Depth(r) <= n => g[r] = SubtractStep(e, g, r)
           good == {n \in Nat : Upto(n)}
<1>1. ASSUME NEW r \in Routes, NEW g, NEW h,
             \A c \in Routes : Depth(c) = Depth(r) - 1 => g[c] = h[c]
      PROVE  SubtractStep(e, g, r) = SubtractStep(e, h, r)
  <2>1. CASE ContainsRoute(e, r) \/ ~ ContainsRoute(r, e)
    BY <2>1 DEF SubtractStep
  <2>2. CASE ~ ContainsRoute(e, r) /\ ContainsRoute(r, e)
    <3>1. \A k \in 1..2 : Split(r)[k] \in Routes /\ Depth(Split(r)[k]) = Depth(r) - 1
      BY <2>2, Deeper
    <3>2. g[Split(r)[1]] = h[Split(r)[1]] /\ g[Split(r)[2]] = h[Split(r)[2]]
      BY <1>1, <3>1
    <3>3. QED
      BY <3>2 DEF SubtractStep
  <2>3. QED
    BY <2>1, <2>2
<1>2. Upto(0)
  <2> DEFINE h == [r \in Routes |-> SubtractStep(e, <<>>, r)]
  <2>1. ASSUME NEW r \in Routes, Depth(r) <= 0 PROVE h[r] = SubtractStep(e, h, r)
    <3>1. \A c \in Routes : Depth(c) # Depth(r) - 1
      BY <2>1, DepthIs
    <3>2. SubtractStep(e, <<>>, r) = SubtractStep(e, h, r)
      <4> HIDE DEF h
      <4>1. QED
        BY <1>1, <3>1
    <3>3. QED
      BY <3>2
  <2>2. QED
    BY <2>1
<1>3. ASSUME NEW n \in Nat, Upto(n) PROVE Upto(n + 1)
  <2>1. PICK g : \A r \in Routes : Depth(r) <= n => g[r] = SubtractStep(e, g, r)
    BY <1>3
  <2> DEFINE h == [r \in Routes |-> SubtractStep(e, g, r)]
  <2>2. ASSUME NEW r \in Routes, Depth(r) <= n + 1 PROVE h[r] = SubtractStep(e, h, r)
    <3>1. \A c \in Routes : Depth(c) = Depth(r) - 1 => Depth(c) <= n
      BY <2>2, DepthIs
    <3>2. \A c \in Routes : Depth(c) = Depth(r) - 1 => g[c] = h[c]
      BY <2>1, <3>1
    <3>3. SubtractStep(e, g, r) = SubtractStep(e, h, r)
      <4> HIDE DEF h
      <4>1. QED
        BY <1>1, <3>2
    <3>4. QED
      BY <3>3
  <2>3. QED
    BY <2>2
<1> HIDE DEF Upto
<1>4. 0 \in good /\ \A n \in Nat : n \in good => n + 1 \in good
  BY <1>2, <1>3
<1>5. \A n \in Nat : Upto(n)
  <2> HIDE DEF good
  <2>1. Nat \subseteq good
    BY <1>4, AllNaturals
  <2>2. QED
    BY <2>1 DEF good
<1>6. Upto(Width[4] + Width[6])
  <2>1. Width[4] + Width[6] \in Nat
    BY RoutePolicyAssumption DEF Families
  <2>2. QED
    BY <1>5, <2>1
<1>7. PICK g : \A r \in Routes : g[r] = SubtractStep(e, g, r)
  BY <1>6, DepthIs DEF Upto
<1> DEFINE h == [r \in Routes |-> SubtractStep(e, g, r)]
<1>8. \A c \in Routes : g[c] = h[c]
  BY <1>7
<1>9. \A r \in Routes : SubtractStep(e, g, r) = SubtractStep(e, h, r)
  <2> HIDE DEF h
  <2>1. QED
    BY <1>1, <1>8
<1>10. Subtracts(e, h)
  <2>1. h = [r \in Routes |-> SubtractStep(e, g, r)]
    OBVIOUS
  <2> HIDE DEF h
  <2>2. QED
    BY <1>9, <2>1 DEF Subtracts
<1>11. QED
  BY <1>10

\* subtract_route: what is left of a route is cut into canonical routes that
\* cover what the route covers and the exclusion does not.
LEMMA SubtractRouteIs ==
  ASSUME NEW e \in Canonical, NEW route \in Canonical
  PROVE  LET l == SubtractRoute(route, e)
         IN  l \in Seq(Canonical) /\ CoveredBy(l) = Covers(route) \ Covers(e)
<1> DEFINE g == CHOOSE f : Subtracts(e, f)
<1>1. SubtractRoute(route, e) = g[route]
  BY DEF SubtractRoute, Subtracts, SubtractStep
<1>2. Subtracts(e, g)
  BY SubtractsExists
<1> HIDE DEF g
<1>3. \A r \in Routes : g[r] = SubtractStep(e, g, r)
  BY <1>2 DEF Subtracts
<1> DEFINE Right(r) == g[r] \in Seq(Canonical) /\ CoveredBy(g[r]) = Covers(r) \ Covers(e)
           good == {n \in Nat : \A r \in Canonical : Depth(r) <= n => Right(r)}
<1>4. ASSUME NEW r \in Canonical, ContainsRoute(e, r) PROVE Right(r)
  <2>1. g[r] = <<>>
    BY <1>3, <1>4 DEF SubtractStep, Canonical
  <2>2. DOMAIN <<>> = {}
    OBVIOUS
  <2>3. CoveredBy(<<>>) = {}
    BY <2>2 DEF CoveredBy
  <2>4. Covers(r) \ Covers(e) = {}
    BY <1>4, NestedOrApart
  <2>5. <<>> \in Seq(Canonical)
    OBVIOUS
  <2>6. QED
    BY <2>1, <2>3, <2>4, <2>5
<1>5. ASSUME NEW r \in Canonical, ~ ContainsRoute(e, r), ~ ContainsRoute(r, e) PROVE Right(r)
  <2>1. g[r] = <<r>>
    BY <1>3, <1>5 DEF SubtractStep, Canonical
  <2>2. DOMAIN <<r>> = {1} /\ <<r>>[1] = r /\ <<r>> \in Seq(Canonical)
    OBVIOUS
  <2>3. CoveredBy(<<r>>) = Covers(r)
    BY <2>2 DEF CoveredBy
  <2>4. Covers(r) \ Covers(e) = Covers(r)
    BY <1>5, NestedOrApart
  <2>5. QED
    BY <2>1, <2>2, <2>3, <2>4
<1>6. ASSUME NEW r \in Canonical, ~ ContainsRoute(e, r), ContainsRoute(r, e),
             \A c \in Canonical : Depth(c) = Depth(r) - 1 => Right(c)
      PROVE  Right(r)
  <2> DEFINE c1 == Split(r)[1]
             c2 == Split(r)[2]
  <2>1. g[r] = g[c1] \o g[c2]
    BY <1>3, <1>6 DEF SubtractStep, Canonical
  <2>2. /\ c1 \in Canonical /\ Depth(c1) = Depth(r) - 1
        /\ c2 \in Canonical /\ Depth(c2) = Depth(r) - 1
        /\ r.prefix < Width[r.network.family]
    BY <1>6, Deeper DEF Canonical
  <2>3. Covers(r) = Covers(c1) \cup Covers(c2)
    BY <2>2, SplitIs
  <2> HIDE DEF c1, c2
  <2>4. Right(c1) /\ Right(c2)
    BY <1>6, <2>2
  <2>5. g[c1] \o g[c2] \in Seq(Canonical)
        /\ CoveredBy(g[c1] \o g[c2]) = CoveredBy(g[c1]) \cup CoveredBy(g[c2])
    BY <2>4, ConcatenatedCovers
  <2>6. QED
    BY <2>1, <2>3, <2>4, <2>5
<1>7. \A r \in Canonical : Depth(r) \in Nat
  BY DepthIs DEF Canonical
<1> HIDE DEF Right
<1>8. 0 \in good
  <2>1. \A r, c \in Canonical : Depth(r) <= 0 => Depth(c) # Depth(r) - 1
    BY <1>7
  <2>2. QED
    BY <1>4, <1>5, <1>6, <2>1
<1>9. ASSUME NEW n \in Nat, n \in good PROVE n + 1 \in good
  <2>1. ASSUME NEW r \in Canonical, Depth(r) <= n + 1 PROVE Right(r)
    <3>1. \A c \in Canonical : Depth(c) = Depth(r) - 1 => Depth(c) <= n
      BY <1>7, <2>1
    <3>2. \A c \in Canonical : Depth(c) = Depth(r) - 1 => Right(c)
      BY <1>9, <3>1
    <3>3. QED
      BY <1>4, <1>5, <1>6, <3>2
  <2>2. QED
    BY <2>1
<1>10. Depth(route) \in good
  <2> HIDE DEF good
  <2>1. Nat \subseteq good
    BY <1>8, <1>9, AllNaturals
  <2>2. QED
    BY <1>7, <2>1
<1>11. Right(route)
  BY <1>7, <1>10
<1>12. QED
  BY <1>1, <1>11 DEF Right

-----------------------------------------------------------------------------
(* RoutePolicy: lists of routes. *)

Unrepeated(s) == \A i, j \in DOMAIN s : s[i] = s[j] => i = j

LEMMA NothingCovered == <<>> \in Seq(Canonical) /\ CoveredBy(<<>>) = {} /\ Unrepeated(<<>>)
<1>1. DOMAIN <<>> = {} /\ <<>> \in Seq(Canonical)
  OBVIOUS
<1>2. QED
  BY <1>1 DEF CoveredBy, Unrepeated

LEMMA PushUniqueIs ==
  ASSUME NEW s \in Seq(Canonical), NEW r \in Canonical
  PROVE  LET t == PushUnique(s, r)
         IN  /\ t \in Seq(Canonical) /\ CoveredBy(t) = CoveredBy(s) \cup Covers(r)
             /\ Unrepeated(s) => Unrepeated(t)
<1> DEFINE t == PushUnique(s, r)
<1>1. CASE \E i \in DOMAIN s : s[i] = r
  <2>1. t = s
    BY <1>1 DEF PushUnique
  <2>2. Covers(r) \subseteq CoveredBy(s)
    BY <1>1 DEF CoveredBy
  <2>3. QED
    BY <2>1, <2>2
<1>2. CASE ~ \E i \in DOMAIN s : s[i] = r
  <2>1. t = Append(s, r)
    BY <1>2 DEF PushUnique
  <2> DEFINE n == Len(s)
  <2>2. n \in Nat /\ DOMAIN s = 1..n
    OBVIOUS
  <2>3. /\ t \in Seq(Canonical) /\ DOMAIN t = 1 .. (n + 1) /\ t[n + 1] = r
        /\ \A i \in 1..n : t[i] = s[i]
    <3> HIDE DEF t
    <3>1. QED
      BY <2>1
  <2> HIDE DEF t, n
  <2>4. \A i \in 1 .. (n + 1) : i \in 1..n \/ i = n + 1
    BY <2>2
  <2>5. 1..n \subseteq 1 .. (n + 1) /\ n + 1 \in 1 .. (n + 1)
    BY <2>2
  <2>6. CoveredBy(t) = CoveredBy(s) \cup Covers(r)
    BY <2>2, <2>3, <2>4, <2>5 DEF CoveredBy
  <2>7. ASSUME Unrepeated(s) PROVE Unrepeated(t)
    <3>1. \A i \in 1..n : t[i] # r
      BY <1>2, <2>2, <2>3
    <3>2. QED
      BY <2>2, <2>3, <2>4, <2>7, <3>1 DEF Unrepeated
  <2>8. QED
    BY <2>3, <2>6, <2>7 DEF t
<1>3. QED
  BY <1>1, <1>2

PushStep(s, more, g, n) == IF n = 0 THEN s ELSE PushUnique(g[n - 1], more[n])
Pushes(s, more, g) == g = [n \in 0 .. Len(more) |-> PushStep(s, more, g, n)]

LEMMA PushesExist ==
  ASSUME NEW s, NEW S, NEW more \in Seq(S) PROVE \E g : Pushes(s, more, g)
<1> DEFINE N == Len(more)
           Upto(n) == \E g : \A i \in 0..n : g[i] = PushStep(s, more, g, i)
           good == {n \in Nat : Upto(n)}
<1>1. N \in Nat
  OBVIOUS
<1> HIDE DEF N
<1>2. Upto(0)
  <2>1. \A i \in 0..0 : [j \in 0..0 |-> s][i] = PushStep(s, more, [j \in 0..0 |-> s], i)
    BY DEF PushStep
  <2>2. QED
    BY <2>1
<1>3. ASSUME NEW n \in Nat, Upto(n) PROVE Upto(n + 1)
  <2>1. PICK g : \A i \in 0..n : g[i] = PushStep(s, more, g, i)
    BY <1>3
  <2> DEFINE h == [i \in 0 .. (n + 1) |-> PushStep(s, more, g, i)]
  <2>2. \A i \in 0 .. (n + 1) : h[i] = PushStep(s, more, g, i)
    OBVIOUS
  <2> HIDE DEF h
  <2>3. \A i \in 0..n : i \in 0 .. (n + 1) /\ h[i] = g[i]
    BY <2>1, <2>2
  <2>4. \A i \in 0 .. (n + 1) : i # 0 => i - 1 \in 0..n
    OBVIOUS
  <2>5. \A i \in 0 .. (n + 1) : h[i] = PushStep(s, more, h, i)
    BY <2>2, <2>3, <2>4 DEF PushStep
  <2>6. QED
    BY <2>5
<1>4. 0 \in good /\ \A n \in Nat : n \in good => n + 1 \in good
  <2> HIDE DEF Upto
  <2>1. QED
    BY <1>2, <1>3
<1>5. Upto(N)
  <2> HIDE DEF good
  <2>1. Nat \subseteq good
    BY <1>4, AllNaturals
  <2>2. N \in good
    BY <1>1, <2>1
  <2>3. QED
    BY <2>2 DEF good
<1>6. PICK g : \A i \in 0..N : g[i] = PushStep(s, more, g, i)
  BY <1>5
<1> DEFINE h == [i \in 0..N |-> PushStep(s, more, g, i)]
<1>7. \A i \in 0..N : h[i] = g[i]
  BY <1>6
<1>8. \A i \in 0..N : i # 0 => i - 1 \in 0..N
  BY <1>1
<1>9. h = [i \in 0..N |-> PushStep(s, more, g, i)]
  OBVIOUS
<1> HIDE DEF h
<1>10. \A i \in 0..N : PushStep(s, more, g, i) = PushStep(s, more, h, i)
  BY <1>7, <1>8 DEF PushStep
<1>11. Pushes(s, more, h)
  BY <1>9, <1>10 DEF Pushes, N
<1>12. QED
  BY <1>11

LEMMA PushAllIs ==
  ASSUME NEW s \in Seq(Canonical), NEW more \in Seq(Canonical)
  PROVE  LET t == PushAll(s, more)
         IN  /\ t \in Seq(Canonical) /\ CoveredBy(t) = CoveredBy(s) \cup CoveredBy(more)
             /\ Unrepeated(s) => Unrepeated(t)
<1> DEFINE g == CHOOSE f : Pushes(s, more, f)
           N == Len(more)
<1>1. PushAll(s, more) = g[N]
  BY DEF PushAll, Pushes, PushStep
<1>2. Pushes(s, more, g)
  BY PushesExist
<1>3. N \in Nat /\ DOMAIN more = 1..N /\ \A i \in 1..N : more[i] \in Canonical
  OBVIOUS
<1> HIDE DEF g
<1>4. \A n \in 0..N : g[n] = PushStep(s, more, g, n)
  BY <1>2 DEF Pushes
<1> HIDE DEF N
<1> DEFINE First(n) == UNION {Covers(more[i]) : i \in 1..n}
           Right(n) == /\ g[n] \in Seq(Canonical) /\ CoveredBy(g[n]) = CoveredBy(s) \cup First(n)
                       /\ Unrepeated(s) => Unrepeated(g[n])
           good == {n \in Nat : n <= N => Right(n)}
<1>5. First(0) = {}
  <2>1. 1..0 = {}
    OBVIOUS
  <2>2. QED
    BY <2>1
<1>6. ASSUME NEW n \in Nat PROVE First(n + 1) = First(n) \cup Covers(more[n + 1])
  <2>1. 1 .. (n + 1) = 1..n \cup {n + 1}
    OBVIOUS
  <2>2. QED
    BY <2>1
<1> HIDE DEF First
<1>7. Right(0)
  <2>1. 0 \in 0..N
    BY <1>3
  <2>2. g[0] = s
    BY <1>4, <2>1 DEF PushStep
  <2>3. QED
    BY <1>5, <2>2
<1>8. ASSUME NEW n \in Nat, n + 1 <= N, Right(n) PROVE Right(n + 1)
  <2>1. n + 1 \in 0..N /\ n + 1 # 0 /\ (n + 1) - 1 = n /\ n + 1 \in 1..N
    BY <1>3, <1>8
  <2>2. g[n + 1] = PushUnique(g[n], more[n + 1])
    BY <1>4, <2>1 DEF PushStep
  <2>3. more[n + 1] \in Canonical
    BY <1>3, <2>1
  <2>4. /\ PushUnique(g[n], more[n + 1]) \in Seq(Canonical)
        /\ CoveredBy(PushUnique(g[n], more[n + 1])) = CoveredBy(g[n]) \cup Covers(more[n + 1])
        /\ Unrepeated(g[n]) => Unrepeated(PushUnique(g[n], more[n + 1]))
    BY <1>8, <2>3, PushUniqueIs
  <2>5. QED
    BY <1>6, <1>8, <2>2, <2>4
<1> HIDE DEF Right
<1>9. 0 \in good /\ \A n \in Nat : n \in good => n + 1 \in good
  BY <1>3, <1>7, <1>8
<1>10. Right(N)
  <2> HIDE DEF good
  <2>1. Nat \subseteq good
    BY <1>9, AllNaturals
  <2>2. N \in good
    BY <1>3, <2>1
  <2>3. QED
    BY <1>3, <2>2 DEF good
<1>11. First(N) = CoveredBy(more)
  BY <1>3 DEF First, CoveredBy
<1>12. QED
  BY <1>1, <1>10, <1>11 DEF Right

LEMMA FlattenSeqIs ==
  ASSUME NEW seqs \in Seq(Seq(Canonical))
  PROVE  /\ FlattenSeq(seqs) \in Seq(Canonical)
         /\ CoveredBy(FlattenSeq(seqs)) = UNION {CoveredBy(seqs[i]) : i \in DOMAIN seqs}
<1> DEFINE N == Len(seqs)
<1>1. N \in Nat /\ DOMAIN seqs = 1..N /\ (N = 0 <=> seqs = <<>>)
      /\ \A i \in 1..N : seqs[i] \in Seq(Canonical)
  OBVIOUS
<1>2. CASE N = 0
  <2>1. FlattenSeq(seqs) = <<>> /\ DOMAIN seqs = {}
    BY <1>1, <1>2 DEF FlattenSeq
  <2>2. QED
    BY <2>1, NothingCovered
<1>3. CASE N # 0
  <2> DEFINE g == CHOOSE f : Flattens(seqs, f)
  <2>1. FlattenSeq(seqs) = g[N]
    BY <1>3 DEF FlattenSeq, Flattens, FlattenStep
  <2>2. Flattens(seqs, g)
    BY <1>1, <1>3, FlattensExist
  <2> HIDE DEF g
  <2>3. \A n \in 1..N : g[n] = FlattenStep(seqs, g, n)
    BY <2>2 DEF Flattens
  <2> HIDE DEF N
  <2> DEFINE First(n) == UNION {CoveredBy(seqs[i]) : i \in 1..n}
             Right(n) == g[n] \in Seq(Canonical) /\ CoveredBy(g[n]) = First(n)
             good == {n \in Nat : n + 1 <= N => Right(n + 1)}
  <2>4. ASSUME NEW n \in Nat PROVE First(n + 1) = First(n) \cup CoveredBy(seqs[n + 1])
    <3>1. 1 .. (n + 1) = 1..n \cup {n + 1}
      OBVIOUS
    <3>2. QED
      BY <3>1
  <2>5. First(1) = CoveredBy(seqs[1])
    <3>1. 1..1 = {1}
      OBVIOUS
    <3>2. QED
      BY <3>1
  <2> HIDE DEF First
  <2>6. Right(1)
    <3>1. 1 \in 1..N
      BY <1>1, <1>3
    <3>2. g[1] = seqs[1]
      BY <2>3, <3>1 DEF FlattenStep
    <3>3. QED
      BY <1>1, <2>5, <3>1, <3>2
  <2>7. ASSUME NEW n \in Nat, n # 0, n + 1 <= N, Right(n) PROVE Right(n + 1)
    <3>1. n + 1 \in 1..N /\ n + 1 # 1 /\ (n + 1) - 1 = n
      BY <1>1, <2>7
    <3>2. g[n + 1] = g[n] \o seqs[n + 1]
      BY <2>3, <3>1 DEF FlattenStep
    <3>3. seqs[n + 1] \in Seq(Canonical)
      BY <1>1, <3>1
    <3>4. g[n] \o seqs[n + 1] \in Seq(Canonical)
          /\ CoveredBy(g[n] \o seqs[n + 1]) = CoveredBy(g[n]) \cup CoveredBy(seqs[n + 1])
      BY <2>7, <3>3, ConcatenatedCovers
    <3>5. QED
      BY <2>4, <2>7, <3>2, <3>4
  <2> HIDE DEF Right
  <2>8. 0 \in good
    BY <2>6
  <2>9. ASSUME NEW n \in Nat, n \in good PROVE n + 1 \in good
    <3>1. ASSUME (n + 1) + 1 <= N PROVE Right((n + 1) + 1)
      <4>1. n + 1 <= N /\ n + 1 \in Nat /\ n + 1 # 0
        BY <1>1, <3>1
      <4>2. Right(n + 1)
        BY <2>9, <4>1
      <4>3. QED
        BY <2>7, <3>1, <4>1, <4>2
    <3>2. QED
      BY <3>1
  <2>10. Right(N)
    <3> HIDE DEF good
    <3>1. Nat \subseteq good
      BY <2>8, <2>9, AllNaturals
    <3>2. N - 1 \in good /\ (N - 1) + 1 = N
      BY <1>1, <1>3, <3>1
    <3>3. QED
      BY <1>1, <3>2 DEF good
  <2>11. First(N) = UNION {CoveredBy(seqs[i]) : i \in DOMAIN seqs}
    BY <1>1 DEF First
  <2>12. QED
    BY <2>1, <2>10, <2>11 DEF Right
<1>4. QED
  BY <1>2, <1>3

LEMMA SetToSeqIs ==
  ASSUME NEW S, IsFiniteSet(S)
  PROVE  SetToSeq(S) \in Seq(S) /\ \A x \in S : \E i \in DOMAIN SetToSeq(S) : SetToSeq(S)[i] = x
<1> DEFINE n == Cardinality(S)
           f == SetToSeq(S)
<1>1. n \in Nat /\ ExistsBijection(1..n, S)
  BY FS_CardinalityType
<1>2. \E h \in [1..n -> S] : IsInjective(h)
  BY <1>1 DEF ExistsBijection, Bijection, Injection
<1>3. f \in [1..n -> S] /\ IsInjective(f)
  BY <1>2 DEF SetToSeq
<1> HIDE DEF f
<1>4. f \in Injection(1..n, S)
  BY <1>3 DEF Injection
<1>5. Cardinality(1..n) = n
  BY <1>1, FS_Interval
<1>6. f \in Surjection(1..n, S)
  BY <1>4, <1>5, FS_Injection
<1>7. f \in Seq(S) /\ DOMAIN f = 1..n
  BY <1>1, <1>3
<1>8. QED
  BY <1>6, <1>7 DEF Surjection, f

-----------------------------------------------------------------------------
(* RoutePolicy: the plan. *)

Family(f) == {a \in Address : a.family = f}

LEMMA DefaultIs ==
  ASSUME NEW f \in Families
  PROVE  LET r == [network |-> [family |-> f, bits |-> 0], prefix |-> 0]
         IN  r \in Canonical /\ r.prefix < Width[r.network.family] /\ Covers(r) = Family(f)
<1> DEFINE a == [family |-> f, bits |-> 0]
           r == [network |-> a, prefix |-> 0]
<1>1. Width[f] \in Nat \ {0} /\ PowerOf2[Width[f]] \in Nat \ {0}
  BY RoutePolicyAssumption, PowerIs
<1>2. 0 \in 0 .. (PowerOf2[Width[f]] - 1) /\ 0 \in 0 .. Width[f] /\ 1..0 = {} /\ 0 < Width[f]
  BY <1>1
<1>3. a \in Address /\ a.family = f /\ a.bits = 0
  BY <1>2, AddressMade
<1> HIDE DEF a
<1>4. r \in Routes /\ r.network = a /\ r.prefix = 0
  BY <1>2, <1>3, RouteMade
<1> HIDE DEF r
<1>5. NetworkAddress(a, 0) = a
  <2>1. NetworkAddress(a, 0) = [family |-> f, bits |-> PowerOf2[Width[f] - 0] * Quotient(f, 0, 0)]
    BY <1>2, <1>3, NetworkIs
  <2>2. Quotient(f, 0, 0) = 0
    BY <1>2, QuotientIs
  <2>3. PowerOf2[Width[f] - 0] \in Nat
    BY <1>1, <1>2, QuotientIs
  <2>4. PowerOf2[Width[f] - 0] * Quotient(f, 0, 0) = 0
    BY <2>2, <2>3
  <2>5. QED
    BY <2>1, <2>4 DEF a
<1>6. Covers(r) = Family(f)
  BY <1>2, <1>3, <1>4, CoversIs DEF Agree, SameBits, Family
<1>7. QED
  BY <1>2, <1>3, <1>4, <1>5, <1>6 DEF Canonical, a, r

LEMMA PairCovers ==
  ASSUME NEW r \in Canonical, NEW q \in Canonical
  PROVE  <<r, q>> \in Seq(Canonical) /\ CoveredBy(<<r, q>>) = Covers(r) \cup Covers(q)
<1>1. <<r, q>> \in Seq(Canonical) /\ DOMAIN <<r, q>> = {1, 2} /\ <<r, q>>[1] = r /\ <<r, q>>[2] = q
  OBVIOUS
<1>2. QED
  BY <1>1 DEF CoveredBy

LEMMA HalvesAre ==
  ASSUME NEW f \in Families
  PROVE  /\ Halves(f) \in Seq(Canonical) /\ CoveredBy(Halves(f)) = Family(f)
         /\ Halves(f)[1] \in Canonical /\ Halves(f)[2] \in Canonical
         /\ Covers(Halves(f)[1]) \cup Covers(Halves(f)[2]) = Family(f)
<1> DEFINE r == [network |-> [family |-> f, bits |-> 0], prefix |-> 0]
<1>1. r \in Canonical /\ r.prefix < Width[r.network.family] /\ Covers(r) = Family(f)
  BY DefaultIs
<1>2. Halves(f) = Split(r)
  BY DEF Halves
<1>3. Split(r) = <<Split(r)[1], Split(r)[2]>>
  BY DEF Split
<1> HIDE DEF r
<1>4. /\ Split(r)[1] \in Canonical /\ Split(r)[2] \in Canonical
      /\ Covers(r) = Covers(Split(r)[1]) \cup Covers(Split(r)[2])
  BY <1>1, SplitIs
<1> DEFINE c1 == Split(r)[1]
           c2 == Split(r)[2]
<1> HIDE DEF c1, c2
<1>5. <<c1, c2>> \in Seq(Canonical) /\ CoveredBy(<<c1, c2>>) = Covers(c1) \cup Covers(c2)
  BY <1>4, PairCovers DEF c1, c2
<1>6. QED
  BY <1>1, <1>2, <1>3, <1>4, <1>5 DEF c1, c2

\* What a text that parses means.
LEMMA ParsedIs ==
  ASSUME NEW a \in Address, NEW n \in 0 .. Width[a.family]
  PROVE  LET r == [network |-> NetworkAddress(a, n), prefix |-> n]
         IN  r \in Canonical /\ Covers(r) = Denotes(a, n)
<1> DEFINE net == NetworkAddress(a, n)
           r == [network |-> net, prefix |-> n]
<1>1. /\ net \in Address /\ net.family = a.family /\ n \in Nat
      /\ NetworkAddress(net, n) = net /\ Agree(a, net, n)
  BY NetworkIs, AgreeIs
<1> HIDE DEF net
<1>2. r \in Routes /\ r.network = net /\ r.prefix = n
  BY <1>1, RouteMade
<1> HIDE DEF r
<1>3. r \in Canonical
  BY <1>1, <1>2 DEF Canonical
<1>4. Denotes(a, n) = {b \in Address : Agree(b, a, n)}
  BY DEF Denotes, Agree, SameBits
<1>5. \A b : Agree(b, net, n) <=> Agree(b, a, n)
  <2>1. Agree(net, a, n)
    BY <1>1, AgreeRelates
  <2>2. QED
    BY <1>1, <2>1, AgreeRelates
<1>6. Covers(r) = Denotes(a, n)
  BY <1>2, <1>4, <1>5, CoversIs
<1>7. QED
  BY <1>3, <1>6 DEF r, net

LEMMA TextIs ==
  ASSUME NEW text \in Text, Parses(text)
  PROVE  /\ ParsedRoute(text) \in Canonical
         /\ Covers(ParsedRoute(text)) = Denotes(text.address, text.prefix)
<1>1. text.address \in Address /\ text.prefix \in Nat /\ text.prefix <= Width[text.address.family]
  BY DEF Text, Parses
<1>2. Width[text.address.family] \in Nat
  BY <1>1, AddressIs, QuotientIs
<1>3. text.prefix \in 0 .. Width[text.address.family]
  BY <1>1, <1>2
<1>4. QED
  BY <1>1, <1>3, ParsedIs DEF ParsedRoute

LEMMA HostIs ==
  ASSUME NEW a \in Address
  PROVE  /\ Host(a) \in Canonical /\ Covers(Host(a)) = {a}
         /\ ParsedRoute(HostText(a)) \in Canonical /\ Covers(ParsedRoute(HostText(a))) = {a}
         /\ Denotes(HostText(a).address, HostText(a).prefix) = {a}
<1> DEFINE w == Width[a.family]
<1>1. w \in Nat /\ w \in 0..w /\ a.family \in Families /\ w - w = 0
  <2>1. w \in Nat /\ a.family \in Families
    BY AddressIs, QuotientIs
  <2>2. QED
    BY <2>1
<1>2. PowerOf2[w - w] = 1
  BY <1>1, PowerIs
<1>3. ASSUME NEW b \in Address, b.family = a.family
      PROVE  NetworkAddress(b, w) = b /\ Quotient(b.family, b.bits, w) = b.bits
  <2>1. b.bits \in Nat /\ b = [family |-> b.family, bits |-> b.bits]
    BY AddressIs
  <2>2. b.bits \div 1 = b.bits
    BY <2>1
  <2>3. Quotient(b.family, b.bits, w) = b.bits
    BY <1>2, <1>3, <2>2 DEF Quotient
  <2>4. NetworkAddress(b, w) = [family |-> b.family, bits |-> 1 * b.bits]
    BY <1>1, <1>2, <1>3, <2>3, NetworkIs
  <2>5. 1 * b.bits = b.bits
    BY <2>1
  <2>6. QED
    BY <2>1, <2>3, <2>4, <2>5
<1>4. NetworkAddress(a, w) = a
  BY <1>3
<1>5. [network |-> NetworkAddress(a, w), prefix |-> w] \in Canonical
      /\ Covers([network |-> NetworkAddress(a, w), prefix |-> w]) = Denotes(a, w)
  BY <1>1, ParsedIs
<1>6. Host(a) = [network |-> NetworkAddress(a, w), prefix |-> w]
  BY <1>4 DEF Host
<1>7. HostText(a).address = a /\ HostText(a).prefix = w
  BY DEF HostText
<1>8. ParsedRoute(HostText(a)) = [network |-> NetworkAddress(a, w), prefix |-> w]
  BY <1>7 DEF ParsedRoute
<1>9. Denotes(a, w) = {a}
  <2>1. a \in Denotes(a, w)
    BY DEF Denotes
  <2>2. ASSUME NEW b \in Denotes(a, w) PROVE b = a
    <3>1. b \in Address /\ Agree(b, a, w)
      BY <2>2 DEF Denotes, Agree, SameBits
    <3>2. b.family = a.family
      BY <3>1 DEF Agree
    <3>3. NetworkAddress(b, w) = NetworkAddress(a, w)
      BY <1>1, <3>1, <3>2, AgreeIs
    <3>4. QED
      BY <1>3, <1>4, <3>1, <3>2, <3>3
  <2>3. QED
    BY <2>1, <2>2
<1>10. QED
  BY <1>5, <1>6, <1>7, <1>8, <1>9

Collecting == {"cidrs", "addresses", "domains", "exclusions"}

PlanTypes ==
    /\ command \in {"direct", "managed"} /\ mode \in {"all", "custom", "ipfilter"}
    /\ peer \in Address
    /\ step \in Collecting \cup {"subtract", "planned", "accepted", "refused"}
    /\ routes \in Seq(Canonical) /\ exclusions \in Seq(Canonical)

\* What the lists mean at each stage; the IPv6 halves come after the CIDRs.
PlanCovers ==
    /\ step \in Collecting =>
          /\ CoveredBy(routes) \cup (IF step = "cidrs" /\ blockIpv6 THEN Family(6) ELSE {}) = included
          /\ excluded = {peer} \cup CoveredBy(exclusions)
    /\ step = "subtract" => CoveredBy(routes) \ CoveredBy(exclusions) = included \ Outside
    /\ step \in {"planned", "accepted"} =>
          CoveredBy(routes) = included \ Outside /\ Unrepeated(routes)

PlanInv == PlanTypes /\ PlanCovers

LEMMA PlanHolds == ASSUME PlanInv PROVE PlanSound
<1>1. PolicyTypeOK
  <2>1. \A i \in DOMAIN routes : routes[i] \in Canonical
    BY DEF PlanInv, PlanTypes
  <2>2. QED
    BY <2>1, RouteIs DEF PolicyTypeOK, PlanInv, PlanTypes, Canonical
<1>2. Covered = CoveredBy(routes)
  BY DEF Covered, CoveredBy, Covers
<1>3. QED
  BY <1>1, <1>2 DEF PlanSound, CoverageExact, NoDuplicates, PlanInv, PlanCovers, Unrepeated

LEMMA PlanStarts == ASSUME PolicyInit PROVE PlanInv
<1>1. /\ command \in {"direct", "managed"} /\ mode \in {"all", "custom", "ipfilter"}
      /\ peer \in Address /\ step = "cidrs" /\ exclusions = <<>> /\ excluded = {peer}
      /\ routes = IF FullIpv4 THEN Halves(4) ELSE <<>>
      /\ included = (IF FullIpv4 THEN Family(4) ELSE {}) \cup (IF blockIpv6 THEN Family(6) ELSE {})
  BY RoutePolicyAssumption DEF PolicyInit, Family
<1>2. routes \in Seq(Canonical) /\ CoveredBy(routes) = IF FullIpv4 THEN Family(4) ELSE {}
  BY <1>1, HalvesAre, NothingCovered DEF Families
<1>3. CoveredBy(exclusions) = {} /\ exclusions \in Seq(Canonical)
  BY <1>1, NothingCovered
<1>4. QED
  BY <1>1, <1>2, <1>3 DEF PlanInv, PlanTypes, PlanCovers, Collecting

LEMMA IncludeKeepsPlan ==
  ASSUME PlanInv, step \in {"cidrs", "addresses"}, NEW text, ParsedRoute(text) \in Canonical,
         Covers(ParsedRoute(text)) = Denotes(text.address, text.prefix), Include(text)
  PROVE  PlanInv'
<1>1. /\ routes' = PushUnique(routes, ParsedRoute(text))
      /\ included' = included \cup Denotes(text.address, text.prefix)
      /\ UNCHANGED <<command, mode, hasFilter, blockIpv6, peer, step, exclusions, excluded>>
  BY DEF Include, inputs
<1>2. routes' \in Seq(Canonical)
      /\ CoveredBy(routes') = CoveredBy(routes) \cup Denotes(text.address, text.prefix)
  BY <1>1, PushUniqueIs DEF PlanInv, PlanTypes
<1>3. CoveredBy(routes)' = CoveredBy(routes') /\ CoveredBy(exclusions)' = CoveredBy(exclusions)
  BY <1>1 DEF CoveredBy, Covers, Denotes
<1>4. QED
  BY <1>1, <1>2, <1>3 DEF PlanInv, PlanTypes, PlanCovers, Collecting, Family

LEMMA RefuseKeepsPlan == ASSUME PlanInv, Refuse PROVE PlanInv'
BY DEF PlanInv, PlanTypes, PlanCovers, Refuse, inputs, Collecting

LEMMA CidrsCollectedKeepsPlan == ASSUME PlanInv, CidrsCollected PROVE PlanInv'
<1>1. /\ step = "cidrs" /\ step' = "addresses"
      /\ routes' = IF blockIpv6
                   THEN PushUnique(PushUnique(routes, Halves(6)[1]), Halves(6)[2])
                   ELSE routes
      /\ UNCHANGED <<command, mode, hasFilter, blockIpv6, peer, exclusions, included, excluded>>
      /\ routes \in Seq(Canonical)
      /\ CoveredBy(routes) \cup (IF blockIpv6 THEN Family(6) ELSE {}) = included
      /\ excluded = {peer} \cup CoveredBy(exclusions)
  BY DEF CidrsCollected, inputs, PlanInv, PlanTypes, PlanCovers, Collecting
<1>2. routes' \in Seq(Canonical)
      /\ CoveredBy(routes') = CoveredBy(routes) \cup (IF blockIpv6 THEN Family(6) ELSE {})
  <2>1. CASE ~ blockIpv6
    BY <1>1, <2>1
  <2>2. CASE blockIpv6
    <3> DEFINE s == PushUnique(routes, Halves(6)[1])
    <3>1. /\ Halves(6)[1] \in Canonical /\ Halves(6)[2] \in Canonical
          /\ Covers(Halves(6)[1]) \cup Covers(Halves(6)[2]) = Family(6)
      BY HalvesAre DEF Families
    <3>2. s \in Seq(Canonical) /\ CoveredBy(s) = CoveredBy(routes) \cup Covers(Halves(6)[1])
      BY <1>1, <3>1, PushUniqueIs
    <3> HIDE DEF s
    <3>3. /\ PushUnique(s, Halves(6)[2]) \in Seq(Canonical)
          /\ CoveredBy(PushUnique(s, Halves(6)[2])) = CoveredBy(s) \cup Covers(Halves(6)[2])
      BY <3>1, <3>2, PushUniqueIs
    <3>4. routes' = PushUnique(s, Halves(6)[2])
      BY <1>1, <2>2 DEF s
    <3>5. QED
      BY <2>2, <3>1, <3>2, <3>3, <3>4
  <2>3. QED
    BY <2>1, <2>2
<1>3. CoveredBy(routes)' = CoveredBy(routes') /\ CoveredBy(exclusions)' = CoveredBy(exclusions)
  BY <1>1 DEF CoveredBy, Covers, Denotes
<1>4. QED
  BY <1>1, <1>2, <1>3 DEF PlanInv, PlanTypes, PlanCovers, Collecting, Family

LEMMA StageKeepsPlan ==
  ASSUME PlanInv, AddressesCollected \/ DomainsCollected
  PROVE  PlanInv'
<1>1. /\ step \in {"addresses", "domains"} /\ step' \in {"domains", "exclusions"}
      /\ UNCHANGED <<command, mode, hasFilter, blockIpv6, peer, routes, exclusions, included, excluded>>
  BY DEF AddressesCollected, DomainsCollected, inputs
<1>2. CoveredBy(routes)' = CoveredBy(routes) /\ CoveredBy(exclusions)' = CoveredBy(exclusions)
  BY <1>1 DEF CoveredBy, Covers, Denotes
<1>3. QED
  BY <1>1, <1>2 DEF PlanInv, PlanTypes, PlanCovers, Collecting

LEMMA AddDomainKeepsPlan ==
  ASSUME PlanInv, NEW resolved \in [1..1 -> Address] \cup [1..2 -> Peers], AddDomain(resolved)
  PROVE  PlanInv'
<1> DEFINE hosts == [i \in DOMAIN resolved |-> Host(resolved[i])]
<1>1. /\ step = "domains" /\ step' = "domains"
      /\ routes' = PushAll(routes, hosts)
      /\ included' = included \cup Range(resolved)
      /\ UNCHANGED <<command, mode, hasFilter, blockIpv6, peer, exclusions, excluded>>
      /\ routes \in Seq(Canonical)
  BY DEF AddDomain, inputs, PlanInv, PlanTypes
<1>2. PICK n \in 1..2 : DOMAIN resolved = 1..n /\ \A i \in 1..n : resolved[i] \in Address
  <2>1. CASE resolved \in [1..1 -> Address]
    BY <2>1
  <2>2. CASE resolved \in [1..2 -> Peers]
    BY <2>2, RoutePolicyAssumption
  <2>3. QED
    BY <2>1, <2>2
<1>3. hosts = [i \in 1..n |-> Host(resolved[i])]
  BY <1>2
<1>4. \A i \in 1..n : Host(resolved[i]) \in Canonical /\ Covers(Host(resolved[i])) = {resolved[i]}
  BY <1>2, HostIs
<1> HIDE DEF hosts
<1>5. hosts \in Seq(Canonical) /\ DOMAIN hosts = 1..n
  BY <1>3, <1>4
<1>6. CoveredBy(hosts) = Range(resolved)
  <2>1. \A i \in 1..n : Covers(hosts[i]) = {resolved[i]}
    BY <1>3, <1>4
  <2>2. QED
    BY <1>2, <1>5, <2>1 DEF CoveredBy, Range
<1>7. routes' \in Seq(Canonical) /\ CoveredBy(routes') = CoveredBy(routes) \cup Range(resolved)
  BY <1>1, <1>5, <1>6, PushAllIs
<1>8. CoveredBy(routes)' = CoveredBy(routes') /\ CoveredBy(exclusions)' = CoveredBy(exclusions)
  BY <1>1 DEF CoveredBy, Covers, Denotes
<1>9. QED
  BY <1>1, <1>7, <1>8 DEF PlanInv, PlanTypes, PlanCovers, Collecting

LEMMA SingleCovers ==
  ASSUME NEW r \in Canonical PROVE <<r>> \in Seq(Canonical) /\ CoveredBy(<<r>>) = Covers(r)
<1>1. <<r>> \in Seq(Canonical) /\ DOMAIN <<r>> = {1} /\ <<r>>[1] = r
  OBVIOUS
<1>2. QED
  BY <1>1 DEF CoveredBy

LEMMA ExcludeKeepsPlan ==
  ASSUME PlanInv, NEW text \in Text, Exclude(text)
  PROVE  PlanInv'
<1> DEFINE r == ParsedRoute(text)
<1>1. /\ step = "exclusions" /\ Parses(text)
      /\ exclusions' = Append(exclusions, r)
      /\ excluded' = excluded \cup Denotes(text.address, text.prefix)
      /\ UNCHANGED <<command, mode, hasFilter, blockIpv6, peer, step, routes, included>>
      /\ exclusions \in Seq(Canonical)
  BY DEF Exclude, inputs, PlanInv, PlanTypes
<1>2. r \in Canonical /\ Covers(r) = Denotes(text.address, text.prefix)
  BY <1>1, TextIs
<1> HIDE DEF r
<1>3. exclusions' = exclusions \o <<r>>
  BY <1>1, <1>2
<1>4. exclusions' \in Seq(Canonical)
      /\ CoveredBy(exclusions') = CoveredBy(exclusions) \cup Denotes(text.address, text.prefix)
  BY <1>1, <1>2, <1>3, SingleCovers, ConcatenatedCovers
<1>5. CoveredBy(routes)' = CoveredBy(routes) /\ CoveredBy(exclusions)' = CoveredBy(exclusions')
  BY <1>1 DEF CoveredBy, Covers, Denotes
<1>6. QED
  BY <1>1, <1>4, <1>5 DEF PlanInv, PlanTypes, PlanCovers, Collecting

LEMMA ExclusionsCollectedKeepsPlan == ASSUME PlanInv, ExclusionsCollected PROVE PlanInv'
<1> DEFINE base == SetToSeq(BaseExclusions)
<1>1. /\ step = "exclusions" /\ step' = "subtract"
      /\ exclusions' = exclusions \o base \o PeerExclusion
      /\ UNCHANGED <<command, mode, hasFilter, blockIpv6, peer, routes, included, excluded>>
      /\ routes \in Seq(Canonical) /\ exclusions \in Seq(Canonical) /\ peer \in Address
      /\ CoveredBy(routes) = included
      /\ excluded = {peer} \cup CoveredBy(exclusions)
  BY DEF ExclusionsCollected, inputs, PlanInv, PlanTypes, PlanCovers, Collecting
<1>2. IsFiniteSet(BaseExclusions) /\ BaseExclusions \subseteq Canonical
  <2>1. IsFiniteSet({})
    BY FS_EmptySet
  <2>2. QED
    BY <2>1, RoutePolicyAssumption DEF BaseExclusions, Canonical
<1>3. base \in Seq(BaseExclusions) /\ \A x \in BaseExclusions : \E i \in DOMAIN base : base[i] = x
  BY <1>2, SetToSeqIs
<1> HIDE DEF base
<1>4. base \in Seq(Canonical) /\ \A i \in DOMAIN base : base[i] \in BaseExclusions
  <2>1. Len(base) \in Nat /\ base \in [1 .. Len(base) -> BaseExclusions]
    BY <1>3
  <2>2. base \in [1 .. Len(base) -> Canonical]
    BY <1>2, <2>1
  <2>3. QED
    BY <2>1, <2>2
<1> DEFINE B == UNION {Covers(r) : r \in BaseExclusions}
<1>5. CoveredBy(base) = B
  BY <1>3, <1>4 DEF CoveredBy
<1>6. PeerExclusion \in Seq(Canonical) /\ CoveredBy(PeerExclusion) = {peer}
  BY <1>1, HostIs, SingleCovers DEF PeerExclusion
<1> DEFINE two == exclusions \o base
<1>7. two \in Seq(Canonical) /\ CoveredBy(two) = CoveredBy(exclusions) \cup B
  BY <1>1, <1>4, <1>5, ConcatenatedCovers
<1>8. exclusions' = two \o PeerExclusion
  BY <1>1
<1> HIDE DEF two
<1>9. exclusions' \in Seq(Canonical) /\ CoveredBy(exclusions') = CoveredBy(two) \cup {peer}
  BY <1>6, <1>7, <1>8, ConcatenatedCovers
<1>10. Outside = excluded \cup B
  BY DEF Outside, Covers
<1>11. Outside' = Outside
  BY <1>1 DEF Outside, BaseExclusions, Denotes
<1>12. CoveredBy(routes)' = CoveredBy(routes) /\ CoveredBy(exclusions)' = CoveredBy(exclusions')
  BY <1>1 DEF CoveredBy, Covers, Denotes
<1>13. CoveredBy(exclusions') = Outside
  BY <1>1, <1>7, <1>9, <1>10
<1>14. PlanCovers'
  BY <1>1, <1>11, <1>12, <1>13 DEF PlanCovers, Collecting
<1>15. PlanTypes'
  BY <1>1, <1>9 DEF PlanInv, PlanTypes, Collecting
<1>16. QED
  BY <1>14, <1>15 DEF PlanInv

LEMMA SubtractKeepsPlan == ASSUME PlanInv, Subtract PROVE PlanInv'
<1> DEFINE e == Head(exclusions)
           rest == Tail(exclusions)
           parts == [i \in DOMAIN routes |-> SubtractRoute(routes[i], e)]
<1>1. /\ step = "subtract" /\ exclusions # <<>>
      /\ routes' = FlattenSeq(parts) /\ exclusions' = rest
      /\ UNCHANGED <<command, mode, hasFilter, blockIpv6, peer, step, included, excluded>>
      /\ routes \in Seq(Canonical) /\ exclusions \in Seq(Canonical)
      /\ CoveredBy(routes) \ CoveredBy(exclusions) = included \ Outside
  BY DEF Subtract, inputs, PlanInv, PlanTypes, PlanCovers
<1>2. e \in Canonical /\ rest \in Seq(Canonical) /\ exclusions = <<e>> \o rest
  BY <1>1
<1>3. CoveredBy(exclusions) = Covers(e) \cup CoveredBy(rest)
  <2> HIDE DEF e, rest
  <2>1. <<e>> \in Seq(Canonical) /\ CoveredBy(<<e>>) = Covers(e)
    BY <1>2, SingleCovers
  <2>2. CoveredBy(<<e>> \o rest) = CoveredBy(<<e>>) \cup CoveredBy(rest)
    BY <1>2, <2>1, ConcatenatedCovers
  <2>3. QED
    BY <1>2, <2>1, <2>2
<1> DEFINE n == Len(routes)
<1>4. n \in Nat /\ DOMAIN routes = 1..n /\ \A i \in 1..n : routes[i] \in Canonical
  BY <1>1
<1> HIDE DEF e, rest, n
<1>5. \A i \in 1..n : /\ SubtractRoute(routes[i], e) \in Seq(Canonical)
                      /\ CoveredBy(SubtractRoute(routes[i], e)) = Covers(routes[i]) \ Covers(e)
  BY <1>2, <1>4, SubtractRouteIs
<1>6. parts = [i \in 1..n |-> SubtractRoute(routes[i], e)]
  BY <1>4
<1> HIDE DEF parts
<1>7. parts \in Seq(Seq(Canonical)) /\ DOMAIN parts = 1..n
      /\ \A i \in 1..n : CoveredBy(parts[i]) = Covers(routes[i]) \ Covers(e)
  BY <1>4, <1>5, <1>6
<1>8. /\ routes' \in Seq(Canonical)
      /\ CoveredBy(routes') = UNION {CoveredBy(parts[i]) : i \in 1..n}
  BY <1>1, <1>7, FlattenSeqIs
<1>9. CoveredBy(routes') = CoveredBy(routes) \ Covers(e)
  <2>1. CoveredBy(routes) = UNION {Covers(routes[i]) : i \in 1..n}
    BY <1>4 DEF CoveredBy
  <2>2. QED
    BY <1>7, <1>8, <2>1
<1>10. CoveredBy(routes') \ CoveredBy(rest) = included \ Outside
  BY <1>1, <1>3, <1>9
<1>11. Outside' = Outside
  BY <1>1 DEF Outside, BaseExclusions, Denotes
<1>12. CoveredBy(routes)' = CoveredBy(routes') /\ CoveredBy(exclusions)' = CoveredBy(rest)
  BY <1>1 DEF CoveredBy, Covers, Denotes
<1>13. PlanCovers'
  BY <1>1, <1>10, <1>11, <1>12 DEF PlanCovers, Collecting
<1>14. PlanTypes'
  BY <1>1, <1>2, <1>8 DEF PlanInv, PlanTypes
<1>15. QED
  BY <1>13, <1>14 DEF PlanInv

LEMMA UniqueKeepsPlan == ASSUME PlanInv, Unique PROVE PlanInv'
<1>1. /\ step = "subtract" /\ exclusions = <<>> /\ step' = "planned"
      /\ routes' = PushAll(<<>>, routes)
      /\ UNCHANGED <<command, mode, hasFilter, blockIpv6, peer, exclusions, included, excluded>>
      /\ routes \in Seq(Canonical)
      /\ CoveredBy(routes) \ CoveredBy(exclusions) = included \ Outside
  BY DEF Unique, UniqueRoutes, inputs, PlanInv, PlanTypes, PlanCovers
<1>2. /\ routes' \in Seq(Canonical) /\ Unrepeated(routes')
      /\ CoveredBy(routes') = CoveredBy(<<>>) \cup CoveredBy(routes)
  BY <1>1, NothingCovered, PushAllIs
<1>3. CoveredBy(routes') = included \ Outside
  BY <1>1, <1>2, NothingCovered
<1>4. Outside' = Outside
  BY <1>1 DEF Outside, BaseExclusions, Denotes
<1>5. CoveredBy(routes)' = CoveredBy(routes') /\ Unrepeated(routes)' = Unrepeated(routes')
  BY <1>1 DEF CoveredBy, Covers, Denotes, Unrepeated
<1>6. QED
  BY <1>1, <1>2, <1>3, <1>4, <1>5 DEF PlanInv, PlanTypes, PlanCovers, Collecting

LEMMA ConfigureKeepsPlan == ASSUME PlanInv, Configure PROVE PlanInv'
<1>1. /\ step = "planned" /\ step' \in {"refused", "accepted"}
      /\ UNCHANGED <<command, mode, hasFilter, blockIpv6, peer, routes, exclusions, included, excluded>>
  BY DEF Configure, inputs
<1>2. /\ Outside' = Outside /\ CoveredBy(routes)' = CoveredBy(routes)
      /\ Unrepeated(routes)' = Unrepeated(routes)
  BY <1>1 DEF Outside, BaseExclusions, CoveredBy, Covers, Denotes, Unrepeated
<1>3. QED
  BY <1>1, <1>2 DEF PlanInv, PlanTypes, PlanCovers, Collecting

LEMMA IdleKeepsPlan == ASSUME PlanInv, UNCHANGED policyVars PROVE PlanInv'
<1>1. UNCHANGED <<command, mode, hasFilter, blockIpv6, peer, step, routes, exclusions, included, excluded>>
  BY DEF policyVars, inputs
<1>2. /\ Outside' = Outside /\ CoveredBy(routes)' = CoveredBy(routes)
      /\ Unrepeated(routes)' = Unrepeated(routes) /\ CoveredBy(exclusions)' = CoveredBy(exclusions)
  BY <1>1 DEF Outside, BaseExclusions, CoveredBy, Covers, Denotes, Unrepeated
<1>3. QED
  BY <1>1, <1>2 DEF PlanInv, PlanTypes, PlanCovers

LEMMA PlanKept == ASSUME PlanInv, [PolicyNext]_policyVars PROVE PlanInv'
<1>1. ASSUME NEW text \in Text, AddCidr(text) PROVE PlanInv'
  <2>1. CASE Parses(text)
    BY <1>1, <2>1, TextIs, IncludeKeepsPlan DEF AddCidr
  <2>2. CASE ~ Parses(text)
    BY <1>1, <2>2, RefuseKeepsPlan DEF AddCidr
  <2>3. QED
    BY <2>1, <2>2
<1>2. ASSUME NEW text \in Text, AddRule(text) PROVE PlanInv'
  BY <1>2, TextIs, IncludeKeepsPlan DEF AddRule
<1>3. ASSUME NEW text \in Text, Exclude(text) PROVE PlanInv'
  BY <1>3, ExcludeKeepsPlan
<1>4. ASSUME NEW a \in Address, AddAddress(a) PROVE PlanInv'
  <2> DEFINE text == HostText(a)
  <2>1. step = "addresses" /\ Include(text)
    BY <1>4 DEF AddAddress
  <2>2. /\ ParsedRoute(text) \in Canonical
        /\ Covers(ParsedRoute(text)) = Denotes(text.address, text.prefix)
    BY HostIs
  <2> HIDE DEF text
  <2>3. QED
    BY <2>1, <2>2, IncludeKeepsPlan
<1>5. ASSUME NEW resolved \in [1..1 -> Address] \cup [1..2 -> Peers], AddDomain(resolved)
      PROVE  PlanInv'
  BY <1>5, AddDomainKeepsPlan
<1>6. CASE AddressRefused \/ DomainRefused
  BY <1>6, RefuseKeepsPlan DEF AddressRefused, DomainRefused
<1>7. CASE CidrsCollected
  BY <1>7, CidrsCollectedKeepsPlan
<1>8. CASE AddressesCollected \/ DomainsCollected
  BY <1>8, StageKeepsPlan
<1>9. CASE ExclusionsCollected
  BY <1>9, ExclusionsCollectedKeepsPlan
<1>10. CASE Subtract
  BY <1>10, SubtractKeepsPlan
<1>11. CASE Unique
  BY <1>11, UniqueKeepsPlan
<1>12. CASE Configure
  BY <1>12, ConfigureKeepsPlan
<1>13. CASE PolicyDone \/ UNCHANGED policyVars
  BY <1>13, IdleKeepsPlan DEF PolicyDone
<1>14. QED
  BY <1>1, <1>2, <1>3, <1>4, <1>5, <1>6, <1>7, <1>8, <1>9, <1>10, <1>11, <1>12, <1>13
  DEF PolicyNext

\* The route plan means what the lists mean, for every width of an address and
\* however the CIDRs overlap: resolve_route_policy and subtract_route
\* (src/src/tun.rs) leave canonical routes, each once, that cover exactly the
\* addresses run_client or run_managed_client included and did not exclude,
\* the session's peer among the excluded.
THEOREM PlanAlwaysSound == PolicySpec => []PlanSound
<1>1. PolicyInit => PlanInv
  BY PlanStarts
<1>2. PlanInv /\ [PolicyNext]_policyVars => PlanInv'
  BY PlanKept
<1>3. PlanInv => PlanSound
  BY PlanHolds
<1>4. QED
  BY <1>1, <1>2, <1>3, PTL DEF PolicySpec

=============================================================================
