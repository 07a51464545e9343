----------------------- MODULE CredentialStoreProofs -----------------------
(***************************************************************************)
(* What is kept between two runs of openiwan.  The credential store: what  *)
(* it writes it can decode again, for every number of processes that share *)
(* an account, of saves, chunks and stale sets.  The profiles: no update   *)
(* of them is lost and a saved credential stays with its profile, for      *)
(* every number of processes, profiles, domains and commands.              *)
(*                                                                         *)
(* ManifestDecodes is not inductive: a manifest is written long after the  *)
(* one it was computed from was read.  StoreInv follows the lists through  *)
(* the cleanup loops: what is still to delete and what could not be        *)
(* deleted have no generation in common, name none twice and not the       *)
(* current one, and together fit the limit.  SavesSound holds for a single *)
(* process only, and SaveInv says what that one may rely on: the manifest  *)
(* is still the one it read, and a set that left both lists is gone.       *)
(***************************************************************************)
EXTENDS CredentialStore, ProfileStore, TLAPS

Pcs == {"idle", "save_clean", "save_chunks", "save_undo", "save_tidy", "delete_clean"}

Entries == {Absent, Foreign} \cup
           [kind : {"manifest"}, current : Nat, obsolete : Seq(Nat)]

Jobs == [seen : Entries, next : Entries, sets : Seq(Nat), index : Nat,
         failed : BOOLEAN, remaining : Seq(Nat)]

Distinct(s) == \A i, k \in 1..Len(s) : i # k => s[i] # s[k]
Apart(s, r) == \A i \in 1..Len(s), k \in 1..Len(r) : s[i] # r[k]
Without(s, c) == \A i \in 1..Len(s) : s[i] # c
Below(s, n) == \A i \in 1..Len(s) : s[i] <= n

\* A manifest that decodes and names only generations up to n.
Fits(m, n) ==
    IsManifest(m) =>
        /\ m.current <= n /\ Below(m.obsolete, n)
        /\ Distinct(m.obsolete) /\ Without(m.obsolete, m.current)
        /\ Len(m.obsolete) <= MaxObsolete

\* The two lists of cleanup_chunk_sets next to the current generation c.
Lists(s, r, c) ==
    /\ Distinct(s) /\ Distinct(r) /\ Apart(s, r)
    /\ Without(s, c) /\ Without(r, c)
    /\ Len(s) + Len(r) <= MaxObsolete

JobInv(j, c, n) ==
    /\ Fits(j.seen, n) /\ Fits(j.next, n)
    /\ Below(j.sets, n) /\ Below(j.remaining, n)
    /\ c = "save_clean" /\ IsManifest(j.seen) => Lists(j.sets, j.remaining, j.seen.current)
    /\ c \in {"save_chunks", "save_undo", "save_tidy"} => IsManifest(j.next)
    /\ c = "save_tidy" => Lists(j.sets, j.remaining, j.next.current)

StoreInv ==
    /\ size \in Seq(Nat)
    /\ pc \in [Processes -> Pcs] /\ job \in [Processes -> Jobs]
    /\ manifest \in Entries /\ Fits(manifest, Len(size))
    /\ \A p \in Processes : JobInv(job[p], pc[p], Len(size))

-----------------------------------------------------------------------------
(* The lists. *)

\* A set that is done leaves the list, and may join the ones that remain.
LEMMA ListsStep ==
    ASSUME NEW s \in Seq(Nat), NEW r \in Seq(Nat), NEW c, s # <<>>, Lists(s, r, c)
    PROVE  Lists(Tail(s), r, c) /\ Lists(Tail(s), Append(r, Head(s)), c)
<1>1. /\ Len(s) \in Nat \ {0} /\ Len(Tail(s)) = Len(s) - 1 /\ Tail(s) \in Seq(Nat)
      /\ \A i \in 1..Len(Tail(s)) : Tail(s)[i] = s[i + 1] /\ i + 1 \in 1..Len(s)
      /\ Head(s) = s[1] /\ s[1] \in Nat /\ 1 \in 1..Len(s)
  OBVIOUS
<1>2. /\ Len(r) \in Nat /\ Len(Append(r, Head(s))) = Len(r) + 1
      /\ \A i \in 1..Len(r) : Append(r, Head(s))[i] = r[i]
      /\ Append(r, Head(s))[Len(r) + 1] = s[1]
  BY <1>1
<1>3. \A i \in 1..(Len(r) + 1) : i \in 1..Len(r) \/ i = Len(r) + 1
  BY <1>2
<1>4. /\ Distinct(Tail(s)) /\ Apart(Tail(s), r) /\ Without(Tail(s), c)
      /\ \A i \in 1..Len(Tail(s)) : Tail(s)[i] # s[1]
  <2>1. Distinct(Tail(s))
    <3> SUFFICES ASSUME NEW i \in 1..Len(Tail(s)), NEW k \in 1..Len(Tail(s)), i # k
                 PROVE  Tail(s)[i] # Tail(s)[k]
      BY DEF Distinct
    <3>1. i + 1 # k + 1 /\ i + 1 \in 1..Len(s) /\ k + 1 \in 1..Len(s)
      BY <1>1
    <3>2. s[i + 1] # s[k + 1]
      BY <3>1 DEF Lists, Distinct
    <3>3. QED
      BY <1>1, <3>2
  <2>2. Apart(Tail(s), r)
    BY <1>1 DEF Lists, Apart
  <2>3. Without(Tail(s), c)
    BY <1>1 DEF Lists, Without
  <2>4. \A i \in 1..Len(Tail(s)) : Tail(s)[i] # s[1]
    BY <1>1 DEF Lists, Distinct
  <2> QED
    BY <2>1, <2>2, <2>3, <2>4
<1>5. Distinct(Append(r, Head(s)))
  BY <1>1, <1>2, <1>3 DEF Lists, Distinct, Apart
<1>6. Apart(Tail(s), Append(r, Head(s)))
  BY <1>1, <1>2, <1>3, <1>4 DEF Apart
<1>7. Without(Append(r, Head(s)), c)
  BY <1>1, <1>2, <1>3 DEF Lists, Without
<1>8. Len(Tail(s)) + Len(r) <= MaxObsolete /\ Len(Tail(s)) + Len(Append(r, Head(s))) <= MaxObsolete
  BY <1>1, <1>2, CredentialAssumption DEF Lists
<1> QED
  BY <1>4, <1>5, <1>6, <1>7, <1>8 DEF Lists

LEMMA BelowStep ==
    ASSUME NEW s \in Seq(Nat), NEW r \in Seq(Nat), NEW n \in Nat, s # <<>>,
           Below(s, n), Below(r, n)
    PROVE  Below(Tail(s), n) /\ Below(Append(r, Head(s)), n)
<1>1. /\ Len(s) \in Nat \ {0} /\ 1 \in 1..Len(s) /\ Head(s) = s[1]
      /\ \A i \in 1..Len(Tail(s)) : Tail(s)[i] = s[i + 1] /\ i + 1 \in 1..Len(s)
  OBVIOUS
<1>2. \A i \in 1..Len(Append(r, Head(s))) :
        Append(r, Head(s))[i] = IF i = Len(r) + 1 THEN s[1] ELSE r[i]
  BY <1>1
<1>3. Len(Append(r, Head(s))) = Len(r) + 1 /\ Len(r) \in Nat
  BY <1>1
<1> QED
  BY <1>1, <1>2, <1>3 DEF Below

\* A loop begins with nothing that remains.
LEMMA ListsStart ==
    ASSUME NEW m \in Entries, NEW n \in Nat, IsManifest(m), Fits(m, n)
    PROVE  /\ m.obsolete \in Seq(Nat) /\ m.current \in Nat
           /\ Lists(m.obsolete, <<>>, m.current)
           /\ Below(m.obsolete, n) /\ Below(<<>>, n)
<1>1. m.obsolete \in Seq(Nat) /\ m.current \in Nat /\ Len(m.obsolete) \in Nat
  BY DEF Entries, IsManifest, Absent, Foreign
<1>2. Len(<<>>) = 0
  OBVIOUS
<1> QED
  BY <1>1, <1>2 DEF Fits, Lists, Distinct, Apart, Without, Below

\* More generations only make it easier.
LEMMA Grows ==
    ASSUME NEW m \in Entries, NEW n \in Nat, NEW k \in Nat, n <= k, Fits(m, n)
    PROVE  Fits(m, k)
<1>1. IsManifest(m) => m.current \in Nat /\ m.obsolete \in Seq(Nat)
  BY DEF Entries, IsManifest, Absent, Foreign
<1> QED
  BY <1>1 DEF Fits, Below

LEMMA JobGrows ==
    ASSUME NEW j \in Jobs, NEW c, NEW n \in Nat, NEW k \in Nat, n <= k, JobInv(j, c, n)
    PROVE  JobInv(j, c, k)
<1>1. Fits(j.seen, k) /\ Fits(j.next, k)
  BY Grows DEF Jobs, JobInv
<1>2. Below(j.sets, k) /\ Below(j.remaining, k)
  <2>1. j.sets \in Seq(Nat) /\ j.remaining \in Seq(Nat)
    BY DEF Jobs
  <2>2. Below(j.sets, n) /\ Below(j.remaining, n)
    BY DEF JobInv
  <2>3. ASSUME NEW s \in Seq(Nat), Below(s, n) PROVE Below(s, k)
    BY <2>3 DEF Below
  <2>4. QED
    BY <2>1, <2>2, <2>3
<1> QED
  BY <1>1, <1>2 DEF JobInv

\* The manifest a save begins: the sets that remain, the previous current one
\* and a fresh generation.
LEMMA NewManifest ==
    ASSUME NEW r \in Seq(Nat), NEW c \in Nat, NEW n \in Nat,
           Distinct(r), Without(r, c), Below(r, n), c <= n,
           Len(Append(r, c)) <= MaxObsolete
    PROVE  Manifest(n + 1, Append(r, c)) \in Entries /\ Fits(Manifest(n + 1, Append(r, c)), n + 1)
<1>1. /\ Append(r, c) \in Seq(Nat) /\ Len(Append(r, c)) = Len(r) + 1 /\ Len(r) \in Nat
      /\ \A i \in 1..Len(r) : Append(r, c)[i] = r[i] /\ r[i] \in Nat
      /\ Append(r, c)[Len(r) + 1] = c
  OBVIOUS
<1>2. \A i \in 1..(Len(r) + 1) : i \in 1..Len(r) \/ i = Len(r) + 1
  BY <1>1
<1>3. Below(Append(r, c), n + 1) /\ Without(Append(r, c), n + 1)
  BY <1>1, <1>2 DEF Below, Without
<1>4. Distinct(Append(r, c))
  BY <1>1, <1>2 DEF Distinct, Without
<1> QED
  BY <1>1, <1>3, <1>4 DEF Entries, Manifest, Fits

-----------------------------------------------------------------------------
(* Steps. *)

LEMMA InitStore == Init => StoreInv
<1> SUFFICES ASSUME Init PROVE StoreInv
  OBVIOUS
<1>1. size \in Seq(Nat) /\ Len(size) = 0
  BY DEF Init
<1>2. pc \in [Processes -> Pcs]
  BY DEF Init, Pcs
<1>3. IdleJob \in Jobs
  BY DEF IdleJob, Jobs, Entries
<1>4. manifest \in Entries /\ ~IsManifest(manifest)
  BY DEF Init, Entries, IsManifest, Absent, Foreign
<1>5. JobInv(IdleJob, "idle", 0)
  BY DEF JobInv, IdleJob, Fits, IsManifest, Absent, Below
<1> QED
  BY <1>1, <1>2, <1>3, <1>4, <1>5 DEF Init, StoreInv, Fits

\* A step of p: it is enough to look at p and at the manifest.
LEMMA OneProcess ==
    ASSUME StoreInv, NEW p \in Processes, NEW j \in Jobs, NEW c \in Pcs,
           job' = [job EXCEPT ![p] = j], pc' = [pc EXCEPT ![p] = c],
           size' \in Seq(Nat), Len(size) <= Len(size'),
           JobInv(j, c, Len(size')),
           manifest' \in Entries, Fits(manifest', Len(size'))
    PROVE  StoreInv'
<1>1. Len(size) \in Nat /\ Len(size') \in Nat
  BY DEF StoreInv
<1>2. pc' \in [Processes -> Pcs] /\ job' \in [Processes -> Jobs]
  BY DEF StoreInv
<1>3. ASSUME NEW q \in Processes PROVE JobInv(job'[q], pc'[q], Len(size'))
  <2>1. CASE q = p
    BY <2>1 DEF StoreInv
  <2>2. CASE q # p
    <3>1. job'[q] = job[q] /\ pc'[q] = pc[q] /\ job[q] \in Jobs
      BY <2>2 DEF StoreInv
    <3>2. JobInv(job[q], pc[q], Len(size))
      BY DEF StoreInv
    <3> QED
      BY <1>1, <3>1, <3>2, JobGrows
  <2> QED
    BY <2>1, <2>2
<1> QED
  BY <1>2, <1>3 DEF StoreInv

LEMMA IdleStore ==
    ASSUME StoreInv, NEW p \in Processes, Return(p), size' = size,
           manifest' \in Entries, Fits(manifest', Len(size))
    PROVE  StoreInv'
<1>1. IdleJob \in Jobs /\ "idle" \in Pcs /\ size \in Seq(Nat) /\ Len(size) \in Nat
  BY DEF IdleJob, Jobs, Entries, Pcs, StoreInv
<1>2. JobInv(IdleJob, "idle", Len(size))
  BY <1>1 DEF JobInv, IdleJob, Fits, IsManifest, Absent, Below
<1>3. size' \in Seq(Nat) /\ Len(size) <= Len(size') /\ JobInv(IdleJob, "idle", Len(size'))
  BY <1>1, <1>2
<1>4. job' = [job EXCEPT ![p] = IdleJob] /\ pc' = [pc EXCEPT ![p] = "idle"]
  BY DEF Return
<1>5. Fits(manifest', Len(size'))
  OBVIOUS
<1> QED
  BY <1>1, <1>3, <1>4, <1>5, OneProcess

\* What every step of p starts from.
LEMMA Here ==
    ASSUME StoreInv, NEW p \in Processes
    PROVE  /\ job[p] \in Jobs /\ pc[p] \in Pcs /\ JobInv(job[p], pc[p], Len(size))
           /\ size \in Seq(Nat) /\ Len(size) \in Nat /\ Len(size) <= Len(size)
           /\ manifest \in Entries /\ Fits(manifest, Len(size))
  BY DEF StoreInv

\* A loop over the sets of an entry.
LEMMA LoopingJob ==
    ASSUME NEW j \in Jobs, NEW s \in Seq(Nat)
    PROVE  /\ Looping(j, s) \in Jobs
           /\ Looping(j, s).seen = j.seen /\ Looping(j, s).next = j.next
           /\ Looping(j, s).sets = s /\ Looping(j, s).remaining = <<>>
<1> DEFINE r == <<>>
<1>1. r \in Seq(Nat) /\ 1 \in Nat
  OBVIOUS
<1>2. Looping(j, s) = [j EXCEPT !.sets = s, !.index = 1, !.failed = FALSE, !.remaining = r]
  BY DEF Looping
<1> HIDE DEF r
<1>3. /\ Looping(j, s) \in Jobs
      /\ Looping(j, s).seen = j.seen /\ Looping(j, s).next = j.next
      /\ Looping(j, s).sets = s /\ Looping(j, s).remaining = r
  BY <1>1, <1>2 DEF Jobs
<1> QED
  BY <1>3 DEF r

LEMMA CleanChunkInv ==
    ASSUME StoreInv, NEW p \in Processes, CleanChunk(p) PROVE StoreInv'
<1>1. PICK fails \in BOOLEAN :
        job' = [job EXCEPT ![p].index = job[p].index + 1, ![p].failed = job[p].failed \/ fails]
  BY DEF CleanChunk
<1> DEFINE i == job[p].index + 1
           f == job[p].failed \/ fails
           j == [job[p] EXCEPT !.index = i, !.failed = f]
<1>11. i \in Nat /\ job[p].failed \in BOOLEAN
  BY Here DEF Jobs
<1>12. f \in BOOLEAN
  BY Zenon
<1>2. job' = [job EXCEPT ![p] = j] /\ pc' = [pc EXCEPT ![p] = pc[p]]
  BY <1>1 DEF CleanChunk, StoreInv
<1>3. /\ j \in Jobs /\ j.seen = job[p].seen /\ j.next = job[p].next
      /\ j.sets = job[p].sets /\ j.remaining = job[p].remaining
  <2> HIDE DEF i, f
  <2> QED
    BY <1>11, <1>12, Here DEF Jobs
<1>4. JobInv(j, pc[p], Len(size))
  BY <1>3, Here DEF JobInv
<1>5. size' = size /\ manifest' = manifest
  BY DEF CleanChunk
<1> HIDE DEF j
<1> QED
  BY <1>2, <1>3, <1>4, <1>5, Here, OneProcess

LEMMA CleanSetInv ==
    ASSUME StoreInv, NEW p \in Processes, CleanSet(p) PROVE StoreInv'
<1> DEFINE r == IF job[p].failed THEN Append(job[p].remaining, Head(job[p].sets))
                ELSE job[p].remaining
           j == [job[p] EXCEPT !.sets = Tail(job[p].sets), !.index = 1, !.failed = FALSE,
                               !.remaining = r]
<1>1. job' = [job EXCEPT ![p] = j] /\ pc' = [pc EXCEPT ![p] = pc[p]]
  BY DEF CleanSet, StoreInv
<1>2. job[p].sets \in Seq(Nat) /\ job[p].sets # <<>> /\ job[p].remaining \in Seq(Nat)
  BY Here DEF CleanSet, Jobs
<1>3. Tail(job[p].sets) \in Seq(Nat) /\ r \in Seq(Nat)
  BY <1>2
<1>4. /\ j \in Jobs /\ j.seen = job[p].seen /\ j.next = job[p].next
      /\ j.sets = Tail(job[p].sets) /\ j.remaining = r
  BY <1>3, Here DEF Jobs
<1>5. Below(j.sets, Len(size)) /\ Below(j.remaining, Len(size))
  BY <1>2, <1>4, Here, BelowStep DEF JobInv
<1>6. ASSUME NEW c, Lists(job[p].sets, job[p].remaining, c)
      PROVE  Lists(j.sets, j.remaining, c)
  BY <1>2, <1>4, <1>6, ListsStep
<1>7. JobInv(j, pc[p], Len(size))
  BY <1>4, <1>5, <1>6, Here DEF JobInv
<1>8. size' = size /\ manifest' = manifest
  BY DEF CleanSet
<1> HIDE DEF j
<1> QED
  BY <1>1, <1>4, <1>7, <1>8, Here, OneProcess

LEMMA SaveReadInv ==
    ASSUME StoreInv, NEW p \in Processes, SaveRead(p) PROVE StoreInv'
<1> DEFINE seen == IF IsManifest(manifest) THEN manifest ELSE Absent
           sets == IF IsManifest(manifest) THEN manifest.obsolete ELSE <<>>
           j == Looping([job[p] EXCEPT !.seen = seen], sets)
<1>1. job' = [job EXCEPT ![p] = j] /\ pc' = [pc EXCEPT ![p] = "save_clean"]
  BY DEF SaveRead, Goto
<1>2. /\ seen \in Entries /\ sets \in Seq(Nat) /\ Below(sets, Len(size))
      /\ IsManifest(seen) => Lists(sets, <<>>, seen.current)
      /\ Fits(seen, Len(size))
  <2>1. CASE IsManifest(manifest)
    BY <2>1, Here, ListsStart
  <2>2. CASE ~IsManifest(manifest)
    BY <2>2 DEF Entries, IsManifest, Absent, Below, Fits
  <2> QED
    BY <2>1, <2>2
<1>3. LET k == [job[p] EXCEPT !.seen = seen] IN
      k \in Jobs /\ k.seen = seen /\ k.next = job[p].next
  <2> HIDE DEF seen
  <2> QED
    BY <1>2, Here DEF Jobs
<1>4. /\ j \in Jobs /\ j.seen = seen /\ j.next = job[p].next
      /\ j.sets = sets /\ j.remaining = <<>>
  <2> HIDE DEF seen, sets
  <2> QED
    BY <1>2, <1>3, LoopingJob
<1>5. Below(<<>>, Len(size))
  BY DEF Below
<1>6. JobInv(j, "save_clean", Len(size))
  BY <1>2, <1>4, <1>5, Here DEF JobInv
<1>7. size' = size /\ manifest' = manifest /\ "save_clean" \in Pcs
  BY DEF SaveRead, Pcs
<1> HIDE DEF j
<1> QED
  BY <1>1, <1>4, <1>6, <1>7, Here, OneProcess

LEMMA SaveBeginInv ==
    ASSUME StoreInv, NEW p \in Processes, SaveBegin(p) PROVE StoreInv'
<1> DEFINE g == Len(size) + 1
           m == Manifest(g, Obsolete(job[p]))
           j == Looping([job[p] EXCEPT !.next = m], <<g>>)
<1>1. /\ job' = [job EXCEPT ![p] = j] /\ pc' = [pc EXCEPT ![p] = "save_chunks"]
      /\ pc[p] = "save_clean" /\ job[p].sets = <<>> /\ Len(Obsolete(job[p])) <= MaxObsolete
      /\ manifest' = manifest
  <2>1. Len(Obsolete(job[p])) \in Nat
    BY Here DEF Obsolete, Jobs, Entries, IsManifest, Absent, Foreign
  <2> QED
    BY <2>1, CredentialAssumption DEF SaveBegin, Goto, Cleaned, TooMany
<1>2. PICK n \in Nat : size' = Append(size, n)
  <2>1. 1..MaxChunks \subseteq Nat
    BY CredentialAssumption
  <2> QED
    BY <2>1 DEF SaveBegin
<1>3. size' \in Seq(Nat) /\ Len(size') = g /\ g \in Nat /\ Len(size) <= Len(size')
  BY <1>2, Here
<1>4. m \in Entries /\ Fits(m, g) /\ IsManifest(m)
  <2>1. CASE IsManifest(job[p].seen)
    <3>1. /\ job[p].remaining \in Seq(Nat) /\ job[p].seen.current \in Nat
          /\ job[p].seen.current <= Len(size)
      BY <2>1, Here DEF Jobs, Entries, IsManifest, Absent, Foreign, JobInv, Fits
    <3>2. /\ Distinct(job[p].remaining) /\ Without(job[p].remaining, job[p].seen.current)
          /\ Below(job[p].remaining, Len(size))
      BY <1>1, <2>1, Here DEF JobInv, Lists
    <3>3. Obsolete(job[p]) = Append(job[p].remaining, job[p].seen.current)
      BY <2>1 DEF Obsolete
    <3> QED
      BY <1>1, <3>1, <3>2, <3>3, Here, NewManifest DEF Manifest, IsManifest
  <2>2. CASE ~IsManifest(job[p].seen)
    <3>1. Obsolete(job[p]) = <<>>
      BY <2>2 DEF Obsolete
    <3> QED
      BY <3>1, <1>3, CredentialAssumption
      DEF Manifest, Entries, Fits, IsManifest, Below, Distinct, Without
  <2> QED
    BY <2>1, <2>2
<1>5. LET k == [job[p] EXCEPT !.next = m] IN
      k \in Jobs /\ k.seen = job[p].seen /\ k.next = m
  <2> HIDE DEF m
  <2> QED
    BY <1>4, Here DEF Jobs
<1>51. <<g>> \in Seq(Nat)
  <2> HIDE DEF g
  <2> QED
    BY <1>3
<1>6. /\ j \in Jobs /\ j.seen = job[p].seen /\ j.next = m
      /\ j.sets = <<g>> /\ j.remaining = <<>>
  <2> HIDE DEF m, g
  <2> QED
    BY <1>5, <1>51, LoopingJob
<1>7. Fits(job[p].seen, g) /\ Below(<<g>>, g) /\ Below(<<>>, g)
  <2>1. job[p].seen \in Entries /\ Fits(job[p].seen, Len(size))
    BY Here DEF Jobs, JobInv
  <2>2. Fits(job[p].seen, g)
    BY <2>1, <1>3, Here, Grows
  <2> QED
    BY <1>3, <2>2 DEF Below
<1>8. JobInv(j, "save_chunks", g)
  BY <1>4, <1>6, <1>7 DEF JobInv
<1>9. Fits(manifest, g)
  BY <1>3, Here, Grows
<1>10. "save_chunks" \in Pcs
  BY DEF Pcs
<1> HIDE DEF j, m, g
<1> QED
  BY <1>1, <1>3, <1>6, <1>8, <1>9, <1>10, Here, OneProcess

LEMMA WriteChunkInv ==
    ASSUME StoreInv, NEW p \in Processes, WriteChunk(p) PROVE StoreInv'
<1> DEFINE i == job[p].index + 1
           j == [job[p] EXCEPT !.index = i]
<1>11. i \in Nat
  BY Here DEF Jobs
<1>1. job' = [job EXCEPT ![p] = j] /\ pc' = [pc EXCEPT ![p] = pc[p]]
  BY Here DEF WriteChunk, StoreInv
<1>2. /\ j \in Jobs /\ j.seen = job[p].seen /\ j.next = job[p].next
      /\ j.sets = job[p].sets /\ j.remaining = job[p].remaining
  <2> HIDE DEF i
  <2> QED
    BY <1>11, Here DEF Jobs
<1>3. JobInv(j, pc[p], Len(size))
  BY <1>2, Here DEF JobInv
<1>4. size' = size /\ manifest' = manifest
  BY DEF WriteChunk
<1> HIDE DEF j
<1> QED
  BY <1>1, <1>2, <1>3, <1>4, Here, OneProcess

LEMMA WriteManifestInv ==
    ASSUME StoreInv, NEW p \in Processes, WriteManifest(p) PROVE StoreInv'
<1> DEFINE m == job[p].next
           j == Looping(job[p], m.obsolete)
<1>1. /\ job' = [job EXCEPT ![p] = j] /\ pc' = [pc EXCEPT ![p] = "save_tidy"]
      /\ pc[p] = "save_chunks" /\ manifest' = m /\ size' = size
  BY DEF WriteManifest, Goto
<1>2. m \in Entries /\ IsManifest(m) /\ Fits(m, Len(size)) /\ Fits(job[p].seen, Len(size))
  BY <1>1, Here DEF Jobs, JobInv
<1>3. /\ m.obsolete \in Seq(Nat) /\ Lists(m.obsolete, <<>>, m.current)
      /\ Below(m.obsolete, Len(size)) /\ Below(<<>>, Len(size))
  BY <1>2, Here, ListsStart
<1>4. /\ j \in Jobs /\ j.seen = job[p].seen /\ j.next = m
      /\ j.sets = m.obsolete /\ j.remaining = <<>>
  BY <1>3, LoopingJob, Here
<1>5. JobInv(j, "save_tidy", Len(size))
  BY <1>2, <1>3, <1>4 DEF JobInv
<1>6. "save_tidy" \in Pcs
  BY DEF Pcs
<1> HIDE DEF j, m
<1> QED
  BY <1>1, <1>2, <1>4, <1>5, <1>6, Here, OneProcess

LEMMA WriteFailsInv ==
    ASSUME StoreInv, NEW p \in Processes, WriteFails(p) PROVE StoreInv'
<1>1. /\ job' = [job EXCEPT ![p] = job[p]] /\ pc' = [pc EXCEPT ![p] = "save_undo"]
      /\ pc[p] = "save_chunks" /\ size' = size /\ manifest' = manifest /\ "save_undo" \in Pcs
  BY DEF WriteFails, Goto, StoreInv, Pcs
<1>2. JobInv(job[p], "save_undo", Len(size))
  BY <1>1, Here DEF JobInv
<1> QED
  BY <1>1, <1>2, Here, OneProcess

LEMMA TidiedInv ==
    ASSUME StoreInv, NEW p \in Processes, Tidied(p) PROVE StoreInv'
<1> DEFINE m == Manifest(job[p].next.current, job[p].remaining)
<1>1. pc[p] = "save_tidy" /\ job[p].sets = <<>> /\ Return(p) /\ size' = size
  BY DEF Tidied, Cleaned
<1>2. manifest' \in {manifest, m}
  BY DEF Tidied
<1>3. /\ IsManifest(job[p].next) /\ job[p].next \in Entries /\ Fits(job[p].next, Len(size))
      /\ job[p].remaining \in Seq(Nat) /\ Below(job[p].remaining, Len(size))
      /\ Lists(<<>>, job[p].remaining, job[p].next.current)
  BY <1>1, Here DEF JobInv, Jobs
<1>4. m \in Entries
  BY <1>3 DEF Manifest, Entries, IsManifest, Absent, Foreign
<1>5. Len(job[p].remaining) <= MaxObsolete
  <2>1. Len(<<>>) = 0 /\ Len(job[p].remaining) \in Nat
    BY <1>3
  <2> QED
    BY <1>3, <2>1 DEF Lists
<1>6. Fits(m, Len(size))
  BY <1>3, <1>5 DEF Fits, Lists, Manifest, IsManifest
<1>7. manifest' \in Entries /\ Fits(manifest', Len(size))
  BY <1>2, <1>4, <1>6, Here
<1> QED
  BY <1>1, <1>7, IdleStore

LEMMA DeleteReadInv ==
    ASSUME StoreInv, NEW p \in Processes, DeleteRead(p) PROVE StoreInv'
<1> DEFINE sets == DeletedSets(manifest)
           j == Looping([job[p] EXCEPT !.seen = manifest], sets)
<1>1. /\ job' = [job EXCEPT ![p] = j] /\ pc' = [pc EXCEPT ![p] = "delete_clean"]
      /\ size' = size /\ manifest' = manifest /\ IsManifest(manifest)
  BY DEF DeleteRead, Goto
<1>2. /\ manifest.obsolete \in Seq(Nat) /\ manifest.current \in Nat
      /\ manifest.current <= Len(size) /\ Below(manifest.obsolete, Len(size))
  BY <1>1, Here, ListsStart DEF Fits
<1>3. sets \in Seq(Nat) /\ Below(sets, Len(size)) /\ Below(<<>>, Len(size))
  BY <1>2, Here DEF DeletedSets, Below
<1>4. [job[p] EXCEPT !.seen = manifest] \in Jobs
  BY Here DEF Jobs
<1>5. /\ j \in Jobs /\ j.seen = manifest /\ j.next = job[p].next
      /\ j.sets = sets /\ j.remaining = <<>>
  BY <1>3, <1>4, LoopingJob, Here DEF Jobs
<1>6. JobInv(j, "delete_clean", Len(size))
  BY <1>3, <1>5, Here DEF JobInv
<1>7. "delete_clean" \in Pcs
  BY DEF Pcs
<1> HIDE DEF j
<1> QED
  BY <1>1, <1>5, <1>6, <1>7, Here, OneProcess

\* The steps that end a command: the manifest stays or goes.
LEMMA EndInv ==
    ASSUME StoreInv, NEW p \in Processes,
           SaveRefused(p) \/ UndoChunks(p) \/ DeleteManifest(p) \/ Crash(p)
    PROVE  StoreInv'
<1>1. Return(p) /\ size' = size /\ manifest' \in {manifest, Absent}
  BY DEF SaveRefused, UndoChunks, DeleteManifest, Crash
<1>2. Absent \in Entries /\ Fits(Absent, Len(size))
  BY DEF Entries, Fits, IsManifest, Absent
<1>3. manifest' \in Entries /\ Fits(manifest', Len(size))
  BY <1>1, <1>2, Here
<1> QED
  BY <1>1, <1>3, IdleStore

-----------------------------------------------------------------------------
(* Any number of processes. *)

\* The invariant of the cleanup lists holds for any number of processes that
\* save to, delete from and crash on the same account.
THEOREM Inductive == Spec => []StoreInv
<1>1. ASSUME StoreInv, [Next]_vars PROVE StoreInv'
  <2>1. CASE UNCHANGED vars
    BY <1>1, <2>1 DEF vars, StoreInv
  <2>2. ASSUME NEW p \in Processes, Step(p) PROVE StoreInv'
    BY <1>1, <2>2, CleanChunkInv, CleanSetInv, SaveReadInv, SaveBeginInv, WriteChunkInv,
       WriteManifestInv, WriteFailsInv, TidiedInv, DeleteReadInv, EndInv DEF Step
  <2> QED
    BY <1>1, <2>1, <2>2 DEF Next
<1> QED
  BY <1>1, InitStore, PTL DEF Spec

\* The manifest that save_to or its tidying writes always passes
\* validate_manifest, however the processes interleave: a save never makes the
\* account undecodable.
THEOREM AlwaysDecodes == Spec => []ManifestDecodes
<1>1. StoreInv => ManifestDecodes
  <2> SUFFICES ASSUME StoreInv, IsManifest(manifest) PROVE Decodes(manifest)
    BY DEF ManifestDecodes
  <2>1. manifest.obsolete \in Seq(Nat) /\ manifest.current \in Nat
    BY DEF StoreInv, Entries, IsManifest, Absent, Foreign
  <2>2. DOMAIN manifest.obsolete = 1..Len(manifest.obsolete) /\ Len(manifest.obsolete) \in Nat
    BY <2>1
  <2>3. /\ Distinct(manifest.obsolete) /\ Without(manifest.obsolete, manifest.current)
        /\ Len(manifest.obsolete) <= MaxObsolete
    BY DEF StoreInv, Fits
  <2>4. ASSUME NEW i \in DOMAIN manifest.obsolete
        PROVE  /\ manifest.obsolete[i] # manifest.current
               /\ \A k \in 1..(i - 1) : manifest.obsolete[k] # manifest.obsolete[i]
    BY <2>2, <2>3 DEF Distinct, Without
  <2> QED
    BY <2>3, <2>4 DEF Decodes
<1> QED
  BY <1>1, Inductive, PTL

-----------------------------------------------------------------------------
(* One process on the account. *)

InList(s) == {s[i] : i \in 1..Len(s)}
NamedBy(m) == {m.current} \cup InList(m.obsolete)

\* The chunks of a generation that are stored.
StoredOf(g) == {x \in stored : x[1] = g}

\* The sets a cleanup loop has taken on.
TakenOn(c, j) ==
    CASE c = "save_clean" -> (IF IsManifest(j.seen) THEN InList(j.seen.obsolete) ELSE {})
      [] c = "save_tidy" -> InList(j.next.obsolete)
      [] OTHER -> NamedBy(j.seen)

\* A set is on one of the two lists until its chunks are gone, and those of the
\* set at hand that were deleted without a failure are gone.
Removing(c, j) ==
    /\ \A g \in TakenOn(c, j) : g \in InList(j.sets) \cup InList(j.remaining) \/ StoredOf(g) = {}
    /\ j.sets # <<>> /\ ~ j.failed => \A x \in StoredOf(Head(j.sets)) : x[2] >= j.index

\* The new generation while its chunks are written: the manifest does not name
\* it, and what is stored of it are the first chunks.
Writing(c, j) ==
    /\ j.next.current \in 1..Len(size) /\ j.index \in Nat \ {0}
    /\ IsManifest(manifest) => manifest.current # j.next.current
    /\ \A x \in StoredOf(j.next.current) : x[2] < j.index
    /\ c = "save_chunks" =>
          /\ \A i \in 1 .. j.index - 1 : <<j.next.current, i>> \in stored
          /\ \A x \in stored : x[1] \in NamedBy(j.next) \cup abandoned

\* What a process knows of an account that no other one uses.
Knows(c, j) ==
    /\ c \in {"save_clean", "save_chunks", "save_undo"} =>
          j.seen = IF IsManifest(manifest) THEN manifest ELSE Absent
    /\ c = "delete_clean" => /\ IsManifest(manifest) /\ j.seen = manifest
                             /\ manifest.current \in condemned
    /\ c = "save_tidy" => j.next = manifest
    /\ c \in Cleaning => Removing(c, j)
    /\ c \in {"save_chunks", "save_undo"} => Writing(c, j)

StoredNamed ==
    \A x \in stored : /\ x \in Nat \X Nat
                      /\ x[1] \in 1..Len(size) /\ x[2] \in 1..size[x[1]]

CurrentNamed == IsManifest(manifest) => manifest.current \in 1..Len(size)

\* Everything that is stored is named, abandoned or being written.
Accounted(c, j) ==
    \A x \in stored : x[1] \in Named \cup abandoned
                      \/ (c \in {"save_chunks", "save_undo"} /\ j.next.current = x[1])

SaveInv(p) ==
    /\ StoredNamed /\ CurrentNamed /\ SavedStaysReadable
    /\ Accounted(pc[p], job[p]) /\ Knows(pc[p], job[p])

\* What the loops do to a list, as sets.
LEMMA ListFacts ==
  ASSUME NEW s \in Seq(Nat)
  PROVE  /\ s # <<>> => InList(s) = {Head(s)} \cup InList(Tail(s)) /\ Head(s) = s[1] /\ Head(s) \in Nat
         /\ \A x \in Nat : InList(Append(s, x)) = InList(s) \cup {x}
         /\ s = <<>> => InList(s) = {}
         /\ DOMAIN s = 1..Len(s)
<1>1. s # <<>> => InList(s) = {Head(s)} \cup InList(Tail(s)) /\ Head(s) = s[1] /\ Head(s) \in Nat
  <2>1. SUFFICES ASSUME s # <<>> PROVE InList(s) = {Head(s)} \cup InList(Tail(s)) /\ Head(s) = s[1] /\ Head(s) \in Nat
    OBVIOUS
  <2>2. /\ Len(s) \in Nat \ {0} /\ Len(Tail(s)) = Len(s) - 1 /\ Head(s) = s[1] /\ 1 \in 1..Len(s)
        /\ \A i \in 1..Len(Tail(s)) : Tail(s)[i] = s[i + 1] /\ i + 1 \in 1..Len(s)
    BY <2>1
  <2>3. \A i \in 1..Len(s) : i = 1 \/ (i - 1 \in 1..Len(Tail(s)) /\ (i - 1) + 1 = i)
    BY <2>2
  <2>4. \A i \in 1..Len(s) : s[i] \in {Head(s)} \cup InList(Tail(s))
    <3>1. ASSUME NEW i \in 1..Len(s), i # 1 PROVE s[i] \in InList(Tail(s))
      <4>1. i - 1 \in 1..Len(Tail(s)) /\ Tail(s)[i - 1] = s[i]
        BY <2>2, <2>3, <3>1
      <4>2. QED
        BY <4>1 DEF InList
    <3>2. QED
      BY <2>2, <3>1
  <2>5. InList(Tail(s)) \subseteq InList(s)
    BY <2>2 DEF InList
  <2>6. QED
    BY <2>2, <2>4, <2>5 DEF InList
<1>2. ASSUME NEW x \in Nat PROVE InList(Append(s, x)) = InList(s) \cup {x}
  <2>1. /\ Len(s) \in Nat /\ Len(Append(s, x)) = Len(s) + 1 /\ Append(s, x)[Len(s) + 1] = x
        /\ \A i \in 1..Len(s) : Append(s, x)[i] = s[i]
    OBVIOUS
  <2>2. \A i \in 1 .. Len(s) + 1 : i \in 1..Len(s) \/ i = Len(s) + 1
    BY <2>1
  <2>3. Len(s) + 1 \in 1 .. Len(s) + 1 /\ \A i \in 1..Len(s) : i \in 1 .. Len(s) + 1
    BY <2>1
  <2>4. QED
    BY <2>1, <2>2, <2>3 DEF InList
<1>3. s = <<>> => InList(s) = {}
  BY DEF InList
<1>4. QED
  BY <1>1, <1>2, <1>3

LEMMA ManifestTypes ==
  ASSUME NEW m \in Entries
  PROVE  IsManifest(m) => m.current \in Nat /\ m.obsolete \in Seq(Nat)
  BY DEF Entries, IsManifest, Absent, Foreign

LEMMA NamedIs ==
  ASSUME manifest \in Entries, IsManifest(manifest)
  PROVE  Named = NamedBy(manifest)
  BY ManifestTypes DEF Named, NamedBy, InList

\* The locals of a process, with their types.
LEMMA Locals ==
  ASSUME StoreInv, NEW p \in Processes
  PROVE  /\ job[p].sets \in Seq(Nat) /\ job[p].remaining \in Seq(Nat) /\ job[p].index \in Nat
         /\ job[p].failed \in BOOLEAN /\ job[p].seen \in Entries /\ job[p].next \in Entries
         /\ pc[p] = "save_clean" /\ IsManifest(job[p].seen) => Without(job[p].sets, job[p].seen.current)
         /\ pc[p] = "save_tidy" => Without(job[p].sets, job[p].next.current)
         /\ pc[p] \in {"save_chunks", "save_undo", "save_tidy"} => IsManifest(job[p].next)
  BY Here DEF Jobs, JobInv, Lists

\* One lemma for each call: what a lone process knows stays true.
LEMMA CleanChunkSaves ==
  ASSUME StoreInv, NEW p \in Processes, SaveInv(p), CleanChunk(p)
  PROVE  SaveInv(p)'
<1> DEFINE c == pc[p]
           h == Head(job[p].sets)
           i == job[p].index
<1>1. PICK fails \in BOOLEAN :
        /\ stored' = IF fails THEN stored ELSE stored \ {<<h, i>>}
        /\ job' = [job EXCEPT ![p].index = i + 1, ![p].failed = job[p].failed \/ fails]
  BY DEF CleanChunk
<1>2. c \in Cleaning /\ job[p].sets # <<>> /\ UNCHANGED <<manifest, size, pc, condemned, abandoned>>
  BY DEF CleanChunk
<1>3. /\ job'[p].sets = job[p].sets /\ job'[p].remaining = job[p].remaining
      /\ job'[p].seen = job[p].seen /\ job'[p].next = job[p].next
      /\ job'[p].index = i + 1 /\ (job'[p].failed <=> job[p].failed \/ fails)
  BY <1>1 DEF StoreInv, Jobs
<1>4. h \in InList(job[p].sets) /\ h \in Nat /\ i \in Nat
  BY <1>2, Locals, ListFacts
<1>5. IsManifest(manifest) /\ manifest.current \notin condemned => h # manifest.current
  <2>1. c = "save_clean" /\ IsManifest(manifest) => Without(job[p].sets, manifest.current)
    BY Locals DEF SaveInv, Knows
  <2>2. c = "save_tidy" => Without(job[p].sets, manifest.current)
    BY Locals DEF SaveInv, Knows
  <2>3. c = "delete_clean" => manifest.current \in condemned
    BY DEF SaveInv, Knows
  <2>4. QED
    BY <1>2, <1>4, <2>1, <2>2, <2>3 DEF Cleaning, InList, Without
<1>6. stored' \subseteq stored /\ (~ fails => \A x \in stored' : x # <<h, i>>)
      /\ \A x \in stored : x[1] # h => x \in stored'
  BY <1>1
<1>7. StoredNamed' /\ CurrentNamed'
  BY <1>2, <1>6 DEF SaveInv, StoredNamed, CurrentNamed
<1>8. SavedStaysReadable'
  BY <1>2, <1>5, <1>6 DEF SaveInv, SavedStaysReadable, Loads, Chunks
<1>9. Accounted(pc[p], job[p])'
  BY <1>2, <1>3, <1>6 DEF SaveInv, Accounted, Named
<1>10. \A g : StoredOf(g)' \subseteq StoredOf(g)
  BY <1>6 DEF StoredOf
<1>11. TakenOn(pc[p], job[p])' = TakenOn(c, job[p])
  BY <1>2, <1>3 DEF TakenOn, NamedBy
<1>12. ASSUME ~ job'[p].failed, NEW x \in StoredOf(h)' PROVE x[2] >= i + 1
  <2>1. x \in StoredOf(h) /\ x # <<h, i>> /\ x[2] >= i
    BY <1>2, <1>3, <1>6, <1>10, <1>12 DEF SaveInv, Knows, Removing, StoredOf
  <2>2. x \in Nat \X Nat /\ x[1] = h
    BY <2>1 DEF StoredOf, SaveInv, StoredNamed
  <2>3. x[2] # i
    BY <2>1, <2>2
  <2>4. QED
    BY <1>4, <2>1, <2>2, <2>3
<1>13. Removing(pc[p], job[p])'
  <2>1. \A g \in TakenOn(c, job[p]) :
           g \in InList(job[p].sets) \cup InList(job[p].remaining) \/ StoredOf(g) = {}
    BY <1>2 DEF SaveInv, Knows, Removing
  <2>2. \A g \in TakenOn(pc[p], job[p])' :
           g \in InList(job'[p].sets) \cup InList(job'[p].remaining) \/ StoredOf(g)' = {}
    BY <1>3, <1>10, <1>11, <2>1
  <2>3. QED
    BY <1>3, <1>12, <2>2 DEF Removing, StoredOf
<1>14. Knows(pc[p], job[p])'
  BY <1>2, <1>3, <1>13 DEF SaveInv, Knows, Cleaning
<1>15. QED
  BY <1>7, <1>8, <1>9, <1>14 DEF SaveInv

LEMMA CleanSetSaves ==
  ASSUME StoreInv, NEW p \in Processes, SaveInv(p), CleanSet(p)
  PROVE  SaveInv(p)'
<1> DEFINE c == pc[p]
           s == job[p].sets
           h == Head(s)
           r == IF job[p].failed THEN Append(job[p].remaining, h) ELSE job[p].remaining
<1>1. /\ c \in Cleaning /\ s # <<>> /\ job[p].index > size[h]
      /\ job' = [job EXCEPT ![p] = [job[p] EXCEPT !.sets = Tail(s), !.index = 1, !.failed = FALSE,
                                                  !.remaining = r]]
      /\ UNCHANGED <<manifest, stored, size, pc, condemned, abandoned>>
  BY DEF CleanSet
<1>2. /\ job'[p].sets = Tail(s) /\ job'[p].remaining = r /\ job'[p].index = 1
      /\ job'[p].seen = job[p].seen /\ job'[p].next = job[p].next
  <2> HIDE DEF r, s
  <2>1. QED
    BY <1>1 DEF StoreInv, Jobs
<1>3. InList(s) = {h} \cup InList(Tail(s)) /\ InList(job[p].remaining) \subseteq InList(r)
      /\ (job[p].failed => h \in InList(r))
  <2>1. s \in Seq(Nat) /\ job[p].remaining \in Seq(Nat)
    BY Locals
  <2> HIDE DEF s
  <2>2. h \in Nat /\ InList(s) = {h} \cup InList(Tail(s))
    BY <1>1, <2>1, ListFacts
  <2> HIDE DEF h
  <2>3. InList(Append(job[p].remaining, h)) = InList(job[p].remaining) \cup {h}
    BY <2>1, <2>2, ListFacts
  <2>4. QED
    BY <2>2, <2>3
<1>4. ~ job[p].failed => StoredOf(h) = {}
  <2>1. SUFFICES ASSUME ~ job[p].failed, NEW x \in StoredOf(h) PROVE FALSE
    OBVIOUS
  <2>2. x[2] >= job[p].index /\ x[2] \in 1..size[x[1]] /\ x[1] = h /\ x[1] \in 1..Len(size)
    BY <1>1, <2>1 DEF SaveInv, Knows, Removing, StoredOf, StoredNamed
  <2>3. size[h] \in Nat /\ job[p].index \in Nat
    BY <2>2, Locals DEF StoreInv
  <2>4. QED
    BY <1>1, <2>2, <2>3
<1>5. TakenOn(pc[p], job[p])' = TakenOn(c, job[p]) /\ \A g : StoredOf(g)' = StoredOf(g)
  BY <1>1, <1>2 DEF TakenOn, NamedBy, StoredOf
<1>6. \A x \in stored : x[2] >= 1
  BY DEF SaveInv, StoredNamed
<1>7. Removing(pc[p], job[p])'
  <2>1. \A g \in TakenOn(c, job[p]) :
           g \in InList(s) \cup InList(job[p].remaining) \/ StoredOf(g) = {}
    BY <1>1 DEF SaveInv, Knows, Removing
  <2>2. \A g \in TakenOn(pc[p], job[p])' :
           g \in InList(Tail(s)) \cup InList(r) \/ StoredOf(g)' = {}
    <3> HIDE DEF r, h, s
    <3>1. QED
      BY <1>3, <1>4, <1>5, <2>1
  <2>3. \A x \in stored' : x[2] >= job'[p].index
    BY <1>1, <1>2, <1>6
  <2> HIDE DEF r, h, s
  <2>4. QED
    BY <1>2, <2>2, <2>3 DEF Removing, StoredOf
<1>8. Knows(pc[p], job[p])'
  BY <1>1, <1>2, <1>7 DEF SaveInv, Knows, Cleaning
<1>9. Accounted(pc[p], job[p])'
  BY <1>1, <1>2 DEF SaveInv, Accounted, Named
<1>10. QED
  BY <1>1, <1>8, <1>9 DEF SaveInv, StoredNamed, CurrentNamed, SavedStaysReadable, Loads, Chunks

\* A command that ends, or is killed, knows nothing any more.
LEMMA EndSaves ==
  ASSUME StoreInv, NEW p \in Processes, SaveInv(p), Return(p),
         StoredNamed', CurrentNamed', SavedStaysReadable',
         \A x \in stored' : x[1] \in Named' \cup abandoned'
  PROVE  SaveInv(p)'
<1>1. pc'[p] = "idle"
  BY DEF Return, StoreInv
<1>2. Knows(pc[p], job[p])' /\ Accounted(pc[p], job[p])'
  BY <1>1 DEF Knows, Cleaning, Accounted
<1>3. QED
  BY <1>2 DEF SaveInv

LEMMA SaveReadSaves ==
  ASSUME StoreInv, NEW p \in Processes, SaveInv(p), SaveRead(p)
  PROVE  SaveInv(p)'
<1> DEFINE m == IF IsManifest(manifest) THEN manifest ELSE Absent
           s == IF IsManifest(manifest) THEN manifest.obsolete ELSE <<>>
           k == [job[p] EXCEPT !.seen = m]
<1>1. /\ pc[p] = "idle" /\ pc'[p] = "save_clean" /\ job' = [job EXCEPT ![p] = Looping(k, s)]
      /\ UNCHANGED <<manifest, stored, size, condemned, abandoned>>
  BY DEF SaveRead, Goto, StoreInv
<1>2. m \in Entries /\ s \in Seq(Nat)
  BY Here, ManifestTypes DEF Entries
<1>3. /\ job'[p].seen = m /\ job'[p].sets = s /\ job'[p].index = 1
  <2>1. job'[p] = Looping(k, s)
    BY <1>1 DEF StoreInv
  <2> HIDE DEF m, s
  <2>2. k.seen = m /\ k \in Jobs
    BY <1>2, Here DEF Jobs
  <2> HIDE DEF k
  <2>3. Looping(k, s).index = 1
    BY <2>2 DEF Looping, Jobs
  <2>4. QED
    BY <1>2, <2>1, <2>2, <2>3, LoopingJob
<1>4. ~ IsManifest(Absent)
  BY DEF IsManifest, Absent
<1>5. TakenOn("save_clean", job'[p]) = InList(job'[p].sets)
  BY <1>3, <1>4 DEF TakenOn, InList
<1>6. Removing(pc[p], job[p])'
  <2>1. \A x \in stored : x[2] >= 1
    BY DEF SaveInv, StoredNamed
  <2>2. TakenOn(pc[p], job[p])' = InList(job'[p].sets)
    BY <1>1, <1>5
  <2>3. QED
    BY <1>1, <1>3, <2>1, <2>2 DEF Removing, StoredOf
<1>7. Knows(pc[p], job[p])'
  BY <1>1, <1>3, <1>6 DEF Knows, Cleaning
<1>8. Accounted(pc[p], job[p])'
  BY <1>1 DEF SaveInv, Accounted, Named
<1>9. QED
  BY <1>1, <1>7, <1>8 DEF SaveInv, StoredNamed, CurrentNamed, SavedStaysReadable, Loads, Chunks

LEMMA DeleteReadSaves ==
  ASSUME StoreInv, NEW p \in Processes, SaveInv(p), DeleteRead(p)
  PROVE  SaveInv(p)'
<1> DEFINE s == DeletedSets(manifest)
           k == [job[p] EXCEPT !.seen = manifest]
<1>1. /\ pc[p] = "idle" /\ pc'[p] = "delete_clean" /\ IsManifest(manifest)
      /\ job' = [job EXCEPT ![p] = Looping(k, s)]
      /\ condemned' = condemned \cup {manifest.current}
      /\ UNCHANGED <<manifest, stored, size, abandoned>>
  BY DEF DeleteRead, Goto, StoreInv
<1>2. manifest \in Entries /\ manifest.current \in Nat /\ manifest.obsolete \in Seq(Nat)
  BY <1>1, Here, ManifestTypes
<1>3. s \in Seq(Nat) /\ InList(s) = NamedBy(manifest)
  BY <1>2, ListFacts DEF DeletedSets, NamedBy
<1>4. /\ job'[p].seen = manifest /\ job'[p].sets = s /\ job'[p].index = 1
  <2>1. job'[p] = Looping(k, s)
    BY <1>1 DEF StoreInv
  <2> HIDE DEF s
  <2>2. k.seen = manifest /\ k \in Jobs
    BY <1>2, Here DEF Jobs
  <2> HIDE DEF k
  <2>3. Looping(k, s).index = 1
    BY <2>2 DEF Looping, Jobs
  <2>4. QED
    BY <1>3, <2>1, <2>2, <2>3, LoopingJob
<1> HIDE DEF s, k
<1>5. TakenOn(pc[p], job[p])' = InList(s)
  BY <1>1, <1>3, <1>4 DEF TakenOn, NamedBy
<1>6. Removing(pc[p], job[p])'
  <2>1. \A x \in stored : x[2] >= 1
    BY DEF SaveInv, StoredNamed
  <2>2. QED
    BY <1>1, <1>4, <1>5, <2>1 DEF Removing, StoredOf
<1>7. Knows(pc[p], job[p])'
  BY <1>1, <1>4, <1>6 DEF Knows, Cleaning
<1>8. Accounted(pc[p], job[p])'
  BY <1>1 DEF SaveInv, Accounted, Named
<1>9. QED
  BY <1>1, <1>7, <1>8 DEF SaveInv, StoredNamed, CurrentNamed, SavedStaysReadable, Loads, Chunks

LEMMA SaveBeginSaves ==
  ASSUME StoreInv, NEW p \in Processes, SaveInv(p), SaveBegin(p)
  PROVE  SaveInv(p)'
<1> DEFINE j == job[p]
           n == Len(size)
           g == n + 1
           next == Manifest(g, Obsolete(j))
           k == [j EXCEPT !.next = next]
<1>1. PICK v \in 1..MaxChunks : size' = Append(size, v)
  BY DEF SaveBegin
<1>2. /\ pc[p] = "save_clean" /\ pc'[p] = "save_chunks" /\ j.sets = <<>>
      /\ job' = [job EXCEPT ![p] = Looping(k, <<g>>)]
      /\ UNCHANGED <<manifest, stored, condemned, abandoned>>
  BY DEF SaveBegin, Goto, Cleaned, StoreInv
<1>3. /\ n \in Nat /\ Len(size') = n + 1 /\ size' \in Seq(Nat)
      /\ \A i \in 1..n : size'[i] = size[i]
  BY <1>1, Here DEF StoreInv
<1>4. /\ j.remaining \in Seq(Nat) /\ j.sets \in Seq(Nat) /\ j.seen \in Entries
      /\ j.seen = IF IsManifest(manifest) THEN manifest ELSE Absent
  BY <1>2, Locals DEF SaveInv, Knows
<1>5. ~ IsManifest(Absent)
  BY DEF IsManifest, Absent
<1>6. /\ next.current = g /\ next.obsolete = Obsolete(j)
      /\ job'[p].next = next /\ job'[p].seen = j.seen /\ job'[p].index = 1
  <2>1. job'[p] = Looping(k, <<g>>)
    BY <1>2 DEF StoreInv
  <2>2. j \in Jobs
    BY Here
  <2> HIDE DEF j
  <2>3. next.current = g /\ next.obsolete = Obsolete(j)
    BY DEF Manifest
  <2> HIDE DEF next
  <2>4. Looping(k, <<g>>).next = next /\ Looping(k, <<g>>).seen = j.seen /\ Looping(k, <<g>>).index = 1
    BY <2>2 DEF Looping, Jobs
  <2>5. QED
    BY <2>1, <2>3, <2>4
<1>7. StoredNamed' /\ CurrentNamed'
  BY <1>2, <1>3 DEF SaveInv, StoredNamed, CurrentNamed
<1>8. SavedStaysReadable'
  BY <1>2, <1>3 DEF SaveInv, CurrentNamed, SavedStaysReadable, Loads, Chunks
<1>9. \A x \in stored : x[1] \in Named \cup abandoned
  BY <1>2 DEF SaveInv, Accounted
<1>10. Accounted(pc[p], job[p])'
  BY <1>2, <1>9 DEF Accounted, Named
<1>11. ASSUME NEW x \in stored, x[1] \notin abandoned
       PROVE  x[1] \in NamedBy(next)
  <2>1. IsManifest(manifest) /\ x[1] \in NamedBy(manifest)
    BY <1>9, <1>11, NamedIs, Here DEF Named
  <2>2. manifest.current \in Nat /\ j.seen = manifest
    BY <1>4, <2>1, ManifestTypes, Here
  <2>3. InList(Obsolete(j)) = InList(j.remaining) \cup {manifest.current}
    BY <1>4, <2>1, <2>2, ListFacts DEF Obsolete
  <2>4. x[1] \in InList(manifest.obsolete) => x[1] \in InList(j.remaining)
    <3>1. InList(j.sets) = {}
      BY <1>2, <1>4, ListFacts
    <3>2. Removing(pc[p], j)
      BY <1>2 DEF SaveInv, Knows, Cleaning
    <3>3. TakenOn(pc[p], j) = InList(manifest.obsolete)
      BY <1>2, <2>1, <2>2 DEF TakenOn
    <3>4. x \in StoredOf(x[1])
      BY DEF StoredOf
    <3>5. QED
      BY <3>1, <3>2, <3>3, <3>4 DEF Removing
  <2>5. QED
    BY <1>6, <2>1, <2>3, <2>4 DEF NamedBy
<1> HIDE DEF next, j
<1>12. Writing(pc[p], job[p])'
  <2>1. \A x \in stored : x[1] # g
    BY <1>3 DEF SaveInv, StoredNamed
  <2>2. job'[p].next.current = g /\ g \in 1..Len(size')
    BY <1>3, <1>6
  <2>3. IsManifest(manifest) => manifest.current # g
    BY <1>3 DEF SaveInv, CurrentNamed
  <2>4. \A x \in stored : x[1] \in NamedBy(job'[p].next) \cup abandoned
    BY <1>6, <1>11
  <2>5. QED
    BY <1>2, <1>6, <2>1, <2>2, <2>3, <2>4 DEF Writing, StoredOf, NamedBy
<1>13. Knows(pc[p], job[p])'
  BY <1>2, <1>4, <1>6, <1>12 DEF Knows, Cleaning
<1>14. QED
  BY <1>7, <1>8, <1>10, <1>13 DEF SaveInv

LEMMA WriteChunkSaves ==
  ASSUME StoreInv, NEW p \in Processes, SaveInv(p), WriteChunk(p)
  PROVE  SaveInv(p)'
<1> DEFINE g == job[p].next.current
           i == job[p].index
<1>1. /\ pc[p] = "save_chunks" /\ i <= size[g] /\ stored' = stored \cup {<<g, i>>}
      /\ job' = [job EXCEPT ![p].index = @ + 1]
      /\ UNCHANGED <<manifest, size, pc, condemned, abandoned>>
  BY DEF WriteChunk
<1>2. job'[p].index = i + 1 /\ job'[p].next = job[p].next /\ job'[p].seen = job[p].seen
  BY <1>1 DEF StoreInv, Jobs
<1>3. Writing("save_chunks", job[p]) /\ i \in Nat \ {0} /\ g \in 1..Len(size) /\ size[g] \in Nat
      /\ Len(size) \in Nat /\ g \in Nat
  <2>1. Writing("save_chunks", job[p]) /\ i \in Nat \ {0} /\ g \in 1..Len(size)
    BY <1>1 DEF SaveInv, Knows, Writing
  <2>2. QED
    BY <2>1 DEF StoreInv
<1>4. StoredNamed' /\ CurrentNamed'
  <2>1. i \in 1..size[g] /\ <<g, i>> \in Nat \X Nat
    BY <1>1, <1>3
  <2>2. QED
    BY <1>1, <1>3, <2>1 DEF SaveInv, StoredNamed, CurrentNamed
<1>5. SavedStaysReadable'
  BY <1>1 DEF SaveInv, SavedStaysReadable, Loads, Chunks
<1>6. Accounted(pc[p], job[p])'
  BY <1>1, <1>2 DEF SaveInv, Accounted, Named
<1>7. Writing(pc[p], job[p])'
  <2>1. \A x \in stored' : x[1] = g => x[2] < i + 1
    BY <1>1, <1>3 DEF Writing, StoredOf, SaveInv, StoredNamed
  <2>2. \A k \in 1 .. (i + 1) - 1 : <<g, k>> \in stored'
    <3>1. \A k \in 1 .. (i + 1) - 1 : k \in 1 .. i - 1 \/ k = i
      BY <1>3
    <3>2. QED
      BY <1>1, <1>3, <3>1 DEF Writing
  <2>3. \A x \in stored' : x[1] \in NamedBy(job[p].next) \cup abandoned
    BY <1>1, <1>3 DEF Writing, NamedBy
  <2>4. i + 1 \in Nat \ {0}
    BY <1>3
  <2>5. QED
    BY <1>1, <1>2, <1>3, <2>1, <2>2, <2>3, <2>4 DEF Writing, StoredOf, NamedBy
<1>8. Knows(pc[p], job[p])'
  BY <1>1, <1>2, <1>7 DEF SaveInv, Knows, Cleaning
<1>9. QED
  BY <1>4, <1>5, <1>6, <1>8 DEF SaveInv

LEMMA WriteManifestSaves ==
  ASSUME StoreInv, NEW p \in Processes, SaveInv(p), WriteManifest(p)
  PROVE  SaveInv(p)'
<1> DEFINE m == job[p].next
           i == job[p].index
<1>1. /\ pc[p] = "save_chunks" /\ pc'[p] = "save_tidy" /\ i > size[m.current] /\ manifest' = m
      /\ job' = [job EXCEPT ![p] = Looping(@, m.obsolete)]
      /\ UNCHANGED <<stored, size, condemned, abandoned>>
  BY DEF WriteManifest, Goto, AllWritten, StoreInv
<1>2. m \in Entries /\ IsManifest(m) /\ m.current \in Nat /\ m.obsolete \in Seq(Nat)
  BY <1>1, Locals, ManifestTypes
<1>3. job'[p].next = m /\ job'[p].sets = m.obsolete /\ job'[p].index = 1
  <2>1. job'[p] = Looping(job[p], m.obsolete) /\ job[p] \in Jobs
    BY <1>1, Here DEF StoreInv
  <2>2. Looping(job[p], m.obsolete).index = 1
    BY <2>1 DEF Looping, Jobs
  <2>3. QED
    BY <1>2, <2>1, <2>2, LoopingJob
<1>4. Writing("save_chunks", job[p])
  BY <1>1 DEF SaveInv, Knows
<1>5. m.current \in 1..Len(size) /\ size[m.current] \in Nat /\ i \in Nat
  BY <1>4 DEF Writing, StoreInv
<1>6. SavedStaysReadable'
  <2>1. \A k \in 1..size[m.current] : <<m.current, k>> \in stored
    BY <1>1, <1>4, <1>5 DEF Writing
  <2>2. QED
    BY <1>1, <2>1 DEF SavedStaysReadable, Loads, Chunks
<1>7. Accounted(pc[p], job[p])'
  <2>1. Named' = NamedBy(m)
    <3>1. manifest' \in Entries /\ IsManifest(manifest')
      BY <1>1, <1>2
    <3>2. DOMAIN m.obsolete = 1..Len(m.obsolete)
      BY <1>2
    <3>3. QED
      BY <1>1, <1>2, <3>1, <3>2 DEF Named, NamedBy, InList
  <2>2. QED
    BY <1>1, <1>4, <2>1 DEF Writing, Accounted
<1>8. TakenOn(pc[p], job[p])' = InList(m.obsolete)
  BY <1>1, <1>3 DEF TakenOn
<1>9. Removing(pc[p], job[p])'
  <2>1. \A x \in stored : x[2] >= 1
    BY DEF SaveInv, StoredNamed
  <2>2. QED
    BY <1>1, <1>3, <1>8, <2>1 DEF Removing, StoredOf
<1>10. Knows(pc[p], job[p])'
  BY <1>1, <1>3, <1>9 DEF Knows, Cleaning
<1>11. QED
  BY <1>1, <1>5, <1>6, <1>7, <1>10 DEF SaveInv, StoredNamed, CurrentNamed

LEMMA WriteFailsSaves ==
  ASSUME StoreInv, NEW p \in Processes, SaveInv(p), WriteFails(p)
  PROVE  SaveInv(p)'
<1>1. /\ pc[p] = "save_chunks" /\ pc'[p] = "save_undo"
      /\ UNCHANGED <<manifest, stored, size, job, condemned, abandoned>>
  BY DEF WriteFails, Goto, StoreInv
<1>2. Writing("save_undo", job[p])'
  BY <1>1 DEF SaveInv, Knows, Writing, StoredOf
<1>3. Knows(pc[p], job[p])'
  BY <1>1, <1>2 DEF SaveInv, Knows, Cleaning
<1>4. Accounted(pc[p], job[p])'
  BY <1>1 DEF SaveInv, Accounted, Named
<1>5. QED
  BY <1>1, <1>3, <1>4 DEF SaveInv, StoredNamed, CurrentNamed, SavedStaysReadable, Loads, Chunks

LEMMA UndoChunksSaves ==
  ASSUME StoreInv, NEW p \in Processes, SaveInv(p), UndoChunks(p)
  PROVE  SaveInv(p)'
<1> DEFINE g == job[p].next.current
           written == {<<g, i>> : i \in 1 .. (job[p].index - 1)}
<1>1. PICK kept \in SUBSET written :
          /\ stored' = stored \ (written \ kept)
          /\ abandoned' = IF kept = {} THEN abandoned ELSE abandoned \cup {g}
  BY DEF UndoChunks
<1>2. pc[p] = "save_undo" /\ Return(p) /\ UNCHANGED <<manifest, size, condemned>>
  BY DEF UndoChunks
<1>3. Writing("save_undo", job[p]) /\ job[p].index \in Nat
  BY <1>2 DEF SaveInv, Knows, Writing
<1>4. stored' \subseteq stored /\ abandoned \subseteq abandoned' /\ \A x \in stored : x[1] # g => x \in stored'
  BY <1>1
<1>5. StoredNamed' /\ CurrentNamed'
  BY <1>2, <1>4 DEF SaveInv, StoredNamed, CurrentNamed
<1>6. SavedStaysReadable'
  BY <1>2, <1>3, <1>4 DEF SaveInv, SavedStaysReadable, Loads, Chunks, Writing
<1>7. ASSUME NEW x \in stored' PROVE x[1] \in Named' \cup abandoned'
  <2>1. CASE x[1] = g
    <3>1. x \in Nat \X Nat /\ x[2] < job[p].index /\ x[2] >= 1
      BY <1>3, <1>4, <2>1 DEF SaveInv, StoredNamed, Writing, StoredOf
    <3>2. x = <<g, x[2]>> /\ x[2] \in 1 .. (job[p].index - 1)
      BY <1>3, <2>1, <3>1
    <3>3. x \in written
      BY <3>2
    <3>4. x \in kept
      BY <1>1, <3>3
    <3>5. QED
      BY <1>1, <2>1, <3>4
  <2>2. CASE x[1] # g
    BY <1>2, <1>4, <2>2 DEF SaveInv, Accounted, Named
  <2>3. QED
    BY <2>1, <2>2
<1>8. QED
  BY <1>2, <1>5, <1>6, <1>7, EndSaves

LEMMA TidiedSaves ==
  ASSUME StoreInv, NEW p \in Processes, SaveInv(p), Tidied(p)
  PROVE  SaveInv(p)'
<1> DEFINE j == job[p]
           m == Manifest(j.next.current, j.remaining)
<1>1. /\ pc[p] = "save_tidy" /\ j.sets = <<>> /\ Return(p)
      /\ manifest' \in {manifest, m}
      /\ UNCHANGED <<stored, size, condemned, abandoned>>
  BY DEF Tidied, Cleaned
<1>2. /\ j.next = manifest /\ IsManifest(manifest) /\ Removing("save_tidy", j)
      /\ j.remaining \in Seq(Nat) /\ j.sets \in Seq(Nat)
  BY <1>1, Locals DEF SaveInv, Knows, Cleaning
<1>3. /\ m.current = manifest.current /\ m.obsolete = j.remaining /\ IsManifest(m)
  BY <1>2 DEF Manifest, IsManifest
<1>4. \A x \in stored : x[1] \in Named \cup abandoned
  BY <1>1 DEF SaveInv, Accounted
<1>5. ASSUME NEW x \in stored', manifest' = m PROVE x[1] \in Named' \cup abandoned'
  <2>1. DOMAIN j.remaining = 1..Len(j.remaining)
    BY <1>2
  <2>2. Named' = {manifest.current} \cup InList(j.remaining)
    BY <1>3, <1>5, <2>1 DEF Named, InList
  <2>3. Named = {manifest.current} \cup InList(manifest.obsolete)
    BY <1>2, NamedIs, Here DEF NamedBy
  <2>4. x[1] \in InList(manifest.obsolete) => x[1] \in InList(j.remaining)
    <3>1. InList(j.sets) = {}
      BY <1>1, <1>2, ListFacts
    <3>2. TakenOn("save_tidy", j) = InList(manifest.obsolete)
      BY <1>2 DEF TakenOn
    <3>3. x \in StoredOf(x[1])
      BY <1>1 DEF StoredOf
    <3>4. QED
      BY <1>2, <3>1, <3>2, <3>3 DEF Removing
  <2>5. QED
    BY <1>1, <1>4, <2>2, <2>3, <2>4
<1>6. manifest' = manifest => \A x \in stored' : x[1] \in Named' \cup abandoned'
  BY <1>1, <1>4 DEF Named
<1>7. manifest'.current = manifest.current
  BY <1>1, <1>3
<1> HIDE DEF m, j
<1>8. StoredNamed' /\ CurrentNamed' /\ SavedStaysReadable'
  BY <1>1, <1>2, <1>7 DEF SaveInv, StoredNamed, CurrentNamed, SavedStaysReadable, Loads, Chunks
<1>9. QED
  BY <1>1, <1>5, <1>6, <1>8, EndSaves

LEMMA DeleteManifestSaves ==
  ASSUME StoreInv, NEW p \in Processes, SaveInv(p), DeleteManifest(p)
  PROVE  SaveInv(p)'
<1> DEFINE j == job[p]
<1>1. /\ pc[p] = "delete_clean" /\ j.sets = <<>> /\ Return(p)
      /\ manifest' = manifest \/ (j.remaining = <<>> /\ manifest' = Absent)
      /\ UNCHANGED <<stored, size, condemned, abandoned>>
  BY DEF DeleteManifest, Cleaned
<1>2. /\ j.seen = manifest /\ IsManifest(manifest) /\ Removing("delete_clean", j)
      /\ j.remaining \in Seq(Nat) /\ j.sets \in Seq(Nat)
  BY <1>1, Locals DEF SaveInv, Knows, Cleaning
<1>3. \A x \in stored : x[1] \in Named \cup abandoned
  BY <1>1 DEF SaveInv, Accounted
<1>4. CASE manifest' = manifest
  <2>1. StoredNamed' /\ CurrentNamed' /\ SavedStaysReadable'
    BY <1>1, <1>4 DEF SaveInv, StoredNamed, CurrentNamed, SavedStaysReadable, Loads, Chunks
  <2>2. \A x \in stored' : x[1] \in Named' \cup abandoned'
    BY <1>1, <1>3, <1>4 DEF Named
  <2>3. QED
    BY <1>1, <2>1, <2>2, EndSaves
<1>5. CASE j.remaining = <<>> /\ manifest' = Absent
  <2>1. ~ IsManifest(manifest')
    BY <1>5 DEF IsManifest, Absent
  <2>2. StoredNamed' /\ CurrentNamed' /\ SavedStaysReadable'
    BY <1>1, <2>1 DEF SaveInv, StoredNamed, CurrentNamed, SavedStaysReadable
  <2>3. ASSUME NEW x \in stored PROVE x[1] \in abandoned
    <3>1. InList(j.sets) = {} /\ InList(j.remaining) = {}
      BY <1>1, <1>2, <1>5, ListFacts
    <3>2. TakenOn("delete_clean", j) = Named
      BY <1>2, NamedIs, Here DEF TakenOn
    <3>3. x \in StoredOf(x[1])
      BY DEF StoredOf
    <3>4. x[1] \notin Named
      BY <1>2, <3>1, <3>2, <3>3 DEF Removing
    <3>5. QED
      BY <1>3, <3>4
  <2>4. QED
    BY <1>1, <2>2, <2>3, EndSaves
<1>6. QED
  BY <1>1, <1>4, <1>5

LEMMA LeavesSaves ==
  ASSUME StoreInv, NEW p \in Processes, SaveInv(p), SaveRefused(p) \/ Crash(p)
  PROVE  SaveInv(p)'
<1>1. Return(p) /\ UNCHANGED <<manifest, stored, size, condemned>>
  BY DEF SaveRefused, Crash
<1>2. StoredNamed' /\ CurrentNamed' /\ SavedStaysReadable'
  BY <1>1 DEF SaveInv, StoredNamed, CurrentNamed, SavedStaysReadable, Loads, Chunks
<1>3. \A x \in stored' : x[1] \in Named' \cup abandoned'
  BY <1>1 DEF SaveInv, Accounted, Named, SaveRefused, Crash
<1>4. QED
  BY <1>1, <1>2, <1>3, EndSaves

\* With one process on the account, whatever call of the service fails and
\* wherever the process is killed: the credential of the last save can be
\* loaded until a delete sets out to remove it, and every chunk that is stored
\* is one the manifest, the save under way or the list of abandoned saves
\* accounts for.  Two processes can break it (run storage_shared).
THEOREM SavesAlwaysSound ==
  ASSUME \A p, q \in Processes : p = q
  PROVE  Spec => []SavesSound
<1> DEFINE Inv == /\ StoredNamed /\ CurrentNamed /\ SavesSound
                  /\ \A p \in Processes : SaveInv(p)
<1>1. Init => Inv
  <2>1. SUFFICES ASSUME Init PROVE Inv
    OBVIOUS
  <2>2. stored = {} /\ ~ IsManifest(manifest) /\ \A p \in Processes : pc[p] = "idle"
    BY <2>1 DEF Init, IsManifest, Absent, Foreign
  <2>3. QED
    BY <2>2 DEF SavesSound, SaveInv, StoredNamed, CurrentNamed, SavedStaysReadable, NothingForgotten, Accounted,
       Knows, Cleaning
<1>2. StoreInv /\ Inv /\ [Next]_vars => Inv'
  <2>1. SUFFICES ASSUME StoreInv, Inv, [Next]_vars PROVE Inv'
    OBVIOUS
  <2>2. CASE UNCHANGED vars
    <3>1. UNCHANGED <<manifest, stored, size, pc, job, condemned, abandoned>>
      BY <2>2 DEF vars
    <3>2. ASSUME NEW p \in Processes PROVE SaveInv(p)'
      <4>1. SaveInv(p)
        BY <2>1
      <4>2. /\ Removing(pc[p], job[p])' <=> Removing(pc[p], job[p])
            /\ Writing(pc[p], job[p])' <=> Writing(pc[p], job[p])
        BY <3>1 DEF Removing, Writing, TakenOn, StoredOf
      <4>3. Knows(pc[p], job[p])'
        BY <3>1, <4>1, <4>2 DEF SaveInv, Knows
      <4>4. Accounted(pc[p], job[p])'
        BY <3>1, <4>1 DEF SaveInv, Accounted, Named
      <4>5. QED
        BY <3>1, <4>1, <4>3, <4>4
           DEF SaveInv, StoredNamed, CurrentNamed, SavedStaysReadable, Loads, Chunks
    <3>3. StoredNamed' /\ CurrentNamed' /\ SavedStaysReadable' /\ NothingForgotten'
      BY <2>1, <3>1 DEF SavesSound, StoredNamed, CurrentNamed, SavedStaysReadable, Loads, Chunks,
         NothingForgotten, Named
    <3>4. QED
      BY <3>2, <3>3 DEF SavesSound
  <2>3. ASSUME NEW p \in Processes, Step(p) PROVE Inv'
    <3>1. SaveInv(p)'
      BY <2>1, <2>3, CleanChunkSaves, CleanSetSaves, SaveReadSaves, SaveBeginSaves, LeavesSaves,
         WriteChunkSaves, WriteManifestSaves, WriteFailsSaves, UndoChunksSaves, TidiedSaves,
         DeleteReadSaves, DeleteManifestSaves DEF Step
    <3>2. NothingForgotten'
      BY <3>1 DEF SaveInv, Accounted, NothingForgotten
    <3>3. \A q \in Processes : SaveInv(q)'
      BY <3>1
    <3>4. QED
      BY <3>1, <3>2, <3>3 DEF SaveInv, SavesSound
  <2>4. QED
    BY <2>1, <2>2, <2>3 DEF Next
<1>3. Inv => SavesSound
  OBVIOUS
<1>4. QED
  BY <1>1, <1>2, <1>3, Inductive, PTL DEF Spec

-----------------------------------------------------------------------------
(* Profiles: the document under the lock, and the credentials beside it. *)

Profiles == [domain : Domains \cup {"none"}, id : Nat]
Documents == [device : Nat, profiles : [Names -> Profiles]]
Drafts == Documents \cup {<<>>}
EntryValues == Domains \cup {"none", "broken"}

DeviceSteps == {"device_load", "device_update", "device_commit"}
SeenSteps == {"set_delete", "set_update", "remove_delete", "remove_update", "logout_delete",
              "logout_update", "login_authenticate", "login_ensure", "connect_load",
              "connect_refresh"}
DeletingSteps == {"set_delete", "remove_delete", "logout_delete"}
Doings == {"idle", "panicked", "login_save"} \cup DeviceSteps \cup SeenSteps \cup Updating \cup Committing

ProfileJobs ==
    [name : Names \cup {"none"}, domain : Domains \cup {"kept"}, changed : BOOLEAN,
     seen : Profiles, id : Nat, device : Int, base : Drafts, draft : Drafts]

ProfileTypes ==
    /\ document \in Documents /\ ids \in Nat /\ ids <= MaxIds /\ devices \in Nat
    /\ entries \in [1..MaxIds -> EntryValues]
    /\ doing \in [Instances -> Doings] /\ locals \in [Instances -> ProfileJobs]
    /\ alone \in BOOLEAN

\* A draft was made of the document there is, by the one that has the lock.
LockFollows ==
    \A p \in Instances : doing[p] \in Committing =>
        lock = p /\ locals[p].base = document /\ locals[p].draft \in Documents

StepsNamed ==
    \A p \in Instances :
        /\ doing[p] = "idle" => locals[p] = NoJob
        /\ doing[p] \notin {"idle"} \cup DeviceSteps => locals[p].name \in Names

\* Whatever draft is committed keeps the Device ID that anybody got.
DevicesFollow ==
    /\ \A x \in returned : x = document.device /\ x # 0
    /\ \A p \in Instances : doing[p] \in Committing =>
          /\ document.device # 0 => locals[p].draft.device = document.device
          /\ doing[p] = "device_commit" => locals[p].draft.device # 0

\* Every saved credential is one of a profile of this document, with the domain
\* it was saved for, and no two profiles have the same.
Owns(doc) ==
    /\ \A n \in Names : doc.profiles[n].id <= ids
    /\ \A n, m \in Names : n # m /\ doc.profiles[n].id = doc.profiles[m].id => doc.profiles[n].id = 0
    /\ \A i \in 1..MaxIds : entries[i] # "none" =>
          \E n \in Names : doc.profiles[n].id = i /\ entries[i] \in {"broken", doc.profiles[n].domain}

\* What a command that runs alone may rely on at step d with locals j: the
\* profile it loaded is still the document's, a credential is deleted before
\* the profile forgets it, and the draft owns what is saved as well.
Steady(d, j) ==
    /\ d \in SeenSteps => j.seen = document.profiles[j.name]
    /\ d \in DeviceSteps /\ j.name # "none" =>
          j.seen = document.profiles[j.name] /\ j.seen = NoProfile /\ ~ j.changed
    /\ d = "device_commit" => j.draft.profiles = document.profiles
    /\ d \in {"set_delete", "set_update"} /\ Exists(j.seen) /\ ~ j.changed =>
          j.domain \in {"kept", j.seen.domain}
    /\ d \in DeletingSteps \cup {"connect_load", "connect_refresh"} => j.seen.id # 0
    /\ /\ (d = "set_update" /\ j.changed) \/ d \in {"remove_update", "logout_update"}
       /\ j.seen.id # 0
       => entries[j.seen.id] = "none"
    /\ d = "ensure_commit" => /\ j.draft.profiles[j.name].id # 0
                              /\ j.draft.profiles[j.name].domain = j.seen.domain
    /\ d = "login_save" => /\ j.id # 0 /\ document.profiles[j.name].id = j.id
                           /\ document.profiles[j.name].domain = j.seen.domain
    /\ d \in Committing => Owns(j.draft)

OneBusy == \A p, q \in Instances : doing[p] # "idle" /\ doing[q] # "idle" => p = q

AloneFollows ==
    alone => /\ OneBusy /\ Owns(document) /\ SentToOwner
             /\ \A p \in Instances : Steady(doing[p], locals[p])

ProfileInv == ProfileTypes /\ LockFollows /\ StepsNamed /\ DevicesFollow /\ AloneFollows

\* A command that is not running has no locals.
LEMMA NoJobTyped == NoJob \in ProfileJobs /\ NoProfile \in Profiles
<1>1. NoProfile \in Profiles
  BY DEF NoProfile, Profiles
<1>2. NoJob = [name |-> "none", domain |-> "kept", changed |-> FALSE, seen |-> NoProfile,
               id |-> 0, device |-> 0, base |-> <<>>, draft |-> <<>>]
  BY DEF NoJob
<1>3. <<>> \in Drafts
  BY DEF Drafts
<1>4. NoJob \in ProfileJobs
  BY <1>1, <1>2, <1>3 DEF ProfileJobs
<1>5. QED
  BY <1>1, <1>4

\* A process that rests relies on nothing.
LEMMA IdleSteady == ASSUME NEW j PROVE Steady("idle", j) /\ Steady("panicked", j)
BY DEF Steady, SeenSteps, DeviceSteps, DeletingSteps, Committing

\* There are no profiles at first.
LEMMA ProfilesStart == ProfileInit => ProfileInv
<1> SUFFICES ASSUME ProfileInit PROVE ProfileInv
  OBVIOUS
<1> USE DEF ProfileInit
<1>1. NoJob \in ProfileJobs /\ NoProfile \in Profiles /\ NoProfile.id = 0 /\ "idle" \in Doings
      /\ "none" \in EntryValues
  BY NoJobTyped DEF NoProfile, Doings, EntryValues
<1>2. document \in Documents
  BY <1>1 DEF Documents
<1>3. ProfileTypes
  BY <1>1, <1>2, ProfileAssumption DEF ProfileTypes
<1>4. LockFollows /\ StepsNamed /\ DevicesFollow
  BY DEF LockFollows, StepsNamed, DevicesFollow, Committing
<1>5. Owns(document)
  BY <1>1 DEF Owns
<1>6. AloneFollows
  BY <1>5, IdleSteady DEF AloneFollows, OneBusy, SentToOwner
<1>7. QED
  BY <1>3, <1>4, <1>6 DEF ProfileInv

\* A command's step leaves the other processes alone.
LEMMA OneCommand ==
    ASSUME ProfileInv, NEW p \in Instances, NEW d \in Doings, NEW j \in ProfileJobs,
           doing' = [doing EXCEPT ![p] = d], locals' = [locals EXCEPT ![p] = j]
    PROVE  /\ doing' \in [Instances -> Doings] /\ locals' \in [Instances -> ProfileJobs]
           /\ doing'[p] = d /\ locals'[p] = j
           /\ \A q \in Instances : q # p => doing'[q] = doing[q] /\ locals'[q] = locals[q]
BY DEF ProfileInv, ProfileTypes

\* What a step has to show of a command that runs alone.
LEMMA AloneMoves ==
    ASSUME ProfileInv, NEW p \in Instances, NEW d \in Doings, NEW j \in ProfileJobs,
           doing' = [doing EXCEPT ![p] = d], locals' = [locals EXCEPT ![p] = j],
           alone' => alone,
           alone' => doing[p] # "idle" \/ \A q \in Instances : doing[q] = "idle",
           alone' => Owns(document)' /\ SentToOwner' /\ Steady(d, j)'
    PROVE  AloneFollows'
<1>0. AloneFollows
  BY DEF ProfileInv
<1>1. /\ doing'[p] = d /\ locals'[p] = j
      /\ \A q \in Instances : q # p => doing'[q] = doing[q] /\ locals'[q] = locals[q]
  BY OneCommand
<1> SUFFICES ASSUME alone'
             PROVE  /\ OneBusy' /\ Owns(document)' /\ SentToOwner'
                    /\ (\A q \in Instances : Steady(doing[q], locals[q]))'
  BY DEF AloneFollows
<1>2. \A q \in Instances : q # p => doing'[q] = "idle"
  BY <1>0, <1>1 DEF AloneFollows, OneBusy
<1>3. OneBusy'
  BY <1>2 DEF OneBusy
<1>4. ASSUME NEW q \in Instances PROVE Steady(doing[q], locals[q])'
  <2>1. CASE q = p
    BY <1>1, <2>1 DEF Steady
  <2>2. CASE q # p
    <3>1. doing'[q] = "idle"
      BY <1>2, <2>2
    <3>2. QED
      BY <3>1 DEF Steady, SeenSteps, DeviceSteps, DeletingSteps, Committing
  <2>3. QED
    BY <2>1, <2>2
<1>5. QED
  BY <1>3, <1>4

\* What a step with the document at rest has to show.
LEMMA CommandMoves ==
    ASSUME ProfileInv, NEW p \in Instances, NEW d \in Doings, NEW j \in ProfileJobs,
           doing' = [doing EXCEPT ![p] = d], locals' = [locals EXCEPT ![p] = j],
           UNCHANGED <<document, ids, devices>>, lock' = lock \/ lock = p, d \notin Committing,
           d = "idle" => j = NoJob, d \notin {"idle"} \cup DeviceSteps => j.name \in Names,
           \A x \in returned' : x \in returned \/ (x = document.device /\ x # 0),
           entries' \in [1..MaxIds -> EntryValues],
           alone' \in BOOLEAN, alone' => alone,
           alone' => doing[p] # "idle" \/ \A q \in Instances : doing[q] = "idle",
           alone' => Owns(document)' /\ SentToOwner' /\ Steady(d, j)'
    PROVE  ProfileInv'
<1>0. ProfileTypes /\ LockFollows /\ StepsNamed /\ DevicesFollow
  BY DEF ProfileInv
<1>1. /\ doing' \in [Instances -> Doings] /\ locals' \in [Instances -> ProfileJobs]
      /\ doing'[p] = d /\ locals'[p] = j
      /\ \A q \in Instances : q # p => doing'[q] = doing[q] /\ locals'[q] = locals[q]
  BY OneCommand
<1>2. ProfileTypes'
  BY <1>0, <1>1 DEF ProfileTypes
<1>3. LockFollows'
  BY <1>0, <1>1 DEF LockFollows
<1>4. StepsNamed'
  BY <1>0, <1>1 DEF StepsNamed
<1>5. DevicesFollow'
  BY <1>0, <1>1 DEF DevicesFollow
<1>6. AloneFollows'
  BY AloneMoves
<1>7. QED
  BY <1>2, <1>3, <1>4, <1>5, <1>6 DEF ProfileInv

\* What the end of an update has to show: the draft was made of the document
\* there still is, and owns what is saved.
LEMMA DocumentReplaced ==
    ASSUME ProfileInv, NEW p \in Instances, NEW d \in Doings, NEW j \in ProfileJobs,
           doing[p] \in Committing,
           doing' = [doing EXCEPT ![p] = d], locals' = [locals EXCEPT ![p] = j],
           UNCHANGED <<entries, ids, devices, alone, presented>>,
           document' \in {document, locals[p].draft}, d \notin Committing,
           d = "idle" => j = NoJob, d \notin {"idle"} \cup DeviceSteps => j.name \in Names,
           \A x \in returned' : x \in returned \/ (x = document'.device /\ x # 0),
           alone => Steady(d, j)'
    PROVE  ProfileInv'
<1>0. ProfileTypes /\ LockFollows /\ StepsNamed /\ DevicesFollow /\ AloneFollows
  BY DEF ProfileInv
<1>1. /\ doing' \in [Instances -> Doings] /\ locals' \in [Instances -> ProfileJobs]
      /\ doing'[p] = d /\ locals'[p] = j
      /\ \A q \in Instances : q # p => doing'[q] = doing[q] /\ locals'[q] = locals[q]
  BY OneCommand
<1>2. locals[p].draft \in Documents
  BY <1>0 DEF LockFollows
<1>3. ProfileTypes'
  BY <1>0, <1>1, <1>2 DEF ProfileTypes
<1>4. \A q \in Instances : doing'[q] \notin Committing
  BY <1>0, <1>1 DEF LockFollows
<1>5. LockFollows'
  BY <1>4 DEF LockFollows
<1>6. StepsNamed'
  BY <1>0, <1>1 DEF StepsNamed
<1>7. document.device # 0 => document'.device = document.device
  BY <1>0 DEF DevicesFollow
<1>8. DevicesFollow'
  BY <1>0, <1>4, <1>7 DEF DevicesFollow
<1>9. ASSUME alone PROVE Owns(document)'
  <2>1. Owns(document) /\ Owns(locals[p].draft)
    BY <1>0, <1>9 DEF AloneFollows, Steady
  <2>2. QED
    BY <2>1 DEF Owns
<1>10. alone => SentToOwner'
  BY <1>0 DEF AloneFollows, SentToOwner
<1>11. doing[p] # "idle"
  BY DEF Committing
<1>12. AloneFollows'
  BY <1>9, <1>10, <1>11, AloneMoves
<1>13. QED
  BY <1>3, <1>5, <1>6, <1>8, <1>12 DEF ProfileInv

\* A saved credential that is deleted, damaged, or replaced by one for the
\* domain of the profile that has it, stays owned.
LEMMA EntryKept ==
    ASSUME ProfileTypes, Owns(document), NEW i, NEW v, UNCHANGED <<document, ids>>,
           entries' = [entries EXCEPT ![i] = v],
           \/ v = "none" \/ (v = "broken" /\ entries[i] # "none")
           \/ \E n \in Names : document.profiles[n].id = i /\ v = document.profiles[n].domain
    PROVE  Owns(document)'
<1>1. \A k \in 1..MaxIds : entries'[k] = IF k = i THEN v ELSE entries[k]
  BY DEF ProfileTypes
<1>2. ASSUME NEW k \in 1..MaxIds, entries'[k] # "none"
      PROVE  \E n \in Names : document.profiles[n].id = k
                              /\ entries'[k] \in {"broken", document.profiles[n].domain}
  BY <1>1, <1>2 DEF Owns
<1>3. QED
  BY <1>2 DEF Owns

\* A command that ends leaves what is saved with its profile.
LEMMA CommandEnds ==
    ASSUME ProfileInv, NEW p \in Instances, doing[p] # "idle", Exit(p),
           UNCHANGED <<document, ids, devices, alone, returned, presented>>,
           lock' = lock \/ lock = p,
           entries' \in [1..MaxIds -> EntryValues], alone => Owns(document)'
    PROVE  ProfileInv'
<1>0. AloneFollows /\ ProfileTypes
  BY DEF ProfileInv
<1>1. "idle" \in Doings /\ "idle" \notin Committing /\ NoJob \in ProfileJobs
  BY NoJobTyped DEF Doings, Committing
<1>2. alone => SentToOwner'
  BY <1>0 DEF AloneFollows, SentToOwner
<1>3. Steady("idle", NoJob)'
  BY DEF Steady, SeenSteps, DeviceSteps, DeletingSteps, Committing
<1>4. doing' = [doing EXCEPT ![p] = "idle"] /\ locals' = [locals EXCEPT ![p] = NoJob]
  BY DEF Exit
<1>5. alone' \in BOOLEAN
  BY <1>0 DEF ProfileTypes
<1>6. QED
  BY <1>1, <1>2, <1>3, <1>4, <1>5, CommandMoves

LEMMA OwnershipRests ==
    ASSUME ProfileInv, UNCHANGED <<document, ids, entries>>
    PROVE  entries' \in [1..MaxIds -> EntryValues] /\ (alone => Owns(document)')
BY DEF ProfileInv, ProfileTypes, AloneFollows, Owns

\* A command that loads the document sees the profile as it is.
LEMMA CommandStarts ==
    ASSUME ProfileInv, NEW p \in Instances, NEW n \in Names,
           NEW to \in {"remove_delete", "remove_update", "logout_delete", "login_authenticate",
                       "connect_load"},
           to \in {"remove_delete", "logout_delete", "connect_load"} => document.profiles[n].id # 0,
           to = "remove_update" => document.profiles[n].id = 0,
           Start(p, n, to)
    PROVE  ProfileInv'
<1>0. AloneFollows /\ ProfileTypes
  BY DEF ProfileInv
<1>1. PICK j : j = [NoJob EXCEPT !.name = n, !.seen = document.profiles[n]]
  OBVIOUS
<1>2. document.profiles[n] \in Profiles
  BY <1>0 DEF ProfileTypes, Documents
<1>3. j \in ProfileJobs /\ j.name = n /\ j.seen = document.profiles[n]
  BY <1>1, <1>2, NoJobTyped DEF ProfileJobs, NoJob
<1>4. to \in Doings /\ to \notin Committing /\ to # "idle" /\ to \notin DeviceSteps
  BY DEF Doings, Committing, DeviceSteps, SeenSteps
<1>5. /\ doing' = [doing EXCEPT ![p] = to] /\ locals' = [locals EXCEPT ![p] = j]
      /\ UNCHANGED <<document, lock, entries, ids, devices, returned, presented>>
      /\ alone' = (alone /\ \A q \in Instances : doing[q] = "idle")
  BY <1>1 DEF Start, Moves, Begins, storeVars, history
<1>6. /\ alone' \in BOOLEAN /\ (alone' => alone)
      /\ (alone' => \A q \in Instances : doing[q] = "idle")
  BY <1>0, <1>5 DEF ProfileTypes
<1>7. entries' \in [1..MaxIds -> EntryValues] /\ (alone => Owns(document)')
  BY <1>5, OwnershipRests
<1>8. alone => SentToOwner'
  BY <1>0, <1>5 DEF AloneFollows, SentToOwner
<1>9. Steady(to, j)'
  BY <1>3, <1>5 DEF Steady, SeenSteps, DeviceSteps, DeletingSteps, Committing
<1>10. QED
  BY <1>3, <1>4, <1>5, <1>6, <1>7, <1>8, <1>9, CommandMoves

\* remove, logout, login, and connect load the document.
LEMMA LoadedByCommand ==
    ASSUME ProfileInv, NEW p \in Instances,
           RemoveBegins(p) \/ LogoutBegins(p) \/ LoginBegins(p) \/ ConnectBegins(p)
    PROVE  ProfileInv'
<1>1. CASE RemoveBegins(p)
  <2>1. PICK n \in Names :
           Start(p, n, IF document.profiles[n].id # 0 THEN "remove_delete" ELSE "remove_update")
    BY <1>1 DEF RemoveBegins
  <2>2. PICK to : to = IF document.profiles[n].id # 0 THEN "remove_delete" ELSE "remove_update"
    OBVIOUS
  <2>3. Start(p, n, to)
    BY <2>1, <2>2
  <2>4. QED
    BY <2>2, <2>3, CommandStarts
<1>2. CASE LogoutBegins(p)
  <2>1. PICK n \in Names : document.profiles[n].id # 0 /\ Start(p, n, "logout_delete")
    BY <1>2 DEF LogoutBegins
  <2>2. QED
    BY <2>1, CommandStarts
<1>3. CASE LoginBegins(p)
  <2>1. PICK n \in Names : Start(p, n, "login_authenticate")
    BY <1>3 DEF LoginBegins
  <2>2. QED
    BY <2>1, CommandStarts
<1>4. CASE ConnectBegins(p)
  <2>1. PICK n \in Names : document.profiles[n].id # 0 /\ Start(p, n, "connect_load")
    BY <1>4 DEF ConnectBegins
  <2>2. QED
    BY <2>1, CommandStarts
<1>5. QED
  BY <1>1, <1>2, <1>3, <1>4

\* set deletes the credential when what it was saved for changes.
LEMMA LoadedBySet == ASSUME ProfileInv, NEW p \in Instances, SetBegins(p) PROVE ProfileInv'
<1>0. AloneFollows /\ ProfileTypes
  BY DEF ProfileInv
<1>1. PICK n \in Names, domain \in Domains \cup {"kept"}, other \in BOOLEAN, given \in BOOLEAN :
         LET seen == document.profiles[n]
             changed == AuthenticationChanged(seen, domain, other) IN
         /\ locals' = [locals EXCEPT ![p] = [NoJob EXCEPT !.name = n, !.domain = domain,
                       !.seen = seen, !.changed = changed, !.device = IF given THEN -1 ELSE 0]]
         /\ doing' = [doing EXCEPT ![p] =
               IF ~Exists(seen) /\ ~given THEN "device_load"
               ELSE IF changed /\ seen.id # 0 THEN "set_delete" ELSE "set_update"]
  BY DEF SetBegins
<1>2. PICK seen : seen = document.profiles[n]
  OBVIOUS
<1>3. PICK changed \in BOOLEAN : changed = AuthenticationChanged(seen, domain, other)
  BY DEF AuthenticationChanged, Exists
<1>4. PICK dev \in Int : dev = IF given THEN -1 ELSE 0
  OBVIOUS
<1>5. PICK j : j = [NoJob EXCEPT !.name = n, !.domain = domain, !.seen = seen,
                                 !.changed = changed, !.device = dev]
  OBVIOUS
<1>6. PICK d : d = IF ~Exists(seen) /\ ~given THEN "device_load"
                   ELSE IF changed /\ seen.id # 0 THEN "set_delete" ELSE "set_update"
  OBVIOUS
<1>7. doing' = [doing EXCEPT ![p] = d] /\ locals' = [locals EXCEPT ![p] = j]
  BY <1>1, <1>2, <1>3, <1>4, <1>5, <1>6
<1>8. seen \in Profiles
  BY <1>0, <1>2 DEF ProfileTypes, Documents
<1>9. /\ j \in ProfileJobs /\ j.name = n /\ j.seen = seen /\ j.changed = changed
      /\ j.domain = domain
  BY <1>5, <1>8, NoJobTyped DEF ProfileJobs, NoJob
<1>10. /\ d \in {"device_load", "set_delete", "set_update"}
       /\ d \in Doings /\ d \notin Committing /\ d # "idle"
  BY <1>6 DEF Doings, Committing, DeviceSteps, SeenSteps
<1>11. /\ UNCHANGED <<document, lock, entries, ids, devices, returned, presented>>
       /\ alone' = (alone /\ \A q \in Instances : doing[q] = "idle")
  BY DEF SetBegins, Begins, storeVars, history
<1>12. /\ alone' \in BOOLEAN /\ (alone' => alone)
       /\ (alone' => \A q \in Instances : doing[q] = "idle")
  BY <1>0, <1>11 DEF ProfileTypes
<1>13. entries' \in [1..MaxIds -> EntryValues] /\ (alone => Owns(document)')
  BY <1>11, OwnershipRests
<1>14. alone => SentToOwner'
  BY <1>0, <1>11 DEF AloneFollows, SentToOwner
<1>15. Steady(d, j)'
  <2>1. d = "device_load" => seen = NoProfile /\ ~ changed
    BY <1>3, <1>6 DEF Exists, AuthenticationChanged
  <2>2. Exists(seen) /\ ~ changed => domain \in {"kept", seen.domain}
    BY <1>3 DEF AuthenticationChanged
  <2>3. /\ d = "set_delete" => seen.id # 0
        /\ d = "set_update" /\ changed => seen.id = 0
    BY <1>3, <1>6 DEF AuthenticationChanged
  <2>4. seen = document'.profiles[n]
    BY <1>2, <1>11
  <2>5. QED
    BY <1>9, <1>10, <2>1, <2>2, <2>3, <2>4
       DEF Steady, SeenSteps, DeviceSteps, DeletingSteps, Committing
<1>16. QED
  BY <1>7, <1>9, <1>10, <1>11, <1>12, <1>13, <1>14, <1>15, CommandMoves

\* What a credential's account is when its command works on it.
LEMMA SeenTyped ==
    ASSUME ProfileInv, NEW p \in Instances
    PROVE  /\ locals[p] \in ProfileJobs /\ locals[p].seen \in Profiles
           /\ alone /\ doing[p] \in SeenSteps =>
                 /\ locals[p].name \in Names /\ locals[p].seen = document.profiles[locals[p].name]
                 /\ locals[p].seen.id <= MaxIds
<1>0. ProfileTypes /\ StepsNamed /\ AloneFollows
  BY DEF ProfileInv
<1>1. locals[p] \in ProfileJobs
  BY <1>0 DEF ProfileTypes
<1>2. locals[p].seen \in Profiles
  BY <1>1 DEF ProfileJobs
<1>3. ASSUME alone, doing[p] \in SeenSteps
      PROVE  /\ locals[p].name \in Names /\ locals[p].seen = document.profiles[locals[p].name]
             /\ locals[p].seen.id <= MaxIds
  <2>1. locals[p].name \in Names
    BY <1>0, <1>3 DEF StepsNamed, SeenSteps, DeviceSteps
  <2>2. locals[p].seen = document.profiles[locals[p].name]
    BY <1>0, <1>3 DEF AloneFollows, Steady
  <2>3. Owns(document) /\ ids <= MaxIds /\ ids \in Nat /\ MaxIds \in Nat
    BY <1>0, <1>3, ProfileAssumption DEF AloneFollows, ProfileTypes
  <2>4. locals[p].seen.id <= ids /\ locals[p].seen.id \in Nat
    BY <1>2, <2>1, <2>2, <2>3 DEF Owns, Profiles
  <2>5. QED
    BY <2>1, <2>2, <2>3, <2>4
<1>4. QED
  BY <1>1, <1>2, <1>3

\* An account keeps its type whatever is saved there.
LEMMA EntryTyped ==
    ASSUME ProfileInv, NEW i, NEW v \in EntryValues, entries' = [entries EXCEPT ![i] = v]
    PROVE  entries' \in [1..MaxIds -> EntryValues]
BY DEF ProfileInv, ProfileTypes

\* A delete that succeeds comes before the profile forgets the credential.
LEMMA CredentialDeleted ==
    ASSUME ProfileInv, NEW p \in Instances, DeleteCredential(p) PROVE ProfileInv'
<1>0. AloneFollows /\ ProfileTypes /\ StepsNamed
  BY DEF ProfileInv
<1>1. PICK d \in {"set_update", "remove_update", "logout_update"} :
         /\ doing' = [doing EXCEPT ![p] = d]
         /\ <<doing[p], d>> \in {<<"set_delete", "set_update">>, <<"remove_delete", "remove_update">>,
                                 <<"logout_delete", "logout_update">>}
  BY DEF DeleteCredential, Moves
<1>2. PICK j : j = locals[p]
  OBVIOUS
<1>3. /\ locals' = [locals EXCEPT ![p] = j] /\ entries' = [entries EXCEPT ![j.seen.id] = "none"]
      /\ UNCHANGED <<document, lock, ids, devices, alone, returned, presented>>
  BY <1>0, <1>2 DEF DeleteCredential, DeletedEntry, ProfileTypes, begun, history
<1>4. /\ j \in ProfileJobs /\ j.seen \in Profiles
      /\ alone => j.name \in Names /\ j.seen = document.profiles[j.name] /\ j.seen.id <= MaxIds
  BY <1>1, <1>2, SeenTyped DEF SeenSteps
<1>5. d \in Doings /\ d \notin Committing /\ d # "idle" /\ j.name \in Names /\ doing[p] # "idle"
  BY <1>0, <1>1, <1>2 DEF Doings, Committing, SeenSteps, StepsNamed, DeviceSteps
<1>6. entries' \in [1..MaxIds -> EntryValues]
  BY <1>3, EntryTyped DEF EntryValues
<1>7. alone => Owns(document)'
  BY <1>0, <1>3, EntryKept DEF AloneFollows
<1>8. alone => SentToOwner'
  BY <1>0, <1>3 DEF AloneFollows, SentToOwner
<1>9. ASSUME alone PROVE Steady(d, j)'
  <2>1. j.seen.id # 0 /\ j.seen.id \in Nat /\ MaxIds \in Nat
    BY <1>0, <1>1, <1>2, <1>4, <1>9, ProfileAssumption DEF AloneFollows, Steady, DeletingSteps, Profiles
  <2>2. entries'[j.seen.id] = "none"
    BY <1>0, <1>3, <1>4, <1>9, <2>1 DEF ProfileTypes
  <2>3. d = "set_update" /\ Exists(j.seen) /\ ~ j.changed => j.domain \in {"kept", j.seen.domain}
    BY <1>0, <1>1, <1>2, <1>9 DEF AloneFollows, Steady
  <2>4. j.seen = document'.profiles[j.name]
    BY <1>3, <1>4, <1>9
  <2>5. QED
    BY <2>2, <2>3, <2>4 DEF Steady, SeenSteps, DeviceSteps, DeletingSteps, Committing
<1>10. alone' \in BOOLEAN /\ alone' = alone
  BY <1>0, <1>3 DEF ProfileTypes
<1>11. doing' = [doing EXCEPT ![p] = d] /\ locals' = [locals EXCEPT ![p] = j] /\ j \in ProfileJobs
  BY <1>1, <1>3, <1>4
<1>12. UNCHANGED <<document, lock, ids, devices, returned>>
  BY <1>3
<1>13. QED
  BY <1>5, <1>6, <1>7, <1>8, <1>9, <1>10, <1>11, <1>12, CommandMoves

\* A delete that fails leaves the credential with its profile, damaged perhaps.
LEMMA DeletionFailed == ASSUME ProfileInv, NEW p \in Instances, DeleteFails(p) PROVE ProfileInv'
<1>0. AloneFollows /\ ProfileTypes
  BY DEF ProfileInv
<1>1. /\ doing[p] # "idle" /\ Exit(p)
      /\ UNCHANGED <<document, lock, ids, devices, alone, returned, presented>>
  BY DEF DeleteFails, begun, history
<1>2. PICK i : i = locals[p].seen.id
  OBVIOUS
<1>3. PICK v : v = IF entries[i] = "none" THEN "none" ELSE "broken"
  OBVIOUS
<1>4. entries' = entries \/ entries' = [entries EXCEPT ![i] = v]
  BY <1>2, <1>3 DEF DeleteFails
<1>5. CASE entries' = entries
  <2>1. entries' \in [1..MaxIds -> EntryValues] /\ (alone => Owns(document)')
    BY <1>1, <1>5, OwnershipRests
  <2>2. QED
    BY <1>1, <2>1, CommandEnds
<1>6. CASE entries' = [entries EXCEPT ![i] = v]
  <2>1. entries' \in [1..MaxIds -> EntryValues]
    BY <1>3, <1>6, EntryTyped DEF EntryValues
  <2>2. alone => Owns(document)'
    BY <1>0, <1>1, <1>3, <1>6, EntryKept DEF AloneFollows
  <2>3. QED
    BY <1>1, <2>1, <2>2, CommandEnds
<1>7. QED
  BY <1>4, <1>5, <1>6

\* A refreshed token is saved for the profile whose token was sent.
LEMMA RefreshSaved == ASSUME ProfileInv, NEW p \in Instances, SaveRefreshed(p) PROVE ProfileInv'
<1>0. AloneFollows /\ ProfileTypes /\ StepsNamed
  BY DEF ProfileInv
<1>1. /\ doing[p] # "idle" /\ Exit(p)
      /\ UNCHANGED <<document, lock, ids, devices, alone, returned, presented>>
  BY DEF SaveRefreshed, begun, history
<1>2. PICK seen : seen = locals[p].seen
  OBVIOUS
<1>3. PICK i, v : i = seen.id /\ v = seen.domain
  OBVIOUS
<1>4. entries' = [entries EXCEPT ![i] = v]
  BY <1>2, <1>3 DEF SaveRefreshed
<1>5. seen \in Profiles /\ (alone => locals[p].name \in Names /\ seen = document.profiles[locals[p].name])
  BY <1>2, SeenTyped DEF SaveRefreshed, SeenSteps
<1>6. v \in EntryValues
  BY <1>3, <1>5 DEF Profiles, EntryValues
<1>7. entries' \in [1..MaxIds -> EntryValues]
  BY <1>4, <1>6, EntryTyped
<1>8. ASSUME alone PROVE Owns(document)'
  <2>1. \E n \in Names : document.profiles[n].id = i /\ v = document.profiles[n].domain
    BY <1>3, <1>5, <1>8
  <2>2. QED
    BY <1>0, <1>1, <1>4, <1>8, <2>1, EntryKept DEF AloneFollows
<1>9. QED
  BY <1>1, <1>7, <1>8, CommandEnds

\* login saves under the ID that the document has for the profile.
LEMMA LoginSaved == ASSUME ProfileInv, NEW p \in Instances, LoginSave(p) PROVE ProfileInv'
<1>0. AloneFollows /\ ProfileTypes /\ StepsNamed
  BY DEF ProfileInv
<1>1. PICK j : j = locals[p]
  OBVIOUS
<1>2. PICK i, v : i = j.id /\ v = j.seen.domain
  OBVIOUS
<1>3. /\ doing' = [doing EXCEPT ![p] = "login_sync"] /\ locals' = [locals EXCEPT ![p] = j]
      /\ doing[p] = "login_save" /\ entries' = [entries EXCEPT ![i] = v]
      /\ UNCHANGED <<document, lock, ids, devices, alone, returned, presented>>
  BY <1>0, <1>1, <1>2 DEF LoginSave, Moves, ProfileTypes, begun, history
<1>4. j \in ProfileJobs /\ j.seen \in Profiles
  BY <1>1, SeenTyped
<1>5. /\ "login_sync" \in Doings /\ "login_sync" \notin Committing /\ j.name \in Names
      /\ doing[p] # "idle"
  BY <1>0, <1>1, <1>3 DEF Doings, Committing, Updating, StepsNamed, DeviceSteps
<1>6. entries' \in [1..MaxIds -> EntryValues]
  <2>1. v \in EntryValues
    BY <1>2, <1>4 DEF Profiles, EntryValues
  <2>2. QED
    BY <1>3, <2>1, EntryTyped
<1>7. ASSUME alone PROVE Owns(document)'
  <2>1. document.profiles[j.name].id = i /\ document.profiles[j.name].domain = v
    BY <1>0, <1>1, <1>2, <1>3, <1>7 DEF AloneFollows, Steady
  <2>2. QED
    BY <1>0, <1>3, <1>5, <1>7, <2>1, EntryKept DEF AloneFollows
<1>8. alone => SentToOwner'
  BY <1>0, <1>3 DEF AloneFollows, SentToOwner
<1>9. Steady("login_sync", j)'
  BY DEF Steady, SeenSteps, DeviceSteps, DeletingSteps, Committing
<1>10. alone' \in BOOLEAN /\ alone' = alone
  BY <1>0, <1>3 DEF ProfileTypes
<1>11. /\ doing' = [doing EXCEPT ![p] = "login_sync"] /\ locals' = [locals EXCEPT ![p] = j]
       /\ j \in ProfileJobs
  BY <1>3, <1>4
<1>12. UNCHANGED <<document, lock, ids, devices, returned>>
  BY <1>3
<1>13. QED
  BY <1>5, <1>6, <1>7, <1>8, <1>9, <1>10, <1>11, <1>12, CommandMoves

\* What is saved under the ID of the loaded profile was saved for its domain.
LEMMA CredentialPresented == ASSUME ProfileInv, NEW p \in Instances, Present(p) PROVE ProfileInv'
<1>0. AloneFollows /\ ProfileTypes /\ StepsNamed
  BY DEF ProfileInv
<1>1. PICK j : j = locals[p]
  OBVIOUS
<1>2. PICK saved : saved = entries[j.seen.id]
  OBVIOUS
<1>3. /\ doing' = [doing EXCEPT ![p] = "connect_refresh"] /\ locals' = [locals EXCEPT ![p] = j]
      /\ doing[p] = "connect_load" /\ saved \in Domains
      /\ presented' = presented \cup {<<saved, j.seen.domain>>}
      /\ UNCHANGED <<document, lock, entries, ids, devices, alone, returned>>
  BY <1>0, <1>1, <1>2 DEF Present, Moves, ProfileTypes, begun, storeVars
<1>4. /\ j \in ProfileJobs /\ j.seen \in Profiles
      /\ alone => j.name \in Names /\ j.seen = document.profiles[j.name] /\ j.seen.id <= MaxIds
  BY <1>1, <1>3, SeenTyped DEF SeenSteps
<1>5. /\ "connect_refresh" \in Doings /\ "connect_refresh" \notin Committing /\ j.name \in Names
      /\ doing[p] # "idle"
  BY <1>0, <1>1, <1>3 DEF Doings, Committing, SeenSteps, StepsNamed, DeviceSteps
<1>6. entries' \in [1..MaxIds -> EntryValues] /\ (alone => Owns(document)')
  BY <1>3, OwnershipRests
<1>7. ASSUME alone PROVE j.seen.id # 0
  BY <1>0, <1>1, <1>3, <1>7 DEF AloneFollows, Steady
<1>8. ASSUME alone PROVE SentToOwner'
  <2>1. j.seen.id \in 1..MaxIds /\ saved # "none" /\ saved # "broken"
    BY <1>3, <1>4, <1>7, <1>8, ProfileAssumption DEF Profiles
  <2>2. PICK n \in Names : document.profiles[n].id = j.seen.id
                           /\ saved \in {"broken", document.profiles[n].domain}
    BY <1>0, <1>2, <1>8, <2>1 DEF AloneFollows, Owns
  <2>3. document.profiles[n].id = document.profiles[j.name].id /\ document.profiles[n].id # 0
    BY <1>4, <1>7, <1>8, <2>2
  <2>4. n = j.name
    BY <1>0, <1>5, <1>8, <2>3 DEF AloneFollows, Owns
  <2>5. saved = j.seen.domain
    BY <1>4, <1>8, <2>1, <2>2, <2>4
  <2>6. QED
    BY <1>0, <1>3, <1>8, <2>5 DEF AloneFollows, SentToOwner
<1>9. alone => Steady("connect_refresh", j)'
  BY <1>3, <1>4, <1>7 DEF Steady, SeenSteps, DeviceSteps, DeletingSteps, Committing
<1>10. alone' \in BOOLEAN /\ alone' = alone
  BY <1>0, <1>3 DEF ProfileTypes
<1>11. /\ doing' = [doing EXCEPT ![p] = "connect_refresh"] /\ locals' = [locals EXCEPT ![p] = j]
       /\ j \in ProfileJobs
  BY <1>3, <1>4
<1>12. UNCHANGED <<document, lock, ids, devices, returned>>
  BY <1>3
<1>13. QED
  BY <1>5, <1>6, <1>8, <1>9, <1>10, <1>11, <1>12, CommandMoves

\* login takes the ID of the profile that it loaded, if there is one.
LEMMA LoginAuthenticated ==
    ASSUME ProfileInv, NEW p \in Instances, Authenticated(p) PROVE ProfileInv'
<1>0. AloneFollows /\ ProfileTypes /\ StepsNamed
  BY DEF ProfileInv
<1>1. /\ locals[p] \in ProfileJobs /\ locals[p].seen \in Profiles
      /\ alone => locals[p].name \in Names /\ locals[p].seen = document.profiles[locals[p].name]
  BY SeenTyped DEF Authenticated, Moves, SeenSteps
<1>2. PICK j : j = [locals[p] EXCEPT !.id = locals[p].seen.id]
  OBVIOUS
<1>3. PICK d : d = IF locals[p].seen.id # 0 THEN "login_save" ELSE "login_ensure"
  OBVIOUS
<1>4. /\ j \in ProfileJobs /\ j.name = locals[p].name /\ j.seen = locals[p].seen
      /\ j.id = locals[p].seen.id
  BY <1>1, <1>2 DEF ProfileJobs, Profiles
<1>5. doing' = [doing EXCEPT ![p] = d] /\ locals' = [locals EXCEPT ![p] = j]
  BY <1>0, <1>2, <1>3 DEF Authenticated, Moves, ProfileTypes
<1>6. UNCHANGED <<document, lock, entries, ids, devices, alone, returned, presented>>
  BY DEF Authenticated, storeVars, begun, history
<1>7. d \in Doings /\ d \notin Committing /\ d # "idle" /\ j.name \in Names /\ doing[p] # "idle"
  BY <1>0, <1>3, <1>4 DEF Doings, Committing, SeenSteps, StepsNamed, DeviceSteps, Authenticated, Moves
<1>8. entries' \in [1..MaxIds -> EntryValues] /\ (alone => Owns(document)')
  BY <1>6, OwnershipRests
<1>9. alone => SentToOwner'
  BY <1>0, <1>6 DEF AloneFollows, SentToOwner
<1>10. ASSUME alone PROVE Steady(d, j)'
  <2>1. j.seen = document'.profiles[j.name]
    BY <1>1, <1>4, <1>6, <1>10
  <2>2. d \in {"login_save", "login_ensure"} /\ (d = "login_save" => j.id # 0 /\ j.id = j.seen.id)
    BY <1>3, <1>4
  <2>3. QED
    BY <2>1, <2>2 DEF Steady, SeenSteps, DeviceSteps, DeletingSteps, Committing
<1>11. alone' \in BOOLEAN /\ alone' = alone
  BY <1>0, <1>6 DEF ProfileTypes
<1>12. j \in ProfileJobs /\ UNCHANGED <<document, lock, ids, devices, returned>>
  BY <1>4, <1>6
<1>13. QED
  BY <1>5, <1>7, <1>8, <1>9, <1>10, <1>11, <1>12, CommandMoves

\* The look for the Device ID, and the panic, change nothing of the document.
LEMMA DeviceLooked ==
    ASSUME ProfileInv, NEW p \in Instances,
           Discover(p) \/ DeviceUnknown(p) \/ SetPanicked(p)
    PROVE  ProfileInv'
<1>0. AloneFollows /\ ProfileTypes /\ StepsNamed
  BY DEF ProfileInv
<1>1. PICK j : j = locals[p]
  OBVIOUS
<1>2. PICK d \in {"device_load", "device_update", "panicked"} :
         /\ doing' = [doing EXCEPT ![p] = d]
         /\ d = "device_load" => Discover(p)
         /\ d = "device_update" => doing[p] = "device_load"
         /\ d = "panicked" => doing[p] = "set_update"
  BY DEF Discover, DeviceUnknown, SetPanicked, Moves
<1>3. locals' = [locals EXCEPT ![p] = j]
  BY <1>0, <1>1 DEF Discover, DeviceUnknown, SetPanicked, ProfileTypes
<1>4. /\ UNCHANGED <<document, lock, entries, ids, devices, returned, presented>>
      /\ d # "device_load" => alone' = alone
      /\ d = "device_load" => alone' = (alone /\ \A q \in Instances : doing[q] = "idle")
  BY <1>2 DEF Discover, DeviceUnknown, SetPanicked, Begins, storeVars, begun, history, Moves
<1>5. /\ alone' \in BOOLEAN /\ (alone' => alone)
      /\ alone' => doing[p] # "idle" \/ \A q \in Instances : doing[q] = "idle"
  <2>1. alone \in BOOLEAN
    BY <1>0 DEF ProfileTypes
  <2>2. CASE d = "device_load"
    BY <1>4, <2>1, <2>2
  <2>3. CASE d # "device_load"
    <3>1. alone' = alone /\ doing[p] # "idle"
      BY <1>2, <1>4, <2>3
    <3>2. QED
      BY <2>1, <3>1
  <2>4. QED
    BY <2>2, <2>3
<1>6. j \in ProfileJobs
  BY <1>1, SeenTyped
<1>7. /\ d \in Doings /\ d \notin Committing /\ d # "idle"
      /\ d \notin {"idle"} \cup DeviceSteps => j.name \in Names
  BY <1>0, <1>1, <1>2 DEF Doings, Committing, SeenSteps, StepsNamed, DeviceSteps
<1>8. entries' \in [1..MaxIds -> EntryValues] /\ (alone => Owns(document)')
  BY <1>4, OwnershipRests
<1>9. alone => SentToOwner'
  BY <1>0, <1>4 DEF AloneFollows, SentToOwner
<1>10. ASSUME alone PROVE Steady(d, j)'
  <2>1. d = "device_load" => j.name = "none"
    BY <1>0, <1>1, <1>2 DEF Discover, Moves, StepsNamed, NoJob
  <2>2. d = "device_update" /\ j.name # "none" =>
           j.seen = document'.profiles[j.name] /\ j.seen = NoProfile /\ ~ j.changed
    BY <1>0, <1>1, <1>2, <1>4, <1>10 DEF AloneFollows, Steady, DeviceSteps
  <2>3. QED
    BY <2>1, <2>2 DEF Steady, SeenSteps, DeviceSteps, DeletingSteps, Committing
<1>11. doing' = [doing EXCEPT ![p] = d]
  BY <1>2
<1>12. UNCHANGED <<document, lock, ids, devices, returned>>
  BY <1>4
<1>13. QED
  BY <1>3, <1>5, <1>6, <1>7, <1>8, <1>9, <1>10, <1>11, <1>12, CommandMoves

\* A Device ID that is there is the one returned.
LEMMA DeviceFound == ASSUME ProfileInv, NEW p \in Instances, DeviceKnown(p) PROVE ProfileInv'
<1>0. AloneFollows /\ ProfileTypes /\ StepsNamed
  BY DEF ProfileInv
<1>1. PICK d \in {"idle", "set_update"} :
         d = IF locals[p].name = "none" THEN "idle" ELSE "set_update"
  OBVIOUS
<1>2. PICK j : j = IF locals[p].name = "none" THEN NoJob
                   ELSE [locals[p] EXCEPT !.device = document.device]
  OBVIOUS
<1>3. doing' = [doing EXCEPT ![p] = d] /\ locals' = [locals EXCEPT ![p] = j]
  BY <1>0, <1>1, <1>2 DEF DeviceKnown, Exit, ProfileTypes
<1>4. /\ UNCHANGED <<document, lock, entries, ids, devices, alone, presented>>
      /\ doing[p] = "device_load" /\ document.device # 0
      /\ returned' = returned \cup {document.device}
  BY DEF DeviceKnown, storeVars, begun
<1>5. j \in ProfileJobs /\ (d = "idle" => j = NoJob)
      /\ (d # "idle" => /\ j.name = locals[p].name /\ j.seen = locals[p].seen
                        /\ j.changed = locals[p].changed /\ j.name # "none")
  <2>1. document.device \in Int /\ locals[p] \in ProfileJobs
    BY <1>0, SeenTyped DEF ProfileTypes, Documents
  <2>2. CASE locals[p].name = "none"
    BY <1>1, <1>2, <2>2, NoJobTyped
  <2>3. CASE locals[p].name # "none"
    <3>1. j = [locals[p] EXCEPT !.device = document.device] /\ d = "set_update"
      BY <1>1, <1>2, <2>3
    <3>2. QED
      BY <2>1, <2>3, <3>1 DEF ProfileJobs
  <2>4. QED
    BY <2>2, <2>3
<1>6. /\ d \in Doings /\ d \notin Committing /\ doing[p] # "idle"
      /\ d \notin {"idle"} \cup DeviceSteps => j.name \in Names
  BY <1>1, <1>4, <1>5 DEF Doings, Committing, SeenSteps, ProfileJobs
<1>7. entries' \in [1..MaxIds -> EntryValues] /\ (alone => Owns(document)')
  BY <1>4, OwnershipRests
<1>8. alone => SentToOwner'
  BY <1>0, <1>4 DEF AloneFollows, SentToOwner
<1>9. ASSUME alone PROVE Steady(d, j)'
  <2>1. d = "set_update" => j.seen = document'.profiles[j.name] /\ ~ j.changed /\ ~ Exists(j.seen)
    BY <1>0, <1>4, <1>5, <1>9 DEF AloneFollows, Steady, DeviceSteps, Exists
  <2>2. QED
    BY <1>1, <2>1 DEF Steady, SeenSteps, DeviceSteps, DeletingSteps, Committing
<1>10. alone' \in BOOLEAN /\ alone' = alone
  BY <1>0, <1>4 DEF ProfileTypes
<1>11. UNCHANGED <<document, lock, ids, devices>>
       /\ \A x \in returned' : x \in returned \/ (x = document.device /\ x # 0)
  BY <1>4
<1>12. j \in ProfileJobs /\ (d = "idle" => j = NoJob)
  BY <1>5
<1>13. QED
  BY <1>3, <1>6, <1>7, <1>8, <1>9, <1>10, <1>11, <1>12, CommandMoves

\* An update that ends, with the document replaced or not.
LEMMA UpdateEnded ==
    ASSUME ProfileInv, NEW p \in Instances, UpdateFails(p) PROVE ProfileInv'
<1>1. "idle" \in Doings /\ "idle" \notin Committing /\ NoJob \in ProfileJobs
  BY NoJobTyped DEF Doings, Committing
<1>2. Steady("idle", NoJob)'
  BY DEF Steady, SeenSteps, DeviceSteps, DeletingSteps, Committing
<1>3. /\ doing' = [doing EXCEPT ![p] = "idle"] /\ locals' = [locals EXCEPT ![p] = NoJob]
      /\ doing[p] \in Committing /\ document' \in {document, locals[p].draft}
  BY DEF UpdateFails, Exit
<1>4. UNCHANGED <<entries, ids, devices, alone, presented, returned>>
  BY DEF UpdateFails, storeVars, begun, history
<1>5. QED
  BY <1>1, <1>2, <1>3, <1>4, DocumentReplaced

LEMMA UpdateCommitted ==
    ASSUME ProfileInv, NEW p \in Instances, UpdateCommits(p) PROVE ProfileInv'
<1>0. ProfileTypes /\ LockFollows /\ StepsNamed /\ DevicesFollow /\ AloneFollows
  BY DEF ProfileInv
<1>1. /\ doing[p] \in Committing /\ document' = locals[p].draft
      /\ UNCHANGED <<entries, ids, devices, alone, presented>>
      /\ \A x \in returned' :
            x \in returned \/ (doing[p] = "device_commit" /\ x = document'.device)
  BY DEF UpdateCommits, storeVars, begun
<1>2. \A x \in returned' : x \in returned \/ (x = document'.device /\ x # 0)
  BY <1>0, <1>1 DEF DevicesFollow
<1>3. PICK doc : doc = locals[p].draft
  OBVIOUS
<1>4. doc \in Documents /\ locals[p] \in ProfileJobs
  BY <1>0, <1>1, <1>3, SeenTyped DEF LockFollows
<1>5. CASE After(p) = "idle"
  <2>1. "idle" \in Doings /\ "idle" \notin Committing /\ NoJob \in ProfileJobs
    BY NoJobTyped DEF Doings, Committing
  <2>2. Steady("idle", NoJob)'
    BY DEF Steady, SeenSteps, DeviceSteps, DeletingSteps, Committing
  <2>3. doing' = [doing EXCEPT ![p] = "idle"] /\ locals' = [locals EXCEPT ![p] = NoJob]
    BY <1>5 DEF UpdateCommits
  <2>4. QED
    BY <1>1, <1>2, <2>1, <2>2, <2>3, DocumentReplaced
<1>6. CASE After(p) = "login_save"
  <2>1. PICK j : j = [locals[p] EXCEPT !.id = doc.profiles[locals[p].name].id,
                                       !.base = <<>>, !.draft = <<>>]
    OBVIOUS
  <2>2. doing' = [doing EXCEPT ![p] = "login_save"] /\ locals' = [locals EXCEPT ![p] = j]
    BY <1>3, <1>6, <2>1 DEF UpdateCommits
  <2>3. doing[p] = "ensure_commit"
    BY <1>6 DEF After
  <2>4. locals[p].name \in Names
    BY <1>0, <2>3 DEF StepsNamed, DeviceSteps
  <2>5. doc.profiles[locals[p].name].id \in Nat
    BY <1>4, <2>4 DEF Documents, Profiles
  <2>6. /\ j \in ProfileJobs /\ j.name = locals[p].name /\ j.seen = locals[p].seen
        /\ j.id = doc.profiles[j.name].id
    BY <1>4, <2>1, <2>5 DEF ProfileJobs, Drafts
  <2>7. ASSUME alone PROVE Steady("login_save", j)'
    <3>1. /\ doc.profiles[j.name].id # 0
          /\ doc.profiles[j.name].domain = j.seen.domain
      BY <1>0, <1>3, <2>3, <2>6, <2>7 DEF AloneFollows, Steady
    <3>2. QED
      BY <1>1, <1>3, <2>6, <3>1 DEF Steady, SeenSteps, DeviceSteps, DeletingSteps, Committing
  <2>8. "login_save" \in Doings /\ "login_save" \notin Committing /\ j \in ProfileJobs /\ j.name \in Names
    BY <2>4, <2>6 DEF Doings, Committing
  <2>9. QED
    BY <1>1, <1>2, <2>2, <2>7, <2>8, DocumentReplaced
<1>7. CASE After(p) \notin {"idle", "login_save"}
  <2>1. PICK j : j = [locals[p] EXCEPT !.device = doc.device, !.base = <<>>, !.draft = <<>>]
    OBVIOUS
  <2>2. After(p) = "set_update" /\ doing[p] = "device_commit" /\ locals[p].name # "none"
    BY <1>7 DEF After
  <2>3. doing' = [doing EXCEPT ![p] = "set_update"] /\ locals' = [locals EXCEPT ![p] = j]
    BY <1>3, <1>7, <2>1, <2>2 DEF UpdateCommits
  <2>4. /\ j \in ProfileJobs /\ j.name = locals[p].name /\ j.seen = locals[p].seen
        /\ j.changed = locals[p].changed
    <3>1. doc.device \in Int /\ <<>> \in Drafts
      BY <1>4 DEF Documents, Drafts
    <3>2. QED
      BY <1>4, <2>1, <3>1 DEF ProfileJobs
  <2>5. ASSUME alone PROVE Steady("set_update", j)'
    <3>1. /\ j.seen = document.profiles[j.name] /\ j.seen = NoProfile /\ ~ j.changed
          /\ doc.profiles = document.profiles
      BY <1>0, <1>3, <2>2, <2>4, <2>5 DEF AloneFollows, Steady, DeviceSteps
    <3>2. j.seen = document'.profiles[j.name] /\ ~ Exists(j.seen) /\ ~ j.changed
      BY <1>1, <1>3, <3>1 DEF Exists
    <3>3. QED
      BY <3>2 DEF Steady, SeenSteps, DeviceSteps, DeletingSteps, Committing
  <2>6. "set_update" \in Doings /\ "set_update" \notin Committing /\ j \in ProfileJobs /\ j.name \in Names
    BY <1>4, <2>2, <2>4 DEF Doings, Committing, SeenSteps, ProfileJobs
  <2>7. QED
    BY <1>1, <1>2, <2>3, <2>5, <2>6, DocumentReplaced
<1>8. QED
  BY <1>5, <1>6, <1>7

\* A changed profile owns what it owned, nothing is saved under the ID it gives
\* up, and an ID it gets is new.
LEMMA OwnershipMoves ==
    ASSUME ProfileTypes, Owns(document), NEW n \in Names, NEW new \in Profiles,
           NEW d, d = [document EXCEPT !.profiles[n] = new],
           UNCHANGED entries, ids' \in Nat, ids <= ids',
           \/ new.id = 0 /\ (document.profiles[n].id # 0 => entries[document.profiles[n].id] = "none")
           \/ new = document.profiles[n]
           \/ document.profiles[n].id = 0 /\ new.id = ids + 1 /\ ids' = ids + 1
    PROVE  Owns(d)'
<1>1. document \in Documents /\ ids \in Nat
  BY DEF ProfileTypes
<1>2. d.profiles[n] = new /\ \A m \in Names : m # n => d.profiles[m] = document.profiles[m]
  BY <1>1 DEF Documents
<1>3. \A m \in Names : document.profiles[m] \in Profiles /\ document.profiles[m].id \in Nat
  BY <1>1 DEF Documents, Profiles
<1>4. new.id \in Nat
  BY DEF Profiles
<1>5. /\ \A m \in Names : document.profiles[m].id <= ids
      /\ \A m, k \in Names : m # k /\ document.profiles[m].id = document.profiles[k].id
                              => document.profiles[m].id = 0
      /\ \A i \in 1..MaxIds : entries[i] # "none" =>
            \E m \in Names : document.profiles[m].id = i
                             /\ entries[i] \in {"broken", document.profiles[m].domain}
  BY DEF Owns
<1>6. \A m \in Names : d.profiles[m].id <= ids'
  BY <1>1, <1>2, <1>3, <1>4, <1>5
<1>7. ASSUME NEW m \in Names, NEW k \in Names, m # k, d.profiles[m].id = d.profiles[k].id
      PROVE  d.profiles[m].id = 0
  BY <1>1, <1>2, <1>3, <1>4, <1>5, <1>7
<1>8. ASSUME NEW i \in 1..MaxIds, entries[i] # "none"
      PROVE  \E m \in Names : d.profiles[m].id = i /\ entries[i] \in {"broken", d.profiles[m].domain}
  <2>1. PICK m \in Names : document.profiles[m].id = i
                           /\ entries[i] \in {"broken", document.profiles[m].domain}
    BY <1>5, <1>8
  <2>2. i # 0
    OBVIOUS
  <2>3. d.profiles[m] = document.profiles[m]
    BY <1>2, <1>8, <2>1, <2>2
  <2>4. QED
    BY <2>1, <2>3
<1>9. QED
  BY <1>6, <1>7, <1>8 DEF Owns

\* The profile that a closure writes.
LEMMA NamedDraft ==
    ASSUME ProfileInv, NEW p \in Instances, UpdateBegins(p), doing[p] \notin {"device_update", "login_sync"}
    PROVE  \E n \in Names, new \in Profiles :
              /\ n = locals[p].name /\ Draft(p) = [document EXCEPT !.profiles[n] = new]
              /\ doing[p] = "login_ensure" =>
                    new.id # 0 /\ new.domain = document.profiles[n].domain
              /\ alone =>
                    \/ new.id = 0 /\ (document.profiles[n].id # 0 => entries[document.profiles[n].id] = "none")
                    \/ new = document.profiles[n]
                    \/ document.profiles[n].id = 0 /\ new.id = ids + 1 /\ ids' = ids + 1
<1>0. ProfileTypes /\ StepsNamed /\ AloneFollows
  BY DEF ProfileInv
<1>1. doing[p] \in {"set_update", "remove_update", "logout_update", "login_ensure"}
  BY DEF UpdateBegins, Updating
<1>2. PICK n, old : n = locals[p].name /\ old = document.profiles[n]
  OBVIOUS
<1>3. n \in Names
  BY <1>0, <1>1, <1>2 DEF StepsNamed, DeviceSteps
<1>4. old \in Profiles /\ ids \in Nat
  BY <1>0, <1>2, <1>3 DEF ProfileTypes, Documents
<1>5. locals[p] \in ProfileJobs /\ (alone => locals[p].seen = old)
  BY <1>1, <1>2, SeenTyped DEF SeenSteps
<1>6. CASE doing[p] = "set_update"
  <2>1. PICK new : new = SetProfile(p)
    OBVIOUS
  <2>2. /\ new = [domain |-> IF locals[p].domain = "kept" THEN old.domain ELSE locals[p].domain,
                  id |-> IF locals[p].changed THEN 0 ELSE old.id]
        /\ Draft(p) = [document EXCEPT !.profiles[n] = new]
    BY <1>2, <1>6, <2>1 DEF SetProfile, Draft
  <2>3. new \in Profiles
    BY <1>4, <1>5, <2>2 DEF Profiles, ProfileJobs
  <2>4. ASSUME alone
        PROVE  (new.id = 0 /\ (old.id # 0 => entries[old.id] = "none")) \/ new = old
    <3>1. CASE locals[p].changed
      BY <1>0, <1>5, <1>6, <2>2, <2>4, <3>1 DEF AloneFollows, Steady
    <3>2. CASE ~ locals[p].changed /\ Exists(old)
      <4>1. locals[p].domain \in {"kept", old.domain}
        BY <1>0, <1>5, <1>6, <2>4, <3>2 DEF AloneFollows, Steady
      <4>2. QED
        BY <1>4, <2>2, <3>2, <4>1 DEF Profiles
    <3>3. CASE ~ locals[p].changed /\ ~ Exists(old)
      BY <2>2, <3>3 DEF Exists, NoProfile
    <3>4. QED
      BY <3>1, <3>2, <3>3
  <2>5. QED
    BY <1>2, <1>3, <1>6, <2>2, <2>3, <2>4
<1>7. CASE doing[p] \in {"remove_update", "logout_update"}
  <2>1. PICK new : new = IF doing[p] = "remove_update" THEN NoProfile ELSE [old EXCEPT !.id = 0]
    OBVIOUS
  <2>2. Draft(p) = [document EXCEPT !.profiles[n] = new]
    BY <1>2, <1>7, <2>1 DEF Draft
  <2>3. new \in Profiles /\ new.id = 0
    BY <1>4, <2>1 DEF Profiles, NoProfile
  <2>4. alone => (old.id # 0 => entries[old.id] = "none")
    BY <1>0, <1>5, <1>7 DEF AloneFollows, Steady
  <2>5. QED
    BY <1>2, <1>3, <1>7, <2>2, <2>3, <2>4
<1>8. CASE doing[p] = "login_ensure"
  <2>1. PICK new : new = [old EXCEPT !.id = IF old.id = 0 THEN NewId ELSE old.id]
    OBVIOUS
  <2>2. Draft(p) = [document EXCEPT !.profiles[n] = new]
    BY <1>2, <1>8, <2>1 DEF Draft
  <2>3. /\ new \in Profiles /\ new.domain = old.domain /\ new.id # 0
        /\ old.id = 0 => new.id = ids + 1
        /\ old.id # 0 => new = old
    BY <1>4, <2>1 DEF Profiles, NewId
  <2>4. old.id = 0 => ids' = ids + 1
    BY <1>2, <1>8 DEF UpdateBegins, NewId
  <2>5. QED
    BY <1>2, <1>3, <1>8, <2>2, <2>3, <2>4
<1>9. QED
  BY <1>1, <1>6, <1>7, <1>8

\* What an update's draft keeps.
LEMMA DraftSound ==
    ASSUME ProfileInv, NEW p \in Instances, UpdateBegins(p), NEW d, d = Draft(p)
    PROVE  /\ d \in Documents
           /\ document.device # 0 => d.device = document.device
           /\ doing[p] = "device_update" => d.device # 0 /\ d.profiles = document.profiles
           /\ alone => Owns(d)' /\ Owns(document)'
           /\ alone /\ doing[p] = "login_ensure" =>
                 /\ d.profiles[locals[p].name].id # 0
                 /\ d.profiles[locals[p].name].domain = locals[p].seen.domain
<1>0. ProfileTypes /\ StepsNamed /\ AloneFollows
  BY DEF ProfileInv
<1>1. document \in Documents /\ ids \in Nat /\ devices \in Nat
  BY <1>0 DEF ProfileTypes
<1>2. UNCHANGED <<document, entries>> /\ ids' \in Nat /\ ids <= ids'
  BY <1>1 DEF UpdateBegins, NewId
<1>3. ASSUME alone, NEW doc \in Documents, doc.profiles = document.profiles PROVE Owns(doc)'
  <2>1. Owns(document) /\ \A n \in Names : document.profiles[n].id \in Nat
    BY <1>0, <1>1, <1>3 DEF AloneFollows, Documents, Profiles
  <2>2. \A n \in Names : document.profiles[n].id <= ids'
    BY <1>1, <1>2, <2>1 DEF Owns
  <2>3. QED
    BY <1>2, <1>3, <2>1, <2>2 DEF Owns
<1>4. alone => Owns(document)'
  <2>1. PICK doc : doc = document
    OBVIOUS
  <2>2. doc \in Documents /\ doc.profiles = document.profiles /\ document' = doc
    BY <1>1, <1>2, <2>1
  <2>3. alone => Owns(doc)'
    BY <1>3, <2>2
  <2>4. QED
    BY <2>2, <2>3 DEF Owns
<1>5. CASE doing[p] = "device_update"
  <2>1. d = IF document.device = 0 THEN [document EXCEPT !.device = devices + 1] ELSE document
    BY <1>5 DEF Draft, DeviceDraft
  <2>2. /\ d \in Documents /\ d.profiles = document.profiles /\ d.device # 0
        /\ document.device # 0 => d.device = document.device
    BY <1>1, <2>1 DEF Documents
  <2>3. QED
    BY <1>3, <1>4, <1>5, <2>2
<1>6. CASE doing[p] = "login_sync"
  <2>1. d = document
    BY <1>6 DEF Draft
  <2>2. d \in Documents /\ d.profiles = document.profiles /\ d.device = document.device
    BY <1>1, <2>1
  <2>3. QED
    BY <1>3, <1>4, <1>6, <2>2
<1>7. CASE doing[p] \notin {"device_update", "login_sync"}
  <2>1. PICK n \in Names, new \in Profiles :
              /\ n = locals[p].name /\ Draft(p) = [document EXCEPT !.profiles[n] = new]
              /\ doing[p] = "login_ensure" =>
                    new.id # 0 /\ new.domain = document.profiles[n].domain
              /\ alone =>
                    \/ new.id = 0 /\ (document.profiles[n].id # 0 => entries[document.profiles[n].id] = "none")
                    \/ new = document.profiles[n]
                    \/ document.profiles[n].id = 0 /\ new.id = ids + 1 /\ ids' = ids + 1
    BY <1>7, NamedDraft
  <2>2. d = [document EXCEPT !.profiles[n] = new]
    BY <2>1
  <2>3. d \in Documents /\ d.device = document.device /\ d.profiles[n] = new
    BY <1>1, <2>2 DEF Documents
  <2>4. ASSUME alone PROVE Owns(d)'
    BY <1>0, <1>2, <2>1, <2>2, <2>4, OwnershipMoves DEF AloneFollows
  <2>5. alone /\ doing[p] = "login_ensure" => locals[p].seen = document.profiles[n]
    BY <2>1, SeenTyped DEF SeenSteps
  <2>6. QED
    BY <1>4, <1>7, <2>1, <2>3, <2>4, <2>5
<1>8. QED
  BY <1>5, <1>6, <1>7

\* An update takes the lock and the document there is.
LEMMA UpdateBegun == ASSUME ProfileInv, NEW p \in Instances, UpdateBegins(p) PROVE ProfileInv'
<1>0. ProfileTypes /\ LockFollows /\ StepsNamed /\ DevicesFollow /\ AloneFollows
  BY DEF ProfileInv
<1>1. PICK doc : doc = Draft(p)
  OBVIOUS
<1>2. /\ doc \in Documents
      /\ document.device # 0 => doc.device = document.device
      /\ doing[p] = "device_update" => doc.device # 0 /\ doc.profiles = document.profiles
      /\ alone => Owns(doc)' /\ Owns(document)'
      /\ alone /\ doing[p] = "login_ensure" =>
            /\ doc.profiles[locals[p].name].id # 0
            /\ doc.profiles[locals[p].name].domain = locals[p].seen.domain
  BY <1>1, DraftSound
<1>3. PICK base : base = document
  OBVIOUS
<1>4. PICK j : j = [locals[p] EXCEPT !.base = base, !.draft = doc]
  OBVIOUS
<1>5. base \in Drafts /\ doc \in Drafts /\ locals[p] \in ProfileJobs
  BY <1>0, <1>2, <1>3 DEF ProfileTypes, Drafts
<1>6. /\ j \in ProfileJobs /\ j.base = base /\ j.draft = doc /\ j.name = locals[p].name
      /\ j.seen = locals[p].seen /\ j.changed = locals[p].changed
  BY <1>4, <1>5 DEF ProfileJobs
<1>7. doing[p] \in Updating
  BY DEF UpdateBegins
<1>8. PICK d : d = Committed(doing[p])
  OBVIOUS
<1>9. /\ d \in Committing /\ d \in Doings
      /\ d = "device_commit" <=> doing[p] = "device_update"
      /\ d = "ensure_commit" <=> doing[p] = "login_ensure"
  BY <1>7, <1>8 DEF Committed, Updating, Committing, Doings
<1>10. doing' = [doing EXCEPT ![p] = d] /\ locals' = [locals EXCEPT ![p] = j]
  BY <1>0, <1>1, <1>3, <1>4, <1>8 DEF UpdateBegins, ProfileTypes
<1>11. /\ UNCHANGED <<document, entries, alone, returned, presented>> /\ lock' = p /\ lock = Free
       /\ ids' \in Nat /\ ids' <= MaxIds /\ devices' \in Nat
  BY <1>0, ProfileAssumption DEF UpdateBegins, LockFree, begun, history, ProfileTypes, NewId
<1>12. /\ doing' \in [Instances -> Doings] /\ locals' \in [Instances -> ProfileJobs]
       /\ doing'[p] = d /\ locals'[p] = j
       /\ \A q \in Instances : q # p => doing'[q] = doing[q] /\ locals'[q] = locals[q]
  BY <1>6, <1>9, <1>10, OneCommand
<1>13. \A q \in Instances : q # p => doing'[q] \notin Committing
  BY <1>0, <1>11, <1>12, ProfileAssumption DEF LockFollows
<1>14. ProfileTypes'
  BY <1>0, <1>11, <1>12 DEF ProfileTypes
<1>15. LockFollows'
  <2>1. j.base = document' /\ j.draft \in Documents /\ lock' = p
    BY <1>2, <1>3, <1>6, <1>11
  <2>2. QED
    BY <1>12, <1>13, <2>1 DEF LockFollows
<1>16. StepsNamed'
  <2>1. d # "device_commit" => j.name \in Names
    BY <1>0, <1>6, <1>7, <1>9 DEF StepsNamed, Updating, DeviceSteps
  <2>2. d # "idle"
    BY <1>9 DEF Committing
  <2>3. QED
    BY <1>0, <1>12, <2>1, <2>2 DEF StepsNamed, DeviceSteps
<1>17. DevicesFollow'
  <2>1. /\ document'.device # 0 => j.draft.device = document'.device
        /\ d = "device_commit" => j.draft.device # 0
    BY <1>2, <1>6, <1>9, <1>11
  <2>2. QED
    BY <1>0, <1>11, <1>12, <1>13, <2>1 DEF DevicesFollow
<1>18. ASSUME alone PROVE Steady(d, j)'
  <2>1. d \notin SeenSteps /\ d \notin DeletingSteps /\ (d \in DeviceSteps => d = "device_commit")
    BY <1>9 DEF SeenSteps, DeletingSteps, DeviceSteps, Committing
  <2>2. d = "device_commit" =>
           /\ j.name # "none" => j.seen = document'.profiles[j.name] /\ j.seen = NoProfile /\ ~ j.changed
           /\ j.draft.profiles = document'.profiles
    BY <1>0, <1>2, <1>6, <1>9, <1>11, <1>18 DEF AloneFollows, Steady, DeviceSteps
  <2>3. d = "ensure_commit" => /\ j.draft.profiles[j.name].id # 0
                               /\ j.draft.profiles[j.name].domain = j.seen.domain
    BY <1>2, <1>6, <1>9, <1>18
  <2>4. Owns(j.draft)'
    BY <1>2, <1>6, <1>18
  <2>5. d \notin {"set_update", "set_delete", "connect_load", "connect_refresh", "remove_update",
                  "logout_update", "login_save"}
    BY <1>9 DEF Committing
  <2>6. QED
    BY <2>1, <2>2, <2>3, <2>4, <2>5 DEF Steady
<1>19. AloneFollows'
  <2>1. doing[p] # "idle" /\ alone' = alone
    BY <1>7, <1>11 DEF Updating
  <2>2. alone => SentToOwner'
    BY <1>0, <1>11 DEF AloneFollows, SentToOwner
  <2>3. j \in ProfileJobs /\ d \in Doings /\ (alone => Owns(document)')
    BY <1>2, <1>6, <1>9
  <2>4. QED
    BY <1>10, <1>18, <2>1, <2>2, <2>3, AloneMoves
<1>20. QED
  BY <1>14, <1>15, <1>16, <1>17, <1>19 DEF ProfileInv

\* Every step of a process.
LEMMA ProfileStepKeeps == ASSUME ProfileInv, NEW p \in Instances, ProfileStep(p) PROVE ProfileInv'
<1>1. CASE UpdateRefused(p) \/ NothingSaved(p) \/ Ends(p)
  <2>1. doing[p] # "idle" /\ Exit(p)
    BY <1>1 DEF UpdateRefused, NothingSaved, Ends, Updating
  <2>2. /\ UNCHANGED <<document, ids, devices, entries, alone, returned, presented>>
        /\ lock' = lock \/ lock = p
    BY <1>1 DEF UpdateRefused, NothingSaved, Ends, storeVars, begun, history
  <2>3. entries' \in [1..MaxIds -> EntryValues] /\ (alone => Owns(document)')
    BY <2>2, OwnershipRests
  <2>4. QED
    BY <2>1, <2>2, <2>3, CommandEnds
<1>2. CASE UpdateBegins(p) \/ UpdateCommits(p) \/ UpdateFails(p)
  BY <1>2, UpdateBegun, UpdateCommitted, UpdateEnded
<1>3. CASE Discover(p) \/ DeviceUnknown(p) \/ SetPanicked(p) \/ DeviceKnown(p)
  BY <1>3, DeviceLooked, DeviceFound
<1>4. CASE SetBegins(p) \/ RemoveBegins(p) \/ LogoutBegins(p) \/ LoginBegins(p) \/ ConnectBegins(p)
  BY <1>4, LoadedBySet, LoadedByCommand
<1>5. CASE DeleteCredential(p) \/ DeleteFails(p)
  BY <1>5, CredentialDeleted, DeletionFailed
<1>6. CASE Authenticated(p) \/ LoginSave(p) \/ Present(p) \/ SaveRefreshed(p)
  BY <1>6, LoginAuthenticated, LoginSaved, CredentialPresented, RefreshSaved
<1>7. QED
  BY <1>1, <1>2, <1>3, <1>4, <1>5, <1>6 DEF ProfileStep

\* The profiles' invariant is inductive.
THEOREM ProfilesInductive == ProfileSpec => []ProfileInv
<1>1. ProfileInit => ProfileInv
  BY ProfilesStart
<1>2. ProfileInv /\ [ProfileNext]_profileVars => ProfileInv'
  <2> SUFFICES ASSUME ProfileInv, [ProfileNext]_profileVars PROVE ProfileInv'
    OBVIOUS
  <2>1. ASSUME NEW p \in Instances, ProfileStep(p) PROVE ProfileInv'
    BY <2>1, ProfileStepKeeps
  <2>2. CASE UNCHANGED profileVars
    BY <2>2 DEF profileVars, storeVars, begun, history, ProfileInv, ProfileTypes, LockFollows,
                StepsNamed, DevicesFollow, AloneFollows, Owns, Steady, OneBusy, SentToOwner
  <2>3. QED
    BY <2>1, <2>2 DEF ProfileNext, ProfileDone
<1>3. QED
  BY <1>1, <1>2, PTL DEF ProfileSpec

\* However many processes run openiwan, with whatever profiles and domains, and
\* wherever a command fails or is killed: an update of profiles.toml replaces
\* the document it was made of, every caller of device_id gets one Device ID,
\* and, as long as commands do not overlap, a saved credential is sent only to
\* the domain it was saved for and always belongs to a profile that set, remove
\* or logout would find it by.
THEOREM ProfilesAlwaysSound == ProfileSpec => []ProfilesSound
<1>1. ProfileInv => ProfilesSound
  <2> SUFFICES ASSUME ProfileInv PROVE ProfilesSound
    OBVIOUS
  <2>0. ProfileTypes /\ LockFollows /\ DevicesFollow /\ AloneFollows
    BY DEF ProfileInv
  <2>1. PresentedToOwner
    BY <2>0 DEF PresentedToOwner, AloneFollows
  <2>2. EveryCredentialOwned
    BY <2>0 DEF EveryCredentialOwned, AloneFollows, Owns, ProfileTypes
  <2>3. UpdatesSerialised
    BY <2>0 DEF UpdatesSerialised, NoLostUpdate, OneDeviceId, LockFollows, DevicesFollow
  <2>4. QED
    BY <2>1, <2>2, <2>3 DEF ProfilesSound, CredentialsOwned
<1>2. QED
  BY <1>1, ProfilesInductive, PTL

=============================================================================
