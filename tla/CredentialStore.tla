-------------------------- MODULE CredentialStore --------------------------
(***************************************************************************)
(* CredentialStore (src/src/bin/openiwan/credentials.rs): one account of   *)
(* the operating system's credential service holds a manifest that names   *)
(* the current generation of chunks and the obsolete ones still to delete; *)
(* every chunk is an entry of its own.                                     *)
(*                                                                         *)
(* A step is one call of the service, so that a process can crash, and     *)
(* another one run, between any two calls.  The service is external: a     *)
(* call takes effect or fails without effect.  A generation is a fresh     *)
(* random name, here the next number.                                      *)
(***************************************************************************)
EXTENDS Integers, Sequences

CONSTANTS
    Processes,       \* openiwan processes that use the account
    MaxGenerations,  \* bound: saves that reach new_generation
    MaxChunks,       \* bound: chunks of a credential
    MaxObsolete      \* MAX_OBSOLETE_CHUNK_SETS (16 in the code)

ASSUME CredentialAssumption ==
    /\ MaxGenerations \in Nat /\ MaxChunks \in Nat /\ MaxObsolete \in Nat

VARIABLES
    manifest,   \* the account's entry
    stored,     \* the chunk entries, as <<generation, index>>
    size,       \* the number of chunks of each generation named so far
    pc,
    job,        \* process -> the locals of save_to or delete_from
    condemned,  \* history: generations a delete has begun to remove
    abandoned   \* history: generations of saves that crashed, or failed and
                \* could not take their chunks back

vars == <<manifest, stored, size, pc, job, condemned, abandoned>>

Absent == [kind |-> "absent"]
Foreign == [kind |-> "foreign"]    \* bytes decode_manifest rejects
Manifest(current, obsolete) ==
    [kind |-> "manifest", current |-> current, obsolete |-> obsolete]
IsManifest(m) == m.kind = "manifest"

Chunks(g) == {<<g, i>> : i \in 1..size[g]}

\* sets, index, failed and remaining are the locals of cleanup_chunk_sets and
\* of the loops over the new chunks; next is the manifest being saved.
IdleJob == [seen |-> Absent, next |-> Absent, sets |-> <<>>, index |-> 1,
            failed |-> FALSE, remaining |-> <<>>]

Init ==
    /\ manifest \in {Absent, Foreign}
    /\ stored = {} /\ size = <<>>
    /\ pc = [p \in Processes |-> "idle"]
    /\ job = [p \in Processes |-> IdleJob]
    /\ condemned = {} /\ abandoned = {}

Goto(p, from, to) == pc[p] = from /\ pc' = [pc EXCEPT ![p] = to]

\* The locals when a loop over the chunks of these generations begins.
Looping(j, sets) ==
    [j EXCEPT !.sets = sets, !.index = 1, !.failed = FALSE, !.remaining = <<>>]

Return(p) == pc' = [pc EXCEPT ![p] = "idle"] /\ job' = [job EXCEPT ![p] = IdleJob]

-----------------------------------------------------------------------------
(* cleanup_chunk_sets: every chunk of every set is deleted, a failure keeps *)
(* the set for later.  An entry that does not exist is no failure.          *)

Cleaning == {"save_clean", "save_tidy", "delete_clean"}

CleanChunk(p) ==
    LET j == job[p] IN
    /\ pc[p] \in Cleaning /\ j.sets # <<>> /\ j.index <= size[Head(j.sets)]
    /\ \E fails \in BOOLEAN :
          /\ stored' = IF fails THEN stored ELSE stored \ {<<Head(j.sets), j.index>>}
          /\ job' = [job EXCEPT ![p].index = j.index + 1,
                                ![p].failed = j.failed \/ fails]
    /\ UNCHANGED <<manifest, size, pc, condemned, abandoned>>

CleanSet(p) ==
    LET j == job[p] IN
    /\ pc[p] \in Cleaning /\ j.sets # <<>> /\ j.index > size[Head(j.sets)]
    /\ job' = [job EXCEPT ![p] =
          [j EXCEPT !.sets = Tail(j.sets), !.index = 1, !.failed = FALSE,
                    !.remaining = IF j.failed THEN Append(@, Head(j.sets)) ELSE @]]
    /\ UNCHANGED <<manifest, stored, size, pc, condemned, abandoned>>

Cleaned(p) == job[p].sets = <<>>

-----------------------------------------------------------------------------
(* save_to. *)

\* replacement_manifest: a manifest that does not decode counts as none.  The
\* read may fail, and the save with it.
SaveRead(p) ==
    /\ Goto(p, "idle", "save_clean")
    /\ job' = [job EXCEPT ![p] =
          Looping([@ EXCEPT !.seen = IF IsManifest(manifest) THEN manifest ELSE Absent],
                  IF IsManifest(manifest) THEN manifest.obsolete ELSE <<>>)]
    /\ UNCHANGED <<manifest, stored, size, condemned, abandoned>>

\* Mutant: what could not be removed is forgotten.
ObsoleteForgotten(j) ==
    IF IsManifest(j.seen) THEN <<j.seen.current>> ELSE <<>>

\* The sets the new manifest has to remember.
Obsolete(j) ==
    IF IsManifest(j.seen) THEN Append(j.remaining, j.seen.current) ELSE <<>>

\* Mutant: the limit is tested before the previous set is added to the list.
TooManyBefore(j) == Len(j.remaining) > MaxObsolete

TooMany(j) == Len(Obsolete(j)) > MaxObsolete

SaveBegin(p) ==
    LET j == job[p]
        g == Len(size) + 1 IN
    /\ Goto(p, "save_clean", "save_chunks") /\ Cleaned(p) /\ ~TooMany(j)
    /\ g <= MaxGenerations
    /\ \E n \in 1..MaxChunks : size' = Append(size, n)
    /\ job' = [job EXCEPT ![p] = 
          Looping([j EXCEPT !.next = Manifest(g, Obsolete(j))], <<g>>)]
    /\ UNCHANGED <<manifest, stored, condemned, abandoned>>

\* Too many stale sets, a credential that is too large, no randomness.
SaveRefused(p) ==
    /\ pc[p] = "save_clean" /\ Cleaned(p)
    /\ Return(p)
    /\ UNCHANGED <<manifest, stored, size, condemned, abandoned>>

WriteChunk(p) ==
    LET j == job[p] IN
    /\ pc[p] = "save_chunks" /\ j.index <= size[j.next.current]
    /\ stored' = stored \cup {<<j.next.current, j.index>>}
    /\ job' = [job EXCEPT ![p].index = @ + 1]
    /\ UNCHANGED <<manifest, size, pc, condemned, abandoned>>

\* Mutant: the manifest is replaced once the first chunk is written.
AllWrittenEarly(j) == j.index > 1

AllWritten(j) == j.index > size[j.next.current]

WriteManifest(p) ==
    LET j == job[p] IN
    /\ Goto(p, "save_chunks", "save_tidy") /\ AllWritten(j)
    /\ manifest' = j.next
    /\ job' = [job EXCEPT ![p] = Looping(@, j.next.obsolete)]
    /\ UNCHANGED <<stored, size, condemned, abandoned>>

\* A failing write of a chunk or of the manifest: cleanup_new_chunks.
WriteFails(p) ==
    /\ Goto(p, "save_chunks", "save_undo")
    /\ UNCHANGED <<manifest, stored, size, job, condemned, abandoned>>

\* The chunks written so far are deleted, a failure to do so is ignored.
UndoChunks(p) ==
    LET j == job[p]
        written == {<<j.next.current, i>> : i \in 1..(j.index - 1)} IN
    /\ pc[p] = "save_undo"
    /\ Return(p)
    /\ \E kept \in SUBSET written :
          /\ stored' = stored \ (written \ kept)
          /\ abandoned' = IF kept = {} THEN abandoned ELSE abandoned \cup {j.next.current}
    /\ UNCHANGED <<manifest, size, condemned>>

\* The manifest is written again when a set could be removed; whether that
\* fails makes no difference to the result.
Tidied(p) ==
    LET j == job[p] IN
    /\ pc[p] = "save_tidy" /\ Cleaned(p)
    /\ Return(p)
    /\ IF j.remaining = j.next.obsolete
       THEN UNCHANGED manifest
       ELSE manifest' \in {manifest, Manifest(j.next.current, j.remaining)}
    /\ UNCHANGED <<stored, size, condemned, abandoned>>

-----------------------------------------------------------------------------
(* delete_from. *)

DeletedSets(m) == Append(m.obsolete, m.current)

\* Without a manifest there is nothing to do, a foreign one is an error.
DeleteRead(p) ==
    /\ Goto(p, "idle", "delete_clean") /\ IsManifest(manifest)
    /\ job' = [job EXCEPT ![p] = Looping([@ EXCEPT !.seen = manifest], DeletedSets(manifest))]
    /\ condemned' = condemned \cup {manifest.current}
    /\ UNCHANGED <<manifest, stored, size, abandoned>>

\* The manifest goes last, and only when every chunk is gone; its own
\* deletion may fail.
DeleteManifest(p) ==
    /\ pc[p] = "delete_clean" /\ Cleaned(p)
    /\ Return(p)
    /\ IF job[p].remaining = <<>> THEN manifest' \in {manifest, Absent} ELSE UNCHANGED manifest
    /\ UNCHANGED <<stored, size, condemned, abandoned>>

-----------------------------------------------------------------------------

\* The process is killed between two calls.
Crash(p) ==
    /\ pc[p] # "idle"
    /\ Return(p)
    /\ abandoned' = IF pc[p] \in {"save_chunks", "save_undo"}
                    THEN abandoned \cup {job[p].next.current} ELSE abandoned
    /\ UNCHANGED <<manifest, stored, size, condemned>>

Step(p) ==
    \/ CleanChunk(p) \/ CleanSet(p)
    \/ SaveRead(p) \/ SaveBegin(p) \/ SaveRefused(p) \/ WriteChunk(p) \/ WriteManifest(p)
    \/ WriteFails(p) \/ UndoChunks(p) \/ Tidied(p)
    \/ DeleteRead(p) \/ DeleteManifest(p)
    \/ Crash(p)

Next == \E p \in Processes : Step(p)

Spec == Init /\ [][Next]_vars

-----------------------------------------------------------------------------
(* Properties. *)

\* load_from finds every chunk of the current generation.  (The chunks of a
\* generation are only written by the save that named it, so the length and
\* the digest agree when all are there.)
Loads(m) == Chunks(m.current) \subseteq stored

\* validate_manifest on what the code itself writes.
Decodes(m) ==
    /\ Len(m.obsolete) <= MaxObsolete
    /\ \A i \in DOMAIN m.obsolete :
          /\ m.obsolete[i] # m.current
          /\ \A k \in 1..(i - 1) : m.obsolete[k] # m.obsolete[i]

\* A manifest the code writes is one it can read again: a list of obsolete
\* sets that is too long or names a generation twice would make the credential
\* unreadable and undeletable (decode_manifest fails in load and delete).
ManifestDecodes == IsManifest(manifest) => Decodes(manifest)

\* The credential of the last save that replaced the manifest can be loaded at
\* every moment, through failing calls, replacements and crashes, until a
\* delete sets out to remove it.
SavedStaysReadable ==
    IsManifest(manifest) /\ manifest.current \notin condemned => Loads(manifest)

Named == IF IsManifest(manifest)
         THEN {manifest.current} \cup {manifest.obsolete[i] : i \in DOMAIN manifest.obsolete}
         ELSE {}

\* No secret is forgotten: a stored chunk belongs to a generation the manifest
\* names, to the save that is writing it, or to a save that was killed before
\* its manifest or could not take its chunks back.
NothingForgotten ==
    \A c \in stored :
        \/ c[1] \in Named \cup abandoned
        \/ \E p \in Processes : pc[p] \in {"save_chunks", "save_undo"} /\ job[p].next.current = c[1]

\* Whatever fails or is cut short, what is saved stays readable, and no part of
\* what was saved is out of the reach of a later delete.
SavesSound == SavedStaysReadable /\ NothingForgotten

=============================================================================
