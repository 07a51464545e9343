------------------------------ MODULE StateFile ------------------------------
(***************************************************************************)
(* StateStore::update and write_unlocked                                   *)
(* (src/src/bin/openiwan/state.rs) on a file system: how profiles.toml is  *)
(* replaced, with kills and power failures between any two calls.  Module  *)
(* ProfileStore has what the updates mean.                                 *)
(*                                                                         *)
(* A document is its version, 0 for the empty one.  The file system is     *)
(* external: names denote files, both may be newer in memory than on the   *)
(* disk, and a power failure keeps either state of each that was not       *)
(* synced.  A rename is atomic.                                            *)
(***************************************************************************)
EXTENDS Integers

CONSTANTS
    Writers,     \* openiwan processes
    Pids,        \* process IDs, which are used again
    OpenTries,   \* names tried for a temporary file, 16 in the code
    MaxFiles,    \* bound: files created
    MaxNames,    \* bound: names a process tries
    MaxFaults    \* bound: kills, power failures and removals that fail

NoHolder == "none"
NoPid == "none"

ASSUME StateFileAssumption ==
    /\ OpenTries \in Nat \ {0} /\ MaxFiles \in Nat /\ MaxNames \in Nat /\ MaxFaults \in Nat
    /\ NoHolder \notin Writers

VARIABLES
    names,      \* name -> file, 0 if there is none, as processes see it
    namesKept,  \* the same on the disk
    text,       \* file -> its document, or Partial, as processes see it
    textKept,   \* the same on the disk
    files,      \* files created so far
    holder,     \* who has the lock file locked
    step,       \* process -> where update is
    pid,        \* process -> its ID, NoPid if it does not run
    tempCount,  \* process -> TEMPORARY_COUNTER
    writes,     \* process -> [file, name, version] it is writing
    acked,      \* history: version of the last update that returned Ok
    faults,     \* kills, power failures and failed removals so far
    through     \* the platform's rename reaches the disk by itself (Windows)

fileVars == <<names, namesKept, text, textKept, files>>
stateFileVars == <<fileVars, holder, step, pid, tempCount, writes, acked, faults, through>>

Partial == 0 - 1
State == <<"profiles.toml">>
Temporary(p, k) == <<pid[p], k>>
TempNames == Pids \X (0 .. (MaxNames + OpenTries))
NoWrite == [file |-> 0, name |-> State, version |-> 0]

Document(f, contents) == IF f = 0 THEN 0 ELSE contents[f]
Current == Document(names[State], text)

StateFileInit ==
    /\ names = [n \in TempNames \cup {State} |-> 0] /\ namesKept = names
    /\ text = [f \in 1..MaxFiles |-> Partial] /\ textKept = text
    /\ files = 0 /\ holder = NoHolder
    /\ step = [p \in Writers |-> "off"]
    /\ pid = [p \in Writers |-> NoPid]
    /\ tempCount = [p \in Writers |-> 0] /\ writes = [p \in Writers |-> NoWrite]
    /\ acked = 0 /\ faults = 0 /\ through \in BOOLEAN

To(p, from, to) == step[p] = from /\ step' = [step EXCEPT ![p] = to]
Quits(p) == step' = [step EXCEPT ![p] = "idle"] /\ holder' = NoHolder
            /\ writes' = [writes EXCEPT ![p] = NoWrite]
others == <<pid, faults, through>>

-----------------------------------------------------------------------------
(* update. *)

\* The lock is taken, the document loaded and changed.  One that does not parse
\* would be an error; WholeDocument says there is none.
Lock(p) ==
    /\ To(p, "idle", "open") /\ holder = NoHolder /\ Current # Partial
    /\ files < MaxFiles /\ tempCount[p] < MaxNames
    /\ holder' = p
    /\ writes' = [writes EXCEPT ![p].version = Current + 1]
    /\ UNCHANGED <<fileVars, tempCount, acked, others>>

FreeNames(p) ==
    {k \in tempCount[p] .. (tempCount[p] + OpenTries - 1) : names[Temporary(p, k)] = 0}

FirstFree(p) == CHOOSE k \in FreeNames(p) : \A j \in FreeNames(p) : k <= j

\* open_temporary: the first name nobody left behind.
CreateTemporary(p) ==
    /\ To(p, "open", "write") /\ FreeNames(p) # {}
    /\ LET name == Temporary(p, FirstFree(p))
       IN /\ names' = [names EXCEPT ![name] = files + 1]
          /\ writes' = [writes EXCEPT ![p].file = files + 1, ![p].name = name]
    /\ tempCount' = [tempCount EXCEPT ![p] = FirstFree(p) + 1]
    /\ files' = files + 1
    /\ UNCHANGED <<namesKept, text, textKept, holder, acked, others>>

\* The file cannot be created, or every name tried was left behind.
CreateTemporaryFails(p) ==
    /\ step[p] = "open"
    /\ Quits(p)
    /\ tempCount' = [tempCount EXCEPT ![p] =
                        IF FreeNames(p) = {} THEN @ + OpenTries ELSE FirstFree(p) + 1]
    /\ UNCHANGED <<fileVars, acked, others>>

WriteAll(p) ==
    /\ To(p, "write", "sync")
    /\ text' = [text EXCEPT ![writes[p].file] = writes[p].version]
    /\ UNCHANGED <<names, namesKept, textKept, files, holder, tempCount, writes, acked, others>>

\* Mutant: the file is not synced before it replaces the document.
SyncAllSkipped(p) ==
    /\ To(p, "sync", "replace")
    /\ UNCHANGED <<fileVars, holder, tempCount, writes, acked, others>>

SyncAll(p) ==
    /\ To(p, "sync", "replace")
    /\ textKept' = [textKept EXCEPT ![writes[p].file] = text[writes[p].file]]
    /\ UNCHANGED <<names, namesKept, text, files, holder, tempCount, writes, acked, others>>

Renamed(directory, p) == [directory EXCEPT ![State] = writes[p].file, ![writes[p].name] = 0]

AtomicReplace(p) ==
    /\ To(p, "replace", "sync_directory")
    /\ names' = Renamed(names, p)
    /\ namesKept' = IF through THEN Renamed(namesKept, p) ELSE namesKept
    /\ UNCHANGED <<text, textKept, files, holder, tempCount, writes, acked, others>>

\* Mutant: the directory is not synced.
SyncDirectorySkipped(p) ==
    /\ To(p, "sync_directory", "idle")
    /\ holder' = NoHolder /\ acked' = writes[p].version
    /\ writes' = [writes EXCEPT ![p] = NoWrite]
    /\ UNCHANGED <<fileVars, tempCount, others>>

\* sync_directory, on Unix; then the lock is released and update returns Ok.
SyncDirectory(p) ==
    /\ To(p, "sync_directory", "idle")
    /\ holder' = NoHolder /\ acked' = writes[p].version
    /\ writes' = [writes EXCEPT ![p] = NoWrite]
    /\ namesKept' = IF through THEN namesKept ELSE names
    /\ UNCHANGED <<names, text, textKept, files, tempCount, others>>

\* A write, sync, permission check or rename fails: the temporary file, which
\* is no more once it was renamed, is removed, whether or not that succeeds,
\* and update returns the error.
WriteBreaks(p) ==
    /\ step[p] \in {"write", "sync", "replace", "sync_directory"}
    /\ Quits(p)
    /\ \/ names' = [names EXCEPT ![writes[p].name] = 0] /\ faults' = faults
       \/ names' = names /\ faults < MaxFaults /\ faults' = faults + 1
    /\ UNCHANGED <<namesKept, text, textKept, files, tempCount, acked, pid, through>>

-----------------------------------------------------------------------------
(* Faults. *)

\* A process starts; it may have the ID of one that is gone.
Starts(p) ==
    /\ To(p, "off", "idle")
    /\ \E id \in Pids \ {pid[q] : q \in Writers} : pid' = [pid EXCEPT ![p] = id]
    /\ UNCHANGED <<fileVars, holder, tempCount, writes, acked, faults, through>>

\* It exits or is killed, which releases its lock.
Exits(p) ==
    /\ step[p] # "off"
    /\ IF step[p] = "idle" THEN faults' = faults
                          ELSE faults < MaxFaults /\ faults' = faults + 1
    /\ step' = [step EXCEPT ![p] = "off"] /\ writes' = [writes EXCEPT ![p] = NoWrite]
    /\ holder' = IF holder = p THEN NoHolder ELSE holder
    /\ pid' = [pid EXCEPT ![p] = NoPid] /\ tempCount' = [tempCount EXCEPT ![p] = 0]
    /\ UNCHANGED <<fileVars, acked, through>>

\* What the disk may hold when the power fails: of what was not synced, the
\* document's name before or after the rename, temporary files or none, and
\* the old content, a part of it or the new one.
PowerFails ==
    /\ faults < MaxFaults /\ faults' = faults + 1
    /\ \E renamed \in BOOLEAN, written \in BOOLEAN :
          /\ names' = IF renamed THEN names ELSE namesKept
          /\ text' = IF written THEN text ELSE textKept
    /\ namesKept' = names' /\ textKept' = text'
    /\ step' = [p \in Writers |-> "off"] /\ pid' = [p \in Writers |-> NoPid]
    /\ writes' = [p \in Writers |-> NoWrite] /\ holder' = NoHolder
    /\ tempCount' = [p \in Writers |-> 0]
    /\ UNCHANGED <<files, acked, through>>

WriterStep(p) ==
    \/ Lock(p) \/ CreateTemporary(p) \/ CreateTemporaryFails(p) \/ WriteAll(p)
    \/ SyncAll(p) \/ AtomicReplace(p) \/ SyncDirectory(p) \/ WriteBreaks(p)
    \/ Starts(p) \/ Exits(p)

StateFileNext == PowerFails \/ \E p \in Writers : WriterStep(p)

StateFileSpec == StateFileInit /\ [][StateFileNext]_stateFileVars

-----------------------------------------------------------------------------
(* Properties. *)

\* A reader, which takes no lock, finds a whole document at every moment, and
\* so does one after a power failure: "readers always observe either the old
\* or new complete document" (a comment of load).
WholeDocument ==
    /\ Current # Partial
    /\ Document(namesKept[State], textKept) # Partial

\* What update returned Ok for is never undone, by whatever is killed, fails or
\* loses power afterwards.
AckedSurvives ==
    Current >= acked /\ Document(namesKept[State], textKept) >= acked

\* A file is written by one process: a leftover of a process that had the same
\* ID is not taken over.
OneWriterPerFile ==
    \A p \in Writers : writes[p].file # 0 =>
        /\ holder = p
        /\ step[p] \in {"write", "sync", "replace"} => names[writes[p].name] = writes[p].file

\* profiles.toml is replaced as a whole and for good.
StateFileSound == WholeDocument /\ AckedSurvives /\ OneWriterPerFile

=============================================================================
