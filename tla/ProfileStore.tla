---------------------------- MODULE ProfileStore ----------------------------
(***************************************************************************)
(* Profiles and their saved credentials: StateStore                        *)
(* (src/src/bin/openiwan/state.rs) and the commands of                     *)
(* src/src/bin/openiwan.rs that read or change it: profile set, remove and *)
(* logout, managed login, connect and discover.                            *)
(*                                                                         *)
(* profiles.toml is one document: load reads it without the lock, update   *)
(* reads, changes and replaces it under the lock.  The credential service  *)
(* is outside the lock; a save, delete or load of an account is one step   *)
(* here (CredentialStore has their insides).  A profile keeps its domain   *)
(* and its credential ID; its username and Device ID matter only by        *)
(* whether `profile set` changes them, the rest of it is left out, and so  *)
(* is the default profile: the name a command works on is chosen freely.   *)
(***************************************************************************)
EXTENDS Integers

CONSTANTS
    Instances,    \* openiwan processes
    Names,        \* profile names
    Domains,      \* customer domains
    MaxIds,       \* bound: credential IDs created
    MaxCommands   \* bound: commands started

Free == "free"

ASSUME ProfileAssumption ==
    /\ "none" \notin Domains /\ "broken" \notin Domains /\ "kept" \notin Domains
    /\ Free \notin Instances
    /\ MaxIds \in Nat /\ MaxCommands \in Nat

VARIABLES
    document,   \* profiles.toml: the generated Device ID and the profiles
    lock,       \* who holds the lock file
    entries,    \* credential ID -> "none", "broken" or the domain the saved
                \* credential was verified for
    ids,        \* credential IDs created so far
    doing,      \* process -> where its command is
    locals,     \* process -> the locals of its command
    started,    \* commands started so far
    alone,      \* history: no two commands have overlapped
    devices,    \* history: Device IDs generated, and
    returned,   \* those that device_id returned
    presented   \* history: saved credentials used, as <<verified for, sent to>>

storeVars == <<entries, ids, devices>>
begun == <<started, alone>>
history == <<returned, presented>>
profileVars == <<document, lock, storeVars, doing, locals, begun, history>>

NoProfile == [domain |-> "none", id |-> 0]
Exists(profile) == profile # NoProfile

NoJob == [name |-> "none", domain |-> "kept", changed |-> FALSE, seen |-> NoProfile,
          id |-> 0, device |-> 0, base |-> <<>>, draft |-> <<>>]

ProfileInit ==
    /\ document = [device |-> 0, profiles |-> [n \in Names |-> NoProfile]]
    /\ lock = Free
    /\ entries = [i \in 1..MaxIds |-> "none"] /\ ids = 0
    /\ doing = [p \in Instances |-> "idle"] /\ locals = [p \in Instances |-> NoJob]
    /\ started = 0 /\ alone = TRUE /\ devices = 0 /\ returned = {} /\ presented = {}

Moves(p, from, to) == doing[p] = from /\ doing' = [doing EXCEPT ![p] = to]
Exit(p) == doing' = [doing EXCEPT ![p] = "idle"] /\ locals' = [locals EXCEPT ![p] = NoJob]

\* A process starts a command.
Begins ==
    /\ started < MaxCommands /\ started' = started + 1
    /\ alone' = (alone /\ \A q \in Instances : doing[q] = "idle")

\* A command begins by loading the document.
Start(p, n, to) ==
    /\ Moves(p, "idle", to)
    /\ Begins
    /\ locals' = [locals EXCEPT ![p] = [NoJob EXCEPT !.name = n, !.seen = document.profiles[n]]]
    /\ UNCHANGED <<document, lock, storeVars, history>>

-----------------------------------------------------------------------------
(* StateStore::update. *)

Updating == {"device_update", "set_update", "remove_update", "logout_update",
             "login_ensure", "login_sync"}

Committing == {"device_commit", "set_commit", "remove_commit", "logout_commit",
               "ensure_commit", "sync_commit"}

\* set_profile's closure on a profile that is gone needs a domain, and panics
\* unless the Device ID was generated or given before.
SetFails(p) == ~Exists(document.profiles[locals[p].name]) /\ locals[p].domain = "kept"
SetPanics(p) ==
    /\ ~Exists(document.profiles[locals[p].name]) /\ locals[p].domain # "kept"
    /\ locals[p].device = 0

SetProfile(p) ==
    LET j == locals[p]
        old == document.profiles[j.name] IN
    [domain |-> IF j.domain = "kept" THEN old.domain ELSE j.domain,
     id |-> IF j.changed THEN 0 ELSE old.id]

\* Mutant: the closure does not look whether another process was faster.
DeviceDraftAlways(doc) == [doc EXCEPT !.device = devices + 1]

\* device_id's closure: the ID is generated only if there is still none.
DeviceDraft(doc) == IF doc.device = 0 THEN [doc EXCEPT !.device = devices + 1] ELSE doc

NewId == ids + 1

\* The document a closure turns the current one into.
Draft(p) ==
    LET n == locals[p].name
        With(profile) == [document EXCEPT !.profiles[n] = profile] IN
    CASE doing[p] = "device_update" -> DeviceDraft(document)
      [] doing[p] = "set_update" -> With(SetProfile(p))
      [] doing[p] = "remove_update" -> With(NoProfile)
      [] doing[p] = "logout_update" -> With([document.profiles[n] EXCEPT !.id = 0])
      [] doing[p] = "login_ensure" ->
            With([document.profiles[n] EXCEPT
                    !.id = IF document.profiles[n].id = 0 THEN NewId ELSE document.profiles[n].id])
      [] OTHER -> document

\* The closure's error: every other one needs the profile to exist.
ClosureFails(p) ==
    CASE doing[p] = "device_update" -> FALSE
      [] doing[p] = "set_update" -> SetFails(p)
      [] OTHER -> ~Exists(document.profiles[locals[p].name])

Committed(from) ==
    CASE from = "device_update" -> "device_commit" [] from = "set_update" -> "set_commit"
      [] from = "remove_update" -> "remove_commit" [] from = "logout_update" -> "logout_commit"
      [] from = "login_ensure" -> "ensure_commit" [] from = "login_sync" -> "sync_commit"

\* Mutant: the lock is not exclusive.
LockFreeShared == TRUE

LockFree == lock = Free

\* The lock is taken, the document loaded, changed and written aside.
UpdateBegins(p) ==
    /\ doing[p] \in Updating /\ LockFree
    /\ ~ClosureFails(p) /\ ~(doing[p] = "set_update" /\ SetPanics(p))
    /\ doing[p] = "login_ensure" => ids < MaxIds
    /\ lock' = p
    /\ doing' = [doing EXCEPT ![p] = Committed(doing[p])]
    /\ locals' = [locals EXCEPT ![p].base = document, ![p].draft = Draft(p)]
    /\ ids' = IF doing[p] = "login_ensure" /\ document.profiles[locals[p].name].id = 0
              THEN NewId ELSE ids
    /\ devices' = IF doing[p] = "device_update" /\ DeviceDraft(document) # document
                  THEN devices + 1 ELSE devices
    /\ UNCHANGED <<document, entries, begun, history>>

\* The closure returns an error; nothing is written.
UpdateRefused(p) ==
    /\ doing[p] \in Updating /\ LockFree /\ ClosureFails(p)
    /\ Exit(p)
    /\ UNCHANGED <<document, lock, storeVars, begun, history>>

SetPanicked(p) ==
    /\ Moves(p, "set_update", "panicked") /\ LockFree /\ SetPanics(p)
    /\ UNCHANGED <<document, lock, storeVars, locals, begun, history>>

\* What follows a successful update.
After(p) ==
    CASE doing[p] = "device_commit" ->
            IF locals[p].name = "none" THEN "idle" ELSE "set_update"
      [] doing[p] = "ensure_commit" -> "login_save"
      [] OTHER -> "idle"

\* atomic_replace, and the lock is released.
UpdateCommits(p) ==
    LET j == locals[p] IN
    /\ doing[p] \in Committing
    /\ document' = j.draft /\ lock' = Free
    /\ doing' = [doing EXCEPT ![p] = After(p)]
    /\ locals' = [locals EXCEPT ![p] =
          CASE After(p) = "idle" -> NoJob
            [] After(p) = "login_save" ->
                  [j EXCEPT !.id = j.draft.profiles[j.name].id, !.base = <<>>, !.draft = <<>>]
            [] OTHER -> [j EXCEPT !.device = j.draft.device, !.base = <<>>, !.draft = <<>>]]
    /\ returned' = IF doing[p] = "device_commit" THEN returned \cup {j.draft.device} ELSE returned
    /\ UNCHANGED <<storeVars, begun, presented>>

\* write_unlocked fails, before the document is replaced or after it.
UpdateFails(p) ==
    /\ doing[p] \in Committing
    /\ document' \in {document, locals[p].draft} /\ lock' = Free
    /\ Exit(p)
    /\ UNCHANGED <<storeVars, begun, history>>

-----------------------------------------------------------------------------
(* device_id: a look without the lock, then an update. *)

\* `managed discover --domain` asks for the installation's Device ID.
Discover(p) ==
    /\ Moves(p, "idle", "device_load")
    /\ Begins
    /\ UNCHANGED <<document, lock, storeVars, locals, history>>

DeviceKnown(p) ==
    /\ doing[p] = "device_load" /\ document.device # 0
    /\ returned' = returned \cup {document.device}
    /\ IF locals[p].name = "none" THEN Exit(p)
       ELSE /\ doing' = [doing EXCEPT ![p] = "set_update"]
            /\ locals' = [locals EXCEPT ![p].device = document.device]
    /\ UNCHANGED <<document, lock, storeVars, begun, presented>>

DeviceUnknown(p) ==
    /\ Moves(p, "device_load", "device_update") /\ document.device = 0
    /\ UNCHANGED <<document, lock, storeVars, locals, begun, history>>

-----------------------------------------------------------------------------
(* profile set. *)

\* Mutant: a change of the domain alone does not count.
AuthenticationChangedOther(seen, domain, other) == Exists(seen) /\ other

\* other: --username, --unset-username or --device-id differ from the profile.
AuthenticationChanged(seen, domain, other) ==
    Exists(seen) /\ (domain \notin {"kept", seen.domain} \/ other)

\* Existing profiles need no Device ID; a new one gets the given one
\* (Domains stand for themselves, any number but 0 for a given Device ID).
SetBegins(p) ==
    /\ doing[p] = "idle" /\ Begins
    /\ \E n \in Names, domain \in Domains \cup {"kept"}, other, given \in BOOLEAN :
          LET seen == document.profiles[n]
              changed == AuthenticationChanged(seen, domain, other) IN
          /\ locals' = [locals EXCEPT ![p] = [NoJob EXCEPT !.name = n, !.domain = domain,
                        !.seen = seen, !.changed = changed, !.device = IF given THEN -1 ELSE 0]]
          /\ doing' = [doing EXCEPT ![p] =
                IF ~Exists(seen) /\ ~given THEN "device_load"
                ELSE IF changed /\ seen.id # 0 THEN "set_delete" ELSE "set_update"]
    /\ UNCHANGED <<document, lock, storeVars, history>>

-----------------------------------------------------------------------------
(* profile remove, profile logout: the credential the loaded profile names *)
(* is deleted first.                                                       *)

RemoveBegins(p) ==
    \E n \in Names :
        /\ Exists(document.profiles[n])
        /\ Start(p, n, IF document.profiles[n].id # 0 THEN "remove_delete" ELSE "remove_update")

\* Without a saved credential there is nothing to do.
LogoutBegins(p) ==
    \E n \in Names :
        /\ Exists(document.profiles[n]) /\ document.profiles[n].id # 0
        /\ Start(p, n, "logout_delete")

\* Mutant: the credential is left to the service.
DeletedEntryKept(p) == entries

DeletedEntry(p) == [entries EXCEPT ![locals[p].seen.id] = "none"]

DeleteCredential(p) ==
    /\ \/ Moves(p, "set_delete", "set_update") \/ Moves(p, "remove_delete", "remove_update")
       \/ Moves(p, "logout_delete", "logout_update")
    /\ entries' = DeletedEntry(p)
    /\ UNCHANGED <<document, lock, ids, devices, locals, begun, history>>

\* A delete that fails ends the command; some chunks may be gone already.
DeleteFails(p) ==
    /\ doing[p] \in {"set_delete", "remove_delete", "logout_delete"}
    /\ Exit(p)
    /\ entries' \in {entries,
          [entries EXCEPT ![locals[p].seen.id] = IF @ = "none" THEN "none" ELSE "broken"]}
    /\ UNCHANGED <<document, lock, ids, devices, begun, history>>

-----------------------------------------------------------------------------
(* managed login: fresh authentication with the domain of the loaded        *)
(* profile, then ensure_credential_id, save and sync_profile_username.      *)

LoginBegins(p) ==
    \E n \in Names : Exists(document.profiles[n]) /\ Start(p, n, "login_authenticate")

Authenticated(p) ==
    /\ Moves(p, "login_authenticate",
            IF locals[p].seen.id # 0 THEN "login_save" ELSE "login_ensure")
    /\ locals' = [locals EXCEPT ![p].id = locals[p].seen.id]
    /\ UNCHANGED <<document, lock, storeVars, begun, history>>

LoginSave(p) ==
    /\ Moves(p, "login_save", "login_sync")
    /\ entries' = [entries EXCEPT ![locals[p].id] = locals[p].seen.domain]
    /\ UNCHANGED <<document, lock, ids, devices, locals, begun, history>>

-----------------------------------------------------------------------------
(* managed connect, forward and lines: the saved credential is loaded and   *)
(* sent to the loaded profile's domain.  A refreshed OIDC token is saved    *)
(* under the same ID at once.                                               *)

ConnectBegins(p) ==
    \E n \in Names :
        /\ Exists(document.profiles[n]) /\ document.profiles[n].id # 0
        /\ Start(p, n, "connect_load")

\* No saved credential, or one that does not decode: ask, or fail.
NothingSaved(p) ==
    /\ doing[p] = "connect_load" /\ entries[locals[p].seen.id] \in {"none", "broken"}
    /\ Exit(p)
    /\ UNCHANGED <<document, lock, storeVars, begun, history>>

Present(p) ==
    LET saved == entries[locals[p].seen.id] IN
    /\ Moves(p, "connect_load", "connect_refresh") /\ saved \in Domains
    /\ presented' = presented \cup {<<saved, locals[p].seen.domain>>}
    /\ UNCHANGED <<document, lock, storeVars, locals, begun, returned>>

\* The identity provider answers: the new refresh token is saved.
SaveRefreshed(p) ==
    /\ doing[p] = "connect_refresh"
    /\ Exit(p)
    /\ entries' = [entries EXCEPT ![locals[p].seen.id] = locals[p].seen.domain]
    /\ UNCHANGED <<document, lock, ids, devices, begun, history>>

-----------------------------------------------------------------------------

\* The process ends early: an error of authentication, of a save or of the
\* provider, a password that needs no saving, or a kill.  The system releases
\* the lock of a process that is gone.
Ends(p) ==
    /\ doing[p] # "idle"
    /\ Exit(p)
    /\ lock' = IF lock = p THEN Free ELSE lock
    /\ UNCHANGED <<document, storeVars, begun, history>>

ProfileStep(p) ==
    \/ UpdateBegins(p) \/ UpdateRefused(p) \/ SetPanicked(p) \/ UpdateCommits(p)
    \/ UpdateFails(p)
    \/ Discover(p) \/ DeviceKnown(p) \/ DeviceUnknown(p)
    \/ SetBegins(p) \/ RemoveBegins(p) \/ LogoutBegins(p)
    \/ DeleteCredential(p) \/ DeleteFails(p)
    \/ LoginBegins(p) \/ Authenticated(p) \/ LoginSave(p)
    \/ ConnectBegins(p) \/ NothingSaved(p) \/ Present(p) \/ SaveRefreshed(p)
    \/ Ends(p)

\* Every command is over.
ProfileDone ==
    /\ started = MaxCommands /\ (\A p \in Instances : doing[p] = "idle")
    /\ UNCHANGED profileVars

ProfileNext == ProfileDone \/ \E p \in Instances : ProfileStep(p)

ProfileSpec == ProfileInit /\ [][ProfileNext]_profileVars

-----------------------------------------------------------------------------
(* Properties. *)

\* "Changing a profile's domain, Device ID, or username invalidates the
\* associated saved authentication" (docs/CONFIGURATION.md): what was saved
\* for one domain is never sent to another.
SentToOwner == \A use \in presented : use[1] = use[2]

\* The same as long as commands do not overlap, whichever ran before, however
\* they ended and wherever they were killed.
PresentedToOwner == alone => SentToOwner

\* "Removing a profile also deletes that authentication"
\* (docs/CONFIGURATION.md): as long as commands do not overlap, a saved
\* credential always belongs to a profile, or no command would ever find it
\* to delete it.
EveryCredentialOwned ==
    alone =>
        \A i \in DOMAIN entries :
            entries[i] # "none" => \E n \in Names : document.profiles[n].id = i

\* As long as commands do not overlap, a saved credential is only ever used for
\* and found through the profile it was saved for, whichever commands ran
\* before, however they ended and wherever they were killed.
CredentialsOwned == PresentedToOwner /\ EveryCredentialOwned

\* An update replaces exactly the document it was computed from, whatever the
\* other processes do: no change of theirs is lost.
NoLostUpdate == \A p \in Instances : doing[p] \in Committing => locals[p].base = document

\* The installation has one Device ID: every caller of device_id gets the same
\* one, first uses that race included.
OneDeviceId == \A x, y \in returned : x = y

\* Updates of the state file take effect one after the other, whichever
\* processes make them: none is lost and all callers see one Device ID.
UpdatesSerialised == NoLostUpdate /\ OneDeviceId

\* What the commands promise of profiles and their credentials, whatever ends
\* them: credentials stay with their profile and no update is lost.
ProfilesSound == CredentialsOwned /\ UpdatesSerialised

=============================================================================
