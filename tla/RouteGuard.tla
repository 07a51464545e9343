----------------------------- MODULE RouteGuard -----------------------------
(***************************************************************************)
(* RouteGuard (src/src/tun.rs): the routes of a tunnel are installed one   *)
(* by one, what they replace is remembered, and a failure or the guard's   *)
(* Drop undoes them in reverse order.                                      *)
(*                                                                         *)
(* The host's table has two slots per prefix.  Slot "tunnel" is the one a  *)
(* tunnel route takes: metric 0 on Linux, the row with the tunnel's LUID   *)
(* and next hop on Windows, the prefix itself on macOS.  Slot "other" is a *)
(* route to the same prefix the tunnel route leaves in place.  The tools   *)
(* and system calls are external: each may fail without effect.            *)
(***************************************************************************)
EXTENDS Integers, Sequences

CONSTANTS
    Cidrs,       \* canonical prefixes
    Platforms,   \* the platforms explored
    MaxRequests  \* bound: routes handed to configure

ASSUME RouteGuardAssumption ==
    Platforms \subseteq {"linux", "macos", "windows"} /\ MaxRequests \in Nat

VARIABLES
    platform,
    requests,   \* the routes to install, in order, duplicates allowed
    table,      \* prefix -> slot -> who owns the route there
    changes,    \* LinuxRoutes::changes, WindowsRoutes::changes, installed
    phase,      \* "configure", "up", "undo" (setup failed), "drop", "linkdown",
                \* "refused" (configure returned Err), "dropped"
    original,   \* history: the table before configure
    failed      \* history: prefixes a rollback command failed for

vars == <<platform, requests, table, changes, phase, original, failed>>

Slots == {"tunnel", "other"}
Owners == {"none", "host", "tun"}

\* snapshot_linux_route shows every route to the prefix, GetIpForwardEntry2
\* only the row with the tunnel's key; macOS looks at nothing.
Snapshot(p) ==
    [s \in Slots |->
        CASE platform = "linux" -> table[p][s]
          [] platform = "windows" /\ s = "tunnel" -> table[p][s]
          [] OTHER -> "none"]

\* `ip route replace` and SetIpForwardEntry2 overwrite, `route add` does not.
CanInstall(p) == platform = "macos" => table[p]["tunnel"] = "none"

\* A Windows row equivalent to the desired one is left alone.
Equivalent(p) == platform = "windows" /\ table[p]["tunnel"] = "tun"

Init ==
    /\ platform \in Platforms
    /\ requests \in UNION {[1..n -> Cidrs] : n \in 0..MaxRequests}
    /\ original \in [Cidrs -> [Slots -> {"none", "host"}]]
    /\ table = original
    /\ changes = <<>> /\ phase = "configure" /\ failed = {}

-----------------------------------------------------------------------------
(* configure_routes and apply_route_transaction. *)

Install ==
    /\ phase = "configure" /\ requests # <<>>
    /\ LET p == Head(requests) IN
       /\ CanInstall(p)
       /\ table' = [table EXCEPT ![p]["tunnel"] = "tun"]
       /\ changes' = IF Equivalent(p) THEN changes
                     ELSE Append(changes, [prefix |-> p, previous |-> Snapshot(p)])
    /\ requests' = Tail(requests)
    /\ UNCHANGED <<platform, phase, original, failed>>

\* The snapshot or the command fails: what is installed is rolled back.
InstallFails ==
    /\ phase = "configure" /\ requests # <<>>
    /\ phase' = "undo"
    /\ UNCHANGED <<platform, requests, table, changes, original, failed>>

Configured ==
    /\ phase = "configure" /\ requests = <<>>
    /\ phase' = "up"
    /\ UNCHANGED <<platform, requests, table, changes, original, failed>>

DropGuard ==
    /\ phase = "up"
    /\ phase' = "drop"
    /\ UNCHANGED <<platform, requests, table, changes, original, failed>>

-----------------------------------------------------------------------------
(* rollback, rollback_route_transaction and cleanup_macos_routes. *)

\* A slot once the tunnel's route is deleted from it.
Cleared(owner) == IF owner = "tun" THEN "none" ELSE owner

\* Mutant: every route to the prefix is deleted, not only the tunnel's.
UndoneEverything(c) ==
    [s \in Slots |->
        IF c.previous[s] # "none" THEN c.previous[s] ELSE "none"]

\* The prefix once a change is undone: the tunnel route is deleted, then what
\* the change replaced is put back.
Undone(c) ==
    [s \in Slots |->
        IF c.previous[s] # "none" THEN c.previous[s] ELSE Cleared(table[c.prefix][s])]

Recorded == {changes[i] : i \in DOMAIN changes}

\* Mutant: the changes are undone in the order they were made.
UndoneNextFirst(c) == c = Head(changes) /\ changes' = Tail(changes)

\* The change to undo is the last one.
UndoneNext(c) == /\ c = changes[Len(changes)]
                 /\ changes' = SubSeq(changes, 1, Len(changes) - 1)

Undo ==
    /\ phase \in {"undo", "drop"} /\ changes # <<>>
    /\ \E c \in Recorded :
          /\ UndoneNext(c)
          /\ table' = [table EXCEPT ![c.prefix] = Undone(c)]
    /\ UNCHANGED <<platform, requests, phase, original, failed>>

\* Some command for the change fails, which is ignored: each slot may be left
\* alone, only be cleared of the tunnel route, or be undone.
UndoFails ==
    /\ phase \in {"undo", "drop"} /\ changes # <<>>
    /\ \E c \in Recorded, slots \in [Slots -> Owners] :
          /\ UndoneNext(c)
          /\ \A s \in Slots :
                slots[s] \in {table[c.prefix][s], Cleared(table[c.prefix][s]), Undone(c)[s]}
          /\ table' = [table EXCEPT ![c.prefix] = slots]
          /\ failed' = failed \cup {c.prefix}
    /\ UNCHANGED <<platform, requests, phase, original>>

\* configure returns its error; Drop goes on to take the interface down.
UndoEnds ==
    /\ phase \in {"undo", "drop"} /\ changes = <<>>
    /\ phase' = IF phase = "undo" THEN "refused"
                ELSE IF platform = "windows" THEN "dropped" ELSE "linkdown"
    /\ UNCHANGED <<platform, requests, table, changes, original, failed>>

\* `ip link set down`, `ifconfig down`: the kernel drops the routes that use
\* the interface; a failure of the command is ignored.
LinkDown ==
    /\ phase = "linkdown"
    /\ phase' = "dropped"
    /\ \/ table' = [p \in Cidrs |-> [s \in Slots |-> Cleared(table[p][s])]]
       \/ UNCHANGED table
    /\ UNCHANGED <<platform, requests, changes, original, failed>>

Done == phase \in {"refused", "dropped"} /\ UNCHANGED vars

Next == \/ Install \/ InstallFails \/ Configured \/ DropGuard
        \/ Undo \/ UndoFails \/ UndoEnds \/ LinkDown \/ Done

Spec == Init /\ [][Next]_vars

-----------------------------------------------------------------------------
(* Properties. *)

\* "Normal shutdown and setup failures restore replaced state in reverse
\* order" (docs/CONFIGURATION.md): a refused configure and a dropped guard
\* leave every prefix as it was, except where a rollback command failed; a
\* failure for one prefix never damages another, whatever the duplicates.
Restored ==
    phase \in {"refused", "dropped"} =>
        \A p \in Cidrs \ failed : table[p] = original[p]

\* A route the tunnel does not replace survives everything, rollback commands
\* that fail included.
OthersSurvive == \A p \in Cidrs : table[p]["other"] = original[p]["other"]

=============================================================================
