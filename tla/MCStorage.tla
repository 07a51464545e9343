------------------------------ MODULE MCStorage ------------------------------
(* TLC instance of CredentialStore and ProfileStore: a behaviour is about   *)
(* the calls on the credential service or about the commands around them,   *)
(* while the other rests.  Domains and profile names are interchangeable.   *)
EXTENDS CredentialStore, ProfileStore, TLC

VARIABLE part   \* "credentials" or "profiles"

storageVars == <<part, vars, profileVars>>

Symmetry == Permutations(Domains) \cup Permutations(Names)

StorageInit == part \in {"credentials", "profiles"} /\ Init /\ ProfileInit

StorageNext ==
    \/ part = "credentials" /\ Next /\ UNCHANGED <<part, profileVars>>
    \/ part = "profiles" /\ ProfileNext /\ UNCHANGED <<part, vars>>

StorageSpec == StorageInit /\ [][StorageNext]_storageVars

=============================================================================
