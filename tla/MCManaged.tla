------------------------------ MODULE MCManaged ------------------------------
(* TLC instance of what a managed connection needs before it has a line and *)
(* what it keeps on the host: LookupCache, ManagedLogin, ControllerCalls,   *)
(* OidcLogin, LineSelection, CredentialStore, ProfileStore and StateFile.   *)
(* They share no state; a behaviour is about one of them while the others   *)
(* rest.                                                                    *)
(* Lines, profile names and the processes that look a domain up or write    *)
(* the profile document are interchangeable, and so are domains and process *)
(* IDs; as one part moves at a time, they share their model values.         *)
EXTENDS LookupCache, ManagedLogin, ControllerCalls, OidcLogin, LineSelection,
        CredentialStore, ProfileStore, StateFile, TLC

VARIABLE part   \* the component that moves

loginSideVars == <<lookupVars, loginVars, requestVars, oidcVars, selectVars>>
storeSideVars == <<vars, profileVars, stateFileVars>>
managedVars == <<part, loginSideVars, storeSideVars>>

ManagedSymmetry ==
    Permutations(LineIds \cup Lookers \cup Names \cup Writers)
        \cup Permutations(LookupDomains \cup Domains \cup Pids)

LoginRests == service = "other" /\ wants = "password" /\ ~ cached
RequestsRest == valid
OidcRests == rotates
CredentialsRest == manifest = Absent
StateFileRests == through
SelectRests == wanted = AnyLine /\ counter = CHOOSE n \in Counters : TRUE

ManagedInit ==
    /\ part \in {"lookup", "login", "requests", "oidc", "select", "credentials", "profiles",
                "file"}
    /\ LoginInit /\ (part # "login" => LoginRests)
    /\ RequestsInit /\ (part # "requests" => RequestsRest)
    /\ OidcInit /\ (part # "oidc" => OidcRests)
    /\ SelectInit /\ (part # "select" => SelectRests)
    /\ Init /\ (part # "credentials" => CredentialsRest)
    /\ StateFileInit /\ (part # "file" => StateFileRests)
    /\ LookupInit /\ ProfileInit

ManagedNext ==
    /\ UNCHANGED part
    /\ \/ /\ part = "lookup" /\ LookupNext
          /\ UNCHANGED <<loginVars, requestVars, oidcVars, selectVars, storeSideVars>>
       \/ /\ part = "login" /\ LoginNext
          /\ UNCHANGED <<lookupVars, requestVars, oidcVars, selectVars, storeSideVars>>
       \/ /\ part = "requests" /\ RequestsNext
          /\ UNCHANGED <<lookupVars, loginVars, oidcVars, selectVars, storeSideVars>>
       \/ /\ part = "oidc" /\ OidcNext
          /\ UNCHANGED <<lookupVars, loginVars, requestVars, selectVars, storeSideVars>>
       \/ /\ part = "select" /\ SelectNext
          /\ UNCHANGED <<lookupVars, loginVars, requestVars, oidcVars, storeSideVars>>
       \/ part = "credentials" /\ Next /\ UNCHANGED <<loginSideVars, profileVars, stateFileVars>>
       \/ part = "profiles" /\ ProfileNext /\ UNCHANGED <<loginSideVars, vars, stateFileVars>>
       \/ part = "file" /\ StateFileNext /\ UNCHANGED <<loginSideVars, vars, profileVars>>

ManagedSpec == ManagedInit /\ [][ManagedNext]_managedVars

=============================================================================
