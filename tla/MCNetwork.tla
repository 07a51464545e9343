------------------------------ MODULE MCNetwork ------------------------------
(* TLC instance of the client's exchanges over an unreliable network:       *)
(* Authenticate, OpenAnswer (how one answer of it is read), SrMonitor and   *)
(* SrTransfer.  They share no state; a behaviour exercises one of them,     *)
(* chosen at the start, while the others rest in an initial state.  Two     *)
(* fragment IDs make SrTransfer's third packet reuse the first one's.       *)
EXTENDS Authenticate, OpenAnswer, SrMonitor, SrTransfer

VARIABLE part   \* the exchange that runs

networkVars == <<part, authVars, answerVars, pathVars, transferVars>>

MCPayloads == Inner
MCTexts == {<<>>, <<32>>, <<32, 1>>}
MCValues == {<<>>, <<0>>, <<3>>, <<2, 3>>}
MCNonce == <<3>>

NetworkInit ==
    /\ part \in {"authenticate", "answer", "monitor", "transfer"}
    /\ AuthInit /\ MonitorInit /\ TransferInit
    /\ part # "transfer" => /\ conf = [enc |-> "None", outer |-> "None"]
                            /\ nextId = 0
    /\ IF part = "answer" THEN AnswerInit
                          ELSE /\ reply = Datagram("Close", "header", <<>>, <<>>)
                               /\ verdict = Undecided

AuthRuns(A) == part = "authenticate" /\ A /\ UNCHANGED <<part, answerVars, pathVars, transferVars>>

NetworkNext ==
    \/ AuthRuns(AuthNext)
    \/ part = "answer" /\ AnswerNext /\ UNCHANGED <<part, authVars, pathVars, transferVars>>
    \/ part = "monitor" /\ MonitorNext /\ UNCHANGED <<part, authVars, answerVars, transferVars>>
    \/ part = "transfer" /\ TransferNext /\ UNCHANGED <<part, authVars, answerVars, pathVars>>

\* The authenticating thread runs and time passes; nothing is assumed of the
\* socket, the server or the network.
NetworkSpec ==
    /\ NetworkInit /\ [][NetworkNext]_networkVars
    /\ WF_networkVars(AuthRuns(Client)) /\ WF_networkVars(AuthRuns(AuthTick))

=============================================================================
