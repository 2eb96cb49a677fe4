-------------------------- MODULE ImageServerPeers --------------------------
(***************************************************************************)
(* ImageServer and the two contracts that ClientSession and                *)
(* OperatorStation implement: seen from one session, no step of the server *)
(* or of its environment goes beyond ClientPeer, if a client is there, or  *)
(* OperatorPeer.                                                           *)
(***************************************************************************)
EXTENDS ImageServer

\* A session of an operator is none of a client: for ClientPeer, unused.
ClientStage(s) ==
    CASE systemId[s] \notin ClientId -> "unused"
      [] systemId[s] \in ClientId /\ pc = "crashed" /\ cur = s -> "crashed"
      [] systemId[s] \in ClientId /\ ~(pc = "crashed" /\ cur = s) ->
            IF phase[s] \in {"destroyed", "done"} THEN "over" ELSE phase[s]

IsLive(s) == ClientStage(s) \in {"dialed", "identified", "open"}

ClientUp(s)     == IsLive(s) /\ peerUp[s]
ClientSent(s)   == {i \in Image : IsLive(s) /\ origin[i] = s}
ClientUnread(s) == {i \in wire[s] : IsLive(s)}
ClientGot(s)    == {i \in received : origin[i] = s}

ClientAt(s) == INSTANCE ClientPeer WITH
    stage <- ClientStage(s), up <- ClientUp(s),
    sent <- ClientSent(s), wire <- ClientUnread(s), got <- ClientGot(s)

\* The faults after which a program is gone.
LossFaults == {"client_loss", "operator_loss", "early_close"}

OperatorAt(s) == INSTANCE OperatorPeer WITH
    Image      <- Image \cup {EmptyImage},
    Unreadable <- {EmptyImage},
    up         <- phase[s] = "unused" \/ peerUp[s],
    desk       <- desk[s],
    answers    <- answers[s],
    faulted    <- ~Absent(LossFaults)

\* At every session the peer behaves as its contract says, and the server
\* reads from it and writes to it as the contract expects.
PeersAsAssumed ==
    /\ \A s \in Session : ClientAt(s)!Init /\ OperatorAt(s)!Init
    /\ [][\A s \in Session :
             /\ UNCHANGED ClientAt(s)!clientVars \/ ClientAt(s)!Next
             /\ UNCHANGED OperatorAt(s)!peerVars \/ OperatorAt(s)!Next]_vars
=============================================================================
