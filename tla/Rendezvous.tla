----------------------------- MODULE Rendezvous -----------------------------
(***************************************************************************)
(* What the hub is, seen from outside: peers come online and go offline,   *)
(* and sessions pair two online peers.  A peer that goes offline takes all *)
(* its sessions with it in the same instant, and a session id is used      *)
(* once.                                                                   *)
(***************************************************************************)
CONSTANTS PeerID, SessionID, NoSession

VARIABLES
    online,     \* the peers that are connected
    pairing,    \* SessionID -> the two peers it pairs, or NoSession
    used        \* the session ids handed out so far

rvars == <<online, pairing, used>>

Paired(s, i) == pairing[s] # NoSession /\ i \in {pairing[s].initiator, pairing[s].target}

RInit == online = {} /\ pairing = [s \in SessionID |-> NoSession] /\ used = {}

Join(i) ==
    /\ i \notin online
    /\ online' = online \cup {i}
    /\ UNCHANGED <<pairing, used>>

Leave(i) ==
    /\ i \in online
    /\ online' = online \ {i}
    /\ pairing' = [s \in SessionID |-> IF Paired(s, i) THEN NoSession ELSE pairing[s]]
    /\ UNCHANGED used

Pair(s, i, t) ==
    /\ i \in online /\ t \in online
    /\ s \notin used
    /\ used' = used \cup {s}
    /\ pairing' = [pairing EXCEPT ![s] = [initiator |-> i, target |-> t]]
    /\ UNCHANGED online

Part(s) ==
    /\ pairing[s] # NoSession
    /\ pairing' = [pairing EXCEPT ![s] = NoSession]
    /\ UNCHANGED <<online, used>>

RNext ==
    \/ \E i \in PeerID : Join(i) \/ Leave(i)
    \/ \E s \in SessionID : Part(s) \/ \E i, t \in PeerID : Pair(s, i, t)

RSpec == RInit /\ [][RNext]_rvars
=============================================================================
