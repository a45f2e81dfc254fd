--------------------------------- MODULE Hub ---------------------------------
(***************************************************************************)
(* The hub's registry (internal/signal/hub.go): which Peer object holds    *)
(* which peer id, and which sessions are open.  Each action below is one   *)
(* critical section of h.mu; the messages the code sends after unlocking   *)
(* are left to the caller, which sends them in later steps.                *)
(*                                                                         *)
(* Definitions named Bug_* are the seeded bugs the properties are tested   *)
(* against; no specification uses them.                                    *)
(***************************************************************************)
EXTENDS Wire

CONSTANTS
    Conn,       \* the Peer objects: one per accepted WebSocket
    NoConn,     \* the nil *Peer
    NoSession   \* the absence of a session

Session == [initiator : PeerID, target : PeerID]
History == [ini : Conn, tgt : Conn, by : Conn \cup {NoConn}]

ASSUME HubAssumption ==
    /\ NoConn \notin Conn
    /\ NoSession \notin Session
    /\ NoSession \notin History

VARIABLES
    peers,      \* h.peers:    PeerID -> the registered Peer object, or NoConn
    sessions,   \* h.sessions: SessionID -> its two members, or NoSession
    hist        \* history: the Peer objects each session was opened between and the
                \*   one whose handler ended it (NoConn while it is open);
                \*   NoSession for an id that was never drawn

hubVars == <<peers, sessions, hist>>

HubTypeOK ==
    /\ peers    \in [PeerID -> Conn \cup {NoConn}]
    /\ sessions \in [SessionID -> Session \cup {NoSession}]
    /\ hist     \in [SessionID -> History \cup {NoSession}]

NewHub ==
    /\ peers    = [i \in PeerID |-> NoConn]
    /\ sessions = [s \in SessionID |-> NoSession]
    /\ hist     = [s \in SessionID |-> NoSession]

\* Session ids drawn so far; uuid.NewString never repeats one.
Minted == {s \in SessionID : hist[s] # NoSession}

Open(s)           == s \in SessionID /\ sessions[s] # NoSession
Members(s)        == {sessions[s].initiator, sessions[s].target}
OtherMember(s, i) == IF sessions[s].initiator = i THEN sessions[s].target
                                                  ELSE sessions[s].initiator

\* Delete the sessions of a set, on behalf of the handler of Peer object c.
Delete(gone, c) ==
    /\ sessions' = [s \in SessionID |-> IF s \in gone THEN NoSession ELSE sessions[s]]
    /\ hist' = [s \in SessionID |-> IF s \in gone THEN [hist[s] EXCEPT !.by = c] ELSE hist[s]]

-----------------------------------------------------------------------------
\* Register: an id that is connected is refused, else the Peer object becomes
\* reachable for everyone.
Bug_RegisterReplaces(c, i) ==
    /\ peers' = [peers EXCEPT ![i] = c]
    /\ UNCHANGED <<sessions, hist>>
Register(c, i) ==
    /\ peers[i] = NoConn
    /\ peers' = [peers EXCEPT ![i] = c]
    /\ UNCHANGED <<sessions, hist>>

\* Unregister: forget the id and delete every session it is a member of.
Bug_UnregisterInitiatorOnly(c, i) ==
    /\ peers' = [peers EXCEPT ![i] = NoConn]
    /\ Delete({s \in SessionID : Open(s) /\ sessions[s].initiator = i}, c)
Unregister(c, i) ==
    /\ peers' = [peers EXCEPT ![i] = NoConn]
    /\ Delete({s \in SessionID : Open(s) /\ i \in Members(s)}, c)

\* The notices Unregister collects under the lock: one for every session i is in
\* whose other member is still registered after i is deleted.
Bug_NoticesToInitiators(i) ==
    {[to |-> peers[OtherMember(s, i)], sid |-> s] :
        s \in {t \in SessionID : /\ Open(t)
                                 /\ i = sessions[t].target
                                 /\ OtherMember(t, i) # i
                                 /\ peers[OtherMember(t, i)] # NoConn}}
Notices(i) ==
    {[to |-> peers[OtherMember(s, i)], sid |-> s] :
        s \in {t \in SessionID : /\ Open(t)
                                 /\ i \in Members(t)
                                 /\ OtherMember(t, i) # i
                                 /\ peers[OtherMember(t, i)] # NoConn}}

\* OpenSession: the target must be registered; nothing is asked of the initiator,
\* and a peer may name itself.
OpenSession(c, initiator, target, s) ==
    /\ peers[target] # NoConn
    /\ s \in SessionID \ Minted
    /\ sessions' = [sessions EXCEPT ![s] = [initiator |-> initiator, target |-> target]]
    /\ hist' = [hist EXCEPT ![s] = [ini |-> c, tgt |-> peers[target], by |-> NoConn]]
    /\ UNCHANGED peers

\* OtherPeer: the Peer object of the counterparty, or NoConn for each of its three
\* errors: no such session, self is not a member, counterparty not registered.
Bug_OtherPeerAnyone(s, self) ==
    IF Open(s) THEN peers[OtherMember(s, self)] ELSE NoConn
OtherPeer(s, self) ==
    IF Open(s) /\ self \in Members(s) THEN peers[OtherMember(s, self)] ELSE NoConn

\* CloseSession deletes the session before it looks at who asks, so the bye of a
\* peer outside the session ends it as well.  An unknown session is left alone.
Bug_CloseSessionKeepsIt(c, s) == UNCHANGED hubVars
CloseSession(c, s) ==
    /\ Delete({t \in SessionID : t = s /\ Open(t)}, c)
    /\ UNCHANGED peers

\* Whom CloseSession tells: the other member, when a member asks and the other is
\* registered; nobody otherwise.
ByeRecipient(s, by) == OtherPeer(s, by)
=============================================================================
