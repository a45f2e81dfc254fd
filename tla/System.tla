------------------------------- MODULE System -------------------------------
(***************************************************************************)
(* The clients against the signaling service: the pilot (cmd/testpeer with *)
(* -role pilot) and the drone, which is the relay or cmd/testpeer with     *)
(* -role drone, with lost connections, restarts of the service             *)
(* (cmd/signal) and of the test peers, and reconnects.                     *)
(*                                                                         *)
(* The hub is module Hub.  The goroutines and the queue of a connection,   *)
(* which module Signal has in full, are one handler and one FIFO here: a   *)
(* frame is carried out under the hub's lock and the Sends follow one by   *)
(* one.  A PeerConnection is the session it was made for.  Messages that   *)
(* clients only log (pong, err) are left out.                              *)
(*                                                                         *)
(* Definitions named Bug_* are seeded bugs, see Hub.                       *)
(***************************************************************************)
EXTENDS Hub, Naturals, SequencesExt

CONSTANTS
    Pilot,      \* the account of the pilot, pilot1
    Drone,      \* the account of the drone, drone-42
    DroneProg,  \* the programs that may run as the drone: "relay", "stub"
    Trickler,   \* bound: the clients whose PeerConnections find ICE candidates
    MaxICE,     \* bound: how many they find
    MaxStarts,  \* bound: PeerID -> how often the user starts that test peer
    MaxFaults   \* bound: faults

ASSUME SystemAssumption ==
    /\ PeerID = {Pilot, Drone} /\ Pilot # Drone
    /\ DroneProg \subseteq {"relay", "stub"} /\ Trickler \subseteq PeerID /\ MaxICE \in Nat
    /\ MaxStarts \in [PeerID -> Nat] /\ MaxFaults \in Nat

VARIABLES
    prog,       \* the program that runs as the drone
    cl,         \* PeerID -> the client: where it is, its connection, sessionID and pc,
                \*   the PeerConnections not closed and what was applied to them
    srv,        \* Conn -> its handler: where it is, its peer and the Sends it has to make
    up,         \* Conn -> frames on their way to the server
    down,       \* Conn -> messages on their way to the client
    cut,        \* Conn -> has an end closed it, or the path failed?
    starts,     \* PeerID -> starts of the test peer so far, for the bound
    ice,        \* candidates so far, for the bound
    faults      \* faults so far, for the bound

net  == <<up, down, cut>>
vars == <<prog, cl, srv, net, starts, ice, faults, hubVars>>

Exited(i) == [at |-> "off", conn |-> NoConn, sid |-> NoSid, pc |-> NoSid,
              live |-> {}, applied |-> {}]

Init ==
    /\ NewHub
    /\ prog   \in DroneProg
    /\ cl     = [i \in PeerID |-> IF i = Drone /\ prog = "relay"
                                  THEN [Exited(i) EXCEPT !.at = "out"] ELSE Exited(i)]
    /\ srv    = [c \in Conn |-> [at |-> "over", id |-> NoPeer, due |-> <<>>]]
    /\ up     = [c \in Conn |-> <<>>]
    /\ down   = [c \in Conn |-> <<>>]
    /\ cut    = [c \in Conn |-> TRUE]
    /\ starts = [i \in PeerID |-> 0]
    /\ ice    = 0
    /\ faults = 0

IsRelay(i) == i = Drone /\ prog = "relay"
Fault      == faults < MaxFaults /\ faults' = faults + 1
NoFault    == UNCHANGED faults

SessionReqFrame == [kind |-> "session.req", sid |-> NoSid, peer |-> Drone]
SessionFrame(k, s) == [kind |-> k, sid |-> s, peer |-> NoPeer]

-----------------------------------------------------------------------------
(***************************************************************************)
(* The server.                                                             *)
(***************************************************************************)
\* What one end writes is kept only for the other end, while it is there.
ToServer(c, frames) == IF srv[c].at = "over" THEN up ELSE [up EXCEPT ![c] = @ \o frames]
ToClient(c, msg) ==
    IF srv[c].at = "run" /\ cl[srv[c].id].conn = c THEN [down EXCEPT ![c] = Append(@, msg)] ELSE down

\* The handler of c is over (its Sends apart).
Over(c, due) == srv' = [srv EXCEPT ![c] = [at |-> "over", id |-> NoPeer, due |-> due]]
Dropped(q, c) == [q EXCEPT ![c] = <<>>]

\* The hello is verified and the Peer registered; hello.ok follows.
HelloOK(c) ==
    /\ srv[c].at = "hello" /\ Register(c, srv[c].id)
    /\ srv' = [srv EXCEPT ![c].at = "run", ![c].due = <<[to |-> c, msg |-> HelloOKMsg(srv[c].id)]>>]
    /\ UNCHANGED <<prog, ice, cl, net, starts, faults>>

\* duplicate_peer, or the hello does not come, or is refused.
HelloRefused(c) ==
    /\ srv[c].at = "hello"
    /\ \/ (peers[srv[c].id] # NoConn \/ cut[c]) /\ NoFault
       \/ Fault
    /\ Over(c, <<>>) /\ up' = Dropped(up, c) /\ cut' = [cut EXCEPT ![c] = TRUE]
    /\ UNCHANGED <<prog, ice, cl, down, starts, hubVars>>

\* dispatch: what a frame of peer i changes in the hub, and what is to be sent.
Forward(f, i) ==
    IF OtherPeer(f.sid, i) = NoConn THEN <<>>
    ELSE <<[to |-> OtherPeer(f.sid, i), msg |-> ForwardedMsg(f.kind, f.sid, i)]>>

Dispatch(c) ==
    /\ srv[c].at = "run" /\ srv[c].due = <<>> /\ up[c] # <<>>
    /\ LET f == Head(up[c])
           i == srv[c].id
           s == CHOOSE t \in SessionID : t \notin Minted
       IN  \/ /\ f.kind = "session.req" /\ OpenSession(c, i, f.peer, s)
              /\ srv' = [srv EXCEPT ![c].due = <<[to |-> c, msg |-> SessionAckMsg(s, f.peer)],
                                       [to |-> peers[f.peer], msg |-> SessionAckMsg(s, i)]>>]
           \/ /\ f.kind = "session.req" /\ peers[f.peer] = NoConn
              /\ UNCHANGED <<srv, hubVars>>
           \/ /\ f.kind # "session.req"
              /\ srv' = [srv EXCEPT ![c].due = Forward(f, i)]
              /\ UNCHANGED hubVars
    /\ up' = [up EXCEPT ![c] = Tail(@)]
    /\ UNCHANGED <<prog, ice, cl, down, cut, starts, faults>>

\* The handler of c makes its next Send.
SendNext(c) ==
    /\ srv[c].due # <<>>
    /\ down' = ToClient(Head(srv[c].due).to, Head(srv[c].due).msg)
    /\ srv' = [srv EXCEPT ![c].due = Tail(@)]
    /\ UNCHANGED <<prog, ice, cl, up, cut, starts, faults, hubVars>>

\* Read, write or ping has failed: Unregister, and its notices when the lock is
\* released.
NoticesDue(i) == SetToSeq({[to |-> n.to, msg |-> PeerGoneMsg(n.sid)] : n \in Notices(i)})
CanEnd(c)     == srv[c].at = "run" /\ cut[c] /\ srv[c].due = <<>>

Bug_LostPathUnseen(c) ==
    /\ CanEnd(c) /\ cl[srv[c].id].at = "off"
    /\ Unregister(c, srv[c].id)
    /\ Over(c, NoticesDue(srv[c].id)) /\ up' = Dropped(up, c)
    /\ UNCHANGED <<prog, ice, cl, down, cut, starts, faults>>
ConnEnds(c) ==
    /\ CanEnd(c)
    /\ Unregister(c, srv[c].id)
    /\ Over(c, NoticesDue(srv[c].id)) /\ up' = Dropped(up, c)
    /\ UNCHANGED <<prog, ice, cl, down, cut, starts, faults>>

\* The path of a connection fails; either end finds out later.
PathBreaks(c) ==
    /\ ~cut[c] /\ Fault
    /\ cut' = [cut EXCEPT ![c] = TRUE]
    /\ UNCHANGED <<prog, ice, cl, srv, up, down, starts, hubVars>>

\* cmd/signal ends (Shutdown leaves WebSockets to the end of the process) and is
\* started again: the new hub knows nothing.
ServerRestarts ==
    /\ Fault
    /\ srv' = [c \in Conn |-> [at |-> "over", id |-> NoPeer, due |-> <<>>]]
    /\ up' = [c \in Conn |-> <<>>] /\ cut' = [c \in Conn |-> TRUE]
    /\ peers' = [i \in PeerID |-> NoConn]
    /\ sessions' = [s \in SessionID |-> NoSession]
    /\ UNCHANGED <<prog, ice, cl, down, starts, hist>>

-----------------------------------------------------------------------------
(***************************************************************************)
(* The clients.                                                            *)
(***************************************************************************)
\* The user starts a test peer.
UserStarts(i) ==
    /\ cl[i].at = "off" /\ starts[i] < MaxStarts[i]
    /\ starts' = [starts EXCEPT ![i] = @ + 1]
    /\ cl' = [cl EXCEPT ![i].at = "out"]
    /\ UNCHANGED <<prog, ice, srv, net, faults, hubVars>>

\* A connection object nobody has any more can stand for a new one.
Fresh(c) ==
    /\ srv[c].at = "over" /\ srv[c].due = <<>>
    /\ \A i \in PeerID : cl[i].conn # c
    /\ \A d \in Conn : \A k \in DOMAIN srv[d].due : srv[d].due[k].to # c

\* login, Dial and the write of hello succeed.
Connect(i) ==
    /\ cl[i].at = "out" /\ \E c \in Conn : Fresh(c)
    /\ LET c == CHOOSE d \in Conn : Fresh(d)
       IN  /\ cl'   = [cl EXCEPT ![i].at = "in", ![i].conn = c]
           /\ srv'  = [srv EXCEPT ![c] = [at |-> "hello", id |-> i, due |-> <<>>]]
           /\ cut'  = [cut EXCEPT ![c] = FALSE]
    /\ UNCHANGED <<prog, ice, up, down, starts, faults, hubVars>>

\* One of them fails: a test peer exits (the relay tries again, see Relay).
ConnectFails(i) ==
    /\ cl[i].at = "out" /\ ~IsRelay(i)
    /\ cl' = [cl EXCEPT ![i] = Exited(i)]
    /\ UNCHANGED <<prog, ice, srv, net, starts, faults, hubVars>>

\* Read fails, or the user stops the test peer: the connection is closed and with it
\* the current PeerConnection.  A test peer exits, which ends the others too.
LoopEnds(i) ==
    /\ cl[i].at = "in" /\ (cut[cl[i].conn] \/ ~IsRelay(i))
    /\ cut' = [cut EXCEPT ![cl[i].conn] = TRUE] /\ down' = Dropped(down, cl[i].conn)
    /\ cl' = [cl EXCEPT ![i] = IF IsRelay(i)
                               THEN [Exited(i) EXCEPT !.at = "out", !.live = cl[i].live \ {cl[i].pc}]
                               ELSE Exited(i)]
    /\ UNCHANGED <<prog, ice, srv, up, starts, faults, hubVars>>

\* The next message of client i is of kind k; it is taken, the client goes on as "new"
\* and writes the frames "out".
NextIs(i, k) == cl[i].at = "in" /\ down[cl[i].conn] # <<>> /\ Head(down[cl[i].conn]).kind = k
NextSid(i)   == Head(down[cl[i].conn]).sid
Handle(i, new, out) ==
    /\ cl' = [cl EXCEPT ![i] = new]
    /\ down' = [down EXCEPT ![cl[i].conn] = Tail(@)]
    /\ up' = ToServer(cl[i].conn, out)
    /\ UNCHANGED <<prog, ice, srv, cut, starts, hubVars>>

RecvHelloOK(i) ==
    /\ NextIs(i, "hello.ok") /\ NoFault
    /\ Handle(i, cl[i], IF i = Pilot THEN <<SessionReqFrame>> ELSE <<>>)

\* The relay closes the current PeerConnection, the test peer does not.
Kept(i) == IF IsRelay(i) THEN cl[i].live \ {cl[i].pc} ELSE cl[i].live

RecvSessionAck(i) ==
    /\ NextIs(i, "session.ack")
    /\ LET s   == NextSid(i)
           new == [cl[i] EXCEPT !.sid = s, !.pc = s, !.live = Kept(i) \cup {s}]
       IN  \/ NoFault /\ Handle(i, new, IF i = Pilot THEN <<SessionFrame("sdp", s)>> ELSE <<>>)
           \/ Fault /\ i = Pilot /\ Handle(i, new, <<>>)

\* NewPeerConnection fails: the test peer goes on with its old one.
RecvSessionAckFails(i) ==
    /\ NextIs(i, "session.ack") /\ Fault
    /\ Handle(i, [cl[i] EXCEPT !.sid = NextSid(i), !.live = Kept(i),
                               !.pc = IF IsRelay(i) THEN NoSid ELSE @], <<>>)

Applied(i) == IF cl[i].pc = NoSid THEN cl[i]
              ELSE [cl[i] EXCEPT !.applied = @ \cup {<<cl[i].pc, NextSid(i)>>}]

\* An offer is answered under the client's session id, an answer applied.
RecvPeerSDP(i) ==
    /\ NextIs(i, "peer.sdp")
    /\ \/ NoFault /\ Handle(i, Applied(i), IF i = Drone /\ cl[i].pc # NoSid
                                           THEN <<SessionFrame("sdp", cl[i].sid)>> ELSE <<>>)
       \/ Fault /\ i = Drone /\ Handle(i, Applied(i), <<>>)

RecvPeerICE(i) == NextIs(i, "peer.ice") /\ NoFault /\ Handle(i, Applied(i), <<>>)

\* peer.gone closes the current PeerConnection, whatever session it names.
RecvPeerGone(i) ==
    /\ NextIs(i, "peer.gone") /\ NoFault
    /\ Handle(i, [cl[i] EXCEPT !.pc = NoSid, !.live = @ \ {cl[i].pc}], <<>>)

\* OnICECandidate of a PeerConnection: under the session it was made for.
OnICECandidate(i, s) ==
    /\ i \in Trickler /\ cl[i].at = "in" /\ s \in cl[i].live /\ ice < MaxICE
    /\ ice' = ice + 1
    /\ up' = ToServer(cl[i].conn, <<SessionFrame("ice", s)>>)
    /\ UNCHANGED <<prog, cl, srv, down, cut, starts, faults, hubVars>>

-----------------------------------------------------------------------------
Recv(i) ==
    \/ RecvHelloOK(i) \/ RecvSessionAck(i) \/ RecvSessionAckFails(i)
    \/ RecvPeerSDP(i) \/ RecvPeerICE(i) \/ RecvPeerGone(i)

Lost(i)   == cl[i].at = "in" /\ cut[cl[i].conn]
Server(c) == HelloOK(c) \/ HelloRefused(c) \/ Dispatch(c) \/ SendNext(c) \/ ConnEnds(c)

Next ==
    \/ \E c \in Conn : Server(c) \/ PathBreaks(c)
    \/ ServerRestarts
    \/ \E i \in PeerID : \/ UserStarts(i) \/ Connect(i) \/ ConnectFails(i) \/ LoopEnds(i)
                         \/ Recv(i)
                         \/ \E s \in SessionID : OnICECandidate(i, s)

\* One goroutine handles each connection and one loop runs in each client: each goes on
\* when it can, so weak fairness is of the whole of it; both ends of a connection that failed
\* find out (the server by its ping, the relay by TCP keepalive).  The relay retries for
\* ever.  No user need start or stop anything.
Fairness ==
    /\ \A c \in Conn : WF_vars(Server(c))
    /\ \A i \in PeerID : WF_vars(Recv(i) \/ (Lost(i) /\ LoopEnds(i)))
    /\ WF_vars(IsRelay(Drone) /\ Connect(Drone))

Spec == Init /\ [][Next]_vars
FairSpec == Spec /\ Fairness

-----------------------------------------------------------------------------
\* main.go runLoop and runWSLoop, hub.go OtherPeer: with one phone, whose process and
\* connections come and go, no description or candidate of one session is applied to
\* the PeerConnection of another, although no client compares session ids and the test
\* peer leaves replaced PeerConnections open.  (A drone's test peer that fails to make a
\* PeerConnection goes on with the old one, so it is left out when something failed.)
NoMixedSessions ==
    \A i \in PeerID : i = Pilot \/ IsRelay(i) \/ faults = 0 => \A x \in cl[i].applied : x[1] = x[2]

\* runWithBackoff against hub.go Register: whatever was lost, the relay ends up
\* registered through its own current connection: the duplicate_peer that its old
\* connection earns it passes.
RelayComesBack ==
    <>[](prog = "relay" => /\ cl[Drone].at = "in"
                           /\ peers[Drone] = cl[Drone].conn)

\* hub.go Unregister and CloseSession, main.go runWSLoop: when sessions are over, be it
\* by the loss of either connection or of the server, the relay comes to close their
\* PeerConnections and so lets go of camera and phone.
EndedSessionSeen ==
    []<>(prog = "relay" => \A s \in cl[Drone].live : Open(s))

\* SIGNALING.md: peer.gone names its session.  In the read loop the relay gives up a
\* PeerConnection without a successor only when its session is over.
GoneEndsItsSession ==
    [][(IsRelay(Drone) /\ cl[Drone].pc # NoSid /\ cl'[Drone].pc = NoSid /\ cl'[Drone].at = "in"
        /\ faults' = faults)
            => ~Open(cl[Drone].pc)]_vars
=============================================================================
