---------------------------- MODULE SignalProofs ----------------------------
(***************************************************************************)
(* Proofs about Signal, for every set of connections, peers and sessions   *)
(* and every queue size: type correctness, the exactness of the registry,  *)
(* the binding of sessions to connections, and the refinement of           *)
(* Rendezvous.                                                             *)
(*                                                                         *)
(* The inductive invariant is IInv: the three safety invariants with       *)
(* LoopsWithinRegistration, which supplies what OpenSession does not check *)
(* (a connection that dispatches is registered), and DispatchReady, which  *)
(* says what readLoop holds at each of its points.                         *)
(***************************************************************************)
EXTENDS SignalProps, TLAPS

\* readLoop has a decoded frame while it dispatches, with a peer when it is a
\* session.req, and something left to send while it sends.
DispatchReady ==
    \A c \in Conn :
        /\ reader[c] = "dispatch" =>
              /\ frame[c] \in Frame
              /\ frame[c].kind = "session.req" => frame[c].peer \in PeerID
        /\ reader[c] = "send" => out[c] # <<>>

IInv ==
    /\ TypeOK
    /\ DispatchReady
    /\ LoopsWithinRegistration
    /\ RegistryExact
    /\ SessionBoundToConns

-----------------------------------------------------------------------------
(***************************************************************************)
(* Types.                                                                  *)
(***************************************************************************)
\* Peer.Send keeps the channel's type and its capacity.
LEMMA SendType ==
    ASSUME TypeOK, NEW c \in Conn, NEW m \in Msg, Send(c, m)
    PROVE  /\ send' \in [Conn -> Seq(Msg)]
           /\ closeCh' \in [Conn -> BOOLEAN]
           /\ \A d \in Conn : Len(send'[d]) <= SendQueueSize
<1>1. /\ send \in [Conn -> Seq(Msg)] /\ closeCh \in [Conn -> BOOLEAN]
      /\ \A d \in Conn : Len(send[d]) <= SendQueueSize
  BY DEF TypeOK
<1>2. CASE /\ Len(send[c]) < SendQueueSize
           /\ send' = [send EXCEPT ![c] = Append(@, m)]
           /\ UNCHANGED closeCh
  <2>1. /\ Append(send[c], m) \in Seq(Msg)
        /\ Len(Append(send[c], m)) = Len(send[c]) + 1
        /\ Len(send[c]) \in Nat
    BY <1>1
  <2> QED
    BY <1>1, <1>2, <2>1, SignalAssumption
<1>3. CASE /\ Len(send[c]) >= SendQueueSize
           /\ closeCh' = [closeCh EXCEPT ![c] = TRUE]
           /\ UNCHANGED send
  BY <1>1, <1>3
<1> QED
  BY <1>2, <1>3 DEF Send

\* The messages the server makes are messages.
LEMMA MsgType ==
    ASSUME NEW s \in SessionID \cup {NoSid}, NEW i \in PeerID \cup {NoPeer}
    PROVE  /\ HelloOKMsg(i) \in Msg
           /\ SessionAckMsg(s, i) \in Msg
           /\ PeerGoneMsg(s) \in Msg
           /\ PongMsg \in Msg
           /\ ErrMsg \in Msg
           /\ \A k \in {"sdp", "ice"} : ForwardedMsg(k, s, i) \in Msg
BY DEF HelloOKMsg, SessionAckMsg, PeerGoneMsg, PongMsg, ErrMsg, ForwardedMsg, Msg, MsgKind

\* The frames a client can send are frames, and a session.req names a peer.
LEMMA ClientFrameType ==
    ASSUME NEW c \in Conn, NEW f \in ClientFrame(c)
    PROVE  f \in Frame /\ (f.kind = "session.req" => f.peer \in PeerID)
<1>1. Nameable(c) \subseteq SessionID \cup {NoSid}
  BY DEF Nameable, Told
<1>2. CASE f \in [kind : ClientKind \cap (IF SidsLeft THEN {"session.req"} ELSE {}),
                  sid : {NoSid}, peer : PeerID]
  BY <1>2, SignalAssumption DEF Frame, FrameKind
<1>3. CASE f \in [kind : ClientKind \cap SessionKind, sid : Nameable(c), peer : {NoPeer}]
  BY <1>1, <1>3, SignalAssumption DEF Frame, FrameKind, SessionKind
<1>4. CASE f \in [kind : ClientKind \cap ({"ping"} \cup BadKind), sid : {NoSid}, peer : {NoPeer}]
  BY <1>4, SignalAssumption DEF Frame, FrameKind, BadKind
<1> QED
  BY <1>2, <1>3, <1>4 DEF ClientFrame

\* Deleting sessions keeps the hub's types and the ids already drawn.
LEMMA DeleteType ==
    ASSUME HubTypeOK, NEW c \in Conn, NEW gone \in SUBSET SessionID,
           \A s \in gone : hist[s] # NoSession, Delete(gone, c)
    PROVE  /\ sessions' \in [SessionID -> Session \cup {NoSession}]
           /\ hist' \in [SessionID -> History \cup {NoSession}]
           /\ Minted' = Minted
           /\ \A s \in SessionID \ gone : sessions'[s] = sessions[s] /\ hist'[s] = hist[s]
           /\ \A s \in gone : sessions'[s] = NoSession
<1>1. \A s \in gone : [hist[s] EXCEPT !.by = c] \in History
  BY DEF HubTypeOK, History
<1>2. \A s \in SessionID : hist'[s] = NoSession <=> hist[s] = NoSession
  BY <1>1, HubAssumption DEF Delete
<1> QED
  BY <1>1, <1>2 DEF Delete, HubTypeOK, Minted

\* What a dispatch leaves behind has the right types.
LEMMA RepliesType ==
    ASSUME TypeOK, HubTypeOK', NEW c \in Conn, NEW sends \in Seq(Sending), Replies(c, sends)
    PROVE  TypeOK'
<1>1. IF sends = <<>> THEN "read" \in Reader ELSE "send" \in Reader
  BY DEF Reader
<1> QED
  BY <1>1 DEF TypeOK, Replies, bounds, Reader

\* The registered connections of the hub are connections.
LEMMA NoticesType ==
    ASSUME HubTypeOK, NEW i \in PeerID
    PROVE  Notices(i) \subseteq Notice
<1> SUFFICES ASSUME NEW s \in SessionID, Open(s), peers[OtherMember(s, i)] # NoConn
             PROVE  peers[OtherMember(s, i)] \in Conn
  BY DEF Notices, Notice
<1>1. OtherMember(s, i) \in PeerID
  BY DEF OtherMember, Open, HubTypeOK, Session
<1> QED
  BY <1>1 DEF HubTypeOK

LEMMA OtherPeerType ==
    ASSUME HubTypeOK, NEW s \in SessionID \cup {NoSid}, NEW i \in PeerID
    PROVE  OtherPeer(s, i) \in Conn \cup {NoConn}
<1>1. CASE Open(s) /\ i \in Members(s)
  <2>1. OtherMember(s, i) \in PeerID
    BY <1>1 DEF OtherMember, Open, HubTypeOK, Session
  <2> QED
    BY <1>1, <2>1 DEF OtherPeer, HubTypeOK
<1>2. CASE ~(Open(s) /\ i \in Members(s))
  BY <1>2 DEF OtherPeer
<1> QED
  BY <1>1, <1>2

LEMMA FaultType ==
    ASSUME TypeOK, NEW cause, FailsBecause(cause)
    PROVE  frames' \in 0 .. MaxFrames /\ faults' \in 0 .. MaxFaults
BY SignalAssumption DEF TypeOK, FailsBecause, Fault, bounds

\* Every step of the handler goroutine keeps the types.
LEMMA HandlerType ==
    ASSUME IInv, NEW c \in Conn, Handler(c)
    PROVE  TypeOK'
<1> USE DEF IInv
<1>1. ASSUME NEW i \in PeerID, HelloRegisters(c, i) PROVE TypeOK'
  BY <1>1 DEF HelloRegisters, Goto, Register, TypeOK, HubTypeOK, Phase, bounds
<1>2. ASSUME NEW i \in PeerID, HelloRefused(c, i) PROVE TypeOK'
  <2>1. ErrMsg \in Msg
    BY DEF ErrMsg, Msg, MsgKind
  <2> QED
    BY <1>2, <2>1 DEF HelloRefused, Goto, TypeOK, HubTypeOK, Phase, bounds, hubVars
<1>3. CASE HelloFails(c)
  BY <1>3 DEF HelloFails, Goto, TypeOK, HubTypeOK, Phase, bounds, hubVars
<1>4. CASE Greet(c)
  <2>1. HelloOKMsg(id[c]) \in Msg
    BY DEF HelloOKMsg, Msg, MsgKind, TypeOK
  <2>2. /\ send' \in [Conn -> Seq(Msg)]
        /\ closeCh' \in [Conn -> BOOLEAN]
        /\ \A d \in Conn : Len(send'[d]) <= SendQueueSize
    BY <1>4, <2>1, SendType DEF Greet
  <2> QED
    BY <1>4, <2>2 DEF Greet, Goto, TypeOK, HubTypeOK, Phase, Reader, Writer, bounds, hubVars
<1>5. CASE RunWakes(c)
  BY <1>5 DEF RunWakes, Goto, TypeOK, HubTypeOK, Phase, bounds, hubVars
<1>6. CASE RunUnregisters(c)
  <2>1. id[c] \in PeerID
    BY <1>6 DEF RunUnregisters, Goto, RegistryExact, Registered
  <2>2. /\ sessions' \in [SessionID -> Session \cup {NoSession}]
        /\ hist' \in [SessionID -> History \cup {NoSession}]
    <3> DEFINE gone == {s \in SessionID : Open(s) /\ id[c] \in Members(s)}
    <3>1. \A s \in gone : hist[s] # NoSession
      BY DEF SessionBoundToConns
    <3>2. Delete(gone, c)
      BY <1>6 DEF RunUnregisters, Unregister
    <3> HIDE DEF gone
    <3>3. gone \in SUBSET SessionID
      BY DEF gone
    <3> QED
      BY <3>1, <3>2, <3>3, DeleteType DEF TypeOK
  <2>3. peers' \in [PeerID -> Conn \cup {NoConn}]
    BY <1>6 DEF RunUnregisters, Unregister, TypeOK, HubTypeOK
  <2>4. notify' \in [Conn -> SUBSET Notice]
    BY <1>6, <2>1, NoticesType DEF RunUnregisters, TypeOK
  <2>5. phase' \in [Conn -> Phase]
    BY <1>6 DEF RunUnregisters, Goto, AfterNotices, Phase, TypeOK
  <2> QED
    BY <1>6, <2>2, <2>3, <2>4, <2>5 DEF RunUnregisters, TypeOK, HubTypeOK, bounds
<1>7. ASSUME NEW n \in notify[c], NotifyOne(c, n) PROVE TypeOK'
  <2>1. n.to \in Conn /\ n.sid \in SessionID
    BY DEF TypeOK, Notice
  <2>2. PeerGoneMsg(n.sid) \in Msg
    BY <2>1 DEF PeerGoneMsg, Msg, MsgKind
  <2>3. /\ send' \in [Conn -> Seq(Msg)]
        /\ closeCh' \in [Conn -> BOOLEAN]
        /\ \A d \in Conn : Len(send'[d]) <= SendQueueSize
    BY <1>7, <2>1, <2>2, SendType DEF NotifyOne
  <2>4. phase' \in [Conn -> Phase]
    BY <1>7 DEF NotifyOne, Goto, AfterNotices, Phase, TypeOK
  <2>5. notify' \in [Conn -> SUBSET Notice]
    BY <1>7 DEF NotifyOne, TypeOK
  <2> QED
    BY <1>7, <2>3, <2>4, <2>5 DEF NotifyOne, TypeOK, HubTypeOK, bounds, hubVars
<1> QED
  BY <1>1, <1>2, <1>3, <1>4, <1>5, <1>6, <1>7 DEF Handler

\* Every step of the read loop keeps the types.
LEMMA ReadLoopType ==
    ASSUME IInv, NEW c \in Conn, ReadLoop(c)
    PROVE  TypeOK'
<1> USE DEF IInv
<1>0. reader[c] = "dispatch" =>
         /\ id[c] \in PeerID
         /\ frame[c].sid \in SessionID \cup {NoSid}
         /\ frame[c].kind = "session.req" => frame[c].peer \in PeerID
  BY DEF LoopsWithinRegistration, RegistryExact, Registered, DispatchReady, Frame
<1>1. ASSUME NEW f \in ClientFrame(c), ReadFrame(c, f) PROVE TypeOK'
  <2>1. f \in Frame
    BY ClientFrameType
  <2>2. frames' \in 0 .. MaxFrames
    BY <1>1, SignalAssumption DEF ReadFrame, TypeOK
  <2> QED
    BY <1>1, <2>1, <2>2 DEF ReadFrame, TypeOK, HubTypeOK, Reader, hubVars
<1>2. CASE ReadEnds(c)
  <2>1. frames' \in 0 .. MaxFrames /\ faults' \in 0 .. MaxFaults
    BY <1>2, FaultType DEF ReadEnds
  <2> QED
    BY <1>2, <2>1 DEF ReadEnds, TypeOK, HubTypeOK, Reader, hubVars
<1>3. CASE DispatchPing(c)
  <2>1. <<[to |-> c, msg |-> PongMsg]>> \in Seq(Sending)
    BY DEF Sending, PongMsg, Msg, MsgKind
  <2> QED
    BY <1>3, <2>1, RepliesType DEF DispatchPing, TypeOK, HubTypeOK, hubVars
<1>4. ASSUME NEW s \in SessionID, DispatchSessionReq(c, s) PROVE TypeOK'
  <2> DEFINE t == frame[c].peer
             sends == <<[to |-> c, msg |-> SessionAckMsg(s, t)],
                        [to |-> peers[t], msg |-> SessionAckMsg(s, id[c])]>>
  <2>1. t \in PeerID /\ id[c] \in PeerID
    BY <1>0, <1>4 DEF DispatchSessionReq, Dispatching
  <2>2. peers[t] \in Conn
    BY <1>4, <2>1 DEF DispatchSessionReq, OpenSession, TypeOK, HubTypeOK
  <2>3. SessionAckMsg(s, t) \in Msg /\ SessionAckMsg(s, id[c]) \in Msg
    BY <2>1, MsgType
  <2>4. sends \in Seq(Sending)
    BY <2>2, <2>3 DEF Sending
  <2>5. HubTypeOK'
    <3>1. [initiator |-> id[c], target |-> t] \in Session
      BY <2>1 DEF Session
    <3>2. [ini |-> c, tgt |-> peers[t], by |-> NoConn] \in History
      BY <2>2 DEF History
    <3> QED
      BY <1>4, <3>1, <3>2 DEF DispatchSessionReq, OpenSession, TypeOK, HubTypeOK
  <2>6. Replies(c, sends)
    BY <1>4 DEF DispatchSessionReq
  <2> HIDE DEF sends
  <2> QED
    BY <2>4, <2>5, <2>6, RepliesType
<1>5. CASE DispatchSessionReqFails(c) \/ DispatchBad(c)
  <2>1. <<[to |-> c, msg |-> ErrMsg]>> \in Seq(Sending)
    BY DEF Sending, ErrMsg, Msg, MsgKind
  <2> QED
    BY <1>5, <2>1, RepliesType DEF DispatchSessionReqFails, DispatchBad, TypeOK, HubTypeOK, hubVars
<1>6. CASE DispatchForward(c)
  <2> DEFINE other == OtherPeer(frame[c].sid, id[c])
             m == ForwardedMsg(frame[c].kind, frame[c].sid, id[c])
  <2>1. /\ id[c] \in PeerID /\ frame[c].sid \in SessionID \cup {NoSid}
        /\ frame[c].kind \in {"sdp", "ice"}
    BY <1>0, <1>6 DEF DispatchForward, Dispatching
  <2>2. m \in Msg /\ ErrMsg \in Msg
    BY <2>1, MsgType
  <2>3. other \in Conn \cup {NoConn}
    BY <2>1, OtherPeerType DEF TypeOK
  <2>4. /\ other # NoConn => <<[to |-> other, msg |-> m]>> \in Seq(Sending)
        /\ <<[to |-> c, msg |-> ErrMsg]>> \in Seq(Sending)
    BY <2>2, <2>3 DEF Sending
  <2>5. HubTypeOK'
    BY <1>6 DEF DispatchForward, TypeOK, HubTypeOK, hubVars
  <2>6. \/ other # NoConn /\ Replies(c, <<[to |-> other, msg |-> m]>>)
        \/ Replies(c, <<[to |-> c, msg |-> ErrMsg]>>)
    BY <1>6 DEF DispatchForward
  <2> QED
    BY <2>4, <2>5, <2>6, RepliesType
<1>7. CASE DispatchBye(c)
  <2> DEFINE other == ByeRecipient(frame[c].sid, id[c])
             sends == IF other = NoConn THEN <<>>
                      ELSE <<[to |-> other, msg |-> PeerGoneMsg(frame[c].sid)]>>
             gone == {t \in SessionID : t = frame[c].sid /\ Open(t)}
  <2>1. id[c] \in PeerID /\ frame[c].sid \in SessionID \cup {NoSid}
    BY <1>0, <1>7 DEF DispatchBye, Dispatching
  <2>2. PeerGoneMsg(frame[c].sid) \in Msg
    BY <2>1 DEF PeerGoneMsg, Msg, MsgKind
  <2>3. other \in Conn \cup {NoConn}
    BY <2>1, OtherPeerType DEF TypeOK, ByeRecipient
  <2>4. sends \in Seq(Sending)
    <3>1. CASE other = NoConn
      BY <3>1
    <3>2. CASE other # NoConn
      <4>1. [to |-> other, msg |-> PeerGoneMsg(frame[c].sid)] \in Sending
        BY <2>2, <2>3, <3>2 DEF Sending
      <4> QED
        BY <3>2, <4>1
    <3> QED
      BY <3>1, <3>2
  <2>5. Replies(c, sends)
    BY <1>7 DEF DispatchBye
  <2>6. HubTypeOK'
    <3>1. \A s \in gone : hist[s] # NoSession
      BY DEF SessionBoundToConns
    <3>2. Delete(gone, c) /\ UNCHANGED peers
      BY <1>7 DEF DispatchBye, CloseSession
    <3> HIDE DEF gone
    <3>3. gone \in SUBSET SessionID
      BY DEF gone
    <3> QED
      BY <3>1, <3>2, <3>3, DeleteType DEF TypeOK, HubTypeOK
  <2> HIDE DEF sends
  <2> QED
    BY <2>4, <2>5, <2>6, RepliesType
<1>8. CASE SendNext(c)
  <2>1. out[c] # <<>> /\ out[c] \in Seq(Sending)
    BY <1>8 DEF SendNext, DispatchReady, TypeOK
  <2>2. Head(out[c]) \in Sending /\ Tail(out[c]) \in Seq(Sending)
    BY <2>1
  <2>3. Head(out[c]).to \in Conn /\ Head(out[c]).msg \in Msg
    BY <2>2 DEF Sending
  <2>4. /\ send' \in [Conn -> Seq(Msg)]
        /\ closeCh' \in [Conn -> BOOLEAN]
        /\ \A d \in Conn : Len(send'[d]) <= SendQueueSize
    BY <1>8, <2>3, SendType DEF SendNext
  <2>5. out' \in [Conn -> Seq(Sending)]
    BY <1>8, <2>2 DEF SendNext, TypeOK
  <2>6. reader' \in [Conn -> Reader]
    BY <1>8 DEF SendNext, TypeOK, Reader
  <2> QED
    BY <1>8, <2>4, <2>5, <2>6 DEF SendNext, TypeOK, HubTypeOK, hubVars, bounds
<1> QED
  BY <1>1, <1>2, <1>3, <1>4, <1>5, <1>6, <1>7, <1>8 DEF ReadLoop, Dispatch

\* Every step of the write loop keeps the types.
LEMMA WriteLoopType ==
    ASSUME TypeOK, NEW c \in Conn, WriteLoop(c)
    PROVE  TypeOK'
<1>1. CASE WriteTake(c)
  <2>1. send[c] \in Seq(Msg) /\ send[c] # <<>> /\ Len(send[c]) <= SendQueueSize
    BY <1>1 DEF WriteTake, TypeOK
  <2>2. /\ <<Head(send[c])>> \in Seq(Msg) /\ Len(<<Head(send[c])>>) = 1
        /\ Tail(send[c]) \in Seq(Msg) /\ Len(Tail(send[c])) <= SendQueueSize
    BY <2>1, SignalAssumption
  <2>3. inflight' \in [Conn -> Seq(Msg)] /\ \A d \in Conn : Len(inflight'[d]) <= 1
    BY <1>1, <2>2 DEF WriteTake, TypeOK
  <2>4. send' \in [Conn -> Seq(Msg)] /\ \A d \in Conn : Len(send'[d]) <= SendQueueSize
    BY <1>1, <2>2 DEF WriteTake, TypeOK
  <2> QED
    BY <1>1, <2>3, <2>4 DEF WriteTake, TypeOK, HubTypeOK, Writer, hubVars, bounds
<1>2. CASE WriteOK(c)
  <2>1. recv[c] \o inflight[c] \in Seq(Msg)
    BY DEF TypeOK
  <2>2. recv' \in [Conn -> Seq(Msg)]
    BY <1>2, <2>1 DEF WriteOK, TypeOK
  <2>3. inflight' \in [Conn -> Seq(Msg)] /\ \A d \in Conn : Len(inflight'[d]) <= 1
    BY <1>2 DEF WriteOK, TypeOK
  <2> QED
    BY <1>2, <2>2, <2>3 DEF WriteOK, TypeOK, HubTypeOK, Writer, hubVars, bounds
<1>3. CASE WriteFails(c)
  <2>1. frames' \in 0 .. MaxFrames /\ faults' \in 0 .. MaxFaults
    BY <1>3, FaultType DEF WriteFails
  <2>2. inflight' \in [Conn -> Seq(Msg)] /\ \A d \in Conn : Len(inflight'[d]) <= 1
    BY <1>3 DEF WriteFails, TypeOK
  <2> QED
    BY <1>3, <2>1, <2>2 DEF WriteFails, TypeOK, HubTypeOK, Writer, hubVars
<1>4. CASE PingFails(c)
  <2>1. frames' \in 0 .. MaxFrames /\ faults' \in 0 .. MaxFaults
    BY <1>4, FaultType DEF PingFails
  <2> QED
    BY <1>4, <2>1 DEF PingFails, TypeOK, HubTypeOK, Writer, hubVars
<1>5. CASE WriterStops(c)
  BY <1>5 DEF WriterStops, TypeOK, HubTypeOK, Writer, hubVars, bounds
<1> QED
  BY <1>1, <1>2, <1>3, <1>4, <1>5 DEF WriteLoop

LEMMA TypeStep ==
    ASSUME IInv, [Next]_vars
    PROVE  TypeOK'
<1>1. ASSUME NEW c \in Conn, LinkLost(c) PROVE TypeOK'
  BY <1>1, SignalAssumption DEF LinkLost, Fault, IInv, TypeOK, HubTypeOK, hubVars
<1>2. CASE UNCHANGED vars
  BY <1>2 DEF IInv, TypeOK, HubTypeOK, vars, hubVars, connVars, bounds
<1> QED
  BY <1>1, <1>2, HandlerType, ReadLoopType, WriteLoopType DEF Next, Idle, IInv

-----------------------------------------------------------------------------
(***************************************************************************)
(* Control: what the loops hold, and when they run.                        *)
(***************************************************************************)
\* A dispatch ends in "read" with nothing to send, or in "send" with something.
LEMMA RepliesControl ==
    ASSUME IInv, NEW c \in Conn, NEW sends, Replies(c, sends), reader[c] = "dispatch"
    PROVE  DispatchReady' /\ LoopsWithinRegistration'
<1>1. /\ phase' = phase /\ writer' = writer
      /\ frame' = [frame EXCEPT ![c] = NoFrame]
      /\ out' = [out EXCEPT ![c] = sends]
      /\ reader' = [reader EXCEPT ![c] = IF sends = <<>> THEN "read" ELSE "send"]
  BY DEF Replies
<1>2. DispatchReady'
  BY <1>1 DEF IInv, TypeOK, DispatchReady
<1>3. LoopsWithinRegistration'
  BY <1>1 DEF IInv, TypeOK, LoopsWithinRegistration
<1> QED
  BY <1>2, <1>3

LEMMA ControlStep ==
    ASSUME IInv, [Next]_vars
    PROVE  DispatchReady' /\ LoopsWithinRegistration'
<1> USE DEF IInv
<1>1. ASSUME NEW c \in Conn, Handler(c)
      PROVE  DispatchReady' /\ LoopsWithinRegistration'
  <2>1. CASE Greet(c)
    BY <2>1 DEF Greet, Goto, TypeOK, DispatchReady, LoopsWithinRegistration
  <2>2. CASE RunWakes(c)
    BY <2>2 DEF RunWakes, Goto, TypeOK, DispatchReady, LoopsWithinRegistration
  <2>3. CASE RunUnregisters(c)
    BY <2>3 DEF RunUnregisters, Goto, TypeOK, DispatchReady, LoopsWithinRegistration
  <2>4. CASE HelloFails(c) \/ \E i \in PeerID : HelloRegisters(c, i) \/ HelloRefused(c, i)
    BY <2>4 DEF HelloFails, HelloRegisters, HelloRefused, Goto, TypeOK, DispatchReady,
                LoopsWithinRegistration
  <2>5. CASE \E n \in notify[c] : NotifyOne(c, n)
    BY <2>5 DEF NotifyOne, Goto, TypeOK, DispatchReady, LoopsWithinRegistration
  <2> QED
    BY <1>1, <2>1, <2>2, <2>3, <2>4, <2>5 DEF Handler
<1>2. ASSUME NEW c \in Conn, ReadLoop(c)
      PROVE  DispatchReady' /\ LoopsWithinRegistration'
  <2>1. ASSUME NEW f \in ClientFrame(c), ReadFrame(c, f)
        PROVE  DispatchReady' /\ LoopsWithinRegistration'
    <3>1. f \in Frame /\ (f.kind = "session.req" => f.peer \in PeerID)
      BY ClientFrameType
    <3> QED
      BY <2>1, <3>1 DEF ReadFrame, TypeOK, DispatchReady, LoopsWithinRegistration
  <2>2. CASE ReadEnds(c)
    BY <2>2 DEF ReadEnds, TypeOK, DispatchReady, LoopsWithinRegistration
  <2>3. CASE Dispatch(c)
    <3>1. reader[c] = "dispatch" /\ \E sends : Replies(c, sends)
      BY <2>3 DEF Dispatch, DispatchPing, DispatchSessionReq, DispatchSessionReqFails,
                  DispatchForward, DispatchBye, DispatchBad, Dispatching
    <3> QED
      BY <3>1, RepliesControl
  <2>4. CASE SendNext(c)
    BY <2>4 DEF SendNext, TypeOK, DispatchReady, LoopsWithinRegistration
  <2> QED
    BY <1>2, <2>1, <2>2, <2>3, <2>4 DEF ReadLoop
<1>3. ASSUME NEW c \in Conn, WriteLoop(c) \/ LinkLost(c)
      PROVE  DispatchReady' /\ LoopsWithinRegistration'
  BY <1>3 DEF WriteLoop, WriteTake, WriteOK, WriteFails, PingFails, WriterStops, LinkLost,
              TypeOK, DispatchReady, LoopsWithinRegistration
<1>4. CASE UNCHANGED vars
  BY <1>4 DEF vars, hubVars, connVars, DispatchReady, LoopsWithinRegistration
<1> QED
  BY <1>1, <1>2, <1>3, <1>4 DEF Next, Idle

-----------------------------------------------------------------------------
(***************************************************************************)
(* The registry and the sessions.                                          *)
(***************************************************************************)
\* A step that leaves the hub, the ids and the registered connections alone keeps
\* the registry exact and the sessions bound.
LEMMA HubUntouched ==
    ASSUME IInv, UNCHANGED <<peers, sessions, hist, id>>,
           \A c \in Conn : Registered(c)' <=> Registered(c)
    PROVE  RegistryExact' /\ SessionBoundToConns'
<1>1. \A i \in PeerID : peers[i] # NoConn => peers[i] \in Conn
  BY DEF IInv, TypeOK, HubTypeOK
<1>2. RegistryExact'
  BY <1>1 DEF IInv, RegistryExact
<1>3. SessionBoundToConns'
  BY DEF IInv, SessionBoundToConns, Open
<1> QED
  BY <1>2, <1>3

\* Sessions deleted by bye: the others keep their members and their history.
LEMMA ByeKeepsSessions ==
    ASSUME IInv, NEW c \in Conn, NEW s, CloseSession(c, s)
    PROVE  SessionBoundToConns'
<1> DEFINE gone == {t \in SessionID : t = s /\ Open(t)}
<1>1. \A t \in gone : hist[t] # NoSession
  BY DEF IInv, SessionBoundToConns
<1>2. Delete(gone, c) /\ UNCHANGED peers
  BY DEF CloseSession
<1>3. gone \in SUBSET SessionID
  OBVIOUS
<1> HIDE DEF gone
<1>4. /\ \A t \in SessionID \ gone : sessions'[t] = sessions[t] /\ hist'[t] = hist[t]
      /\ \A t \in gone : sessions'[t] = NoSession
  BY <1>1, <1>2, <1>3, DeleteType DEF IInv, TypeOK
<1> QED
  BY <1>2, <1>4 DEF IInv, SessionBoundToConns, Open

LEMMA HubStep ==
    ASSUME IInv, [Next]_vars
    PROVE  RegistryExact' /\ SessionBoundToConns'
<1> USE DEF IInv
<1>1. ASSUME NEW c \in Conn, Handler(c)
      PROVE  RegistryExact' /\ SessionBoundToConns'
  <2>1. ASSUME NEW i \in PeerID, HelloRegisters(c, i)
        PROVE  RegistryExact' /\ SessionBoundToConns'
    <3>1. /\ peers[i] = NoConn /\ phase[c] = "new"
          /\ peers' = [peers EXCEPT ![i] = c] /\ id' = [id EXCEPT ![c] = i]
          /\ phase' = [phase EXCEPT ![c] = "greet"]
          /\ UNCHANGED <<sessions, hist>>
      BY <2>1 DEF HelloRegisters, Register, Goto
    <3>2. RegistryExact'
      <4>1. \A j \in PeerID : peers[j] # c
        BY <3>1, HubAssumption DEF RegistryExact, Registered
      <4>2. \A j \in PeerID : peers'[j] # NoConn => id'[peers'[j]] = j /\ Registered(peers[j])'
        <5> TAKE j \in PeerID
        <5>1. CASE j = i
          BY <3>1, <5>1 DEF TypeOK, HubTypeOK, Registered
        <5>2. CASE j # i
          BY <3>1, <4>1, <5>2 DEF TypeOK, HubTypeOK, RegistryExact, Registered
        <5> QED
          BY <5>1, <5>2
      <4>3. \A d \in Conn : Registered(d)' => id'[d] \in PeerID /\ peers'[id'[d]] = d
        <5> TAKE d \in Conn
        <5>1. CASE d = c
          BY <3>1, <5>1 DEF TypeOK, HubTypeOK
        <5>2. CASE d # c
          <6>1. Registered(d)' <=> Registered(d)
            BY <3>1, <5>2 DEF TypeOK, Registered
          <6>2. Registered(d) => id[d] # i
            BY <3>1, HubAssumption DEF RegistryExact
          <6> QED
            BY <3>1, <5>2, <6>1, <6>2 DEF TypeOK, HubTypeOK, RegistryExact
        <5> QED
          BY <5>1, <5>2
      <4> QED
        BY <4>2, <4>3 DEF RegistryExact
    <3>3. SessionBoundToConns'
      <4>1. \A s \in SessionID : Open(s) => sessions[s].initiator # i /\ sessions[s].target # i
        BY <3>1, HubAssumption DEF SessionBoundToConns, Open, TypeOK, HubTypeOK, History, Session
      <4>2. \A s \in SessionID : Open(s) =>
                /\ sessions[s].initiator \in PeerID \ {i}
                /\ sessions[s].target \in PeerID \ {i}
        BY <4>1 DEF Open, TypeOK, HubTypeOK, Session
      <4>3. \A j \in PeerID \ {i} : peers'[j] = peers[j]
        BY <3>1 DEF TypeOK, HubTypeOK
      <4> QED
        BY <3>1, <4>2, <4>3 DEF SessionBoundToConns, Open
    <3> QED
      BY <3>2, <3>3
  <2>2. CASE RunUnregisters(c)
    <3> DEFINE i == id[c]
               gone == {s \in SessionID : Open(s) /\ i \in Members(s)}
    <3>1. /\ phase[c] = "wait" /\ i \in PeerID /\ peers[i] = c
          /\ peers' = [peers EXCEPT ![i] = NoConn] /\ UNCHANGED id
          /\ Delete(gone, c)
      BY <2>2 DEF RunUnregisters, Unregister, Goto, RegistryExact, Registered
    <3>2. \A d \in Conn \ {c} : Registered(d)' <=> Registered(d)
      BY <2>2 DEF RunUnregisters, Goto, TypeOK, Registered
    <3>3. ~Registered(c)'
      BY <2>2 DEF RunUnregisters, Goto, AfterNotices, TypeOK, Registered
    <3>4. RegistryExact'
      <4>1. \A j \in PeerID : peers'[j] # NoConn => /\ j # i /\ peers'[j] = peers[j]
                                                    /\ peers[j] # c /\ peers[j] \in Conn
        BY <3>1, HubAssumption DEF TypeOK, HubTypeOK, RegistryExact
      <4>2. \A d \in Conn \ {c} : Registered(d) => id[d] # i
        BY <3>1 DEF RegistryExact
      <4>3. \A j \in PeerID : peers'[j] # NoConn => id'[peers'[j]] = j /\ Registered(peers[j])'
        BY <3>1, <3>2, <4>1 DEF RegistryExact
      <4>4. \A d \in Conn : Registered(d)' => id'[d] \in PeerID /\ peers'[id'[d]] = d
        BY <3>1, <3>2, <3>3, <4>2 DEF RegistryExact, TypeOK, HubTypeOK
      <4> QED
        BY <4>3, <4>4 DEF RegistryExact
    <3>5. SessionBoundToConns'
      <4>1. \A s \in gone : hist[s] # NoSession
        BY DEF SessionBoundToConns
      <4>2. \A s \in SessionID \ gone : Open(s) =>
                sessions[s].initiator # i /\ sessions[s].target # i
        BY DEF Members
      <4>3. gone \in SUBSET SessionID
        OBVIOUS
      <4> HIDE DEF gone
      <4>4. /\ \A s \in SessionID \ gone : sessions'[s] = sessions[s] /\ hist'[s] = hist[s]
            /\ \A s \in gone : sessions'[s] = NoSession
        BY <3>1, <4>1, <4>3, DeleteType DEF TypeOK
      <4> QED
        BY <3>1, <4>2, <4>4 DEF SessionBoundToConns, Open, TypeOK, HubTypeOK, Session
    <3> QED
      BY <3>4, <3>5
  <2>3. CASE HelloFails(c) \/ Greet(c) \/ RunWakes(c) \/ \E n \in notify[c] : NotifyOne(c, n)
    <3>1. UNCHANGED <<peers, sessions, hist, id>>
      BY <2>3 DEF HelloFails, Greet, RunWakes, NotifyOne, hubVars
    <3>2. \A d \in Conn : Registered(d)' <=> Registered(d)
      BY <2>3 DEF HelloFails, Greet, RunWakes, NotifyOne, Goto, AfterNotices, TypeOK, Registered
    <3> QED
      BY <3>1, <3>2, HubUntouched
  <2>4. ASSUME NEW i \in PeerID, HelloRefused(c, i)
        PROVE  RegistryExact' /\ SessionBoundToConns'
    <3>1. /\ phase[c] = "new" /\ phase' = [phase EXCEPT ![c] = "done"]
          /\ id' = [id EXCEPT ![c] = i] /\ UNCHANGED <<peers, sessions, hist>>
      BY <2>4 DEF HelloRefused, Goto, hubVars
    <3>2. \A d \in Conn : (Registered(d)' <=> Registered(d)) /\ (d # c => id'[d] = id[d])
      BY <3>1 DEF TypeOK, Registered
    <3>3. ~Registered(c) /\ \A j \in PeerID : peers[j] # NoConn => peers[j] \in Conn \ {c}
      <4>1. ~Registered(c)
        BY <3>1 DEF Registered
      <4>2. \A j \in PeerID : peers[j] # NoConn => peers[j] \in Conn /\ Registered(peers[j])
        BY DEF RegistryExact, TypeOK, HubTypeOK
      <4> QED
        BY <4>1, <4>2
    <3>4. RegistryExact'
      BY <3>1, <3>2, <3>3 DEF RegistryExact
    <3>5. SessionBoundToConns'
      BY <3>1 DEF SessionBoundToConns, Open
    <3> QED
      BY <3>4, <3>5
  <2> QED
    BY <1>1, <2>1, <2>2, <2>3, <2>4 DEF Handler
<1>2. ASSUME NEW c \in Conn, Dispatch(c)
      PROVE  RegistryExact' /\ SessionBoundToConns'
  <2>0. reader[c] = "dispatch" /\ Registered(c) /\ id[c] \in PeerID /\ peers[id[c]] = c
    <3>1. reader[c] = "dispatch"
      BY <1>2 DEF Dispatch, DispatchPing, DispatchSessionReq, DispatchSessionReqFails,
                  DispatchForward, DispatchBye, DispatchBad, Dispatching
    <3> QED
      BY <3>1 DEF LoopsWithinRegistration, Registered, RegistryExact
  <2>1. UNCHANGED <<phase, id, peers>>
    BY <1>2 DEF Dispatch, DispatchPing, DispatchSessionReq, DispatchSessionReqFails,
                DispatchForward, DispatchBye, DispatchBad, Replies, OpenSession, CloseSession,
                hubVars
  <2>2. RegistryExact'
    BY <2>1 DEF RegistryExact, Registered
  <2>3. ASSUME NEW s \in SessionID, DispatchSessionReq(c, s)
        PROVE  SessionBoundToConns'
    <3> DEFINE t == frame[c].peer
    <3>1. /\ sessions' = [sessions EXCEPT ![s] = [initiator |-> id[c], target |-> t]]
          /\ hist' = [hist EXCEPT ![s] = [ini |-> c, tgt |-> peers[t], by |-> NoConn]]
          /\ peers[t] # NoConn
      BY <2>3 DEF DispatchSessionReq, OpenSession
    <3>2. t \in PeerID /\ peers[t] \in Conn
      BY <2>0, <2>3, <3>1 DEF DispatchSessionReq, Dispatching, DispatchReady, TypeOK, HubTypeOK
    <3>3. [ini |-> c, tgt |-> peers[t], by |-> NoConn] # NoSession
      BY <3>2, HubAssumption DEF History
    <3> HIDE DEF t
    <3>4. ASSUME NEW u \in SessionID, Open(u)'
          PROVE  /\ hist'[u] # NoSession
                 /\ peers'[sessions'[u].initiator] = hist'[u].ini
                 /\ peers'[sessions'[u].target] = hist'[u].tgt
      <4>1. CASE u = s
        BY <2>0, <2>1, <3>1, <3>3, <4>1 DEF TypeOK, HubTypeOK
      <4>2. CASE u # s
        BY <2>1, <3>1, <3>4, <4>2 DEF TypeOK, HubTypeOK, SessionBoundToConns, Open
      <4> QED
        BY <4>1, <4>2
    <3> QED
      BY <3>4 DEF SessionBoundToConns
  <2>4. CASE DispatchBye(c)
    BY <2>2, <2>4, ByeKeepsSessions DEF DispatchBye
  <2>5. CASE DispatchPing(c) \/ DispatchSessionReqFails(c) \/ DispatchForward(c) \/ DispatchBad(c)
    BY <2>2, <2>5 DEF DispatchPing, DispatchSessionReqFails, DispatchForward, DispatchBad, hubVars,
                SessionBoundToConns, Open
  <2> QED
    BY <1>2, <2>2, <2>3, <2>4, <2>5 DEF Dispatch
<1>3. ASSUME NEW c \in Conn,
             \/ \E f \in ClientFrame(c) : ReadFrame(c, f)
             \/ ReadEnds(c) \/ SendNext(c) \/ WriteLoop(c) \/ LinkLost(c)
      PROVE  RegistryExact' /\ SessionBoundToConns'
  <2>1. UNCHANGED <<peers, sessions, hist, id>> /\ UNCHANGED phase
    BY <1>3 DEF ReadFrame, ReadEnds, SendNext, WriteLoop, WriteTake, WriteOK, WriteFails,
                PingFails, WriterStops, LinkLost, hubVars
  <2> QED
    BY <2>1, HubUntouched DEF Registered
<1>4. CASE UNCHANGED vars
  BY <1>4, HubUntouched DEF vars, hubVars, connVars, Registered
<1> QED
  BY <1>1, <1>2, <1>3, <1>4 DEF Next, Idle, ReadLoop

-----------------------------------------------------------------------------
LEMMA InitIInv == Init => IInv
<1> SUFFICES ASSUME Init PROVE IInv
  OBVIOUS
<1>1. TypeOK
  <2>1. \A c \in Conn : Len(send[c]) = 0 /\ Len(inflight[c]) = 0
    BY DEF Init
  <2> QED
    BY <2>1, SignalAssumption DEF Init, NewHub, TypeOK, HubTypeOK, Phase, Reader, Writer
<1>2. DispatchReady /\ LoopsWithinRegistration
  BY DEF Init, DispatchReady, LoopsWithinRegistration
<1>3. RegistryExact /\ SessionBoundToConns
  BY DEF Init, NewHub, RegistryExact, Registered, SessionBoundToConns, Open
<1> QED
  BY <1>1, <1>2, <1>3 DEF IInv

LEMMA StepIInv == IInv /\ [Next]_vars => IInv'
BY TypeStep, ControlStep, HubStep DEF IInv

\* hub.go, peer.go, ws.go: the inductive invariant holds of every behaviour.
THEOREM Invariance == Spec => []IInv
BY InitIInv, StepIInv, PTL DEF Spec

\* peer.go Send: every variable keeps its type and no outbound channel ever holds
\* more than sendQueueSize messages, whatever the number of clients and frames.
THEOREM TypeCorrect == Spec => []TypeOK
<1>1. IInv => TypeOK
  BY DEF IInv
<1> QED
  BY <1>1, Invariance, PTL

\* hub.go Register/Unregister: an id always maps to the one connection whose handler
\* is between Register and Unregister.
THEOREM RegistryIsExact == Spec => []RegistryExact
<1>1. IInv => RegistryExact
  BY DEF IInv
<1> QED
  BY <1>1, Invariance, PTL

\* peer.go run: neither loop of a connection outlives its registration.
THEOREM LoopsConfined == Spec => []LoopsWithinRegistration
<1>1. IInv => LoopsWithinRegistration
  BY DEF IInv
<1> QED
  BY <1>1, Invariance, PTL

\* hub.go OpenSession/Unregister: an open session is always held by the connections
\* it was opened between; it never survives into a member's next connection.
THEOREM SessionsBound == Spec => []SessionBoundToConns
<1>1. IInv => SessionBoundToConns
  BY DEF IInv
<1> QED
  BY <1>1, Invariance, PTL

-----------------------------------------------------------------------------
(***************************************************************************)
(* Refinement: registering is Join, unregistering is Leave, opening a      *)
(* session is Pair, a bye for an open session is Part; every other step    *)
(* leaves the mapped state alone.                                          *)
(***************************************************************************)
Online == {i \in PeerID : peers[i] # NoConn}

LEMMA DispatchRefines ==
    ASSUME IInv, NEW c \in Conn, Dispatch(c)
    PROVE  [R!RNext]_(R!rvars)
<1> USE DEF IInv
<1>1. ASSUME NEW s \in SessionID, DispatchSessionReq(c, s)
      PROVE  R!Pair(s, id[c], frame[c].peer) /\ id[c] \in PeerID /\ frame[c].peer \in PeerID
  <2> DEFINE t == frame[c].peer
  <2>1. reader[c] = "dispatch" /\ frame[c].kind = "session.req"
    BY <1>1 DEF DispatchSessionReq, Dispatching
  <2>2. t \in PeerID /\ id[c] \in PeerID /\ peers[id[c]] = c
    BY <2>1 DEF DispatchReady, LoopsWithinRegistration, RegistryExact, Registered
  <2>3. /\ peers[t] # NoConn /\ hist[s] = NoSession
        /\ sessions' = [sessions EXCEPT ![s] = [initiator |-> id[c], target |-> t]]
        /\ hist' = [hist EXCEPT ![s] = [ini |-> c, tgt |-> peers[t], by |-> NoConn]]
        /\ UNCHANGED peers
    BY <1>1 DEF DispatchSessionReq, OpenSession, Minted
  <2>4. [ini |-> c, tgt |-> peers[t], by |-> NoConn] # NoSession
    BY <2>2, <2>3, HubAssumption DEF History, TypeOK, HubTypeOK
  <2>5. Minted' = Minted \cup {s}
    BY <2>3, <2>4 DEF Minted, TypeOK, HubTypeOK
  <2>6. id[c] \in Online /\ t \in Online /\ Online' = Online /\ s \notin Minted
    BY <2>2, <2>3, HubAssumption DEF Online, Minted
  <2> QED
    BY <2>2, <2>3, <2>5, <2>6 DEF R!Pair, Online
<1>2. CASE DispatchBye(c)
  <2> DEFINE s == frame[c].sid
             gone == {t \in SessionID : t = s /\ Open(t)}
  <2>1. Delete(gone, c) /\ UNCHANGED peers
    BY <1>2 DEF DispatchBye, CloseSession
  <2>2. \A t \in gone : hist[t] # NoSession
    BY DEF SessionBoundToConns
  <2>3. Minted' = Minted
    <3> HIDE DEF gone
    <3>1. gone \in SUBSET SessionID
      BY DEF gone
    <3> QED
      BY <2>1, <2>2, <3>1, DeleteType DEF TypeOK
  <2>4. CASE Open(s)
    <3>1. s \in SessionID /\ sessions[s] # NoSession
      BY <2>4 DEF Open
    <3>2. sessions' = [sessions EXCEPT ![s] = NoSession]
      BY <2>1, <2>4, <3>1 DEF Delete, TypeOK, HubTypeOK
    <3> QED
      BY <2>1, <2>3, <3>1, <3>2 DEF R!Part, R!RNext
  <2>5. CASE ~Open(s)
    <3>1. sessions' = sessions
      BY <2>1, <2>5 DEF Delete, TypeOK, HubTypeOK
    <3> QED
      BY <2>1, <2>3, <3>1 DEF R!rvars
  <2> QED
    BY <2>4, <2>5
<1>3. CASE DispatchPing(c) \/ DispatchSessionReqFails(c) \/ DispatchForward(c) \/ DispatchBad(c)
  BY <1>3 DEF DispatchPing, DispatchSessionReqFails, DispatchForward, DispatchBad, hubVars,
              R!rvars, Minted
<1> QED
  BY <1>1, <1>2, <1>3 DEF Dispatch, R!RNext

LEMMA HandlerRefines ==
    ASSUME IInv, NEW c \in Conn, Handler(c)
    PROVE  [R!RNext]_(R!rvars)
<1> USE DEF IInv
<1>1. ASSUME NEW i \in PeerID, HelloRegisters(c, i)
      PROVE  R!Join(i)
  <2>1. /\ peers[i] = NoConn /\ peers' = [peers EXCEPT ![i] = c]
        /\ UNCHANGED <<sessions, hist>>
    BY <1>1 DEF HelloRegisters, Register
  <2>2. i \notin Online /\ Online' = Online \cup {i}
    BY <2>1, HubAssumption DEF Online, TypeOK, HubTypeOK
  <2> QED
    BY <2>1, <2>2 DEF R!Join, Online, Minted
<1>2. CASE RunUnregisters(c)
  <2>0. PICK i \in PeerID : i = id[c]
    BY <1>2 DEF RunUnregisters, Goto, RegistryExact, Registered
  <2> DEFINE gone == {s \in SessionID : Open(s) /\ i \in Members(s)}
  <2>1. /\ i \in PeerID /\ peers[i] = c
        /\ peers' = [peers EXCEPT ![i] = NoConn]
        /\ Delete(gone, c)
    BY <1>2, <2>0 DEF RunUnregisters, Unregister, Goto, RegistryExact, Registered
  <2>2. \A t \in gone : hist[t] # NoSession
    BY DEF SessionBoundToConns
  <2>3. Minted' = Minted
    <3> HIDE DEF gone
    <3>1. gone \in SUBSET SessionID
      BY DEF gone
    <3> QED
      BY <2>1, <2>2, <3>1, DeleteType DEF TypeOK
  <2>4. sessions' = [s \in SessionID |-> IF R!Paired(s, i) THEN NoSession ELSE sessions[s]]
    BY <2>1 DEF Delete, Open, Members, R!Paired
  <2>5. i \in Online /\ Online' = Online \ {i}
    BY <2>1, HubAssumption DEF Online, TypeOK, HubTypeOK
  <2>6. R!Leave(i)
    BY <2>3, <2>4, <2>5 DEF R!Leave, Online
  <2> QED
    BY <2>6 DEF R!RNext
<1>3. CASE \/ HelloFails(c) \/ Greet(c) \/ RunWakes(c)
           \/ \E n \in notify[c] : NotifyOne(c, n)
           \/ \E i \in PeerID : HelloRefused(c, i)
  BY <1>3 DEF HelloFails, Greet, RunWakes, NotifyOne, HelloRefused, hubVars, R!rvars, Minted
<1> QED
  BY <1>1, <1>2, <1>3 DEF Handler, R!RNext

LEMMA StepRefines == IInv /\ [Next]_vars => [R!RNext]_(R!rvars)
<1> SUFFICES ASSUME IInv, [Next]_vars PROVE [R!RNext]_(R!rvars)
  OBVIOUS
<1>1. ASSUME NEW c \in Conn,
             \/ \E f \in ClientFrame(c) : ReadFrame(c, f)
             \/ ReadEnds(c) \/ SendNext(c) \/ WriteLoop(c) \/ LinkLost(c)
      PROVE  UNCHANGED R!rvars
  BY <1>1 DEF ReadFrame, ReadEnds, SendNext, WriteLoop, WriteTake, WriteOK, WriteFails,
              PingFails, WriterStops, LinkLost, hubVars, R!rvars, Minted
<1>2. CASE UNCHANGED vars
  BY <1>2 DEF vars, hubVars, R!rvars, Minted
<1> QED
  BY <1>1, <1>2, DispatchRefines, HandlerRefines DEF Next, Idle, ReadLoop

LEMMA InitRefines == Init => R!RInit
BY DEF Init, NewHub, Minted, R!RInit

\* hub.go and peer.go: the server with all its goroutines implements Rendezvous, for
\* every number of clients: sessions pair online peers only, a peer that goes offline
\* takes its sessions along in one step, and no session id is used twice.
THEOREM Refinement == Spec => ImplementsRendezvous
BY InitRefines, StepRefines, Invariance, PTL DEF Spec, ImplementsRendezvous, R!RSpec
=============================================================================
