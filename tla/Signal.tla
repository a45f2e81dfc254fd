------------------------------- MODULE Signal -------------------------------
(***************************************************************************)
(* The signaling server: the hub together with the goroutines of every     *)
(* WebSocket connection (internal/signal/ws.go and peer.go).               *)
(*                                                                         *)
(* Three goroutines serve a registered connection c: the HTTP handler      *)
(* (ServeHTTP, then Peer.run), the read loop and the write loop.  They     *)
(* share c's outbound channel "send", its "closeCh" and the cancelled flag *)
(* of its context, and meet every other connection in the hub and in each  *)
(* other's "send".  One step is what one goroutine does between two points *)
(* where another can interfere: one critical section of the hub, one       *)
(* non-blocking Send, one receive of a select.                             *)
(*                                                                         *)
(* Clients are the environment: they may send any frame at any time, leave *)
(* or fall silent.  Definitions named Bug_* are seeded bugs, see Hub.      *)
(***************************************************************************)
EXTENDS Hub, Naturals, Sequences, FiniteSets

CONSTANTS
    SendQueueSize,  \* capacity of Peer.send (sendQueueSize)
    ClientKind,     \* the kinds of frame the clients send
    ForeignSids,    \* may a client name a session it was not told of itself?
    MaxFrames,      \* bound: frames read by the server in a behaviour
    MaxFaults,      \* bound: clients leaving, falling silent or stalling
    NoFrame         \* no frame is being dispatched

ASSUME SignalAssumption ==
    /\ SendQueueSize \in Nat \ {0}
    /\ MaxFrames \in Nat /\ MaxFaults \in Nat
    /\ ClientKind \subseteq FrameKind
    /\ ForeignSids \in BOOLEAN
    /\ NoFrame \notin Frame

VARIABLES
    phase,      \* where the handler goroutine is
    id,         \* Peer.ID, NoPeer before the hello is accepted
    link,       \* "up", or "lost": the client fell silent and nothing reaches it
    send,       \* Peer.send, the buffered channel
    closeCh,    \* is Peer.closeCh closed?
    ctxDone,    \* is the context of Peer.run cancelled?
    reader,     \* where readLoop is
    frame,      \* the frame readLoop is dispatching
    out,        \* the Sends the dispatch still has to make, in order
    writer,     \* where writeLoop is
    inflight,   \* the message wsjson.Write is writing: a sequence of at most one
    notify,     \* the notices Unregister still has to send
    recv,       \* what the client received, in order
    frames,     \* frames read so far, for the bound
    faults      \* clients that left, fell silent or stalled so far, for the bound

bounds   == <<frames, faults>>
connVars == <<phase, id, link, send, closeCh, ctxDone, reader, frame, out,
              writer, inflight, notify, recv, bounds>>
vars == <<hubVars, connVars>>

Phase  == {"new", "greet", "run", "wait", "notify", "done"}
Reader == {"off", "read", "dispatch", "send", "done"}
Writer == {"off", "select", "write", "done"}
Sending == [to : Conn, msg : Msg]
Notice  == [to : Conn, sid : SessionID]

\* Every variable has its type, and no channel holds more than its capacity.
TypeOK ==
    /\ HubTypeOK
    /\ phase    \in [Conn -> Phase]
    /\ id       \in [Conn -> PeerID \cup {NoPeer}]
    /\ link     \in [Conn -> {"up", "lost"}]
    /\ send     \in [Conn -> Seq(Msg)]
    /\ closeCh  \in [Conn -> BOOLEAN]
    /\ ctxDone  \in [Conn -> BOOLEAN]
    /\ reader   \in [Conn -> Reader]
    /\ frame    \in [Conn -> Frame \cup {NoFrame}]
    /\ out      \in [Conn -> Seq(Sending)]
    /\ writer   \in [Conn -> Writer]
    /\ inflight \in [Conn -> Seq(Msg)]
    /\ notify   \in [Conn -> SUBSET Notice]
    /\ recv     \in [Conn -> Seq(Msg)]
    /\ frames   \in 0 .. MaxFrames
    /\ faults   \in 0 .. MaxFaults
    /\ \A c \in Conn : Len(send[c]) <= SendQueueSize /\ Len(inflight[c]) <= 1

Init ==
    /\ NewHub
    /\ phase    = [c \in Conn |-> "new"]
    /\ id       = [c \in Conn |-> NoPeer]
    /\ link     = [c \in Conn |-> "up"]
    /\ send     = [c \in Conn |-> <<>>]
    /\ closeCh  = [c \in Conn |-> FALSE]
    /\ ctxDone  = [c \in Conn |-> FALSE]
    /\ reader   = [c \in Conn |-> "off"]
    /\ frame    = [c \in Conn |-> NoFrame]
    /\ out      = [c \in Conn |-> <<>>]
    /\ writer   = [c \in Conn |-> "off"]
    /\ inflight = [c \in Conn |-> <<>>]
    /\ notify   = [c \in Conn |-> {}]
    /\ recv     = [c \in Conn |-> <<>>]
    /\ frames   = 0
    /\ faults   = 0

-----------------------------------------------------------------------------
\* Peer.Send: queue the message, or close the peer when the channel is full.
\* Nothing stops it from queueing on a Peer that is closed or gone already.
Bug_SendDropsSilently(c, m) ==
    /\ send' = IF Len(send[c]) < SendQueueSize THEN [send EXCEPT ![c] = Append(@, m)] ELSE send
    /\ UNCHANGED closeCh
Bug_SendUnbounded(c, m) ==
    /\ send' = [send EXCEPT ![c] = Append(@, m)]
    /\ UNCHANGED closeCh
Bug_SendBlocks(c, m) ==
    /\ Len(send[c]) < SendQueueSize
    /\ send' = [send EXCEPT ![c] = Append(@, m)]
    /\ UNCHANGED closeCh
Send(c, m) ==
    \/ /\ Len(send[c]) < SendQueueSize
       /\ send' = [send EXCEPT ![c] = Append(@, m)]
       /\ UNCHANGED closeCh
    \/ /\ Len(send[c]) >= SendQueueSize
       /\ closeCh' = [closeCh EXCEPT ![c] = TRUE]
       /\ UNCHANGED send

\* A client does something it need not do: it leaves, falls silent or stops reading.
Fault == faults < MaxFaults /\ faults' = faults + 1 /\ UNCHANGED frames

\* A failure of the connection: one with a cause needs no fault of its own.
FailsBecause(cause) == (cause /\ UNCHANGED bounds) \/ (~cause /\ Fault)

Goto(c, from, to) == phase[c] = from /\ phase' = [phase EXCEPT ![c] = to]

-----------------------------------------------------------------------------
(***************************************************************************)
(* The handler goroutine: ServeHTTP and acceptHello.                       *)
(***************************************************************************)
\* A client opens a WebSocket and its first frame is a hello with a token that
\* verifies: a Peer for the token's subject i, which Register takes in.
HelloRegisters(c, i) ==
    /\ Goto(c, "new", "greet")
    /\ id' = [id EXCEPT ![c] = i]
    /\ Register(c, i)
    /\ UNCHANGED <<link, send, closeCh, ctxDone, reader, frame, out,
                   writer, inflight, notify, recv, bounds>>

\* The id is taken: duplicate_peer is written directly, and the connection closed.
HelloRefused(c, i) ==
    /\ Goto(c, "new", "done")
    /\ id' = [id EXCEPT ![c] = i]
    /\ peers[i] # NoConn
    /\ recv' = [recv EXCEPT ![c] = Append(@, ErrMsg)]
    /\ UNCHANGED <<hubVars, link, send, closeCh, ctxDone, reader, frame, out,
                   writer, inflight, notify, bounds>>

\* No frame within helloTimeout, another kind, or a token that does not verify:
\* the connection is closed without a message.
HelloFails(c) ==
    /\ Goto(c, "new", "done")
    /\ UNCHANGED <<hubVars, id, link, send, closeCh, ctxDone, reader, frame, out,
                   writer, inflight, notify, recv, bounds>>

\* hello.ok is queued only now, a step after Register let others reach the Peer;
\* then run starts the two loops.
Greet(c) ==
    /\ Goto(c, "greet", "run")
    /\ Send(c, HelloOKMsg(id[c]))
    /\ reader' = [reader EXCEPT ![c] = "read"]
    /\ writer' = [writer EXCEPT ![c] = "select"]
    /\ UNCHANGED <<hubVars, id, link, ctxDone, frame, out, inflight, notify, recv, bounds>>

\* run's select: the context is cancelled or the peer closed; cancel, close the
\* WebSocket, and wait for both loops.
Bug_RunWatchesContextOnly(c) ==
    /\ ctxDone[c]
    /\ Goto(c, "run", "wait")
    /\ UNCHANGED <<hubVars, id, link, send, closeCh, ctxDone, reader, frame, out,
                   writer, inflight, notify, recv, bounds>>
RunWakes(c) ==
    /\ ctxDone[c] \/ closeCh[c]
    /\ Goto(c, "run", "wait")
    /\ ctxDone' = [ctxDone EXCEPT ![c] = TRUE]
    /\ UNCHANGED <<hubVars, id, link, send, closeCh, reader, frame, out,
                   writer, inflight, notify, recv, bounds>>

\* Where the handler is once "left" are the notices it has still to send.
AfterNotices(left) == IF left = {} THEN "done" ELSE "notify"

\* wg.Wait returned: the critical section of Unregister.
Bug_UnregisterWithoutWait(c) ==
    /\ Goto(c, "wait", AfterNotices(Notices(id[c])))
    /\ Unregister(c, id[c])
    /\ notify' = [notify EXCEPT ![c] = Notices(id[c])]
    /\ UNCHANGED <<id, link, send, closeCh, ctxDone, reader, frame, out,
                   writer, inflight, recv, bounds>>
RunUnregisters(c) ==
    /\ reader[c] = "done" /\ writer[c] = "done"
    /\ Goto(c, "wait", AfterNotices(Notices(id[c])))
    /\ Unregister(c, id[c])
    /\ notify' = [notify EXCEPT ![c] = Notices(id[c])]
    /\ UNCHANGED <<id, link, send, closeCh, ctxDone, reader, frame, out,
                   writer, inflight, recv, bounds>>

\* The notices go out one by one, outside the lock, in the order the map iteration
\* happened to produce.
NotifyOne(c, n) ==
    /\ n \in notify[c]
    /\ Goto(c, "notify", AfterNotices(notify[c] \ {n}))
    /\ Send(n.to, PeerGoneMsg(n.sid))
    /\ notify' = [notify EXCEPT ![c] = @ \ {n}]
    /\ UNCHANGED <<hubVars, id, link, ctxDone, reader, frame, out,
                   writer, inflight, recv, bounds>>

-----------------------------------------------------------------------------
(***************************************************************************)
(* The read loop: readLoop and dispatch.                                   *)
(***************************************************************************)
\* The session ids a session.ack told the client of connection d.
Told(d) == {s \in SessionID : \E k \in DOMAIN recv[d] : /\ recv[d][k].kind = "session.ack"
                                                        /\ recv[d][k].sid = s}

\* The session ids the client of c can put in a frame: those it was told on any of its
\* connections (those anyone was told, when ForeignSids) and one that names no session.
Nameable(c) == {NoSid} \cup UNION {Told(d) : d \in {d \in Conn : ForeignSids \/ id[d] = id[c]}}

\* Bound: session.req is sent only while SessionID has a fresh id for every request.
Requesting == {c \in Conn : reader[c] = "dispatch" /\ frame[c].kind = "session.req"}
SidsLeft   == Cardinality(Minted) + Cardinality(Requesting) < Cardinality(SessionID)

ClientFrame(c) ==
    [kind : ClientKind \cap (IF SidsLeft THEN {"session.req"} ELSE {}),
     sid : {NoSid}, peer : PeerID]
      \cup [kind : ClientKind \cap SessionKind, sid : Nameable(c), peer : {NoPeer}]
      \cup [kind : ClientKind \cap ({"ping"} \cup BadKind), sid : {NoSid}, peer : {NoPeer}]

\* wsjson.Read returns a frame.  It may do so after the context was cancelled: the
\* frame was on its way.
ReadFrame(c, f) ==
    /\ reader[c] = "read" /\ link[c] = "up" /\ frames < MaxFrames
    /\ frame' = [frame EXCEPT ![c] = f]
    /\ reader' = [reader EXCEPT ![c] = "dispatch"]
    /\ frames' = frames + 1
    /\ UNCHANGED <<hubVars, phase, id, link, send, closeCh, ctxDone, out,
                   writer, inflight, notify, recv, faults>>

\* wsjson.Read fails: the client left, the text was no JSON or too long, or the
\* context is cancelled.  readLoop returns and cancels the context.
ReadEnds(c) ==
    /\ reader[c] = "read"
    /\ FailsBecause(ctxDone[c] \/ link[c] = "lost")
    /\ reader' = [reader EXCEPT ![c] = "done"]
    /\ ctxDone' = [ctxDone EXCEPT ![c] = TRUE]
    /\ UNCHANGED <<hubVars, phase, id, link, send, closeCh, frame, out,
                   writer, inflight, notify, recv>>

\* What every dispatch leaves behind: the Sends it has still to make.
Replies(c, sends) ==
    /\ out' = [out EXCEPT ![c] = sends]
    /\ frame' = [frame EXCEPT ![c] = NoFrame]
    /\ reader' = [reader EXCEPT ![c] = IF sends = <<>> THEN "read" ELSE "send"]
    /\ UNCHANGED <<phase, id, link, send, closeCh, ctxDone, writer, inflight, notify,
                   recv, bounds>>

Dispatching(c, kinds) == reader[c] = "dispatch" /\ frame[c].kind \in kinds

DispatchPing(c) ==
    /\ Dispatching(c, {"ping"})
    /\ Replies(c, <<[to |-> c, msg |-> PongMsg]>>)
    /\ UNCHANGED hubVars

\* session.req: the two acks follow OpenSession outside the lock, the initiator's
\* first.
Bug_AckTargetOnly(c, s) ==
    LET t == frame[c].peer
    IN  /\ Dispatching(c, {"session.req"})
        /\ OpenSession(c, id[c], t, s)
        /\ Replies(c, <<[to |-> peers[t], msg |-> SessionAckMsg(s, id[c])]>>)
Bug_AckTargetFirst(c, s) ==
    LET t == frame[c].peer
    IN  /\ Dispatching(c, {"session.req"})
        /\ OpenSession(c, id[c], t, s)
        /\ Replies(c, <<[to |-> peers[t], msg |-> SessionAckMsg(s, id[c])],
                        [to |-> c, msg |-> SessionAckMsg(s, t)]>>)
DispatchSessionReq(c, s) ==
    LET t == frame[c].peer
    IN  /\ Dispatching(c, {"session.req"})
        /\ OpenSession(c, id[c], t, s)
        /\ Replies(c, <<[to |-> c, msg |-> SessionAckMsg(s, t)],
                        [to |-> peers[t], msg |-> SessionAckMsg(s, id[c])]>>)

\* ErrTargetUnknown.
DispatchSessionReqFails(c) ==
    /\ Dispatching(c, {"session.req"})
    /\ peers[frame[c].peer] = NoConn
    /\ Replies(c, <<[to |-> c, msg |-> ErrMsg]>>)
    /\ UNCHANGED hubVars

\* sdp and ice go to the counterparty, or are answered with an error.
DispatchForward(c) ==
    LET f == frame[c]
        other == OtherPeer(f.sid, id[c])
    IN  /\ Dispatching(c, {"sdp", "ice"})
        /\ \/ /\ other # NoConn
              /\ Replies(c, <<[to |-> other, msg |-> ForwardedMsg(f.kind, f.sid, id[c])]>>)
           \/ /\ other = NoConn
              /\ Replies(c, <<[to |-> c, msg |-> ErrMsg]>>)
        /\ UNCHANGED hubVars

\* bye never fails: an unknown session and a foreign one are not reported.
DispatchBye(c) ==
    LET f == frame[c]
        other == ByeRecipient(f.sid, id[c])
    IN  /\ Dispatching(c, {"bye"})
        /\ CloseSession(c, f.sid)
        /\ Replies(c, IF other = NoConn THEN <<>>
                                        ELSE <<[to |-> other, msg |-> PeerGoneMsg(f.sid)]>>)

DispatchBad(c) ==
    /\ Dispatching(c, BadKind)
    /\ Replies(c, <<[to |-> c, msg |-> ErrMsg]>>)
    /\ UNCHANGED hubVars

\* The dispatch makes its next Send; after the last one readLoop reads again.
SendNext(c) ==
    /\ reader[c] = "send"
    /\ Send(Head(out[c]).to, Head(out[c]).msg)
    /\ out' = [out EXCEPT ![c] = Tail(@)]
    /\ reader' = [reader EXCEPT ![c] = IF Tail(out[c]) = <<>> THEN "read" ELSE "send"]
    /\ UNCHANGED <<hubVars, phase, id, link, ctxDone, frame, writer, inflight, notify,
                   recv, bounds>>

-----------------------------------------------------------------------------
(***************************************************************************)
(* The write loop.                                                         *)
(***************************************************************************)
\* The select picks a queued message; it may pick it even when the peer is closed.
WriteTake(c) ==
    /\ writer[c] = "select" /\ send[c] # <<>>
    /\ inflight' = [inflight EXCEPT ![c] = <<Head(send[c])>>]
    /\ send' = [send EXCEPT ![c] = Tail(@)]
    /\ writer' = [writer EXCEPT ![c] = "write"]
    /\ UNCHANGED <<hubVars, phase, id, link, closeCh, ctxDone, reader, frame, out,
                   notify, recv, bounds>>

\* wsjson.Write returns nil.  When the client has fallen silent the bytes only
\* reached a kernel buffer.
WriteOK(c) ==
    /\ writer[c] = "write"
    /\ recv' = IF link[c] = "up" THEN [recv EXCEPT ![c] = @ \o inflight[c]] ELSE recv
    /\ inflight' = [inflight EXCEPT ![c] = <<>>]
    /\ writer' = [writer EXCEPT ![c] = "select"]
    /\ UNCHANGED <<hubVars, phase, id, link, send, closeCh, ctxDone, reader, frame, out,
                   notify, bounds>>

\* wsjson.Write fails (writeTimeout, a reset, the context): close the peer.
WriteFails(c) ==
    /\ writer[c] = "write"
    /\ FailsBecause(ctxDone[c] \/ link[c] = "lost")
    /\ closeCh' = [closeCh EXCEPT ![c] = TRUE]
    /\ inflight' = [inflight EXCEPT ![c] = <<>>]
    /\ writer' = [writer EXCEPT ![c] = "done"]
    /\ UNCHANGED <<hubVars, phase, id, link, send, ctxDone, reader, frame, out,
                   notify, recv>>

\* The ticker fires and no pong comes back in time: close the peer.  A ping that
\* is answered changes nothing.
Bug_PingFailsQuietly(c) ==
    /\ writer[c] = "select"
    /\ FailsBecause(ctxDone[c] \/ link[c] = "lost")
    /\ writer' = [writer EXCEPT ![c] = "done"]
    /\ UNCHANGED <<hubVars, phase, id, link, send, closeCh, ctxDone, reader, frame, out,
                   inflight, notify, recv>>
PingFails(c) ==
    /\ writer[c] = "select"
    /\ FailsBecause(ctxDone[c] \/ link[c] = "lost")
    /\ closeCh' = [closeCh EXCEPT ![c] = TRUE]
    /\ writer' = [writer EXCEPT ![c] = "done"]
    /\ UNCHANGED <<hubVars, phase, id, link, send, ctxDone, reader, frame, out,
                   inflight, notify, recv>>

WriterStops(c) ==
    /\ writer[c] = "select"
    /\ ctxDone[c] \/ closeCh[c]
    /\ writer' = [writer EXCEPT ![c] = "done"]
    /\ UNCHANGED <<hubVars, phase, id, link, send, closeCh, ctxDone, reader, frame, out,
                   inflight, notify, recv, bounds>>

-----------------------------------------------------------------------------
\* The client falls silent without closing (a phone that leaves coverage).  The
\* server is not told.
LinkLost(c) ==
    /\ link[c] = "up" /\ phase[c] \notin {"new", "done"}
    /\ Fault
    /\ link' = [link EXCEPT ![c] = "lost"]
    /\ UNCHANGED <<hubVars, phase, id, send, closeCh, ctxDone, reader, frame, out,
                   writer, inflight, notify, recv>>

Handler(c) ==
    \/ \E i \in PeerID : HelloRegisters(c, i) \/ HelloRefused(c, i)
    \/ HelloFails(c) \/ Greet(c) \/ RunWakes(c) \/ RunUnregisters(c)
    \/ \E n \in notify[c] : NotifyOne(c, n)

Dispatch(c) ==
    \/ DispatchPing(c)
    \/ \E s \in SessionID : DispatchSessionReq(c, s)
    \/ DispatchSessionReqFails(c)
    \/ DispatchForward(c) \/ DispatchBye(c) \/ DispatchBad(c)

ReadLoop(c) ==
    \/ \E f \in ClientFrame(c) : ReadFrame(c, f)
    \/ ReadEnds(c) \/ Dispatch(c) \/ SendNext(c)

WriteLoop(c) ==
    WriteTake(c) \/ WriteOK(c) \/ WriteFails(c) \/ PingFails(c) \/ WriterStops(c)

\* All connections are over or waiting for their clients, which have used up the
\* bounds: the one way in which a behaviour of the model may stop.
Quiet(c) == \/ phase[c] = "done"
            \/ /\ phase[c] = "run" /\ reader[c] = "read" /\ writer[c] = "select"
               /\ send[c] = <<>> /\ link[c] = "up" /\ ~ctxDone[c] /\ ~closeCh[c]
Idle == (\A c \in Conn : Quiet(c)) /\ UNCHANGED vars

Next ==
    \/ \E c \in Conn : Handler(c) \/ ReadLoop(c) \/ WriteLoop(c) \/ LinkLost(c)
    \/ Idle

\* The Go scheduler runs every goroutine that can go on.  Timers bound the hello, a
\* write and a ping that gets no answer; a cancelled context ends a Read.  Nothing
\* is assumed of the clients: none need connect, send a frame, leave or stay.
Fairness ==
    \A c \in Conn :
        /\ WF_vars(Greet(c))
        /\ WF_vars(RunWakes(c))
        /\ WF_vars(RunUnregisters(c))
        /\ WF_vars(\E n \in notify[c] : NotifyOne(c, n))
        /\ WF_vars(ctxDone[c] /\ ReadEnds(c))
        /\ WF_vars(Dispatch(c))
        /\ WF_vars(SendNext(c))
        /\ WF_vars(WriteTake(c))
        /\ WF_vars(WriteOK(c) \/ WriteFails(c))
        /\ WF_vars(link[c] = "lost" /\ PingFails(c))
        /\ WF_vars(WriterStops(c))

Spec == Init /\ [][Next]_vars
FairSpec == Spec /\ Fairness
=============================================================================
