---------------------------- MODULE SignalProps ----------------------------
(***************************************************************************)
(* What the signaling server promises, stated over Signal.                 *)
(***************************************************************************)
EXTENDS Signal

\* The handler of c is between Register and Unregister.
Registered(c) == phase[c] \in {"greet", "run", "wait"}

\* Nothing queued for c so far was dropped: the client is reachable and Peer.Send
\* never met a full channel.
Healthy(c) == ~closeCh[c] /\ link[c] = "up"

\* Everything c was sent, oldest first: received, being written, queued.
Stream(c) == recv[c] \o inflight[c] \o send[c]

Queued(c, m) == \E k \in DOMAIN Stream(c) : Stream(c)[k] = m

\* A dispatch or an Unregister that has left the hub's lock has yet to Send m to c.
Due(c, m) ==
    \E d \in Conn : \/ \E k \in DOMAIN out[d] : out[d][k] = [to |-> c, msg |-> m]
                    \/ \E n \in notify[d] : n.to = c /\ PeerGoneMsg(n.sid) = m

-----------------------------------------------------------------------------
\* hub.go Register/Unregister with peer.go run: an id maps to the one connection
\* whose handler is between Register and Unregister, and to nothing otherwise.
\* Unregister deletes by id, so this is what keeps a handler from evicting the
\* connection that succeeded it under the same id.
RegistryExact ==
    /\ \A i \in PeerID : peers[i] # NoConn => id[peers[i]] = i /\ Registered(peers[i])
    /\ \A c \in Conn : Registered(c) => id[c] \in PeerID /\ peers[id[c]] = c

\* peer.go run: wg.Wait comes before Unregister, so neither loop of a connection
\* lives outside the connection's registration: no dispatch opens a session for an
\* initiator that has left, and no write goes out under an id already given away.
LoopsWithinRegistration ==
    \A c \in Conn :
        reader[c] \in {"read", "dispatch", "send"} \/ writer[c] \in {"select", "write"} =>
            phase[c] \in {"run", "wait"}

\* hub.go OpenSession/Unregister: while a session is open both members are
\* registered, through the very connections it was opened between.  OpenSession
\* never checks its initiator, and sessions name ids, not connections: a session
\* must not survive into a member's next connection.
SessionBoundToConns ==
    \A s \in SessionID : Open(s) =>
        /\ hist[s] # NoSession
        /\ peers[sessions[s].initiator] = hist[s].ini
        /\ peers[sessions[s].target] = hist[s].tgt

\* peer.go dispatch of session.req: each member of an open session has its
\* session.ack received, queued or about to be queued, unless its connection lost
\* messages and is being closed.
AckNotLost ==
    \A s \in SessionID : Open(s) =>
        /\ Healthy(hist[s].ini) =>
              \/ Queued(hist[s].ini, SessionAckMsg(s, sessions[s].target))
              \/ Due(hist[s].ini, SessionAckMsg(s, sessions[s].target))
        /\ Healthy(hist[s].tgt) =>
              \/ Queued(hist[s].tgt, SessionAckMsg(s, sessions[s].initiator))
              \/ Due(hist[s].tgt, SessionAckMsg(s, sessions[s].initiator))

\* hub.go CloseSession and Unregister: when one member's handler ended a session the
\* other member has its peer.gone received, queued or about to be queued, unless its
\* connection lost messages and is being closed.
GoneNotLost ==
    \A s \in SessionID : (hist[s] # NoSession /\ ~Open(s)) =>
        \A c \in {hist[s].ini, hist[s].tgt} \ {hist[s].by} :
            Healthy(c) => Queued(c, PeerGoneMsg(s)) \/ Due(c, PeerGoneMsg(s))

\* hub.go CloseSession against Unregister: a bye racing a disconnect must not report
\* the end of a session twice.
GoneOnce ==
    \A s \in SessionID, c \in Conn :
        /\ \A j, k \in DOMAIN Stream(c) :
              Stream(c)[j] = PeerGoneMsg(s) /\ Stream(c)[k] = PeerGoneMsg(s) => j = k
        /\ ~(Queued(c, PeerGoneMsg(s)) /\ Due(c, PeerGoneMsg(s)))

\* hub.go OtherPeer: what concerns a session reaches only the two connections it was
\* opened between, and what is forwarded comes from the other one.
RoutedWithinSession ==
    \A c \in Conn : \A k \in DOMAIN Stream(c) :
        LET m == Stream(c)[k]
            h == hist[m.sid]
        IN  m.sid # NoSid =>
                /\ h # NoSession
                /\ c \in {h.ini, h.tgt}
                /\ m.kind \in {"peer.sdp", "peer.ice"} =>
                      \/ c = h.tgt /\ m.peer = id[h.ini]
                      \/ c = h.ini /\ m.peer = id[h.tgt]

\* In c's stream, the first message of the session s is its session.ack, not counting
\* the kinds in "except".
AckLeads(c, s, except) ==
    \A k \in DOMAIN Stream(c) :
        Stream(c)[k].sid = s /\ Stream(c)[k].kind \notin except =>
            \E j \in 1 .. k : Stream(c)[j].sid = s /\ Stream(c)[j].kind = "session.ack"

\* peer.go dispatch: clients drop an SDP that comes before its session.ack, so on
\* both sides the ack is queued before anything the counterparty sends, although the
\* acks are sent outside the hub's lock; on the target's side it also precedes
\* peer.gone.  On the initiator's it need not: a target that leaves right after
\* OpenSession has its peer.gone queued before the initiator's ack.
AckFirst ==
    \A s \in Minted :
        /\ Healthy(hist[s].ini) => AckLeads(hist[s].ini, s, {"peer.gone"})
        /\ Healthy(hist[s].tgt) => AckLeads(hist[s].tgt, s, {})

-----------------------------------------------------------------------------
\* The server seen as a rendezvous: who holds an id and who is paired with whom.
R == INSTANCE Rendezvous WITH
        online  <- {i \in PeerID : peers[i] # NoConn},
        pairing <- sessions,
        used    <- Minted

\* hub.go and peer.go: the server with all its goroutines implements Rendezvous:
\* sessions only ever pair two peers that are online, and a peer that goes offline
\* takes its sessions along in one step.
ImplementsRendezvous == R!RSpec

-----------------------------------------------------------------------------
\* peer.go writeLoop: a client that fell silent is found out by the ping and leaves
\* the registry, with its sessions, so that its id can connect again.
SilentPeerLeaves ==
    \A c \in Conn : (link[c] = "lost") ~> ~Registered(c)

\* peer.go Send and run: a connection whose queue overflowed (or whose write failed)
\* is taken down completely: both loops end, it is unregistered, its notices are out.
ClosedPeerEnds ==
    \A c \in Conn : closeCh[c] ~> (phase[c] = "done")

\* peer.go readLoop and writeLoop: a frame that was read is answered or forwarded and
\* the loop reads on; no Send blocks it, whatever its recipient does.
FrameHandled ==
    \A c \in Conn : (reader[c] = "dispatch") ~> (reader[c] \in {"read", "done"})

\* peer.go dispatch to writeLoop: the members of a session each receive its ack, or
\* the session ends.
SessionAnnounced ==
    \A s \in SessionID :
        Open(s) ~> \/ ~Open(s)
                   \/ \A c \in {hist[s].ini, hist[s].tgt} :
                         \E k \in DOMAIN recv[c] :
                             recv[c][k].sid = s /\ recv[c][k].kind = "session.ack"
=============================================================================
