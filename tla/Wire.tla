-------------------------------- MODULE Wire --------------------------------
(***************************************************************************)
(* The vocabulary of the signaling WebSocket (internal/signal/messages.go):*)
(* what a client sends to the hub ("frames") and what the hub sends to a   *)
(* client ("messages").  Payloads (SDP text, ICE candidates, reasons, the  *)
(* ICE server list) are forwarded verbatim by the code and are left out;   *)
(* kinds, session ids and peer ids are kept.                               *)
(***************************************************************************)
CONSTANTS
    PeerID,     \* JWT subjects, which double as peer ids
    SessionID,  \* the session ids uuid.NewString can return
    NoPeer,     \* an absent peer field
    NoSid       \* an absent session field, or one naming no session ever opened

ASSUME WireAssumption == NoPeer \notin PeerID /\ NoSid \notin SessionID

\* Server -> client kinds.
MsgKind == {"hello.ok", "session.ack", "peer.sdp", "peer.ice", "peer.gone", "pong", "err"}

\* A message carries the session it is about and the peer it tells of: the
\* "peer" field of a session.ack; for peer.sdp and peer.ice (whose wire form has
\* no such field) the peer whose frame was forwarded.
Msg == [kind : MsgKind, sid : SessionID \cup {NoSid}, peer : PeerID \cup {NoPeer}]

HelloOKMsg(i)        == [kind |-> "hello.ok", sid |-> NoSid, peer |-> i]
SessionAckMsg(s, i)  == [kind |-> "session.ack", sid |-> s, peer |-> i]
PeerGoneMsg(s)       == [kind |-> "peer.gone", sid |-> s, peer |-> NoPeer]
PongMsg              == [kind |-> "pong", sid |-> NoSid, peer |-> NoPeer]
ErrMsg               == [kind |-> "err", sid |-> NoSid, peer |-> NoPeer]

\* PeerSDPMsg and PeerICEMsg: the forwarded form of an "sdp" or "ice" frame of i.
ForwardedMsg(k, s, i) ==
    [kind |-> IF k = "sdp" THEN "peer.sdp" ELSE "peer.ice", sid |-> s, peer |-> i]

\* Client -> server kinds, and the frames the dispatcher answers with an error:
\* JSON that is not an envelope, a known kind whose fields do not decode, a kind
\* it does not know, and a second hello.
SessionKind == {"sdp", "ice", "bye"}
BadKind     == {"bad_json", "malformed", "unknown", "hello"}
FrameKind   == {"session.req", "ping"} \cup SessionKind \cup BadKind

Frame == [kind : FrameKind, sid : SessionID \cup {NoSid}, peer : PeerID \cup {NoPeer}]
=============================================================================
