---------------------------- MODULE SystemProofs ----------------------------
(***************************************************************************)
(* Proofs about System, for any number of connections, sessions, starts,   *)
(* candidates and faults: no description or candidate of one session is    *)
(* applied to the PeerConnection of another.                               *)
(*                                                                         *)
(* The two clients are safe for different reasons.  A connection of the    *)
(* pilot asks for one session only, so everything that reaches the pilot   *)
(* through it is about that one (PilotOne, for which Tokens counts the     *)
(* request).  The relay sees session after session on one connection, and  *)
(* is safe because the server writes the ack of a session before anything  *)
(* that is forwarded in it, and opens the next one only when the pilot of  *)
(* the one before is gone (DroneOrder).                                    *)
(***************************************************************************)
EXTENDS System, SequenceTheorems, FiniteSetTheorems, TLAPS

Sids == SessionID \cup {NoSid}

\* What may concern a session while it lasts; what is forwarded in it.
FwdKind == {"peer.sdp", "peer.ice"}
SesKind == {"session.ack"} \cup FwdKind

Client  == [at : {"off", "out", "in"}, conn : Conn \cup {NoConn}, sid : Sids, pc : Sids,
            live : SUBSET Sids, applied : SUBSET (Sids \X Sids)]
Send    == [to : Conn, msg : Msg]
Handler == [at : {"hello", "run", "over"}, id : PeerID \cup {NoPeer}, due : Seq(Send)]

TypeOK ==
    /\ peers    \in [PeerID -> Conn \cup {NoConn}]
    /\ sessions \in [SessionID -> Session \cup {NoSession}]
    /\ prog     \in DroneProg
    /\ cl       \in [PeerID -> Client]
    /\ srv      \in [Conn -> Handler]
    /\ up       \in [Conn -> Seq(Frame)]
    /\ down     \in [Conn -> Seq(Msg)]
    /\ faults   \in Nat

\* A client holds a connection while it is in its loop, and a PeerConnection at most
\* then.
ClientsPlaced ==
    /\ \A i \in PeerID : /\ cl[i].at = "in" <=> cl[i].conn # NoConn
                         /\ cl[i].at # "in" => cl[i].pc = NoSid
    /\ cl[Pilot].at # "in" => cl[Pilot].live = {}
    /\ cl[Pilot].conn = cl[Drone].conn => cl[Pilot].conn = NoConn

\* The two ends of a connection agree whose it is, and nothing is under way to an end
\* that is not there.
EndsAgree ==
    \A c \in Conn :
        /\ srv[c].at = "over" <=> srv[c].id = NoPeer
        /\ \A i \in PeerID : cl[i].conn = c /\ srv[c].at # "over" => srv[c].id = i
        /\ down[c] # <<>> => \E i \in PeerID : cl[i].conn = c
        /\ up[c] # <<>> => srv[c].at # "over"

\* The registry holds the connections that are past their hello.
Registered ==
    /\ \A i \in PeerID : peers[i] # NoConn => srv[peers[i]].at = "run" /\ srv[peers[i]].id = i
    /\ \A c \in Conn : srv[c].at = "run" => peers[srv[c].id] = c

\* What a handler still has to send: its greeting, the acks of a session the pilot
\* asked for, or one forwarded message; after its end, notices.  What is forwarded to
\* the drone comes from the pilot.
DueShape ==
    \A c \in Conn :
        /\ srv[c].at = "hello" => srv[c].due = <<>>
        /\ \A k \in DOMAIN srv[c].due :
              LET n == srv[c].due[k]
              IN  /\ srv[c].at = "over" <=> n.msg.kind = "peer.gone"
                  /\ n.msg.kind \in SesKind \cup {"hello.ok", "peer.gone"}
                  /\ n.msg.kind \in FwdKind \cup {"hello.ok"} => Len(srv[c].due) = 1
                  /\ n.msg.kind = "hello.ok" => n.to = c
                  /\ n.msg.kind = "session.ack" => srv[c].id = Pilot
                  /\ n.msg.kind \in SesKind /\ n.to = cl[Drone].conn => srv[c].id = Pilot

\* Only the pilot asks for sessions, and only with the drone.
ReqsOfPilot ==
    \A c \in Conn : \A k \in DOMAIN up[c] :
        up[c][k].kind = "session.req" => srv[c].id = Pilot /\ up[c][k].peer = Drone

\* An open session is one between the two, and both are registered.
SessionsOfBoth ==
    \A s \in SessionID : Open(s) =>
        /\ sessions[s] = [initiator |-> Pilot, target |-> Drone]
        /\ peers[Pilot] # NoConn /\ peers[Drone] # NoConn

\* A connection of the pilot, and the sessions it can still hear of.
PilotEnd(c) == cl[Pilot].conn = c \/ srv[c].id = Pilot

About(c, s) ==
    \/ \E k \in DOMAIN down[c] : down[c][k].kind \in SesKind /\ down[c][k].sid = s
    \/ \E d \in Conn : \E k \in DOMAIN srv[d].due :
          /\ srv[d].due[k].to = c \/ d = c
          /\ srv[d].due[k].msg.kind \in SesKind /\ srv[d].due[k].msg.sid = s
    \/ Open(s) /\ peers[Pilot] = c
    \/ cl[Pilot].conn = c /\ cl[Pilot].pc = s /\ s # NoSid

PilotOne ==
    \A c \in Conn : PilotEnd(c) => \A s, t \in Sids : About(c, s) /\ About(c, t) => s = t

\* No session was asked for on the connection c so far.
Blank(c) ==
    /\ \A s \in Sids : ~About(c, s)
    /\ \A d \in Conn : \A k \in DOMAIN srv[d].due :
          srv[d].due[k].to = c => srv[d].due[k].msg.kind = "hello.ok"
    /\ cl[Pilot].conn = c => cl[Pilot].live = {}

\* The one request of a connection of the pilot: its hello, its greeting on the way,
\* or the frame itself.
HelloDue(c)  == \E k \in DOMAIN srv[c].due : srv[c].due[k].msg.kind = "hello.ok"
HelloSent(c) == \E k \in DOMAIN down[c] : down[c][k].kind = "hello.ok"
ReqSent(c)   == \E k \in DOMAIN up[c] : up[c][k].kind = "session.req"

Tokens ==
    \A c \in Conn : PilotEnd(c) =>
        /\ srv[c].at = "hello" \/ HelloDue(c) => Blank(c) /\ down[c] = <<>> /\ up[c] = <<>>
        /\ HelloSent(c) => Blank(c) /\ Len(down[c]) = 1 /\ up[c] = <<>>
        /\ ReqSent(c) => Blank(c) /\ Len(up[c]) = 1 /\ down[c] = <<>>

\* When the messages of q before the k-th have been handled by a client that has the
\* PeerConnection p, it has that of session s or none.
IsAck(m) == m.kind = "session.ack"
After(q, p, k, s) ==
    \/ \E j \in DOMAIN q :
          /\ j < k /\ IsAck(q[j]) /\ q[j].sid = s
          /\ \A m \in DOMAIN q : j < m /\ m < k => ~IsAck(q[m])
    \/ p \in {NoSid, s} /\ \A j \in DOMAIN q : j < k => ~IsAck(q[j])

\* Does what is under way to the drone put it into session s?
Ready(c, s) == After(down[c], cl[Drone].pc, Len(down[c]) + 1, s)

AckDue(d, c, s) ==
    \E k \in DOMAIN srv[d].due :
        srv[d].due[k].to = c /\ IsAck(srv[d].due[k].msg) /\ srv[d].due[k].msg.sid = s

\* The test peer keeps an old PeerConnection when it fails to make a new one.
Counts == IsRelay(Drone) \/ faults = 0

DroneOrder ==
    Counts => \A c \in Conn : cl[Drone].conn = c =>
        /\ \A k \in DOMAIN down[c] :
              down[c][k].kind \in FwdKind => After(down[c], cl[Drone].pc, k, down[c][k].sid)
        /\ \A d \in Conn : \A k \in DOMAIN srv[d].due :
              srv[d].due[k].to = c /\ srv[d].due[k].msg.kind \in FwdKind
                  => Ready(c, srv[d].due[k].msg.sid)
        /\ \A s \in SessionID : Open(s) /\ peers[Drone] = c =>
              Ready(c, s) \/ AckDue(peers[Pilot], c, s)

SysInv ==
    /\ TypeOK
    /\ ClientsPlaced /\ EndsAgree /\ Registered
    /\ DueShape /\ ReqsOfPilot /\ SessionsOfBoth
    /\ PilotOne /\ Tokens
    /\ DroneOrder
    /\ NoMixedSessions

-----------------------------------------------------------------------------
(***************************************************************************)
(* Sequences.                                                              *)
(***************************************************************************)
\* A message added at the end.
LEMMA AppendFacts ==
    ASSUME NEW T, NEW q \in Seq(T), NEW m \in T
    PROVE  /\ Append(q, m) \in Seq(T) /\ Len(Append(q, m)) = Len(q) + 1
           /\ DOMAIN Append(q, m) = DOMAIN q \cup {Len(q) + 1}
           /\ DOMAIN q = 1 .. Len(q) /\ Len(q) \in Nat
           /\ \A k \in DOMAIN q : Append(q, m)[k] = q[k]
           /\ Append(q, m)[Len(q) + 1] = m
OBVIOUS

\* The first message taken.
LEMMA TailFacts ==
    ASSUME NEW T, NEW q \in Seq(T), q # <<>>
    PROVE  /\ Tail(q) \in Seq(T) /\ Len(Tail(q)) = Len(q) - 1
           /\ DOMAIN q = 1 .. Len(q) /\ DOMAIN Tail(q) = 1 .. (Len(q) - 1) /\ Len(q) \in Nat \ {0}
           /\ \A k \in DOMAIN Tail(q) : k + 1 \in DOMAIN q /\ Tail(q)[k] = q[k + 1]
           /\ Head(q) = q[1] /\ Head(q) \in T /\ 1 \in DOMAIN q
OBVIOUS

-----------------------------------------------------------------------------
(***************************************************************************)
(* After.                                                                  *)
(***************************************************************************)
\* A message further back does not matter.
LEMMA AfterAppend ==
    ASSUME NEW q \in Seq(Msg), NEW m \in Msg, NEW p, NEW s,
           NEW k \in 1 .. Len(q) + 1, After(q, p, k, s)
    PROVE  After(Append(q, m), p, k, s)
<1>1. PICK r : r = Append(q, m)
  OBVIOUS
<1>2. /\ Len(q) \in Nat /\ DOMAIN q = 1 .. Len(q) /\ DOMAIN r = 1 .. Len(q) + 1
      /\ \A j \in DOMAIN q : r[j] = q[j]
  BY <1>1, AppendFacts
<1>3. \A j \in DOMAIN r : j < k => j \in DOMAIN q /\ r[j] = q[j]
  BY <1>2
<1>4. CASE \E j \in DOMAIN q : /\ j < k /\ IsAck(q[j]) /\ q[j].sid = s
                              /\ \A n \in DOMAIN q : j < n /\ n < k => ~IsAck(q[n])
  BY <1>1, <1>2, <1>3, <1>4 DEF After
<1>5. CASE p \in {NoSid, s} /\ \A j \in DOMAIN q : j < k => ~IsAck(q[j])
  BY <1>1, <1>3, <1>5 DEF After
<1> QED
  BY <1>4, <1>5 DEF After

\* An ack at the end decides.
LEMMA AfterAck ==
    ASSUME NEW q \in Seq(Msg), NEW m \in Msg, NEW p, IsAck(m)
    PROVE  After(Append(q, m), p, Len(Append(q, m)) + 1, m.sid)
<1>1. PICK r : r = Append(q, m)
  OBVIOUS
<1>2. Len(q) \in Nat /\ DOMAIN r = 1 .. Len(q) + 1 /\ r[Len(q) + 1] = m /\ Len(r) = Len(q) + 1
  BY <1>1, AppendFacts
<1>3. Len(q) + 1 \in DOMAIN r /\ Len(q) + 1 < Len(r) + 1
      /\ \A n \in DOMAIN r : ~(Len(q) + 1 < n /\ n < Len(r) + 1)
  BY <1>2
<1> QED
  BY <1>1, <1>2, <1>3 DEF After

\* Anything else at the end leaves the session.
LEMMA AfterOther ==
    ASSUME NEW q \in Seq(Msg), NEW m \in Msg, NEW p, NEW s, ~IsAck(m),
           After(q, p, Len(q) + 1, s)
    PROVE  After(Append(q, m), p, Len(Append(q, m)) + 1, s)
<1>1. PICK r : r = Append(q, m)
  OBVIOUS
<1>2. /\ Len(q) \in Nat /\ DOMAIN q = 1 .. Len(q) /\ DOMAIN r = 1 .. Len(q) + 1
      /\ Len(r) = Len(q) + 1
      /\ r[Len(q) + 1] = m /\ \A j \in DOMAIN q : r[j] = q[j]
  BY <1>1, AppendFacts
<1>3. \A j \in DOMAIN r : \/ j \in DOMAIN q /\ r[j] = q[j] /\ j < Len(q) + 1
                          \/ j = Len(q) + 1 /\ ~IsAck(r[j])
  BY <1>2
<1>4. \A j \in DOMAIN q : j \in DOMAIN r /\ r[j] = q[j] /\ j < Len(r) + 1
  BY <1>2
<1>5. CASE \E j \in DOMAIN q : /\ IsAck(q[j]) /\ q[j].sid = s
                              /\ \A n \in DOMAIN q : j < n /\ n < Len(q) + 1 => ~IsAck(q[n])
  <2>1. PICK j \in DOMAIN q : /\ IsAck(q[j]) /\ q[j].sid = s
                              /\ \A n \in DOMAIN q : j < n /\ n < Len(q) + 1 => ~IsAck(q[n])
    BY <1>5
  <2>2. \A n \in DOMAIN r : j < n => ~IsAck(r[n])
    BY <1>3, <2>1
  <2> QED
    BY <1>1, <1>4, <2>1, <2>2 DEF After
<1>6. CASE p \in {NoSid, s} /\ \A j \in DOMAIN q : j < Len(q) + 1 => ~IsAck(q[j])
  BY <1>1, <1>3, <1>6 DEF After
<1> QED
  BY <1>5, <1>6 DEF After

\* The first message is handled: an ack gives the client its session's PeerConnection or
\* none, others leave it or take it away.
LEMMA AfterTail ==
    ASSUME NEW q \in Seq(Msg), q # <<>>, NEW p, NEW p1, NEW s,
           NEW k \in Nat, k > 1, After(q, p, k, s),
           p1 \in {NoSid, IF IsAck(Head(q)) THEN Head(q).sid ELSE p}
    PROVE  After(Tail(q), p1, k - 1, s)
<1>1. PICK r : r = Tail(q)
  OBVIOUS
<1>2. /\ Len(q) \in Nat \ {0} /\ DOMAIN q = 1 .. Len(q) /\ DOMAIN r = 1 .. (Len(q) - 1)
      /\ \A j \in DOMAIN r : r[j] = q[j + 1]
      /\ Head(q) = q[1] /\ 1 \in DOMAIN q
  BY <1>1, TailFacts
<1>3. \A j \in DOMAIN r : j \in Nat /\ j + 1 \in DOMAIN q /\ r[j] = q[j + 1] /\ (j < k - 1 <=> j + 1 < k)
  BY <1>2
<1>4. CASE \E j \in DOMAIN q : /\ j < k /\ IsAck(q[j]) /\ q[j].sid = s
                              /\ \A n \in DOMAIN q : j < n /\ n < k => ~IsAck(q[n])
  <2>1. PICK j \in DOMAIN q : /\ j < k /\ IsAck(q[j]) /\ q[j].sid = s
                              /\ \A n \in DOMAIN q : j < n /\ n < k => ~IsAck(q[n])
    BY <1>4
  <2>2. CASE j = 1
    <3>1. \A n \in DOMAIN r : n < k - 1 => ~IsAck(r[n])
      BY <1>2, <1>3, <2>1, <2>2
    <3>2. p1 \in {NoSid, s}
      BY <1>2, <2>1, <2>2
    <3> QED
      BY <1>1, <3>1, <3>2 DEF After
  <2>3. CASE j # 1
    <3>1. j - 1 \in DOMAIN r /\ r[j - 1] = q[j] /\ j - 1 < k - 1
      BY <1>2, <2>1, <2>3
    <3>2. \A n \in DOMAIN r : j - 1 < n /\ n < k - 1 => ~IsAck(r[n])
      BY <1>2, <1>3, <2>1
    <3> QED
      BY <1>1, <2>1, <3>1, <3>2 DEF After
  <2> QED
    BY <2>2, <2>3
<1>5. CASE p \in {NoSid, s} /\ \A j \in DOMAIN q : j < k => ~IsAck(q[j])
  <2>1. p1 \in {NoSid, s}
    BY <1>2, <1>5
  <2>2. \A n \in DOMAIN r : n < k - 1 => ~IsAck(r[n])
    BY <1>3, <1>5
  <2> QED
    BY <1>1, <2>1, <2>2 DEF After
<1> QED
  BY <1>4, <1>5 DEF After

-----------------------------------------------------------------------------
(***************************************************************************)
(* What a client does with a message.                                      *)
(***************************************************************************)
\* Client i, which has taken m, goes on as new and writes the frames out.
RecvEffect(i, m, new, out) ==
    /\ new \in Client /\ new.at = "in" /\ new.conn = cl[i].conn
    /\ out \in Seq(Frame) /\ Len(out) <= 1
    /\ \A k \in DOMAIN out :
          out[k].kind = "session.req" => m.kind = "hello.ok" /\ i = Pilot /\ out[k].peer = Drone
    /\ m.kind = "hello.ok" => new = cl[i]
    /\ IsAck(m) => \/ new.pc = m.sid
                   \/ new.pc = NoSid /\ i = Drone
                   \/ new.pc = cl[i].pc /\ (i = Pilot \/ ~Counts')
    /\ ~IsAck(m) => new.pc \in {cl[i].pc, NoSid}
    /\ \/ new.applied = cl[i].applied
       \/ /\ m.kind \in FwdKind /\ cl[i].pc # NoSid
          /\ new.applied = cl[i].applied \cup {<<cl[i].pc, m.sid>>}

Received(i, new, out) ==
    /\ cl' = [cl EXCEPT ![i] = new]
    /\ down' = [down EXCEPT ![cl[i].conn] = Tail(@)]
    /\ up' = ToServer(cl[i].conn, out)
    /\ UNCHANGED <<prog, srv, peers, sessions>>

\* The fields of a client with changed "applied".
LEMMA SetApplied ==
    ASSUME NEW r \in Client, NEW A \in SUBSET (Sids \X Sids)
    PROVE  LET x == [r EXCEPT !.applied = A]
           IN  x \in Client /\ x.at = r.at /\ x.conn = r.conn /\ x.pc = r.pc /\ x.applied = A
BY DEF Client

\* The frames a client writes, none or one.
LEMMA OneFrame ==
    ASSUME NEW s \in Sids, NEW f, f = SessionFrame("sdp", s) \/ f = SessionFrame("ice", s)
    PROVE  /\ f \in Frame /\ f.kind # "session.req"
           /\ <<f>> \in Seq(Frame) /\ Len(<<f>>) = 1 /\ DOMAIN <<f>> = {1} /\ <<f>>[1] = f
<1>1. f \in Frame /\ f.kind # "session.req"
  BY DEF SessionFrame, Frame, FrameKind, SessionKind, Sids
<1> QED
  BY <1>1

LEMMA ReqFrame ==
    /\ <<SessionReqFrame>> \in Seq(Frame) /\ Len(<<SessionReqFrame>>) = 1
    /\ DOMAIN <<SessionReqFrame>> = {1} /\ <<SessionReqFrame>>[1].peer = Drone
<1>1. PICK f : f = SessionReqFrame
  OBVIOUS
<1>2. f \in Frame /\ f.peer = Drone
  BY <1>1, SystemAssumption DEF SessionReqFrame, Frame, FrameKind, Sids
<1>3. <<f>> \in Seq(Frame) /\ Len(<<f>>) = 1 /\ DOMAIN <<f>> = {1} /\ <<f>>[1] = f
  BY <1>2
<1> QED
  BY <1>1, <1>2, <1>3

LEMMA NoFrame == <<>> \in Seq(Frame) /\ Len(<<>>) = 0 /\ DOMAIN <<>> = {}
OBVIOUS

\* Every handler of a message is of this form.
LEMMA RecvDoes ==
    ASSUME TypeOK, ClientsPlaced, NEW i \in PeerID, Recv(i)
    PROVE  /\ cl[i].conn \in Conn /\ down[cl[i].conn] # <<>> /\ cl[i].at = "in"
           /\ faults' \in Nat /\ (faults' = 0 => faults = 0)
           /\ \E new, out : /\ RecvEffect(i, Head(down[cl[i].conn]), new, out)
                            /\ Received(i, new, out)
<1> DEFINE c == cl[i].conn
           m == Head(down[c])
<1>1. faults \in Nat /\ faults' \in Nat /\ (faults' = 0 => faults = 0) /\ UNCHANGED prog
  BY DEF Recv, RecvHelloOK, RecvSessionAck, RecvSessionAckFails, RecvPeerSDP, RecvPeerICE,
         RecvPeerGone, Fault, NoFault, Handle, TypeOK
<1>2. cl[i].at = "in" /\ down[c] # <<>>
  BY DEF Recv, RecvHelloOK, RecvSessionAck, RecvSessionAckFails, RecvPeerSDP, RecvPeerICE,
         RecvPeerGone, NextIs
<1>3. cl[i] \in Client /\ c \in Conn
  BY <1>2 DEF TypeOK, Client, ClientsPlaced
<1>4. m \in Msg /\ m.sid \in Sids
  <2>1. down[c] \in Seq(Msg)
    BY <1>3 DEF TypeOK
  <2>2. m \in Msg
    BY <1>2, <2>1
  <2> QED
    BY <2>2 DEF Msg, Sids
<1>5. PICK r \in Client : r = cl[i]
  BY <1>3
<1>6. r.sid \in Sids /\ r.pc \in Sids /\ r.live \in SUBSET Sids /\ r.applied \in SUBSET (Sids \X Sids)
      /\ NoSid \in Sids /\ r.at = "in" /\ r.conn = c
  BY <1>2, <1>5 DEF Client, Sids
<1>7. ASSUME NEW new, NEW out, Handle(i, new, out) PROVE Received(i, new, out)
  BY <1>7 DEF Handle, Received, hubVars
<1> HIDE DEF c, m
<1> SUFFICES \E new, out : RecvEffect(i, m, new, out) /\ Handle(i, new, out)
  BY <1>1, <1>2, <1>3, <1>7 DEF c, m
<1>8. NextSid(i) = m.sid /\ \A k : NextIs(i, k) => m.kind = k
  BY DEF NextSid, NextIs, c, m
<1>9. CASE RecvHelloOK(i)
  <2>1. PICK out : /\ out = IF i = Pilot THEN <<SessionReqFrame>> ELSE <<>>
                   /\ Handle(i, r, out)
    BY <1>5, <1>9 DEF RecvHelloOK
  <2>2. /\ out \in Seq(Frame) /\ Len(out) <= 1
        /\ \A k \in DOMAIN out : out[k].kind = "session.req" => i = Pilot /\ out[k].peer = Drone
    BY <2>1, ReqFrame, NoFrame
  <2>3. m.kind = "hello.ok"
    BY <1>8, <1>9 DEF RecvHelloOK
  <2>4. RecvEffect(i, m, r, out)
    BY <1>5, <1>6, <2>2, <2>3 DEF RecvEffect, IsAck
  <2> QED
    BY <2>1, <2>4
<1>10. CASE RecvSessionAck(i)
  <2> DEFINE new == [r EXCEPT !.sid = m.sid, !.pc = m.sid, !.live = Kept(i) \cup {m.sid}]
  <2>1. Kept(i) \cup {m.sid} \in SUBSET Sids
    BY <1>4, <1>5, <1>6 DEF Kept
  <2>2. /\ new \in Client /\ new.at = "in" /\ new.conn = c /\ new.pc = m.sid
        /\ new.applied = r.applied
    <3>1. PICK L \in SUBSET Sids : L = Kept(i) \cup {m.sid}
      BY <2>1
    <3>2. new = [r EXCEPT !.sid = m.sid, !.pc = m.sid, !.live = L]
      BY <3>1
    <3> HIDE DEF new
    <3> QED
      BY <1>4, <1>6, <3>2 DEF Client
  <2>3. new = [cl[i] EXCEPT !.sid = NextSid(i), !.pc = NextSid(i), !.live = Kept(i) \cup {NextSid(i)}]
    BY <1>5, <1>8
  <2> HIDE DEF new
  <2>4. PICK out \in {<<>>, <<SessionFrame("sdp", m.sid)>>} : Handle(i, new, out)
    BY <1>8, <1>10, <2>3 DEF RecvSessionAck
  <2>5. /\ out \in Seq(Frame) /\ Len(out) <= 1
        /\ \A k \in DOMAIN out : out[k].kind # "session.req"
    <3>1. PICK f : f = SessionFrame("sdp", m.sid)
      OBVIOUS
    <3>2. f \in Frame /\ f.kind # "session.req"
          /\ <<f>> \in Seq(Frame) /\ Len(<<f>>) = 1 /\ DOMAIN <<f>> = {1} /\ <<f>>[1] = f
      BY <1>4, <3>1, OneFrame
    <3>3. CASE out = <<>>
      BY <3>3, NoFrame
    <3>4. CASE out = <<f>>
      BY <3>2, <3>4
    <3> QED
      BY <2>4, <3>1, <3>3, <3>4
  <2>6. m.kind = "session.ack"
    BY <1>8, <1>10 DEF RecvSessionAck
  <2>7. RecvEffect(i, m, new, out)
    BY <1>5, <1>6, <2>2, <2>5, <2>6 DEF RecvEffect, IsAck
  <2> QED
    BY <2>4, <2>7
<1>11. CASE RecvSessionAckFails(i)
  <2> DEFINE p == IF IsRelay(i) THEN NoSid ELSE r.pc
             new == [r EXCEPT !.sid = m.sid, !.pc = p, !.live = Kept(i)]
  <2>1. Kept(i) \in SUBSET Sids /\ p \in Sids
    BY <1>5, <1>6 DEF Kept
  <2>2. /\ new \in Client /\ new.at = "in" /\ new.conn = c /\ new.pc = p
        /\ new.applied = r.applied
    <3>1. PICK L \in SUBSET Sids, x \in Sids : L = Kept(i) /\ x = p
      BY <2>1
    <3>2. new = [r EXCEPT !.sid = m.sid, !.pc = x, !.live = L]
      BY <3>1
    <3> HIDE DEF new, p
    <3> QED
      BY <1>4, <1>6, <3>1, <3>2 DEF Client
  <2>3. new = [cl[i] EXCEPT !.sid = NextSid(i), !.live = Kept(i), !.pc = IF IsRelay(i) THEN NoSid ELSE @]
    BY <1>5, <1>6, <1>8 DEF Client
  <2> HIDE DEF new
  <2>4. Handle(i, new, <<>>)
    BY <1>11, <2>3 DEF RecvSessionAckFails
  <2>5. <<>> \in Seq(Frame) /\ Len(<<>>) <= 1 /\ DOMAIN <<>> = {}
    OBVIOUS
  <2>6. m.kind = "session.ack"
    BY <1>8, <1>11 DEF RecvSessionAckFails
  <2>7. \/ p = NoSid /\ i = Drone
        \/ p = r.pc /\ (i = Pilot \/ ~Counts')
    <3>1. faults' # 0
      BY <1>1, <1>11 DEF RecvSessionAckFails, Fault
    <3>2. CASE IsRelay(i)
      BY <3>2 DEF IsRelay
    <3>3. CASE ~IsRelay(i)
      BY <1>1, <3>1, <3>3, SystemAssumption DEF IsRelay, Counts
    <3> QED
      BY <3>2, <3>3
  <2>8. RecvEffect(i, m, new, <<>>)
    BY <1>5, <1>6, <2>2, <2>5, <2>6, <2>7 DEF RecvEffect, IsAck
  <2> QED
    BY <2>4, <2>8
<1>12. CASE RecvPeerSDP(i) \/ RecvPeerICE(i)
  <2>1. m.kind \in FwdKind
    BY <1>8, <1>12 DEF RecvPeerSDP, RecvPeerICE, FwdKind
  <2>2. PICK out \in {<<>>, <<SessionFrame("sdp", r.sid)>>} : Handle(i, Applied(i), out)
    BY <1>5, <1>12 DEF RecvPeerSDP, RecvPeerICE
  <2>3. /\ out \in Seq(Frame) /\ Len(out) <= 1
        /\ \A k \in DOMAIN out : out[k].kind # "session.req"
    <3>1. PICK f : f = SessionFrame("sdp", r.sid)
      OBVIOUS
    <3>2. f \in Frame /\ f.kind # "session.req"
          /\ <<f>> \in Seq(Frame) /\ Len(<<f>>) = 1 /\ DOMAIN <<f>> = {1} /\ <<f>>[1] = f
      BY <1>6, <3>1, OneFrame
    <3>3. CASE out = <<>>
      BY <3>3, NoFrame
    <3>4. CASE out = <<f>>
      BY <3>2, <3>4
    <3> QED
      BY <2>2, <3>1, <3>3, <3>4
  <2>4. PICK new : new = Applied(i)
    OBVIOUS
  <2>5. /\ new \in Client /\ new.at = "in" /\ new.conn = c /\ new.pc = r.pc
        /\ \/ new.applied = r.applied
           \/ r.pc # NoSid /\ new.applied = r.applied \cup {<<r.pc, m.sid>>}
    <3>1. CASE r.pc = NoSid
      BY <1>5, <1>6, <2>4, <3>1 DEF Applied
    <3>2. CASE r.pc # NoSid
      <4> DEFINE A == r.applied \cup {<<r.pc, m.sid>>}
      <4>1. A \in SUBSET (Sids \X Sids)
        BY <1>4, <1>6
      <4>2. new = [r EXCEPT !.applied = A]
        BY <1>5, <1>8, <2>4, <3>2 DEF Applied
      <4> HIDE DEF A
      <4>3. /\ new \in Client /\ new.at = r.at /\ new.conn = r.conn /\ new.pc = r.pc
            /\ new.applied = A
        BY <4>1, <4>2, SetApplied
      <4> QED
        BY <1>6, <3>2, <4>3 DEF A
    <3> QED
      BY <3>1, <3>2
  <2>6. RecvEffect(i, m, new, out)
    BY <1>5, <1>6, <2>1, <2>3, <2>5 DEF RecvEffect, IsAck, FwdKind
  <2> QED
    BY <2>2, <2>4, <2>6
<1>13. CASE RecvPeerGone(i)
  <2> DEFINE new == [r EXCEPT !.pc = NoSid, !.live = @ \ {r.pc}]
  <2>1. r.live \ {r.pc} \in SUBSET Sids
    BY <1>6
  <2>2. new = [r EXCEPT !.pc = NoSid, !.live = r.live \ {r.pc}]
    BY DEF Client
  <2>3. new = [cl[i] EXCEPT !.pc = NoSid, !.live = @ \ {cl[i].pc}]
    BY <1>5
  <2> HIDE DEF new
  <2>4. /\ new \in Client /\ new.at = "in" /\ new.conn = c /\ new.pc = NoSid
        /\ new.applied = r.applied
    <3>1. PICK L \in SUBSET Sids, x \in Sids : L = r.live \ {r.pc} /\ x = NoSid
      BY <1>6, <2>1
    <3>2. new = [r EXCEPT !.pc = x, !.live = L]
      BY <2>2, <3>1
    <3> QED
      BY <1>6, <3>1, <3>2 DEF Client
  <2>5. Handle(i, new, <<>>)
    BY <1>13, <2>3 DEF RecvPeerGone
  <2>6. <<>> \in Seq(Frame) /\ Len(<<>>) <= 1 /\ DOMAIN <<>> = {}
    OBVIOUS
  <2>7. m.kind = "peer.gone"
    BY <1>8, <1>13 DEF RecvPeerGone
  <2>8. RecvEffect(i, m, new, <<>>)
    BY <1>5, <1>6, <2>4, <2>6, <2>7 DEF RecvEffect, IsAck
  <2> QED
    BY <2>5, <2>8
<1> QED
  BY <1>9, <1>10, <1>11, <1>12, <1>13 DEF Recv

-----------------------------------------------------------------------------
(***************************************************************************)
(* What a handler's end leaves to send.                                    *)
(***************************************************************************)
\* There is at most one open session.
LEMMA OneOpen ==
    ASSUME SysInv, NEW s \in SessionID, NEW t \in SessionID, Open(s), Open(t)
    PROVE  s = t
<1>1. PICK p : p = peers[Pilot]
  OBVIOUS
<1>2. p \in Conn /\ srv[p].id = Pilot
  BY <1>1, SystemAssumption DEF SysInv, SessionsOfBoth, Registered, TypeOK
<1>3. PilotEnd(p) /\ About(p, s) /\ About(p, t)
  BY <1>1, <1>2 DEF PilotEnd, About
<1> QED
  BY <1>2, <1>3 DEF SysInv, PilotOne, Sids

\* A set of at most one element as a sequence.
LEMMA SmallSetToSeq ==
    ASSUME NEW S, \A x, y \in S : x = y
    PROVE  SetToSeq(S) \in Seq(S) /\ Len(SetToSeq(S)) <= 1
<1>1. CASE S = {}
  <2>1. Cardinality(S) = 0
    BY <1>1, FS_EmptySet
  <2>2. <<>> \in [1 .. 0 -> S] /\ IsInjective(<<>>)
    BY DEF IsInjective
  <2>3. SetToSeq(S) \in [1 .. 0 -> S]
    BY <2>1, <2>2 DEF SetToSeq
  <2> QED
    BY <2>3
<1>2. CASE S # {}
  <2>1. PICK x : S = {x}
    BY <1>2
  <2>2. Cardinality(S) = 1
    BY <2>1, FS_Singleton
  <2>3. [k \in 1 .. 1 |-> x] \in [1 .. 1 -> S] /\ IsInjective([k \in 1 .. 1 |-> x])
    BY <2>1 DEF IsInjective
  <2>4. PICK f \in [1 .. 1 -> S] : f = SetToSeq(S)
    BY <2>2, <2>3 DEF SetToSeq
  <2>5. f \in Seq(S)
    BY SeqDef
  <2>6. DOMAIN f = 1 .. 1 /\ Len(f) \in Nat /\ DOMAIN f = 1 .. Len(f)
    BY <2>5, LenProperties
  <2>7. Len(f) <= 1
    BY <2>6
  <2> QED
    BY <2>4, <2>5, <2>7
<1> QED
  BY <1>1, <1>2

\* The notices of an ending handler: peer.gone of an open session, to one of the two.
LEMMA NoticesFacts ==
    ASSUME SysInv, NEW i \in PeerID
    PROVE  /\ NoticesDue(i) \in Seq(Send)
           /\ \A k \in DOMAIN NoticesDue(i) :
                 /\ NoticesDue(i)[k].msg.kind = "peer.gone"
                 /\ NoticesDue(i)[k].to \in {peers[Pilot], peers[Drone]}
                 /\ \E s \in SessionID : Open(s)
<1> DEFINE S == {[to |-> n.to, msg |-> PeerGoneMsg(n.sid)] : n \in Notices(i)}
<1>1. ASSUME NEW x \in S
      PROVE  /\ x \in Send /\ x.msg.kind = "peer.gone" /\ x.to \in {peers[Pilot], peers[Drone]}
             /\ \E s \in SessionID : Open(s) /\ x = [to |-> peers[OtherMember(s, i)], msg |-> PeerGoneMsg(s)]
  <2>1. PICK n \in Notices(i) : x = [to |-> n.to, msg |-> PeerGoneMsg(n.sid)]
    OBVIOUS
  <2>2. PICK s \in SessionID : /\ Open(s) /\ peers[OtherMember(s, i)] # NoConn
                               /\ n = [to |-> peers[OtherMember(s, i)], sid |-> s]
    BY DEF Notices
  <2>3. OtherMember(s, i) \in {Pilot, Drone}
    BY <2>2 DEF OtherMember, SysInv, SessionsOfBoth
  <2>4. PICK p : p = peers[OtherMember(s, i)]
    OBVIOUS
  <2>5. p \in Conn /\ p \in {peers[Pilot], peers[Drone]}
    BY <2>2, <2>3, <2>4, SystemAssumption DEF SysInv, TypeOK
  <2>6. PICK g \in Msg : g = PeerGoneMsg(s) /\ g.kind = "peer.gone"
    <3>1. PeerGoneMsg(s) \in Msg /\ PeerGoneMsg(s).kind = "peer.gone"
      BY DEF PeerGoneMsg, Msg, MsgKind
    <3> QED
      BY <3>1
  <2>7. x = [to |-> p, msg |-> g]
    BY <2>1, <2>2, <2>4, <2>6
  <2> QED
    BY <2>2, <2>4, <2>5, <2>6, <2>7 DEF Send
<1>2. \A x, y \in S : x = y
  BY <1>1, OneOpen
<1>3. NoticesDue(i) = SetToSeq(S)
  BY DEF NoticesDue
<1> HIDE DEF S
<1>4. PICK q : q = NoticesDue(i)
  OBVIOUS
<1>5. q \in Seq(S)
  BY <1>2, <1>3, <1>4, SmallSetToSeq
<1>6. \A k \in DOMAIN q : q[k] \in S
  BY <1>5
<1>7. q \in Seq(Send)
  BY <1>1, <1>5, <1>6
<1> QED
  BY <1>1, <1>4, <1>6, <1>7

-----------------------------------------------------------------------------
(***************************************************************************)
(* The initial states.                                                     *)
(***************************************************************************)
LEMMA InitSysInv == Init => SysInv
<1> SUFFICES ASSUME Init PROVE SysInv
  OBVIOUS
<1>1. /\ \A i \in PeerID : peers[i] = NoConn
      /\ \A s \in SessionID : ~Open(s)
      /\ \A c \in Conn : /\ srv[c] = [at |-> "over", id |-> NoPeer, due |-> <<>>]
                         /\ up[c] = <<>> /\ down[c] = <<>>
  BY DEF Init, NewHub, Open
<1>2. \A c \in Conn : /\ srv[c].at = "over" /\ srv[c].id = NoPeer /\ srv[c].due = <<>>
                      /\ DOMAIN srv[c].due = {} /\ DOMAIN up[c] = {} /\ DOMAIN down[c] = {}
  BY <1>1
<1>3. \A i \in PeerID : /\ cl[i] \in Client /\ cl[i].at \in {"off", "out"} /\ cl[i].conn = NoConn
                        /\ cl[i].pc = NoSid /\ cl[i].live = {} /\ cl[i].applied = {}
  <2>1. \A i \in PeerID : cl[i] = Exited(i) \/ cl[i] = [Exited(i) EXCEPT !.at = "out"]
    BY DEF Init
  <2> SUFFICES ASSUME NEW i \in PeerID, NEW x, x = cl[i]
               PROVE  /\ x \in Client /\ x.at \in {"off", "out"} /\ x.conn = NoConn
                      /\ x.pc = NoSid /\ x.live = {} /\ x.applied = {}
    OBVIOUS
  <2>2. CASE x = Exited(i)
    BY <2>2 DEF Exited, Client, Sids
  <2>3. CASE x = [Exited(i) EXCEPT !.at = "out"]
    BY <2>3 DEF Exited, Client, Sids
  <2> QED
    BY <2>1, <2>2, <2>3
<1>4. TypeOK
  <2>1. cl \in [PeerID -> Client]
    <3>1. DOMAIN cl = PeerID /\ cl = [i \in PeerID |-> cl[i]]
      BY DEF Init
    <3> QED
      BY <1>3, <3>1
  <2>2. srv \in [Conn -> Handler]
    BY DEF Init, Handler
  <2> QED
    BY <2>1, <2>2 DEF Init, NewHub, TypeOK
<1>5. ClientsPlaced /\ EndsAgree /\ Registered
  BY <1>1, <1>2, <1>3, SystemAssumption DEF ClientsPlaced, EndsAgree, Registered
<1>6. DueShape /\ ReqsOfPilot /\ SessionsOfBoth
  BY <1>1, <1>2 DEF DueShape, ReqsOfPilot, SessionsOfBoth
<1>7. \A c \in Conn : ~PilotEnd(c) /\ cl[Drone].conn # c
  BY <1>2, <1>3, SystemAssumption, WireAssumption, HubAssumption DEF PilotEnd
<1>8. PilotOne /\ Tokens /\ DroneOrder
  BY <1>7 DEF PilotOne, Tokens, DroneOrder
<1>9. NoMixedSessions
  BY <1>3 DEF NoMixedSessions
<1> QED
  BY <1>4, <1>5, <1>6, <1>8, <1>9 DEF SysInv

-----------------------------------------------------------------------------
(***************************************************************************)
(* The forms of a step.                                                    *)
(***************************************************************************)
\* Nothing the invariant speaks of changes; faults only grow.
Idle ==
    /\ UNCHANGED <<prog, cl, srv, up, down, peers, sessions>>
    /\ faults' \in Nat /\ (faults' = 0 => faults = 0)

FaultsGrow == faults' \in Nat /\ (faults' = 0 => faults = 0) /\ UNCHANGED prog

\* The handler of c is over, with due to send.
HandlerEnds(c, due) ==
    /\ srv[c].at # "over"
    /\ srv' = [srv EXCEPT ![c] = [at |-> "over", id |-> NoPeer, due |-> due]]
    /\ up' = Dropped(up, c)
    /\ due \in Seq(Send)
    /\ \A k \in DOMAIN due : /\ due[k].msg.kind = "peer.gone" /\ due[k].to \in {peers[Pilot], peers[Drone]}
                             /\ \E s \in SessionID : Open(s)
    /\ \/ srv[c].at = "hello" /\ UNCHANGED <<peers, sessions>>
       \/ /\ srv[c].at = "run" /\ srv[c].due = <<>>
          /\ peers' = [peers EXCEPT ![srv[c].id] = NoConn]
          /\ sessions' = [s \in SessionID |-> IF Open(s) /\ srv[c].id \in Members(s)
                                              THEN NoSession ELSE sessions[s]]
    /\ UNCHANGED <<cl, down>> /\ FaultsGrow

\* Client i, which has no connection or leaves it, goes on as new.
Leaves(i, new) ==
    /\ new \in Client /\ new.at # "in" /\ new.conn = NoConn /\ new.pc = NoSid
    /\ i = Pilot => new.live = {}
    /\ new.applied \subseteq cl[i].applied
    /\ cl' = [cl EXCEPT ![i] = new]
    /\ down' = [c \in Conn |-> IF c = cl[i].conn THEN <<>> ELSE down[c]]
    /\ UNCHANGED <<srv, up, peers, sessions>> /\ FaultsGrow

LEMMA HandlerEndsForm ==
    ASSUME SysInv, NEW c \in Conn, HelloRefused(c) \/ ConnEnds(c)
    PROVE  \E due : HandlerEnds(c, due)
<1>1. TypeOK
  BY DEF SysInv
<1>2. CASE HelloRefused(c)
  <2>1. FaultsGrow
    BY <1>1, <1>2 DEF HelloRefused, FaultsGrow, Fault, NoFault, TypeOK
  <2>2. <<>> \in Seq(Send) /\ DOMAIN <<>> = {}
    OBVIOUS
  <2> QED
    BY <1>2, <2>1, <2>2 DEF HelloRefused, Over, HandlerEnds, hubVars
<1>3. CASE ConnEnds(c)
  <2>1. FaultsGrow
    BY <1>1, <1>3 DEF ConnEnds, FaultsGrow, TypeOK
  <2>2. PICK i \in PeerID : i = srv[c].id
    <3>1. srv[c].at # "over" /\ srv[c] \in Handler
      BY <1>1, <1>3 DEF ConnEnds, CanEnd, TypeOK
    <3> QED
      BY <3>1 DEF SysInv, EndsAgree, Handler
  <2>3. PICK due : due = NoticesDue(i)
    OBVIOUS
  <2>4. /\ due \in Seq(Send)
        /\ \A k \in DOMAIN due : /\ due[k].msg.kind = "peer.gone"
                                 /\ due[k].to \in {peers[Pilot], peers[Drone]}
                                 /\ \E s \in SessionID : Open(s)
    BY <2>3, NoticesFacts
  <2>5. /\ peers' = [peers EXCEPT ![i] = NoConn]
        /\ sessions' = [s \in SessionID |-> IF Open(s) /\ i \in Members(s)
                                            THEN NoSession ELSE sessions[s]]
    BY <1>3, <2>2 DEF ConnEnds, Unregister, Delete
  <2>6. /\ srv' = [srv EXCEPT ![c] = [at |-> "over", id |-> NoPeer, due |-> due]]
        /\ up' = Dropped(up, c) /\ srv[c].at = "run" /\ srv[c].due = <<>>
        /\ UNCHANGED <<cl, down>>
    BY <1>3, <2>2, <2>3 DEF ConnEnds, CanEnd, Over
  <2> QED
    BY <2>1, <2>2, <2>4, <2>5, <2>6 DEF HandlerEnds
<1> QED
  BY <1>2, <1>3

LEMMA LeavesForm ==
    ASSUME SysInv, NEW i \in PeerID, UserStarts(i) \/ ConnectFails(i) \/ LoopEnds(i)
    PROVE  \E new : Leaves(i, new)
<1>1. PICK r \in Client : r = cl[i]
  BY DEF SysInv, TypeOK
<1>2. /\ r.at # "in" => r.conn = NoConn /\ r.pc = NoSid
      /\ r.at = "in" => r.conn \in Conn
      /\ i = Pilot /\ r.at # "in" => r.live = {}
  BY <1>1 DEF SysInv, ClientsPlaced, Client
<1>3. FaultsGrow
  BY DEF SysInv, TypeOK, UserStarts, ConnectFails, LoopEnds, FaultsGrow
<1>4. DOMAIN down = Conn /\ NoConn \notin Conn
  BY HubAssumption DEF SysInv, TypeOK
<1>5. CASE UserStarts(i)
  <2>1. PICK new : new = [r EXCEPT !.at = "out"]
    OBVIOUS
  <2>2. /\ new \in Client /\ new.at = "out" /\ new.conn = r.conn /\ new.pc = r.pc
        /\ new.live = r.live /\ new.applied = r.applied
    BY <2>1 DEF Client
  <2>3. r.at = "off" /\ cl' = [cl EXCEPT ![i] = new] /\ UNCHANGED <<srv, up, down, peers, sessions>>
    BY <1>1, <1>5, <2>1 DEF UserStarts, net, hubVars
  <2>4. down' = [c \in Conn |-> IF c = cl[i].conn THEN <<>> ELSE down[c]]
    BY <1>1, <1>2, <1>4, <2>3 DEF SysInv, TypeOK
  <2> QED
    BY <1>1, <1>2, <1>3, <2>2, <2>3, <2>4 DEF Leaves
<1>6. CASE ConnectFails(i)
  <2>1. PICK new : new = Exited(i)
    OBVIOUS
  <2>2. /\ new \in Client /\ new.at = "off" /\ new.conn = NoConn /\ new.pc = NoSid
        /\ new.live = {} /\ new.applied = {}
    BY <2>1 DEF Exited, Client, Sids
  <2>3. r.at = "out" /\ cl' = [cl EXCEPT ![i] = new] /\ UNCHANGED <<srv, up, down, peers, sessions>>
    BY <1>1, <1>6, <2>1 DEF ConnectFails, net, hubVars
  <2>4. down' = [c \in Conn |-> IF c = cl[i].conn THEN <<>> ELSE down[c]]
    BY <1>1, <1>2, <1>4, <2>3 DEF SysInv, TypeOK
  <2> QED
    BY <1>3, <2>2, <2>3, <2>4 DEF Leaves
<1>7. CASE LoopEnds(i)
  <2>1. PICK new : new = IF IsRelay(i)
                         THEN [Exited(i) EXCEPT !.at = "out", !.live = r.live \ {r.pc}]
                         ELSE Exited(i)
    OBVIOUS
  <2>2. r.live \ {r.pc} \in SUBSET Sids
    BY DEF Client
  <2>3. /\ new \in Client /\ new.at # "in" /\ new.conn = NoConn /\ new.pc = NoSid
        /\ i = Pilot => new.live = {}
        /\ new.applied = {}
    BY <2>1, <2>2, SystemAssumption DEF Exited, Client, Sids, IsRelay
  <2>4. /\ cl' = [cl EXCEPT ![i] = new] /\ down' = Dropped(down, cl[i].conn)
        /\ UNCHANGED <<srv, up, peers, sessions>>
    BY <1>1, <1>7, <2>1 DEF LoopEnds, hubVars
  <2>5. down' = [c \in Conn |-> IF c = cl[i].conn THEN <<>> ELSE down[c]]
    BY <2>4 DEF Dropped, SysInv, TypeOK
  <2> QED
    BY <1>3, <2>3, <2>4, <2>5 DEF Leaves
<1> QED
  BY <1>5, <1>6, <1>7

-----------------------------------------------------------------------------
(***************************************************************************)
(* The server's steps.                                                     *)
(***************************************************************************)
\* A sequence of one.
LEMMA One ==
    ASSUME NEW T, NEW x \in T
    PROVE  <<x>> \in Seq(T) /\ Len(<<x>>) = 1 /\ DOMAIN <<x>> = {1} /\ <<x>>[1] = x
OBVIOUS

\* A Send.
LEMMA ASend ==
    ASSUME NEW c \in Conn, NEW m \in Msg
    PROVE  LET n == [to |-> c, msg |-> m] IN n \in Send /\ n.to = c /\ n.msg = m
BY DEF Send

\* The fields of a handler.
LEMMA HandlerFields ==
    ASSUME TypeOK, NEW c \in Conn
    PROVE  /\ srv[c] \in Handler /\ srv[c].at \in {"hello", "run", "over"}
           /\ srv[c].id \in PeerID \cup {NoPeer} /\ srv[c].due \in Seq(Send)
           /\ \A k \in DOMAIN srv[c].due :
                 /\ srv[c].due[k] \in Send /\ srv[c].due[k].to \in Conn /\ srv[c].due[k].msg \in Msg
                 /\ srv[c].due[k].msg.sid \in Sids
<1>1. srv[c] \in Handler
  BY DEF TypeOK
<1>2. PICK q : q = srv[c].due
  OBVIOUS
<1>3. q \in Seq(Send) /\ \A k \in DOMAIN q : q[k] \in Send
  BY <1>1, <1>2 DEF Handler
<1> QED
  BY <1>1, <1>2, <1>3 DEF Handler, Send, Msg, Sids

\* Whom a handler serves that is not over.
LEMMA Serves ==
    ASSUME SysInv, NEW c \in Conn, srv[c].at # "over"
    PROVE  srv[c].id \in PeerID
BY HandlerFields DEF SysInv, EndsAgree

LEMMA GreetsKeeps ==
    ASSUME SysInv, NEW c \in Conn, HelloOK(c)
    PROVE  SysInv'
<1>1. PICK i \in PeerID : i = srv[c].id
  BY Serves DEF HelloOK
<1>2. /\ srv[c].at = "hello" /\ peers[i] = NoConn /\ peers' = [peers EXCEPT ![i] = c]
      /\ UNCHANGED <<prog, cl, up, down, sessions, faults>>
  BY <1>1 DEF HelloOK, Register, net
<1>3. PICK n \in Send : n = [to |-> c, msg |-> HelloOKMsg(i)] /\ n.to = c /\ n.msg.kind = "hello.ok"
  <2>1. PICK g \in Msg : g = HelloOKMsg(i) /\ g.kind = "hello.ok"
    <3>1. HelloOKMsg(i) \in Msg /\ HelloOKMsg(i).kind = "hello.ok"
      BY DEF HelloOKMsg, Msg, MsgKind
    <3> QED
      BY <3>1
  <2>2. [to |-> c, msg |-> HelloOKMsg(i)] = [to |-> c, msg |-> g]
    BY <2>1
  <2> QED
    BY <2>1, <2>2, ASend
<1>4. PICK h \in Handler : /\ h.at = "run" /\ h.id = i /\ h.due = <<n>>
                           /\ srv' = [srv EXCEPT ![c] = h]
  <2>1. PICK r \in Handler : r = srv[c] /\ r.id = i
    BY <1>1 DEF SysInv, TypeOK
  <2>2. PICK q \in Seq(Send) : q = <<n>>
    BY One
  <2>3. srv' = [srv EXCEPT ![c] = [r EXCEPT !.at = "run", !.due = q]]
    BY <1>1, <1>3, <2>1, <2>2 DEF HelloOK, SysInv, TypeOK
  <2>4. PICK h : h = [r EXCEPT !.at = "run", !.due = q]
    OBVIOUS
  <2>5. h \in Handler /\ h.at = "run" /\ h.id = i /\ h.due = q
    BY <2>1, <2>4 DEF Handler
  <2> QED
    BY <2>2, <2>3, <2>4, <2>5
<1>5. /\ srv'[c].at = "run" /\ srv'[c].id = i /\ DOMAIN srv'[c].due = {1} /\ srv'[c].due[1] = n
      /\ Len(srv'[c].due) = 1
      /\ \A d \in Conn \ {c} : srv'[d] = srv[d]
  BY <1>4, One DEF SysInv, TypeOK
<1>6. srv[c].due = <<>> /\ srv[c].id = i
  BY <1>1, <1>2 DEF SysInv, DueShape
<1>7. peers'[i] = c /\ \A j \in PeerID \ {i} : peers'[j] = peers[j]
  BY <1>2 DEF SysInv, TypeOK
<1>8. TypeOK'
  BY <1>2, <1>4 DEF SysInv, TypeOK
<1>9. ClientsPlaced' /\ NoMixedSessions'
  BY <1>2 DEF SysInv, ClientsPlaced, NoMixedSessions, IsRelay
<1>10. EndsAgree' /\ ReqsOfPilot'
  BY <1>1, <1>2, <1>5, WireAssumption DEF SysInv, EndsAgree, ReqsOfPilot
<1>11. Registered'
  <2>1. ASSUME NEW j \in PeerID, peers'[j] # NoConn
        PROVE  srv'[peers'[j]].at = "run" /\ srv'[peers'[j]].id = j
    BY <1>2, <1>5, <1>7, <2>1 DEF SysInv, TypeOK, Registered
  <2>2. ASSUME NEW d \in Conn, srv'[d].at = "run" PROVE peers'[srv'[d].id] = d
    <3>1. CASE d = c
      BY <1>5, <1>7, <3>1
    <3>2. CASE d # c
      <4>1. srv[d].at = "run" /\ srv'[d].id = srv[d].id /\ srv[d].id \in PeerID
        BY <1>5, <2>2, <3>2, Serves
      <4> QED
        BY <1>2, <1>7, <4>1, HubAssumption DEF SysInv, Registered
    <3> QED
      BY <3>1, <3>2
  <2> QED
    BY <2>1, <2>2 DEF Registered
<1>12. DueShape'
  BY <1>1, <1>2, <1>3, <1>5 DEF SysInv, DueShape, SesKind, FwdKind
<1>13. \A s \in SessionID : Open(s) <=> Open(s)'
  BY <1>2 DEF Open
<1>14. SessionsOfBoth'
  BY <1>2, <1>7, <1>13, HubAssumption DEF SysInv, SessionsOfBoth
<1>15. \A s : Open(s) => i \notin {Pilot, Drone}
  BY <1>2 DEF SysInv, SessionsOfBoth, Open
<1>16. \A d \in Conn : PilotEnd(d)' <=> PilotEnd(d)
  BY <1>2, <1>5, <1>6 DEF PilotEnd
<1>17. ASSUME NEW d \in Conn, NEW s \in Sids, About(d, s)' PROVE About(d, s)
  BY <1>2, <1>3, <1>5, <1>7, <1>15, <1>17, SystemAssumption DEF About, Open, SesKind, FwdKind
<1>18. PilotOne'
  BY <1>16, <1>17 DEF SysInv, PilotOne
<1>19. ASSUME NEW d \in Conn, Blank(d) PROVE Blank(d)'
  BY <1>2, <1>3, <1>5, <1>17, <1>19 DEF Blank
<1>20. Tokens'
  BY <1>2, <1>5, <1>6, <1>16, <1>19 DEF SysInv, Tokens, HelloDue, HelloSent, ReqSent
<1>21. DroneOrder'
  BY <1>2, <1>3, <1>5, <1>7, <1>13, <1>15, SystemAssumption
     DEF SysInv, DroneOrder, Counts, IsRelay, Ready, AckDue, FwdKind
<1> QED
  BY <1>8, <1>9, <1>10, <1>11, <1>12, <1>14, <1>18, <1>20, <1>21 DEF SysInv

\* Which ends are the pilot's.
LEMMA DroneIsNoPilotEnd ==
    ASSUME SysInv, NEW c \in Conn, peers[Drone] = c
    PROVE  ~PilotEnd(c)
<1>1. srv[c].at = "run" /\ srv[c].id = Drone
  BY SystemAssumption, HubAssumption DEF SysInv, Registered
<1> QED
  BY <1>1, SystemAssumption DEF SysInv, EndsAgree, PilotEnd

\* What is under way to the drone is the same, or less, or nothing yet.
LEMMA DroneOrderKept ==
    ASSUME SysInv, Counts' => Counts,
           \A c \in Conn : cl'[Drone].conn = c =>
              \/ /\ cl[Drone].conn = c /\ cl'[Drone].pc = cl[Drone].pc /\ down'[c] = down[c]
                 /\ \A e \in Conn : \A k \in DOMAIN srv'[e].due :
                       srv'[e].due[k].to = c /\ srv'[e].due[k].msg.kind \in FwdKind
                          => srv'[e].due = srv[e].due
                 /\ \A s \in SessionID : Open(s)' /\ peers'[Drone] = c =>
                       /\ Open(s) /\ UNCHANGED peers
                       /\ srv'[peers[Pilot]].due = srv[peers[Pilot]].due
              \/ /\ down'[c] = <<>> /\ peers'[Drone] # c
                 /\ \A e \in Conn : \A k \in DOMAIN srv'[e].due : srv'[e].due[k].to # c
    PROVE  DroneOrder'
<1> SUFFICES ASSUME Counts', NEW c \in Conn, cl'[Drone].conn = c
             PROVE  /\ \A k \in DOMAIN down'[c] : down'[c][k].kind \in FwdKind
                          => After(down'[c], cl'[Drone].pc, k, down'[c][k].sid)
                    /\ \A e \in Conn : \A k \in DOMAIN srv'[e].due :
                          srv'[e].due[k].to = c /\ srv'[e].due[k].msg.kind \in FwdKind =>
                             After(down'[c], cl'[Drone].pc, Len(down'[c]) + 1, srv'[e].due[k].msg.sid)
                    /\ \A s \in SessionID : Open(s)' /\ peers'[Drone] = c =>
                          \/ After(down'[c], cl'[Drone].pc, Len(down'[c]) + 1, s)
                          \/ AckDue(peers[Pilot], c, s)'
  BY DEF DroneOrder, Ready, AckDue
<1>1. CASE /\ down'[c] = <<>> /\ peers'[Drone] # c
           /\ \A e \in Conn : \A k \in DOMAIN srv'[e].due : srv'[e].due[k].to # c
  BY <1>1
<1>2. CASE /\ cl[Drone].conn = c /\ cl'[Drone].pc = cl[Drone].pc /\ down'[c] = down[c]
           /\ \A e \in Conn : \A k \in DOMAIN srv'[e].due :
                 srv'[e].due[k].to = c /\ srv'[e].due[k].msg.kind \in FwdKind
                    => srv'[e].due = srv[e].due
           /\ \A s \in SessionID : Open(s)' /\ peers'[Drone] = c =>
                 /\ Open(s) /\ UNCHANGED peers
                 /\ srv'[peers[Pilot]].due = srv[peers[Pilot]].due
  <2>1. /\ \A k \in DOMAIN down[c] : down[c][k].kind \in FwdKind
              => After(down[c], cl[Drone].pc, k, down[c][k].sid)
        /\ \A e \in Conn : \A k \in DOMAIN srv[e].due :
              srv[e].due[k].to = c /\ srv[e].due[k].msg.kind \in FwdKind =>
                 After(down[c], cl[Drone].pc, Len(down[c]) + 1, srv[e].due[k].msg.sid)
        /\ \A s \in SessionID : Open(s) /\ peers[Drone] = c =>
              After(down[c], cl[Drone].pc, Len(down[c]) + 1, s) \/ AckDue(peers[Pilot], c, s)
    BY <1>2 DEF SysInv, DroneOrder, Ready
  <2>2. ASSUME NEW s \in SessionID, Open(s)', peers'[Drone] = c, AckDue(peers[Pilot], c, s)
        PROVE  AckDue(peers[Pilot], c, s)'
    BY <1>2, <2>2 DEF AckDue
  <2> QED
    BY <1>2, <2>1, <2>2
<1> QED
  BY <1>1, <1>2

LEMMA HandlerEndsKeeps ==
    ASSUME SysInv, NEW c \in Conn, NEW due, HandlerEnds(c, due)
    PROVE  SysInv'
<1>1. PICK i \in PeerID : i = srv[c].id
  BY Serves DEF HandlerEnds
<1>2. due \in Seq(Send) /\ srv[c].at # "over" /\ FaultsGrow /\ UNCHANGED <<cl, down>>
      /\ \A k \in DOMAIN due : /\ due[k].msg.kind = "peer.gone"
                               /\ due[k].to \in {peers[Pilot], peers[Drone]}
                               /\ \E s \in SessionID : Open(s)
  BY DEF HandlerEnds
<1>3. /\ srv'[c].at = "over" /\ srv'[c].id = NoPeer /\ srv'[c].due = due
      /\ \A d \in Conn \ {c} : srv'[d] = srv[d]
      /\ up'[c] = <<>> /\ \A d \in Conn \ {c} : up'[d] = up[d]
  BY DEF HandlerEnds, Dropped, SysInv, TypeOK
<1>4. \/ srv[c].at = "hello" /\ UNCHANGED <<peers, sessions>>
      \/ /\ srv[c].at = "run" /\ srv[c].due = <<>> /\ peers[i] = c /\ peers'[i] = NoConn
         /\ \A j \in PeerID \ {i} : peers'[j] = peers[j]
         /\ \A s \in SessionID : sessions'[s] = IF Open(s) /\ i \in Members(s)
                                                THEN NoSession ELSE sessions[s]
  BY <1>1 DEF HandlerEnds, SysInv, TypeOK, Registered
<1>5. ASSUME NEW s \in SessionID, Open(s)'
      PROVE  Open(s) /\ sessions'[s] = sessions[s] /\ srv[c].at = "hello" /\ UNCHANGED <<peers, sessions>>
  <2>1. Open(s)
    BY <1>4, <1>5 DEF Open
  <2>2. Members(s) = PeerID
    BY <2>1, SystemAssumption DEF SysInv, SessionsOfBoth, Members
  <2> QED
    BY <1>4, <1>5, <2>1, <2>2 DEF Open
<1>6. TypeOK'
  <2>1. [at |-> "over", id |-> NoPeer, due |-> due] \in Handler
    BY <1>2 DEF Handler
  <2>2. srv' \in [Conn -> Handler] /\ up' \in [Conn -> Seq(Frame)]
    BY <2>1 DEF HandlerEnds, Dropped, SysInv, TypeOK
  <2>3. peers' \in [PeerID -> Conn \cup {NoConn}] /\ sessions' \in [SessionID -> Session \cup {NoSession}]
    BY DEF HandlerEnds, SysInv, TypeOK
  <2> QED
    BY <1>2, <2>2, <2>3 DEF SysInv, TypeOK, FaultsGrow
<1>7. ClientsPlaced' /\ NoMixedSessions'
  BY <1>2 DEF SysInv, ClientsPlaced, NoMixedSessions, IsRelay, FaultsGrow
<1>8. EndsAgree' /\ ReqsOfPilot'
  BY <1>2, <1>3, WireAssumption DEF SysInv, EndsAgree, ReqsOfPilot
<1>9. Registered'
  <2>1. ASSUME NEW j \in PeerID, peers'[j] # NoConn
        PROVE  srv'[peers'[j]].at = "run" /\ srv'[peers'[j]].id = j
    <3>1. peers'[j] = peers[j] /\ (srv[c].at = "run" => j # i)
      BY <1>4, <2>1
    <3>2. peers[j] \in Conn /\ srv[peers[j]].at = "run" /\ srv[peers[j]].id = j
      BY <2>1, <3>1 DEF SysInv, TypeOK, Registered
    <3>3. peers[j] # c
      BY <1>1, <1>4, <3>1, <3>2
    <3> QED
      BY <1>3, <3>1, <3>2, <3>3
  <2>2. ASSUME NEW d \in Conn, srv'[d].at = "run" PROVE peers'[srv'[d].id] = d
    <3>1. d # c /\ srv'[d] = srv[d]
      BY <1>3, <2>2
    <3>2. srv[d].id \in PeerID /\ peers[srv[d].id] = d
      BY <2>2, <3>1, Serves DEF SysInv, Registered
    <3>3. srv[c].at = "run" => srv[d].id # i
      BY <1>4, <3>1, <3>2
    <3> QED
      BY <1>4, <3>1, <3>2, <3>3
  <2> QED
    BY <2>1, <2>2 DEF Registered
<1>10. DueShape'
  BY <1>2, <1>3 DEF SysInv, DueShape, SesKind, FwdKind
<1>11. SessionsOfBoth'
  BY <1>5 DEF SysInv, SessionsOfBoth
<1>12. \A d \in Conn : PilotEnd(d)' => PilotEnd(d)
  BY <1>2, <1>3, SystemAssumption, WireAssumption DEF PilotEnd
<1>13. ASSUME NEW d \in Conn, NEW s \in Sids, About(d, s)' PROVE About(d, s)
  <2>1. ASSUME NEW e \in Conn, NEW k \in DOMAIN srv'[e].due, srv'[e].due[k].msg.kind \in SesKind
        PROVE  srv'[e] = srv[e]
    BY <1>2, <1>3, <2>1 DEF SesKind, FwdKind
  <2>2. Open(s)' /\ peers'[Pilot] = d => Open(s) /\ peers[Pilot] = d
    BY <1>5 DEF Open
  <2> QED
    BY <1>2, <1>13, <2>1, <2>2 DEF About
<1>14. PilotOne'
  BY <1>12, <1>13 DEF SysInv, PilotOne
<1>15. ASSUME NEW d \in Conn, PilotEnd(d), Blank(d) PROVE Blank(d)'
  <2>1. ASSUME NEW k \in DOMAIN due PROVE due[k].to # d
    <3>1. PICK s \in SessionID : Open(s)
      BY <1>2
    <3>2. d # peers[Pilot]
      BY <1>15, <3>1 DEF Blank, About, Sids
    <3>3. d # peers[Drone]
      BY <1>15, DroneIsNoPilotEnd
    <3> QED
      BY <1>2, <3>2, <3>3
  <2> QED
    BY <1>2, <1>3, <1>13, <1>15, <2>1 DEF Blank
<1>16. Tokens'
  <2> SUFFICES ASSUME NEW d \in Conn, PilotEnd(d)'
               PROVE  /\ srv'[d].at = "hello" \/ HelloDue(d)' =>
                            Blank(d)' /\ down'[d] = <<>> /\ up'[d] = <<>>
                      /\ HelloSent(d)' => Blank(d)' /\ Len(down'[d]) = 1 /\ up'[d] = <<>>
                      /\ ReqSent(d)' => Blank(d)' /\ Len(up'[d]) = 1 /\ down'[d] = <<>>
    BY DEF Tokens
  <2>1. PilotEnd(d)
    BY <1>12
  <2>2. /\ srv[d].at = "hello" \/ HelloDue(d) => Blank(d) /\ down[d] = <<>> /\ up[d] = <<>>
        /\ HelloSent(d) => Blank(d) /\ Len(down[d]) = 1 /\ up[d] = <<>>
        /\ ReqSent(d) => Blank(d) /\ Len(up[d]) = 1 /\ down[d] = <<>>
    BY <2>1 DEF SysInv, Tokens
  <2>3. HelloSent(d)' <=> HelloSent(d)
    BY <1>2 DEF HelloSent
  <2>4. CASE d = c
    <3>1. srv'[d].at # "hello" /\ ~HelloDue(d)' /\ ~ReqSent(d)' /\ up'[d] = <<>>
      BY <1>2, <1>3, <2>4 DEF HelloDue, ReqSent
    <3> QED
      BY <1>2, <1>15, <2>1, <2>2, <2>3, <3>1
  <2>5. CASE d # c
    <3>1. srv'[d] = srv[d] /\ up'[d] = up[d] /\ (HelloDue(d)' <=> HelloDue(d)) /\ (ReqSent(d)' <=> ReqSent(d))
      BY <1>3, <2>5 DEF HelloDue, ReqSent
    <3> QED
      BY <1>2, <1>15, <2>1, <2>2, <2>3, <3>1
  <2> QED
    BY <2>4, <2>5
<1>17. DroneOrder'
  <2>1. Counts' => Counts
    BY <1>2 DEF Counts, IsRelay, FaultsGrow
  <2>2. ASSUME NEW e \in Conn, NEW k \in DOMAIN srv'[e].due, srv'[e].due[k].msg.kind \in FwdKind
        PROVE  srv'[e].due = srv[e].due
    BY <1>2, <1>3, <2>2 DEF FwdKind
  <2>3. ASSUME NEW s \in SessionID, Open(s)'
        PROVE  /\ Open(s) /\ UNCHANGED peers
               /\ srv'[peers[Pilot]].due = srv[peers[Pilot]].due
    <3>1. Open(s) /\ UNCHANGED peers /\ srv[c].at = "hello"
      BY <1>5, <2>3
    <3>2. peers[Pilot] \in Conn /\ peers[Pilot] # c
      BY <3>1, SystemAssumption DEF SysInv, SessionsOfBoth, Registered, TypeOK
    <3> QED
      BY <1>3, <3>1, <3>2
  <2> QED
    BY <1>2, <2>1, <2>2, <2>3, DroneOrderKept
<1> QED
  BY <1>6, <1>7, <1>8, <1>9, <1>10, <1>11, <1>14, <1>16, <1>17 DEF SysInv

LEMMA RestartsKeeps ==
    ASSUME SysInv, ServerRestarts
    PROVE  SysInv'
<1>1. /\ UNCHANGED <<prog, cl, down>> /\ faults' \in Nat /\ faults' # 0
      /\ peers' = [i \in PeerID |-> NoConn] /\ sessions' = [s \in SessionID |-> NoSession]
      /\ srv' = [c \in Conn |-> [at |-> "over", id |-> NoPeer, due |-> <<>>]]
      /\ up' = [c \in Conn |-> <<>>]
  BY DEF ServerRestarts, Fault, SysInv, TypeOK
<1>2. /\ \A c \in Conn : /\ srv'[c].at = "over" /\ srv'[c].id = NoPeer /\ srv'[c].due = <<>>
                         /\ up'[c] = <<>> /\ DOMAIN srv'[c].due = {} /\ DOMAIN up'[c] = {}
      /\ \A i \in PeerID : peers'[i] = NoConn
      /\ \A s : ~Open(s)'
  BY <1>1 DEF Open
<1>3. TypeOK'
  BY <1>1 DEF SysInv, TypeOK, Handler
<1>4. Counts' => Counts
  BY <1>1 DEF Counts, IsRelay
<1>5. ClientsPlaced' /\ NoMixedSessions'
  BY <1>1 DEF SysInv, ClientsPlaced, NoMixedSessions, IsRelay
<1>6. EndsAgree' /\ Registered' /\ DueShape' /\ ReqsOfPilot' /\ SessionsOfBoth'
  BY <1>1, <1>2 DEF SysInv, EndsAgree, Registered, DueShape, ReqsOfPilot, SessionsOfBoth
<1>7. \A d \in Conn : PilotEnd(d)' => PilotEnd(d)
  BY <1>1, <1>2, SystemAssumption, WireAssumption DEF PilotEnd
<1>8. ASSUME NEW d \in Conn, NEW s \in Sids, About(d, s)' PROVE About(d, s)
  BY <1>1, <1>2, <1>8 DEF About
<1>9. PilotOne'
  BY <1>7, <1>8 DEF SysInv, PilotOne
<1>10. ASSUME NEW d \in Conn, Blank(d) PROVE Blank(d)'
  BY <1>1, <1>2, <1>8, <1>10 DEF Blank
<1>11. Tokens'
  BY <1>1, <1>2, <1>7, <1>10 DEF SysInv, Tokens, HelloDue, HelloSent, ReqSent
<1>12. DroneOrder'
  BY <1>1, <1>2, <1>4, DroneOrderKept
<1> QED
  BY <1>3, <1>5, <1>6, <1>9, <1>11, <1>12 DEF SysInv

-----------------------------------------------------------------------------
(***************************************************************************)
(* The clients' steps.                                                     *)
(***************************************************************************)
LEMMA LeavesKeeps ==
    ASSUME SysInv, NEW i \in PeerID, NEW new, Leaves(i, new)
    PROVE  SysInv'
<1>1. /\ cl'[i] = new /\ \A j \in PeerID \ {i} : cl'[j] = cl[j]
      /\ new \in Client /\ new.at # "in" /\ new.conn = NoConn /\ new.pc = NoSid
      /\ i = Pilot => new.live = {}
      /\ new.applied \subseteq cl[i].applied
  BY DEF Leaves, SysInv, TypeOK
<1>2. /\ \A c \in Conn : down'[c] = IF c = cl[i].conn THEN <<>> ELSE down[c]
      /\ UNCHANGED <<srv, up, peers, sessions, prog>> /\ (faults' = 0 => faults = 0)
  BY DEF Leaves, FaultsGrow
<1>3. \A c \in Conn : /\ DOMAIN down'[c] \subseteq DOMAIN down[c]
                      /\ \A k \in DOMAIN down'[c] : down'[c][k] = down[c][k] /\ down'[c] = down[c]
  <2>1. DOMAIN <<>> = {}
    OBVIOUS
  <2> QED
    BY <1>2, <2>1
<1>4. TypeOK'
  BY <1>1 DEF Leaves, FaultsGrow, SysInv, TypeOK
<1>5. ClientsPlaced'
  BY <1>1, SystemAssumption, HubAssumption DEF SysInv, ClientsPlaced
<1>6. NoMixedSessions'
  BY <1>1, <1>2 DEF SysInv, NoMixedSessions, IsRelay
<1>7. \A c \in Conn, j \in PeerID : cl'[j].conn = c => j # i /\ cl[j].conn = c
  BY <1>1, HubAssumption
<1>8. EndsAgree'
  BY <1>1, <1>2, <1>7 DEF SysInv, EndsAgree
<1>9. Registered' /\ ReqsOfPilot'
  BY <1>2 DEF SysInv, Registered, ReqsOfPilot
<1>10. \A s : Open(s)' <=> Open(s)
  BY <1>2 DEF Open
<1>11. SessionsOfBoth'
  BY <1>2, <1>10 DEF SysInv, SessionsOfBoth
<1>12. DueShape'
  <2>1. \A c \in Conn : \A k \in DOMAIN srv[c].due :
            srv[c].due[k].to = cl'[Drone].conn => srv[c].due[k].to = cl[Drone].conn
    BY <1>7, HandlerFields, SystemAssumption DEF SysInv
  <2> QED
    BY <1>2, <2>1 DEF SysInv, DueShape
<1>13. \A d \in Conn : PilotEnd(d)' => PilotEnd(d)
  BY <1>2, <1>7, SystemAssumption DEF PilotEnd
<1>14. ASSUME NEW d \in Conn, NEW s \in Sids, About(d, s)' PROVE About(d, s)
  <2>1. cl'[Pilot].conn = d => cl[Pilot].conn = d /\ cl'[Pilot].pc = cl[Pilot].pc
    BY <1>1, <1>7, SystemAssumption
  <2> QED
    BY <1>2, <1>3, <1>10, <1>14, <2>1 DEF About
<1>15. PilotOne'
  BY <1>13, <1>14 DEF SysInv, PilotOne
<1>16. ASSUME NEW d \in Conn, Blank(d) PROVE Blank(d)'
  <2>1. cl'[Pilot].conn = d => cl[Pilot].conn = d /\ cl'[Pilot].live = cl[Pilot].live
    BY <1>1, <1>7, SystemAssumption
  <2> QED
    BY <1>2, <1>14, <1>16, <2>1 DEF Blank
<1>17. Tokens'
  BY <1>2, <1>3, <1>13, <1>16 DEF SysInv, Tokens, HelloDue, HelloSent, ReqSent
<1>18. DroneOrder'
  <2>1. Counts' => Counts
    BY <1>2 DEF Counts, IsRelay
  <2>2. ASSUME NEW c \in Conn, cl'[Drone].conn = c
        PROVE  cl[Drone].conn = c /\ cl'[Drone].pc = cl[Drone].pc /\ down'[c] = down[c]
    <3>1. i = Pilot /\ cl'[Drone] = cl[Drone] /\ cl[Drone].conn = c
      BY <1>1, <1>7, <2>2, SystemAssumption
    <3>2. cl[Pilot].conn # c
      BY <3>1, HubAssumption DEF SysInv, ClientsPlaced
    <3> QED
      BY <1>2, <3>1, <3>2
  <2> QED
    BY <1>2, <1>10, <2>1, <2>2, DroneOrderKept
<1> QED
  BY <1>4, <1>5, <1>6, <1>8, <1>9, <1>11, <1>12, <1>15, <1>17, <1>18 DEF SysInv

LEMMA ConnectKeeps ==
    ASSUME SysInv, NEW i \in PeerID, Connect(i)
    PROVE  SysInv'
<1>1. PICK c \in Conn : /\ Fresh(c)
                        /\ cl' = [cl EXCEPT ![i].at = "in", ![i].conn = c]
                        /\ srv' = [srv EXCEPT ![c] = [at |-> "hello", id |-> i, due |-> <<>>]]
  BY DEF Connect
<1>2. cl[i].at = "out" /\ UNCHANGED <<prog, up, down, peers, sessions, faults>>
  BY DEF Connect, hubVars
<1>3. PICK new \in Client : /\ new.at = "in" /\ new.conn = c /\ new.pc = cl[i].pc
                            /\ new.live = cl[i].live /\ new.applied = cl[i].applied
                            /\ cl' = [cl EXCEPT ![i] = new]
  <2>1. PICK r \in Client : r = cl[i]
    BY DEF SysInv, TypeOK
  <2>2. PICK new : new = [r EXCEPT !.at = "in", !.conn = c]
    OBVIOUS
  <2>3. /\ new \in Client /\ new.at = "in" /\ new.conn = c /\ new.pc = r.pc
        /\ new.live = r.live /\ new.applied = r.applied
    BY <2>2 DEF Client
  <2>4. cl' = [cl EXCEPT ![i] = new]
    BY <1>1, <2>1, <2>2 DEF SysInv, TypeOK
  <2> QED
    BY <2>1, <2>3, <2>4
<1>4. cl'[i] = new /\ \A j \in PeerID \ {i} : cl'[j] = cl[j]
  BY <1>3 DEF SysInv, TypeOK
<1>5. /\ srv'[c].at = "hello" /\ srv'[c].id = i /\ srv'[c].due = <<>> /\ DOMAIN srv'[c].due = {}
      /\ \A d \in Conn \ {c} : srv'[d] = srv[d]
  BY <1>1 DEF SysInv, TypeOK
<1>6. /\ srv[c].at = "over" /\ srv[c].due = <<>> /\ DOMAIN srv[c].due = {}
      /\ \A j \in PeerID : cl[j].conn # c
      /\ \A d \in Conn : \A k \in DOMAIN srv[d].due : srv[d].due[k].to # c
  BY <1>1 DEF Fresh
<1>7. cl[i].pc = NoSid /\ cl[i].conn = NoConn /\ (i = Pilot => cl[i].live = {})
  BY <1>2 DEF SysInv, ClientsPlaced
<1>8. down[c] = <<>> /\ up[c] = <<>> /\ DOMAIN down[c] = {} /\ DOMAIN up[c] = {}
  BY <1>6 DEF SysInv, EndsAgree
<1>9. ASSUME NEW j \in PeerID PROVE peers[j] # c
  <2>1. c # NoConn /\ srv[c].at # "run"
    BY <1>6, HubAssumption
  <2> QED
    BY <2>1 DEF SysInv, Registered
<1>10. TypeOK'
  <2>1. [at |-> "hello", id |-> i, due |-> <<>>] \in Handler
    BY DEF Handler
  <2> QED
    BY <1>1, <1>2, <1>3, <2>1 DEF SysInv, TypeOK
<1>11. ClientsPlaced'
  BY <1>3, <1>4, <1>6, SystemAssumption, HubAssumption DEF SysInv, ClientsPlaced
<1>12. NoMixedSessions'
  BY <1>2, <1>3, <1>4 DEF SysInv, NoMixedSessions, IsRelay
<1>13. ASSUME NEW d \in Conn, NEW j \in PeerID, cl'[j].conn = d
       PROVE  (j = i /\ d = c) \/ (j # i /\ d # c /\ cl[j].conn = d)
  BY <1>3, <1>4, <1>6, <1>13
<1>14. EndsAgree'
  <2>1. ASSUME NEW d \in Conn
        PROVE  /\ srv'[d].at = "over" <=> srv'[d].id = NoPeer
               /\ \A j \in PeerID : cl'[j].conn = d /\ srv'[d].at # "over" => srv'[d].id = j
               /\ down'[d] # <<>> => \E j \in PeerID : cl'[j].conn = d
               /\ up'[d] # <<>> => srv'[d].at # "over"
    <3>1. CASE d = c
      BY <1>2, <1>5, <1>8, <1>13, <3>1, WireAssumption
    <3>2. CASE d # c
      BY <1>2, <1>4, <1>5, <1>7, <1>13, <3>2, HubAssumption DEF SysInv, EndsAgree
    <3> QED
      BY <3>1, <3>2
  <2> QED
    BY <2>1 DEF EndsAgree
<1>15. Registered'
  BY <1>2, <1>5, <1>9, HubAssumption DEF SysInv, Registered, TypeOK
<1>16. DueShape'
  <2>1. \A d \in Conn : \A k \in DOMAIN srv[d].due :
            srv[d].due[k].to = cl'[Drone].conn => srv[d].due[k].to = cl[Drone].conn
    BY <1>6, <1>13, HandlerFields, SystemAssumption DEF SysInv
  <2> QED
    BY <1>5, <2>1 DEF SysInv, DueShape
<1>17. ReqsOfPilot'
  BY <1>2, <1>5, <1>8 DEF SysInv, ReqsOfPilot
<1>18. \A s : Open(s)' <=> Open(s)
  BY <1>2 DEF Open
<1>19. SessionsOfBoth'
  BY <1>2, <1>18 DEF SysInv, SessionsOfBoth
<1>20. \A d \in Conn : PilotEnd(d)' => d = c \/ PilotEnd(d)
  BY <1>5, <1>13, SystemAssumption DEF PilotEnd
<1>21. ASSUME NEW d \in Conn, NEW s \in Sids, About(d, s)' PROVE About(d, s) /\ d # c
  <2>1. ASSUME cl'[Pilot].conn = d, cl'[Pilot].pc = s, s # NoSid
        PROVE  cl[Pilot].conn = d /\ cl[Pilot].pc = s
    BY <1>3, <1>4, <1>7, <1>13, <2>1, SystemAssumption
  <2>2. ASSUME NEW e \in Conn, NEW k \in DOMAIN srv'[e].due PROVE srv'[e] = srv[e] /\ e # c
    BY <1>5
  <2>3. About(d, s)
    BY <1>2, <1>18, <1>21, <2>1, <2>2 DEF About
  <2>4. d # c
    BY <1>2, <1>6, <1>8, <1>9, <1>21, <2>1, <2>2, SystemAssumption DEF About
  <2> QED
    BY <2>3, <2>4
<1>22. PilotOne'
  BY <1>20, <1>21 DEF SysInv, PilotOne
<1>23. Blank(c)'
  BY <1>3, <1>4, <1>5, <1>6, <1>7, <1>13, <1>21, SystemAssumption DEF Blank
<1>24. ASSUME NEW d \in Conn \ {c}, Blank(d) PROVE Blank(d)'
  BY <1>4, <1>5, <1>13, <1>21, <1>24, SystemAssumption DEF Blank
<1>25. Tokens'
  BY <1>2, <1>5, <1>8, <1>20, <1>23, <1>24 DEF SysInv, Tokens, HelloDue, HelloSent, ReqSent
<1>26. DroneOrder'
  <2>1. Counts' => Counts
    BY <1>2 DEF Counts, IsRelay
  <2>2. ASSUME NEW d \in Conn, cl'[Drone].conn = d, d # c
        PROVE  cl[Drone].conn = d /\ cl'[Drone].pc = cl[Drone].pc
    BY <1>4, <1>13, <2>2, SystemAssumption
  <2>3. ASSUME NEW s \in SessionID, Open(s) PROVE srv'[peers[Pilot]].due = srv[peers[Pilot]].due
    <3>1. peers[Pilot] \in Conn /\ peers[Pilot] # c
      BY <1>9, <2>3, SystemAssumption DEF SysInv, SessionsOfBoth, TypeOK
    <3> QED
      BY <1>5, <3>1
  <2>4. ASSUME NEW e \in Conn, NEW k \in DOMAIN srv'[e].due
        PROVE  srv'[e].due = srv[e].due /\ srv'[e].due[k].to # c
    BY <1>5, <1>6
  <2> QED
    BY <1>2, <1>8, <1>9, <1>18, <2>1, <2>2, <2>3, <2>4, SystemAssumption, DroneOrderKept
<1> QED
  BY <1>10, <1>11, <1>12, <1>14, <1>15, <1>16, <1>17, <1>19, <1>22, <1>25, <1>26 DEF SysInv

\* What a client writes reaches a handler that is there.
LEMMA ToServerFacts ==
    ASSUME TypeOK, NEW c \in Conn, NEW out \in Seq(Frame)
    PROVE  /\ ToServer(c, out) \in [Conn -> Seq(Frame)]
           /\ \A d \in Conn : ToServer(c, out)[d] =
                 IF d = c /\ srv[c].at # "over" THEN up[c] \o out ELSE up[d]
BY DEF ToServer, TypeOK

\* A candidate: nothing changes but the frames on their way to the server.
LEMMA CandidateKeeps ==
    ASSUME SysInv, NEW i \in PeerID, NEW s \in SessionID, OnICECandidate(i, s)
    PROVE  SysInv'
<1>1. PICK c \in Conn : c = cl[i].conn
  BY DEF OnICECandidate, SysInv, ClientsPlaced, TypeOK, Client
<1>2. PICK f \in Frame : f = SessionFrame("ice", s) /\ f.kind # "session.req" /\ <<f>> \in Seq(Frame)
                         /\ Len(<<f>>) = 1 /\ DOMAIN <<f>> = {1} /\ <<f>>[1] = f
  BY OneFrame DEF Sids
<1>3. /\ UNCHANGED <<prog, cl, srv, down, peers, sessions, faults>>
      /\ up' = ToServer(c, <<f>>) /\ s \in cl[i].live
  BY <1>1, <1>2 DEF OnICECandidate, hubVars
<1>4. /\ up' \in [Conn -> Seq(Frame)]
      /\ \A d \in Conn : up'[d] = IF d = c /\ srv[c].at # "over" THEN up[c] \o <<f>> ELSE up[d]
  BY <1>2, <1>3, ToServerFacts DEF SysInv
<1>5. /\ DOMAIN (up[c] \o <<f>>) = DOMAIN up[c] \cup {Len(up[c]) + 1}
      /\ \A k \in DOMAIN up[c] : (up[c] \o <<f>>)[k] = up[c][k]
      /\ (up[c] \o <<f>>)[Len(up[c]) + 1] = f
  <2>1. up[c] \in Seq(Frame)
    BY DEF SysInv, TypeOK
  <2> QED
    BY <1>2, <2>1
<1>6. ASSUME NEW d \in Conn, NEW k \in DOMAIN up'[d], up'[d][k].kind = "session.req"
      PROVE  k \in DOMAIN up[d] /\ up'[d][k] = up[d][k]
  BY <1>2, <1>4, <1>5, <1>6
<1>7. \A t : Open(t)' <=> Open(t)
  BY <1>3 DEF Open
<1>8. \A d \in Conn : PilotEnd(d) /\ Blank(d) => up'[d] = up[d]
  <2> SUFFICES ASSUME PilotEnd(c), Blank(c), srv[c].at # "over" PROVE FALSE
    BY <1>4
  <2>1. srv[c].id = i
    BY <1>1 DEF SysInv, EndsAgree
  <2>2. i = Pilot
    BY <1>1, <2>1, SystemAssumption DEF PilotEnd, SysInv, EndsAgree
  <2> QED
    BY <1>1, <1>3, <2>2 DEF Blank
<1>9. TypeOK' /\ ClientsPlaced' /\ Registered' /\ DueShape' /\ NoMixedSessions'
  BY <1>3, <1>4 DEF SysInv, TypeOK, ClientsPlaced, Registered, DueShape, NoMixedSessions, IsRelay
<1>10. EndsAgree'
  BY <1>3, <1>4 DEF SysInv, EndsAgree
<1>11. ReqsOfPilot'
  BY <1>3, <1>6 DEF SysInv, ReqsOfPilot
<1>12. SessionsOfBoth'
  BY <1>3, <1>7 DEF SysInv, SessionsOfBoth
<1>13. \A d \in Conn : /\ PilotEnd(d)' <=> PilotEnd(d)
                       /\ \A t : About(d, t)' <=> About(d, t)
  BY <1>3, <1>7 DEF PilotEnd, About
<1>14. PilotOne'
  BY <1>13 DEF SysInv, PilotOne
<1>15. \A d \in Conn : Blank(d) => Blank(d)'
  BY <1>3, <1>13 DEF Blank
<1>16. \A d \in Conn : ReqSent(d)' => ReqSent(d)
  BY <1>6 DEF ReqSent
<1>17. Tokens'
  BY <1>3, <1>8, <1>13, <1>15, <1>16 DEF SysInv, Tokens, HelloDue, HelloSent
<1>18. DroneOrder'
  BY <1>3, <1>7, DroneOrderKept DEF Counts, IsRelay
<1> QED
  BY <1>9, <1>10, <1>11, <1>12, <1>14, <1>17, <1>18 DEF SysInv

-----------------------------------------------------------------------------
(***************************************************************************)
(* A frame is carried out.                                                 *)
(***************************************************************************)
\* The handler of c has taken a frame and has due to send.
Dispatched(c, due) ==
    /\ srv[c].at = "run" /\ srv[c].due = <<>> /\ up[c] # <<>> /\ due \in Seq(Send)
    /\ srv' = [srv EXCEPT ![c] = [at |-> "run", id |-> srv[c].id, due |-> due]]
    /\ up' = [up EXCEPT ![c] = Tail(@)]
    /\ UNCHANGED <<prog, cl, down, peers, faults>>

\* It opened session s between the two: both acks are due.
Opens(c, s, due) ==
    /\ srv[c].id = Pilot /\ ReqSent(c) /\ s \in SessionID /\ peers[Drone] # NoConn
    /\ sessions' = [sessions EXCEPT ![s] = [initiator |-> Pilot, target |-> Drone]]
    /\ DOMAIN due = {1, 2} /\ \A k \in {1, 2} : IsAck(due[k].msg) /\ due[k].msg.sid = s
    /\ due[1].to = c /\ due[2].to = peers[Drone]

\* It forwarded the frame to the other member of an open session, or nothing came of it.
Forwards(c, due) ==
    /\ UNCHANGED sessions
    /\ Len(due) <= 1
    /\ \A k \in DOMAIN due :
          /\ due[k].msg.kind \in FwdKind /\ Open(due[k].msg.sid)
          /\ \/ srv[c].id = Pilot /\ due[k].to = peers[Drone]
             \/ srv[c].id = Drone /\ due[k].to = peers[Pilot]

LEMMA DispatchForm ==
    ASSUME SysInv, NEW c \in Conn, Dispatch(c)
    PROVE  \E due : Dispatched(c, due) /\ (Forwards(c, due) \/ \E s : Opens(c, s, due))
<1>1. PICK i \in PeerID : i = srv[c].id
  BY Serves DEF Dispatch
<1>2. PICK r \in Handler : r = srv[c] /\ r.at = "run" /\ r.id = i /\ r.due = <<>>
  BY <1>1 DEF SysInv, TypeOK, Dispatch
<1>3. PICK f \in Frame : f = Head(up[c]) /\ up[c] # <<>> /\ 1 \in DOMAIN up[c] /\ f = up[c][1]
  <2>1. up[c] \in Seq(Frame) /\ up[c] # <<>>
    BY DEF SysInv, TypeOK, Dispatch
  <2> QED
    BY <2>1, TailFacts
<1>4. up' = [up EXCEPT ![c] = Tail(@)] /\ UNCHANGED <<prog, cl, down, faults>>
  BY DEF Dispatch
<1>5. ASSUME NEW due \in Seq(Send), srv' = [srv EXCEPT ![c].due = due], UNCHANGED peers
      PROVE  Dispatched(c, due)
  <2>1. [r EXCEPT !.due = due] = [at |-> "run", id |-> i, due |-> due]
    BY <1>2 DEF Handler
  <2>2. srv' = [srv EXCEPT ![c] = [r EXCEPT !.due = due]]
    BY <1>2, <1>5 DEF SysInv, TypeOK
  <2> QED
    BY <1>1, <1>2, <1>3, <1>4, <1>5, <2>1, <2>2 DEF Dispatched
<1>6. PICK s : s = CHOOSE t \in SessionID : t \notin Minted
  OBVIOUS
<1>7. CASE /\ f.kind = "session.req" /\ OpenSession(c, i, f.peer, s)
           /\ srv' = [srv EXCEPT ![c].due = <<[to |-> c, msg |-> SessionAckMsg(s, f.peer)],
                                    [to |-> peers[f.peer], msg |-> SessionAckMsg(s, i)]>>]
  <2>1. i = Pilot /\ f.peer = Drone
    BY <1>1, <1>3, <1>7 DEF SysInv, ReqsOfPilot
  <2>2. s \in SessionID /\ peers[Drone] # NoConn /\ UNCHANGED peers
        /\ sessions' = [sessions EXCEPT ![s] = [initiator |-> Pilot, target |-> Drone]]
    BY <1>7, <2>1 DEF OpenSession
  <2>3. PICK p \in Conn : p = peers[Drone]
    BY <2>2, SystemAssumption DEF SysInv, TypeOK
  <2>4. PICK g1 \in Msg, g2 \in Msg :
           /\ g1 = SessionAckMsg(s, Drone) /\ g2 = SessionAckMsg(s, Pilot)
           /\ IsAck(g1) /\ IsAck(g2) /\ g1.sid = s /\ g2.sid = s
    <3>1. ASSUME NEW j \in PeerID
          PROVE  SessionAckMsg(s, j) \in Msg /\ IsAck(SessionAckMsg(s, j)) /\ SessionAckMsg(s, j).sid = s
      BY <2>2 DEF SessionAckMsg, Msg, MsgKind, IsAck
    <3> QED
      BY <3>1, SystemAssumption
  <2>5. PICK n1 \in Send, n2 \in Send :
           /\ n1 = [to |-> c, msg |-> g1] /\ n2 = [to |-> p, msg |-> g2]
           /\ n1.to = c /\ n1.msg = g1 /\ n2.to = p /\ n2.msg = g2
    <3>1. \A d \in Conn, m \in Msg : \E n \in Send : n = [to |-> d, msg |-> m] /\ n.to = d /\ n.msg = m
      BY ASend
    <3> QED
      BY <3>1
  <2>6. PICK due \in Seq(Send) : due = <<n1, n2>> /\ DOMAIN due = {1, 2} /\ due[1] = n1 /\ due[2] = n2
    <3>1. <<n1, n2>> \in Seq(Send) /\ DOMAIN <<n1, n2>> = {1, 2}
      OBVIOUS
    <3> QED
      BY <3>1
  <2>7. srv' = [srv EXCEPT ![c].due = due]
    BY <1>7, <2>1, <2>3, <2>4, <2>5, <2>6
  <2>8. Dispatched(c, due)
    BY <1>5, <2>2, <2>7
  <2>9. ReqSent(c)
    BY <1>3, <1>7 DEF ReqSent
  <2>10. Opens(c, s, due)
    BY <1>1, <2>1, <2>2, <2>3, <2>4, <2>5, <2>6, <2>9 DEF Opens
  <2> QED
    BY <2>8, <2>10
<1>8. CASE UNCHANGED <<srv, hubVars>>
  <2>1. PICK due \in Seq(Send) : due = <<>> /\ Len(due) <= 1 /\ DOMAIN due = {}
    <3>1. <<>> \in Seq(Send) /\ Len(<<>>) <= 1 /\ DOMAIN <<>> = {}
      OBVIOUS
    <3> QED
      BY <3>1
  <2>2. srv' = [srv EXCEPT ![c].due = due]
    BY <1>2, <1>8, <2>1 DEF SysInv, TypeOK, Handler
  <2>3. Dispatched(c, due) /\ Forwards(c, due)
    BY <1>5, <1>8, <2>1, <2>2 DEF Forwards, hubVars
  <2> QED
    BY <2>3
<1>9. CASE srv' = [srv EXCEPT ![c].due = Forward(f, i)] /\ UNCHANGED hubVars
  <2>1. PICK p : p = OtherPeer(f.sid, i)
    OBVIOUS
  <2>2. CASE p = NoConn
    <3>1. Forward(f, i) = <<>> /\ <<>> \in Seq(Send) /\ Len(<<>>) <= 1 /\ DOMAIN <<>> = {}
      BY <2>1, <2>2 DEF Forward
    <3>2. Dispatched(c, <<>>) /\ Forwards(c, <<>>)
      BY <1>5, <1>9, <3>1 DEF Forwards, hubVars
    <3> QED
      BY <3>2
  <2>3. CASE p # NoConn
    <3>1. Open(f.sid) /\ i \in Members(f.sid) /\ p = peers[OtherMember(f.sid, i)]
      BY <2>1, <2>3 DEF OtherPeer
    <3>2. \/ i = Pilot /\ p = peers[Drone]
          \/ i = Drone /\ p = peers[Pilot]
      <4>1. f.sid \in SessionID /\ sessions[f.sid] = [initiator |-> Pilot, target |-> Drone]
        BY <3>1 DEF Open, SysInv, SessionsOfBoth
      <4> QED
        BY <3>1, <4>1, SystemAssumption DEF Members, OtherMember
    <3>3. p \in Conn
      BY <2>3, <3>2, SystemAssumption DEF SysInv, TypeOK
    <3>4. PICK g \in Msg : g = ForwardedMsg(f.kind, f.sid, i) /\ g.kind \in FwdKind /\ g.sid = f.sid
      <4>1. /\ ForwardedMsg(f.kind, f.sid, i) \in Msg /\ ForwardedMsg(f.kind, f.sid, i).kind \in FwdKind
            /\ ForwardedMsg(f.kind, f.sid, i).sid = f.sid
        BY DEF ForwardedMsg, Msg, MsgKind, FwdKind, Frame
      <4> QED
        BY <4>1
    <3>5. PICK n \in Send : n = [to |-> p, msg |-> g] /\ n.to = p /\ n.msg = g
      BY <3>3, ASend
    <3>6. PICK due \in Seq(Send) : due = <<n>> /\ Len(due) = 1 /\ DOMAIN due = {1} /\ due[1] = n
      BY One
    <3>7. Forward(f, i) = due
      BY <2>1, <2>3, <3>4, <3>5, <3>6 DEF Forward
    <3>8. Dispatched(c, due)
      BY <1>5, <1>9, <3>7 DEF hubVars
    <3>9. Forwards(c, due)
      BY <1>1, <1>9, <3>1, <3>2, <3>4, <3>5, <3>6 DEF Forwards, hubVars
    <3> QED
      BY <3>8, <3>9
  <2> QED
    BY <2>2, <2>3
<1> QED
  BY <1>1, <1>3, <1>6, <1>7, <1>8, <1>9 DEF Dispatch

\* What both have in common.
LEMMA DispatchedFacts ==
    ASSUME SysInv, NEW c \in Conn, NEW due, Dispatched(c, due)
    PROVE  /\ srv' \in [Conn -> Handler] /\ up' \in [Conn -> Seq(Frame)]
           /\ srv'[c].due = due /\ \A d \in Conn \ {c} : srv'[d] = srv[d] /\ up'[d] = up[d]
           /\ \A d \in Conn : srv'[d].at = srv[d].at /\ srv'[d].id = srv[d].id
           /\ Len(up'[c]) = Len(up[c]) - 1 /\ Len(up[c]) \in Nat \ {0}
           /\ \A k \in DOMAIN up'[c] : k + 1 \in DOMAIN up[c] /\ up'[c][k] = up[c][k + 1]
           /\ Len(up[c]) = 1 => up'[c] = <<>> /\ DOMAIN up'[c] = {}
           /\ ClientsPlaced' /\ EndsAgree' /\ Registered' /\ ReqsOfPilot' /\ NoMixedSessions'
           /\ \A d \in Conn : PilotEnd(d)' <=> PilotEnd(d)
<1>1. PICK h : h = [at |-> "run", id |-> srv[c].id, due |-> due]
  OBVIOUS
<1>2. h \in Handler /\ h.at = "run" /\ h.id = srv[c].id /\ h.due = due /\ srv' = [srv EXCEPT ![c] = h]
      /\ srv[c].at = "run"
  BY <1>1, HandlerFields DEF Dispatched, Handler, SysInv
<1>3. /\ srv'[c].due = due /\ \A d \in Conn \ {c} : srv'[d] = srv[d]
      /\ \A d \in Conn : srv'[d].at = srv[d].at /\ srv'[d].id = srv[d].id
      /\ srv' \in [Conn -> Handler]
  BY <1>2 DEF SysInv, TypeOK
<1>4. PICK q \in Seq(Frame) : q = up[c] /\ q # <<>>
  BY DEF Dispatched, SysInv, TypeOK
<1>5. /\ Tail(q) \in Seq(Frame) /\ Len(Tail(q)) = Len(q) - 1 /\ Len(q) \in Nat \ {0}
      /\ \A k \in DOMAIN Tail(q) : k + 1 \in DOMAIN q /\ Tail(q)[k] = q[k + 1]
      /\ DOMAIN Tail(q) = 1 .. (Len(q) - 1)
  BY <1>4, TailFacts
<1>6. /\ up'[c] = Tail(q) /\ \A d \in Conn \ {c} : up'[d] = up[d]
      /\ up' \in [Conn -> Seq(Frame)]
  BY <1>4, <1>5 DEF Dispatched, SysInv, TypeOK
<1>7. Len(q) = 1 => Tail(q) = <<>> /\ DOMAIN Tail(q) = {}
  BY <1>4, <1>5
<1>8. UNCHANGED <<prog, cl, down, peers, faults>>
  BY DEF Dispatched
<1>9. ClientsPlaced' /\ NoMixedSessions'
  BY <1>8 DEF SysInv, ClientsPlaced, NoMixedSessions, IsRelay
<1>10. EndsAgree'
  BY <1>2, <1>3, <1>6, <1>8 DEF SysInv, EndsAgree
<1>11. Registered'
  <2>1. ASSUME NEW j \in PeerID, peers[j] # NoConn
        PROVE  srv'[peers[j]].at = "run" /\ srv'[peers[j]].id = j
    <3>1. peers[j] \in Conn /\ srv[peers[j]].at = "run" /\ srv[peers[j]].id = j
      BY <2>1 DEF SysInv, TypeOK, Registered
    <3> QED
      BY <1>3, <3>1
  <2>2. ASSUME NEW d \in Conn, srv'[d].at = "run" PROVE peers[srv'[d].id] = d
    BY <1>3, <2>2 DEF SysInv, Registered
  <2> QED
    BY <1>8, <2>1, <2>2 DEF Registered
<1>12. ReqsOfPilot'
  <2>1. ASSUME NEW d \in Conn, NEW k \in DOMAIN up'[d], up'[d][k].kind = "session.req"
        PROVE  srv'[d].id = Pilot /\ up'[d][k].peer = Drone
    <3>1. \E j \in DOMAIN up[d] : up'[d][k] = up[d][j]
      <4>1. CASE d = c
        BY <1>4, <1>5, <1>6, <4>1
      <4>2. CASE d # c
        BY <1>6, <4>2
      <4> QED
        BY <4>1, <4>2
    <3> QED
      BY <1>3, <2>1, <3>1 DEF SysInv, ReqsOfPilot
  <2> QED
    BY <2>1 DEF ReqsOfPilot
<1>13. \A d \in Conn : PilotEnd(d)' <=> PilotEnd(d)
  BY <1>3, <1>8 DEF PilotEnd
<1> QED
  BY <1>3, <1>4, <1>5, <1>6, <1>7, <1>9, <1>10, <1>11, <1>12, <1>13

LEMMA ForwardsKeeps ==
    ASSUME SysInv, NEW c \in Conn, NEW due, Dispatched(c, due), Forwards(c, due)
    PROVE  SysInv'
<1>1. /\ srv' \in [Conn -> Handler] /\ up' \in [Conn -> Seq(Frame)]
      /\ srv'[c].due = due /\ \A d \in Conn \ {c} : srv'[d] = srv[d] /\ up'[d] = up[d]
      /\ \A d \in Conn : srv'[d].at = srv[d].at /\ srv'[d].id = srv[d].id
      /\ Len(up'[c]) = Len(up[c]) - 1 /\ Len(up[c]) \in Nat \ {0}
      /\ \A k \in DOMAIN up'[c] : k + 1 \in DOMAIN up[c] /\ up'[c][k] = up[c][k + 1]
      /\ Len(up[c]) = 1 => up'[c] = <<>> /\ DOMAIN up'[c] = {}
      /\ ClientsPlaced' /\ EndsAgree' /\ Registered' /\ ReqsOfPilot' /\ NoMixedSessions'
      /\ \A d \in Conn : PilotEnd(d)' <=> PilotEnd(d)
  BY DispatchedFacts
<1>2. /\ UNCHANGED <<prog, cl, down, peers, faults, sessions>>
      /\ srv[c].at = "run" /\ srv[c].due = <<>> /\ DOMAIN srv[c].due = {} /\ up[c] # <<>>
      /\ due \in Seq(Send) /\ Len(due) <= 1
  BY DEF Dispatched, Forwards
<1>3. TypeOK'
  BY <1>1, <1>2 DEF SysInv, TypeOK
<1>4. \A s : Open(s)' <=> Open(s)
  BY <1>2 DEF Open
<1>5. SessionsOfBoth'
  BY <1>2, <1>4 DEF SysInv, SessionsOfBoth
<1>6. peers[srv[c].id] = c /\ srv[c].id \in PeerID
  BY <1>2, Serves DEF SysInv, Registered
\* What is forwarded concerns the session of the pilot's connection.
<1>7. ASSUME NEW k \in DOMAIN due
      PROVE  /\ k = 1 /\ Len(due) = 1 /\ due[k].msg.kind \in FwdKind
             /\ Open(due[k].msg.sid) /\ due[k].msg.sid \in SessionID
             /\ \A d \in Conn : PilotEnd(d) /\ (d = c \/ d = due[k].to) => peers[Pilot] = d
             /\ due[k].to = cl[Drone].conn => srv[c].id = Pilot /\ peers[Drone] = due[k].to
  <2>1. DOMAIN due = 1 .. Len(due) /\ Len(due) \in Nat
    BY <1>2
  <2>2. /\ due[k].msg.kind \in FwdKind /\ Open(due[k].msg.sid)
        /\ \/ srv[c].id = Pilot /\ due[k].to = peers[Drone]
           \/ srv[c].id = Drone /\ due[k].to = peers[Pilot]
    BY DEF Forwards
  <2>3. peers[Pilot] \in Conn /\ peers[Drone] \in Conn
    BY <2>2, SystemAssumption DEF SysInv, SessionsOfBoth, TypeOK, Open
  <2>4. ~PilotEnd(peers[Drone])
    BY <2>3, DroneIsNoPilotEnd
  <2>5. peers[Pilot] # cl[Drone].conn
    BY <2>3, SystemAssumption, HubAssumption DEF SysInv, Registered, EndsAgree
  <2> QED
    BY <1>2, <1>6, <2>1, <2>2, <2>4, <2>5 DEF Open
<1>8. DueShape'
  <2>1. ASSUME NEW k \in DOMAIN due
        PROVE  /\ due[k].msg.kind \in FwdKind /\ Len(due) = 1
               /\ due[k].to = cl[Drone].conn => srv[c].id = Pilot
    BY <1>7
  <2>2. \A x \in FwdKind : x \in SesKind /\ x \notin {"session.ack", "hello.ok", "peer.gone"}
    BY DEF SesKind, FwdKind
  <2>3. \A d \in Conn \ {c} : srv'[d] = srv[d]
    BY <1>1
  <2>4. srv'[c].at = "run" /\ srv'[c].id = srv[c].id /\ srv'[c].due = due
    BY <1>1, <1>2
  <2> QED
    BY <1>2, <2>1, <2>2, <2>3, <2>4 DEF SysInv, DueShape
<1>9. ASSUME NEW d \in Conn, PilotEnd(d), NEW s \in Sids, About(d, s)' PROVE About(d, s)
  <2>1. ASSUME NEW e \in Conn, NEW k \in DOMAIN srv'[e].due,
               srv'[e].due[k].to = d \/ e = d, srv'[e].due[k].msg.sid = s,
               srv'[e].due[k].msg.kind \in SesKind
        PROVE  About(d, s)
    <3>1. CASE e = c
      BY <1>1, <1>7, <1>9, <2>1, <3>1 DEF About
    <3>2. CASE e # c
      BY <1>1, <2>1, <3>2 DEF About
    <3> QED
      BY <3>1, <3>2
  <2> QED
    BY <1>2, <1>4, <1>9, <2>1 DEF About
<1>10. PilotOne'
  BY <1>1, <1>9 DEF SysInv, PilotOne
<1>11. ASSUME NEW d \in Conn, PilotEnd(d), Blank(d) PROVE Blank(d)'
  <2>1. ASSUME NEW k \in DOMAIN due, due[k].to = d PROVE FALSE
    BY <1>7, <1>11, <2>1 DEF Blank, About, Sids
  <2>2. ASSUME NEW e \in Conn, NEW k \in DOMAIN srv'[e].due, srv'[e].due[k].to = d
        PROVE  srv'[e].due[k].msg.kind = "hello.ok"
    <3>1. CASE e = c
      BY <1>1, <2>1, <2>2, <3>1
    <3>2. CASE e # c
      BY <1>1, <1>11, <2>2, <3>2 DEF Blank
    <3> QED
      BY <3>1, <3>2
  <2>3. \A s \in Sids : ~About(d, s)'
    BY <1>9, <1>11 DEF Blank
  <2>4. cl'[Pilot].conn = d => cl'[Pilot].live = {}
    BY <1>2, <1>11 DEF Blank
  <2> QED
    BY <2>2, <2>3, <2>4 DEF Blank
<1>12. Tokens'
  <2> SUFFICES ASSUME NEW d \in Conn, PilotEnd(d)
               PROVE  /\ srv'[d].at = "hello" \/ HelloDue(d)' =>
                            Blank(d)' /\ down'[d] = <<>> /\ up'[d] = <<>>
                      /\ HelloSent(d)' => Blank(d)' /\ Len(down'[d]) = 1 /\ up'[d] = <<>>
                      /\ ReqSent(d)' => Blank(d)' /\ Len(up'[d]) = 1 /\ down'[d] = <<>>
    BY <1>1 DEF Tokens
  <2>1. /\ srv[d].at = "hello" \/ HelloDue(d) => Blank(d) /\ down[d] = <<>> /\ up[d] = <<>>
        /\ HelloSent(d) => Blank(d) /\ Len(down[d]) = 1 /\ up[d] = <<>>
        /\ ReqSent(d) => Blank(d) /\ Len(up[d]) = 1 /\ down[d] = <<>>
    BY DEF SysInv, Tokens
  <2>2. HelloSent(d)' <=> HelloSent(d)
    BY <1>2 DEF HelloSent
  <2>3. CASE d = c
    <3>1. srv'[d].at = "run" /\ ~HelloDue(d)'
      BY <1>1, <1>2, <1>7, <2>3 DEF HelloDue, FwdKind
    <3>2. ~HelloSent(d)
      BY <1>2, <2>1, <2>3
    <3>3. ~ReqSent(d)'
      <4> SUFFICES ASSUME ReqSent(d)' PROVE FALSE
        OBVIOUS
      <4>1. PICK k \in DOMAIN up'[c] : up'[c][k].kind = "session.req"
        BY <2>3 DEF ReqSent
      <4>2. ReqSent(c)
        BY <1>1, <4>1 DEF ReqSent
      <4> QED
        BY <1>1, <2>1, <2>3, <4>1, <4>2
    <3> QED
      BY <2>2, <3>1, <3>2, <3>3
  <2>4. CASE d # c
    <3>1. srv'[d] = srv[d] /\ up'[d] = up[d] /\ (HelloDue(d)' <=> HelloDue(d)) /\ (ReqSent(d)' <=> ReqSent(d))
      BY <1>1, <2>4 DEF HelloDue, ReqSent
    <3> QED
      BY <1>2, <1>11, <2>1, <2>2, <3>1
  <2> QED
    BY <2>3, <2>4
<1>13. DroneOrder'
  <2> SUFFICES ASSUME Counts, NEW d \in Conn, cl[Drone].conn = d
               PROVE  /\ \A k \in DOMAIN down[d] : down[d][k].kind \in FwdKind
                            => After(down[d], cl[Drone].pc, k, down[d][k].sid)
                      /\ \A e \in Conn : \A k \in DOMAIN srv'[e].due :
                            srv'[e].due[k].to = d /\ srv'[e].due[k].msg.kind \in FwdKind
                               => Ready(d, srv'[e].due[k].msg.sid)
                      /\ \A s \in SessionID : Open(s) /\ peers[Drone] = d =>
                            Ready(d, s) \/ AckDue(peers[Pilot], d, s)'
    BY <1>2, <1>4 DEF DroneOrder, Ready, Counts, IsRelay, AckDue
  <2>1. /\ \A k \in DOMAIN down[d] : down[d][k].kind \in FwdKind
              => After(down[d], cl[Drone].pc, k, down[d][k].sid)
        /\ \A e \in Conn : \A k \in DOMAIN srv[e].due :
              srv[e].due[k].to = d /\ srv[e].due[k].msg.kind \in FwdKind
                 => Ready(d, srv[e].due[k].msg.sid)
        /\ \A s \in SessionID : Open(s) /\ peers[Drone] = d =>
              Ready(d, s) \/ AckDue(peers[Pilot], d, s)
    BY DEF SysInv, DroneOrder
  <2>2. ASSUME NEW k \in DOMAIN due, due[k].to = d PROVE Ready(d, due[k].msg.sid)
    <3>1. srv[c].id = Pilot /\ peers[Drone] = d /\ peers[Pilot] = c
      BY <1>6, <1>7, <2>2
    <3>2. ~AckDue(peers[Pilot], d, due[k].msg.sid)
      BY <1>2, <3>1 DEF AckDue
    <3> QED
      BY <1>7, <2>1, <3>1, <3>2
  <2>3. ASSUME NEW s \in SessionID, Open(s), peers[Drone] = d
        PROVE  Ready(d, s) \/ AckDue(peers[Pilot], d, s)'
    <3>1. peers[Pilot] \in Conn
      BY <2>3, SystemAssumption DEF SysInv, SessionsOfBoth, TypeOK
    <3>2. CASE peers[Pilot] = c
      <4>1. ~AckDue(peers[Pilot], d, s)
        BY <1>2, <3>2 DEF AckDue
      <4> QED
        BY <2>1, <2>3, <4>1
    <3>3. CASE peers[Pilot] # c
      <4>1. AckDue(peers[Pilot], d, s) => AckDue(peers[Pilot], d, s)'
        BY <1>1, <1>2, <3>1, <3>3 DEF AckDue
      <4> QED
        BY <2>1, <2>3, <4>1
    <3> QED
      BY <3>2, <3>3
  <2>4. ASSUME NEW e \in Conn, NEW k \in DOMAIN srv'[e].due,
               srv'[e].due[k].to = d, srv'[e].due[k].msg.kind \in FwdKind
        PROVE  Ready(d, srv'[e].due[k].msg.sid)
    <3>1. CASE e = c
      BY <1>1, <2>2, <2>4, <3>1
    <3>2. CASE e # c
      BY <1>1, <2>1, <2>4, <3>2
    <3> QED
      BY <3>1, <3>2
  <2> QED
    BY <2>1, <2>3, <2>4
<1> QED
  BY <1>1, <1>3, <1>5, <1>8, <1>10, <1>12, <1>13 DEF SysInv

LEMMA OpensKeeps ==
    ASSUME SysInv, NEW c \in Conn, NEW due, NEW s, Dispatched(c, due), Opens(c, s, due)
    PROVE  SysInv'
<1>1. /\ srv' \in [Conn -> Handler] /\ up' \in [Conn -> Seq(Frame)]
      /\ srv'[c].due = due /\ \A d \in Conn \ {c} : srv'[d] = srv[d] /\ up'[d] = up[d]
      /\ \A d \in Conn : srv'[d].at = srv[d].at /\ srv'[d].id = srv[d].id
      /\ Len(up'[c]) = Len(up[c]) - 1 /\ Len(up[c]) \in Nat \ {0}
      /\ \A k \in DOMAIN up'[c] : k + 1 \in DOMAIN up[c] /\ up'[c][k] = up[c][k + 1]
      /\ Len(up[c]) = 1 => up'[c] = <<>> /\ DOMAIN up'[c] = {}
      /\ ClientsPlaced' /\ EndsAgree' /\ Registered' /\ ReqsOfPilot' /\ NoMixedSessions'
      /\ \A d \in Conn : PilotEnd(d)' <=> PilotEnd(d)
  BY DispatchedFacts
<1>2. /\ UNCHANGED <<prog, cl, down, peers, faults>>
      /\ srv[c].at = "run" /\ srv[c].due = <<>> /\ DOMAIN srv[c].due = {} /\ up[c] # <<>>
  BY DEF Dispatched
<1>3. /\ srv[c].id = Pilot /\ ReqSent(c) /\ s \in SessionID /\ peers[Drone] # NoConn
      /\ DOMAIN due = {1, 2} /\ \A k \in {1, 2} : IsAck(due[k].msg) /\ due[k].msg.sid = s
      /\ due[1].to = c /\ due[2].to = peers[Drone]
      /\ sessions' = [sessions EXCEPT ![s] = [initiator |-> Pilot, target |-> Drone]]
  BY DEF Opens
<1>4. PilotEnd(c) /\ peers[Pilot] = c /\ peers[Drone] \in Conn /\ s \in Sids
  BY <1>2, <1>3, SystemAssumption DEF PilotEnd, SysInv, Registered, TypeOK, Sids
\* It is the one request of this connection, nothing else concerns the pilot there.
<1>5. Blank(c) /\ Len(up[c]) = 1 /\ down[c] = <<>> /\ up'[c] = <<>> /\ DOMAIN up'[c] = {}
  BY <1>1, <1>3, <1>4 DEF SysInv, Tokens
<1>6. ASSUME NEW t \in SessionID PROVE ~Open(t)
  BY <1>4, <1>5 DEF Blank, About, Sids
<1>7. [initiator |-> Pilot, target |-> Drone] \in Session
  BY SystemAssumption DEF Session
<1>8. ASSUME NEW t \in SessionID
      PROVE  /\ Open(t)' <=> t = s
             /\ t = s => sessions'[t] = [initiator |-> Pilot, target |-> Drone]
  <2>1. CASE t = s
    BY <1>3, <1>7, <2>1, HubAssumption DEF Open, SysInv, TypeOK
  <2>2. CASE t # s
    BY <1>3, <1>6, <2>2 DEF Open, SysInv, TypeOK
  <2> QED
    BY <2>1, <2>2
<1>9. TypeOK'
  <2>1. sessions' \in [SessionID -> Session \cup {NoSession}]
    BY <1>3, <1>7 DEF SysInv, TypeOK
  <2> QED
    BY <1>1, <1>2, <2>1 DEF SysInv, TypeOK
<1>10. SessionsOfBoth'
  BY <1>2, <1>3, <1>4, <1>8, HubAssumption DEF SessionsOfBoth
<1>11. DueShape'
  <2>1. srv'[c].at = "run" /\ srv'[c].id = Pilot /\ srv'[c].due = due
    BY <1>1, <1>2, <1>3
  <2>2. \A k \in DOMAIN due : due[k].msg.kind = "session.ack"
    BY <1>3 DEF IsAck
  <2>3. \A d \in Conn \ {c} : srv'[d] = srv[d]
    BY <1>1
  <2>4. "session.ack" \in SesKind /\ "session.ack" \notin FwdKind
    BY DEF SesKind, FwdKind
  <2> QED
    BY <1>2, <2>1, <2>2, <2>3, <2>4 DEF SysInv, DueShape
<1>12. ~PilotEnd(peers[Drone])
  BY <1>4, DroneIsNoPilotEnd
<1>13. ASSUME NEW d \in Conn, PilotEnd(d), d # c, NEW t \in Sids, About(d, t)' PROVE About(d, t)
  <2>1. ASSUME NEW e \in Conn, NEW k \in DOMAIN srv'[e].due, srv'[e].due[k].to = d \/ e = d
        PROVE  srv'[e] = srv[e]
    <3>1. e # c
      BY <1>1, <1>3, <1>12, <1>13, <2>1
    <3> QED
      BY <1>1, <3>1
  <2>2. ~(Open(t)' /\ peers'[Pilot] = d)
    BY <1>2, <1>4, <1>13
  <2> QED
    BY <1>2, <1>13, <2>1, <2>2 DEF About
<1>14. ASSUME NEW t \in Sids, About(c, t)' PROVE t = s
  <2>1. ~About(c, t)
    BY <1>5 DEF Blank
  <2>2. ASSUME NEW e \in Conn, NEW k \in DOMAIN srv'[e].due,
               srv'[e].due[k].to = c \/ e = c, srv'[e].due[k].msg.sid = t,
               srv'[e].due[k].msg.kind \in SesKind
        PROVE  t = s
    <3>1. CASE e = c
      BY <1>1, <1>3, <2>2, <3>1
    <3>2. CASE e # c
      BY <1>1, <2>1, <2>2, <3>2 DEF About
    <3> QED
      BY <3>1, <3>2
  <2>3. Open(t)' => t = s
    BY <1>8 DEF Open
  <2> QED
    BY <1>2, <1>14, <2>1, <2>2, <2>3 DEF About
<1>15. PilotOne'
  <2> SUFFICES ASSUME NEW d \in Conn, PilotEnd(d), NEW t \in Sids, NEW u \in Sids,
                      About(d, t)', About(d, u)'
               PROVE  t = u
    BY <1>1 DEF PilotOne
  <2>1. CASE d = c
    BY <1>14, <2>1
  <2>2. CASE d # c
    BY <1>13, <2>2 DEF SysInv, PilotOne
  <2> QED
    BY <2>1, <2>2
<1>16. ASSUME NEW d \in Conn, PilotEnd(d), d # c, Blank(d) PROVE Blank(d)'
  <2>1. ASSUME NEW e \in Conn, NEW k \in DOMAIN srv'[e].due, srv'[e].due[k].to = d
        PROVE  srv'[e].due[k].msg.kind = "hello.ok"
    <3>1. e # c
      BY <1>1, <1>3, <1>12, <1>16, <2>1
    <3> QED
      BY <1>1, <1>16, <2>1, <3>1 DEF Blank
  <2>2. \A t \in Sids : ~About(d, t)'
    BY <1>13, <1>16 DEF Blank
  <2>3. cl'[Pilot].conn = d => cl'[Pilot].live = {}
    BY <1>2, <1>16 DEF Blank
  <2> QED
    BY <2>1, <2>2, <2>3 DEF Blank
<1>17. Tokens'
  <2> SUFFICES ASSUME NEW d \in Conn, PilotEnd(d)
               PROVE  /\ srv'[d].at = "hello" \/ HelloDue(d)' =>
                            Blank(d)' /\ down'[d] = <<>> /\ up'[d] = <<>>
                      /\ HelloSent(d)' => Blank(d)' /\ Len(down'[d]) = 1 /\ up'[d] = <<>>
                      /\ ReqSent(d)' => Blank(d)' /\ Len(up'[d]) = 1 /\ down'[d] = <<>>
    BY <1>1 DEF Tokens
  <2>1. CASE d = c
    <3>1. srv'[d].at = "run" /\ ~HelloDue(d)'
      BY <1>1, <1>2, <1>3, <2>1 DEF HelloDue, IsAck
    <3>2. ~HelloSent(d)' /\ ~ReqSent(d)'
      <4>1. DOMAIN down'[c] = {}
        BY <1>2, <1>5
      <4> QED
        BY <1>5, <2>1, <4>1 DEF HelloSent, ReqSent
    <3> QED
      BY <3>1, <3>2
  <2>2. CASE d # c
    <3>1. /\ srv[d].at = "hello" \/ HelloDue(d) => Blank(d) /\ down[d] = <<>> /\ up[d] = <<>>
          /\ HelloSent(d) => Blank(d) /\ Len(down[d]) = 1 /\ up[d] = <<>>
          /\ ReqSent(d) => Blank(d) /\ Len(up[d]) = 1 /\ down[d] = <<>>
      BY DEF SysInv, Tokens
    <3>2. /\ srv'[d] = srv[d] /\ up'[d] = up[d] /\ (HelloDue(d)' <=> HelloDue(d))
          /\ (ReqSent(d)' <=> ReqSent(d)) /\ (HelloSent(d)' <=> HelloSent(d))
      BY <1>1, <1>2, <2>2 DEF HelloDue, ReqSent, HelloSent
    <3> QED
      BY <1>2, <1>16, <2>2, <3>1, <3>2
  <2> QED
    BY <2>1, <2>2
<1>18. DroneOrder'
  <2> SUFFICES ASSUME Counts, NEW d \in Conn, cl[Drone].conn = d
               PROVE  /\ \A k \in DOMAIN down[d] : down[d][k].kind \in FwdKind
                            => After(down[d], cl[Drone].pc, k, down[d][k].sid)
                      /\ \A e \in Conn : \A k \in DOMAIN srv'[e].due :
                            srv'[e].due[k].to = d /\ srv'[e].due[k].msg.kind \in FwdKind
                               => Ready(d, srv'[e].due[k].msg.sid)
                      /\ \A t \in SessionID : Open(t)' /\ peers[Drone] = d =>
                            AckDue(c, d, t)'
    BY <1>2, <1>4 DEF DroneOrder, Ready, Counts, IsRelay, AckDue
  <2>1. /\ \A k \in DOMAIN down[d] : down[d][k].kind \in FwdKind
              => After(down[d], cl[Drone].pc, k, down[d][k].sid)
        /\ \A e \in Conn : \A k \in DOMAIN srv[e].due :
              srv[e].due[k].to = d /\ srv[e].due[k].msg.kind \in FwdKind
                 => Ready(d, srv[e].due[k].msg.sid)
    BY DEF SysInv, DroneOrder
  <2>2. ASSUME NEW e \in Conn, NEW k \in DOMAIN srv'[e].due, srv'[e].due[k].msg.kind \in FwdKind
        PROVE  srv'[e] = srv[e]
    <3>1. e # c
      BY <1>1, <1>3, <2>2 DEF IsAck, FwdKind
    <3> QED
      BY <1>1, <3>1
  <2>3. ASSUME NEW t \in SessionID, Open(t)', peers[Drone] = d PROVE AckDue(c, d, t)'
    <3>1. t = s
      BY <1>8, <2>3
    <3>2. 2 \in DOMAIN srv'[c].due /\ srv'[c].due[2].to = d /\ IsAck(srv'[c].due[2].msg)
          /\ srv'[c].due[2].msg.sid = t
      BY <1>1, <1>3, <2>3, <3>1
    <3> QED
      BY <3>2 DEF AckDue, IsAck
  <2> QED
    BY <2>1, <2>2, <2>3
<1> QED
  BY <1>1, <1>9, <1>10, <1>11, <1>15, <1>17, <1>18 DEF SysInv

-----------------------------------------------------------------------------
(***************************************************************************)
(* A Send.                                                                 *)
(***************************************************************************)
\* Only the pilot's registered connection writes to the drone about a session.
LEMMA WriterIsPilot ==
    ASSUME SysInv, NEW e \in Conn, NEW k \in DOMAIN srv[e].due,
           srv[e].due[k].to = cl[Drone].conn, srv[e].due[k].msg.kind \in SesKind
    PROVE  peers[Pilot] = e /\ srv[e].id = Pilot
<1>1. srv[e].id = Pilot /\ srv[e].at # "over"
  BY DEF SysInv, DueShape, SesKind, FwdKind
<1>2. srv[e].at # "hello"
  <2>1. DOMAIN <<>> = {}
    OBVIOUS
  <2> QED
    BY <2>1 DEF SysInv, DueShape
<1>3. srv[e].at = "run"
  BY <1>1, <1>2, HandlerFields DEF SysInv
<1> QED
  BY <1>1, <1>3 DEF SysInv, Registered

\* The handler of e has written n, which reached its connection or not.
Wrote(e, n) ==
    /\ n \in Send /\ 1 \in DOMAIN srv[e].due /\ n = srv[e].due[1]
    /\ srv' \in [Conn -> Handler] /\ \A d \in Conn \ {e} : srv'[d] = srv[d]
    /\ \A d \in Conn : srv'[d].at = srv[d].at /\ srv'[d].id = srv[d].id
    /\ \A k \in DOMAIN srv'[e].due :
          k \in Nat /\ k + 1 \in DOMAIN srv[e].due /\ k + 1 # 1 /\ srv'[e].due[k] = srv[e].due[k + 1]
    /\ \A k \in DOMAIN srv[e].due : k # 1 =>
          k - 1 \in DOMAIN srv'[e].due /\ srv'[e].due[k - 1] = srv[e].due[k]
    /\ UNCHANGED <<prog, cl, up, peers, sessions, faults>>

Reached(c) == srv[c].at = "run" /\ cl[srv[c].id].conn = c

LEMMA WroteForm ==
    ASSUME SysInv, NEW e \in Conn, SendNext(e)
    PROVE  \E n \in Send :
              /\ Wrote(e, n)
              /\ \A d \in Conn : down'[d] = IF d = n.to /\ Reached(d) THEN Append(down[d], n.msg) ELSE down[d]
              /\ down' \in [Conn -> Seq(Msg)]
<1>1. PICK r \in Handler : r = srv[e] /\ r.due # <<>> /\ r.due \in Seq(Send)
  BY DEF SysInv, TypeOK, SendNext, Handler
<1>2. PICK q \in Seq(Send) : q = r.due /\ q # <<>>
  BY <1>1
<1>3. /\ Tail(q) \in Seq(Send)
      /\ DOMAIN q = 1 .. Len(q) /\ DOMAIN Tail(q) = 1 .. (Len(q) - 1) /\ Len(q) \in Nat \ {0}
      /\ \A k \in DOMAIN Tail(q) : k + 1 \in DOMAIN q /\ Tail(q)[k] = q[k + 1]
      /\ Head(q) = q[1] /\ Head(q) \in Send /\ 1 \in DOMAIN q
  BY <1>2, TailFacts
<1>4. PICK n \in Send : n = Head(q) /\ n.to \in Conn /\ n.msg \in Msg
  BY <1>3 DEF Send
<1>5. PICK h \in Handler : h.at = r.at /\ h.id = r.id /\ h.due = Tail(q) /\ srv' = [srv EXCEPT ![e] = h]
  <2>1. PICK t \in Seq(Send) : t = Tail(q)
    BY <1>3
  <2>2. PICK h : h = [r EXCEPT !.due = t]
    OBVIOUS
  <2>3. h \in Handler /\ h.at = r.at /\ h.id = r.id /\ h.due = t
    BY <2>2 DEF Handler
  <2>4. srv' = [srv EXCEPT ![e] = h]
    BY <1>1, <1>2, <2>1, <2>2 DEF SendNext, SysInv, TypeOK
  <2> QED
    BY <2>1, <2>3, <2>4
<1>6. /\ srv' \in [Conn -> Handler] /\ \A d \in Conn \ {e} : srv'[d] = srv[d]
      /\ srv'[e].due = Tail(q)
      /\ \A d \in Conn : srv'[d].at = srv[d].at /\ srv'[d].id = srv[d].id
  BY <1>1, <1>5 DEF SysInv, TypeOK
<1>7. \A k \in DOMAIN Tail(q) : k \in Nat /\ k + 1 # 1
  BY <1>3
<1>8. \A k \in DOMAIN q : k # 1 => k - 1 \in DOMAIN Tail(q) /\ Tail(q)[k - 1] = q[k]
  BY <1>3
<1>9. UNCHANGED <<prog, cl, up, peers, sessions, faults>> /\ down' = ToClient(n.to, n.msg)
  BY <1>1, <1>2, <1>4 DEF SendNext, hubVars
<1>10. Wrote(e, n)
  BY <1>1, <1>2, <1>3, <1>4, <1>6, <1>7, <1>8, <1>9 DEF Wrote
<1>11. \A d \in Conn : down'[d] = IF d = n.to /\ Reached(d) THEN Append(down[d], n.msg) ELSE down[d]
  BY <1>4, <1>9 DEF ToClient, Reached, SysInv, TypeOK
<1>12. down' \in [Conn -> Seq(Msg)]
  BY <1>4, <1>9 DEF ToClient, SysInv, TypeOK
<1> QED
  BY <1>10, <1>11, <1>12

LEMMA SendKeeps ==
    ASSUME SysInv, NEW e \in Conn, SendNext(e)
    PROVE  SysInv'
<1>1. PICK n \in Send :
         /\ Wrote(e, n)
         /\ \A d \in Conn : down'[d] = IF d = n.to /\ Reached(d) THEN Append(down[d], n.msg) ELSE down[d]
         /\ down' \in [Conn -> Seq(Msg)]
  BY WroteForm
<1>2. /\ 1 \in DOMAIN srv[e].due /\ n = srv[e].due[1]
      /\ srv' \in [Conn -> Handler] /\ \A d \in Conn \ {e} : srv'[d] = srv[d]
      /\ \A d \in Conn : srv'[d].at = srv[d].at /\ srv'[d].id = srv[d].id
      /\ \A k \in DOMAIN srv'[e].due :
            k \in Nat /\ k + 1 \in DOMAIN srv[e].due /\ k + 1 # 1 /\ srv'[e].due[k] = srv[e].due[k + 1]
      /\ \A k \in DOMAIN srv[e].due : k # 1 =>
            k - 1 \in DOMAIN srv'[e].due /\ srv'[e].due[k - 1] = srv[e].due[k]
      /\ UNCHANGED <<prog, cl, up, peers, sessions, faults>>
  BY <1>1 DEF Wrote
<1>3. PICK c \in Conn, m \in Msg : c = n.to /\ m = n.msg
  BY DEF Send
<1>4. \A d \in Conn : d # c \/ ~Reached(c) => down'[d] = down[d]
  BY <1>1, <1>3
<1>5. ASSUME Reached(c)
      PROVE  /\ down'[c] = Append(down[c], m) /\ Len(down'[c]) = Len(down[c]) + 1
             /\ DOMAIN down'[c] = DOMAIN down[c] \cup {Len(down[c]) + 1}
             /\ DOMAIN down[c] = 1 .. Len(down[c]) /\ Len(down[c]) \in Nat
             /\ \A k \in DOMAIN down[c] : down'[c][k] = down[c][k]
             /\ down'[c][Len(down[c]) + 1] = m
             /\ srv[c].id \in PeerID /\ cl[srv[c].id].conn = c
  <2>1. PICK p \in Seq(Msg) : p = down[c]
    BY DEF SysInv, TypeOK
  <2>2. /\ Append(p, m) \in Seq(Msg) /\ Len(Append(p, m)) = Len(p) + 1
        /\ DOMAIN Append(p, m) = DOMAIN p \cup {Len(p) + 1}
        /\ DOMAIN p = 1 .. Len(p) /\ Len(p) \in Nat
        /\ \A k \in DOMAIN p : Append(p, m)[k] = p[k]
        /\ Append(p, m)[Len(p) + 1] = m
    BY <2>1, AppendFacts
  <2>3. down'[c] = Append(p, m)
    BY <1>1, <1>3, <1>5, <2>1
  <2>4. srv[c].id \in PeerID /\ cl[srv[c].id].conn = c
    BY <1>5, Serves DEF Reached
  <2> QED
    BY <2>1, <2>2, <2>3, <2>4
\* What is left to send was to be sent before.
<1>6. ASSUME NEW d \in Conn, NEW k \in DOMAIN srv'[d].due
      PROVE  /\ \E j \in DOMAIN srv[d].due : srv'[d].due[k] = srv[d].due[j] /\ (d = e => j # 1)
             /\ d = e => srv'[d].due[k].msg.kind \notin FwdKind \cup {"hello.ok"}
  <2>1. CASE d # e
    BY <1>2, <2>1
  <2>2. CASE d = e
    <3>1. PICK j \in DOMAIN srv[e].due : j # 1 /\ srv'[d].due[k] = srv[e].due[j]
      BY <1>2, <2>2
    <3>2. DOMAIN srv[e].due = 1 .. Len(srv[e].due)
      BY HandlerFields DEF SysInv
    <3>3. Len(srv[e].due) # 1
      BY <3>1, <3>2
    <3>4. srv[e].due[j].msg.kind \notin FwdKind \cup {"hello.ok"}
      BY <3>3 DEF SysInv, DueShape
    <3> QED
      BY <2>2, <3>1, <3>4
  <2> QED
    BY <2>1, <2>2
<1>7. TypeOK'
  BY <1>1, <1>2 DEF SysInv, TypeOK
<1>8. ClientsPlaced' /\ NoMixedSessions' /\ ReqsOfPilot'
  BY <1>2 DEF SysInv, ClientsPlaced, NoMixedSessions, IsRelay, ReqsOfPilot
<1>9. EndsAgree'
  BY <1>2, <1>4, <1>5 DEF SysInv, EndsAgree
<1>10. Registered'
  <2>1. ASSUME NEW j \in PeerID, peers[j] # NoConn
        PROVE  srv'[peers[j]].at = "run" /\ srv'[peers[j]].id = j
    <3>1. peers[j] \in Conn /\ srv[peers[j]].at = "run" /\ srv[peers[j]].id = j
      BY <2>1 DEF SysInv, TypeOK, Registered
    <3> QED
      BY <1>2, <3>1
  <2>2. ASSUME NEW d \in Conn, srv'[d].at = "run" PROVE peers[srv'[d].id] = d
    BY <1>2, <2>2 DEF SysInv, Registered
  <2> QED
    BY <1>2, <2>1, <2>2 DEF Registered
<1>11. \A s : Open(s)' <=> Open(s)
  BY <1>2 DEF Open
<1>12. SessionsOfBoth'
  BY <1>2, <1>11 DEF SysInv, SessionsOfBoth
<1>13. DueShape'
  <2> SUFFICES ASSUME NEW d \in Conn
               PROVE  /\ srv'[d].at = "hello" => srv'[d].due = <<>>
                      /\ \A k \in DOMAIN srv'[d].due :
                            LET x == srv'[d].due[k]
                            IN  /\ srv'[d].at = "over" <=> x.msg.kind = "peer.gone"
                                /\ x.msg.kind \in SesKind \cup {"hello.ok", "peer.gone"}
                                /\ x.msg.kind \in FwdKind \cup {"hello.ok"} => Len(srv'[d].due) = 1
                                /\ x.msg.kind = "hello.ok" => x.to = d
                                /\ x.msg.kind = "session.ack" => srv'[d].id = Pilot
                                /\ x.msg.kind \in SesKind /\ x.to = cl[Drone].conn => srv'[d].id = Pilot
    BY <1>2 DEF DueShape
  <2>1. srv'[d].at = "hello" => srv'[d].due = <<>>
    <3>1. srv[d].at = "hello" => d # e
      <4>1. DOMAIN <<>> = {}
        OBVIOUS
      <4> QED
        BY <1>2, <4>1 DEF SysInv, DueShape
    <3> QED
      BY <1>2, <3>1 DEF SysInv, DueShape
  <2>2. ASSUME NEW k \in DOMAIN srv'[d].due, NEW x, x = srv'[d].due[k]
        PROVE  /\ srv'[d].at = "over" <=> x.msg.kind = "peer.gone"
               /\ x.msg.kind \in SesKind \cup {"hello.ok", "peer.gone"}
               /\ x.msg.kind \in FwdKind \cup {"hello.ok"} => Len(srv'[d].due) = 1
               /\ x.msg.kind = "hello.ok" => x.to = d
               /\ x.msg.kind = "session.ack" => srv'[d].id = Pilot
               /\ x.msg.kind \in SesKind /\ x.to = cl[Drone].conn => srv'[d].id = Pilot
    <3>1. PICK j \in DOMAIN srv[d].due : x = srv[d].due[j]
      BY <1>6, <2>2
    <3>2. /\ srv[d].at = "over" <=> x.msg.kind = "peer.gone"
          /\ x.msg.kind \in SesKind \cup {"hello.ok", "peer.gone"}
          /\ x.msg.kind \in FwdKind \cup {"hello.ok"} => Len(srv[d].due) = 1
          /\ x.msg.kind = "hello.ok" => x.to = d
          /\ x.msg.kind = "session.ack" => srv[d].id = Pilot
          /\ x.msg.kind \in SesKind /\ x.to = cl[Drone].conn => srv[d].id = Pilot
      BY <3>1 DEF SysInv, DueShape
    <3>3. x.msg.kind \in FwdKind \cup {"hello.ok"} => srv'[d] = srv[d]
      BY <1>2, <1>6, <2>2
    <3> QED
      BY <1>2, <3>2, <3>3
  <2> QED
    BY <2>1, <2>2
<1>14. \A d \in Conn : PilotEnd(d)' <=> PilotEnd(d)
  BY <1>2 DEF PilotEnd
\* A message under way is one that was.
<1>15. ASSUME NEW d \in Conn, NEW k \in DOMAIN down'[d]
       PROVE  \/ k \in DOMAIN down[d] /\ down'[d][k] = down[d][k]
              \/ d = c /\ Reached(c) /\ k = Len(down[c]) + 1 /\ down'[d][k] = m
  BY <1>4, <1>5
<1>16. ASSUME NEW d \in Conn, NEW s \in Sids, About(d, s)' PROVE About(d, s)
  <2>1. ASSUME NEW k \in DOMAIN down'[d], down'[d][k].kind \in SesKind, down'[d][k].sid = s
        PROVE  About(d, s)
    BY <1>2, <1>3, <1>15, <2>1 DEF About
  <2>2. ASSUME NEW f \in Conn, NEW k \in DOMAIN srv'[f].due,
               srv'[f].due[k].to = d \/ f = d, srv'[f].due[k].msg.sid = s,
               srv'[f].due[k].msg.kind \in SesKind
        PROVE  About(d, s)
    BY <1>6, <2>2 DEF About
  <2> QED
    BY <1>2, <1>11, <1>16, <2>1, <2>2 DEF About
<1>17. PilotOne'
  BY <1>14, <1>16 DEF SysInv, PilotOne
<1>18. ASSUME NEW d \in Conn, Blank(d) PROVE Blank(d)'
  <2>1. ASSUME NEW f \in Conn, NEW k \in DOMAIN srv'[f].due, srv'[f].due[k].to = d
        PROVE  srv'[f].due[k].msg.kind = "hello.ok"
    BY <1>6, <1>18, <2>1 DEF Blank
  <2>2. \A s \in Sids : ~About(d, s)'
    BY <1>16, <1>18 DEF Blank
  <2>3. cl'[Pilot].conn = d => cl'[Pilot].live = {}
    BY <1>2, <1>18 DEF Blank
  <2> QED
    BY <2>1, <2>2, <2>3 DEF Blank
\* A greeting is written to its own connection, and nothing else to a blank one.
<1>19. m.kind = "hello.ok" => c = e /\ HelloDue(e)
  <2>1. /\ srv[e].due[1].msg.kind = "hello.ok" => srv[e].due[1].to = e
        /\ 1 \in DOMAIN srv[e].due
    BY <1>2 DEF SysInv, DueShape
  <2>2. srv[e].due[1].msg.kind = m.kind /\ srv[e].due[1].to = c
    BY <1>2, <1>3
  <2> QED
    BY <2>1, <2>2 DEF HelloDue
<1>20. Blank(c) => m.kind = "hello.ok"
  <2>1. srv[e].due[1].msg.kind = m.kind /\ srv[e].due[1].to = c /\ 1 \in DOMAIN srv[e].due
    BY <1>2, <1>3
  <2> QED
    BY <2>1 DEF Blank
<1>21. Tokens'
  <2> SUFFICES ASSUME NEW d \in Conn, PilotEnd(d)
               PROVE  /\ srv'[d].at = "hello" \/ HelloDue(d)' =>
                            Blank(d)' /\ down'[d] = <<>> /\ up'[d] = <<>>
                      /\ HelloSent(d)' => Blank(d)' /\ Len(down'[d]) = 1 /\ up'[d] = <<>>
                      /\ ReqSent(d)' => Blank(d)' /\ Len(up'[d]) = 1 /\ down'[d] = <<>>
    BY <1>14 DEF Tokens
  <2>1. /\ srv[d].at = "hello" \/ HelloDue(d) => Blank(d) /\ down[d] = <<>> /\ up[d] = <<>>
        /\ HelloSent(d) => Blank(d) /\ Len(down[d]) = 1 /\ up[d] = <<>>
        /\ ReqSent(d) => Blank(d) /\ Len(up[d]) = 1 /\ down[d] = <<>>
    BY DEF SysInv, Tokens
  <2>2. Len(<<>>) = 0 /\ DOMAIN <<>> = {}
    OBVIOUS
  <2>3. srv'[d].at = "hello" \/ HelloDue(d)' => Blank(d)' /\ down'[d] = <<>> /\ up'[d] = <<>>
    <3>1. HelloDue(d)' => d # e /\ HelloDue(d)
      BY <1>2, <1>6 DEF HelloDue
    <3>2. srv'[d].at = "hello" => srv[d].at = "hello" /\ d # e
      BY <1>2, <2>2 DEF SysInv, DueShape
    <3> QED
      BY <1>2, <1>4, <1>18, <1>20, <1>19, <2>1, <3>1, <3>2
  <2>4. HelloSent(d)' => Blank(d)' /\ Len(down'[d]) = 1 /\ up'[d] = <<>>
    <3>1. CASE HelloSent(d)
      <4>1. Blank(d) /\ ~HelloDue(d)
        BY <2>1, <3>1 DEF HelloSent
      <4>2. d # c
        BY <1>20, <1>19, <4>1
      <4> QED
        BY <1>2, <1>4, <1>18, <2>1, <3>1, <4>2
    <3>2. CASE HelloSent(d)' /\ ~HelloSent(d)
      <4>1. d = c /\ Reached(c) /\ m.kind = "hello.ok"
        BY <1>15, <3>2 DEF HelloSent
      <4>2. d = e /\ HelloDue(d)
        BY <1>19, <4>1
      <4>3. Blank(d) /\ down[d] = <<>> /\ up[d] = <<>>
        BY <2>1, <4>2
      <4>4. Len(down'[d]) = 1
        BY <1>5, <2>2, <4>1, <4>3
      <4> QED
        BY <1>2, <1>18, <4>3, <4>4
    <3> QED
      BY <3>1, <3>2
  <2>5. ReqSent(d)' => Blank(d)' /\ Len(up'[d]) = 1 /\ down'[d] = <<>>
    <3> SUFFICES ASSUME ReqSent(d)' PROVE Blank(d)' /\ Len(up'[d]) = 1 /\ down'[d] = <<>>
      OBVIOUS
    <3>1. ReqSent(d)
      BY <1>2 DEF ReqSent
    <3>2. Blank(d) /\ ~HelloDue(d)
      BY <2>1, <2>2, <3>1
    <3>3. d # c
      BY <1>20, <1>19, <3>2
    <3> QED
      BY <1>2, <1>4, <1>18, <2>1, <3>1, <3>3
  <2> QED
    BY <2>3, <2>4, <2>5
<1>22. DroneOrder'
  <2> SUFFICES ASSUME Counts, NEW d \in Conn, cl[Drone].conn = d
               PROVE  /\ \A k \in DOMAIN down'[d] : down'[d][k].kind \in FwdKind
                            => After(down'[d], cl[Drone].pc, k, down'[d][k].sid)
                      /\ \A f \in Conn : \A k \in DOMAIN srv'[f].due :
                            srv'[f].due[k].to = d /\ srv'[f].due[k].msg.kind \in FwdKind =>
                               After(down'[d], cl[Drone].pc, Len(down'[d]) + 1, srv'[f].due[k].msg.sid)
                      /\ \A s \in SessionID : Open(s) /\ peers[Drone] = d =>
                            \/ After(down'[d], cl[Drone].pc, Len(down'[d]) + 1, s)
                            \/ AckDue(peers[Pilot], d, s)'
    BY <1>2, <1>11 DEF DroneOrder, Ready, Counts, IsRelay, AckDue
  <2>1. /\ \A k \in DOMAIN down[d] : down[d][k].kind \in FwdKind
              => After(down[d], cl[Drone].pc, k, down[d][k].sid)
        /\ \A f \in Conn : \A k \in DOMAIN srv[f].due :
              srv[f].due[k].to = d /\ srv[f].due[k].msg.kind \in FwdKind =>
                 After(down[d], cl[Drone].pc, Len(down[d]) + 1, srv[f].due[k].msg.sid)
        /\ \A s \in SessionID : Open(s) /\ peers[Drone] = d =>
              \/ After(down[d], cl[Drone].pc, Len(down[d]) + 1, s)
              \/ AckDue(peers[Pilot], d, s)
    BY DEF SysInv, DroneOrder, Ready
\* An ack that is due stays due, or is the one written now.
  <2>2. ASSUME NEW s \in SessionID, Open(s), AckDue(peers[Pilot], d, s)
        PROVE  \/ AckDue(peers[Pilot], d, s)'
               \/ peers[Pilot] = e /\ c = d /\ IsAck(m) /\ m.sid = s
    <3>1. peers[Pilot] \in Conn
      BY <2>2, SystemAssumption DEF SysInv, SessionsOfBoth, TypeOK
    <3>2. PICK k \in DOMAIN srv[peers[Pilot]].due :
             /\ srv[peers[Pilot]].due[k].to = d /\ IsAck(srv[peers[Pilot]].due[k].msg)
             /\ srv[peers[Pilot]].due[k].msg.sid = s
      BY <2>2 DEF AckDue
    <3>3. CASE peers[Pilot] # e
      BY <1>2, <3>1, <3>2, <3>3 DEF AckDue, IsAck
    <3>4. CASE peers[Pilot] = e /\ k # 1
      BY <1>2, <3>2, <3>4 DEF AckDue, IsAck
    <3>5. CASE peers[Pilot] = e /\ k = 1
      BY <1>2, <1>3, <3>2, <3>5
    <3> QED
      BY <3>3, <3>4, <3>5
  <2>3. CASE ~(c = d /\ Reached(c))
    <3>1. down'[d] = down[d]
      BY <1>4, <2>3
    <3>2. ASSUME peers[Drone] = d PROVE c # d
      <4>1. srv[d].at = "run" /\ srv[d].id = Drone
        BY <3>2, SystemAssumption, HubAssumption DEF SysInv, Registered
      <4> QED
        BY <2>3, <4>1 DEF Reached
    <3> QED
      BY <1>6, <2>1, <2>2, <3>1, <3>2
  <2>4. CASE c = d /\ Reached(c)
    <3> DEFINE p == cl[Drone].pc
    <3>1. PICK q \in Seq(Msg) : q = down[d]
      BY DEF SysInv, TypeOK
    <3>2. PICK r \in Seq(Msg) : r = Append(q, m) /\ r = down'[d]
      BY <1>1, <1>5, <2>4, <3>1 DEF SysInv, TypeOK
    <3>3. /\ Len(q) \in Nat /\ DOMAIN q = 1 .. Len(q) /\ DOMAIN r = DOMAIN q \cup {Len(q) + 1}
          /\ \A k \in DOMAIN q : r[k] = q[k]
          /\ r[Len(q) + 1] = m
      <4>1. /\ Len(q) \in Nat /\ DOMAIN q = 1 .. Len(q)
            /\ DOMAIN Append(q, m) = DOMAIN q \cup {Len(q) + 1}
            /\ \A k \in DOMAIN q : Append(q, m)[k] = q[k]
            /\ Append(q, m)[Len(q) + 1] = m
        BY AppendFacts
      <4> QED
        BY <3>2, <4>1
    <3>4. srv[e].due[1].to = d /\ srv[e].due[1].msg = m /\ 1 \in DOMAIN srv[e].due
      BY <1>2, <1>3, <2>4
    <3>5. ASSUME NEW k \in DOMAIN r, r[k].kind \in FwdKind PROVE After(r, p, k, r[k].sid)
      <4>1. After(q, p, k, r[k].sid) /\ k \in 1 .. Len(q) + 1
        <5>1. CASE k \in DOMAIN q
          BY <2>1, <3>1, <3>3, <3>5, <5>1
        <5>2. CASE k = Len(q) + 1
          BY <2>1, <3>1, <3>3, <3>4, <3>5, <5>2
        <5> QED
          BY <3>3, <5>1, <5>2
      <4> QED
        BY <3>2, <4>1, AfterAppend
    <3>6. ASSUME IsAck(m) PROVE peers[Pilot] = e /\ srv[e].id = Pilot
      BY <2>4, <3>4, <3>6, WriterIsPilot DEF IsAck, SesKind
    <3>7. ASSUME NEW f \in Conn, NEW k \in DOMAIN srv'[f].due,
                 srv'[f].due[k].to = d, srv'[f].due[k].msg.kind \in FwdKind
          PROVE  After(r, p, Len(r) + 1, srv'[f].due[k].msg.sid)
      <4>1. f # e /\ srv'[f] = srv[f]
        BY <1>2, <1>6, <3>7
      <4>2. peers[Pilot] = f
        BY <3>7, <4>1, WriterIsPilot DEF SesKind
      <4>3. ~IsAck(m)
        BY <3>6, <4>1, <4>2
      <4>4. After(q, p, Len(q) + 1, srv'[f].due[k].msg.sid)
        BY <2>1, <3>1, <3>7, <4>1
      <4> QED
        BY <3>2, <4>3, <4>4, AfterOther
    <3>8. ASSUME NEW s \in SessionID, Open(s), peers[Drone] = d
          PROVE  After(r, p, Len(r) + 1, s) \/ AckDue(peers[Pilot], d, s)'
      <4>1. CASE IsAck(m)
        <5>1. About(e, s) /\ PilotEnd(e)
          BY <3>6, <3>8, <4>1 DEF About, PilotEnd
        <5>2. About(e, m.sid) /\ m.sid \in Sids /\ s \in Sids
          BY <3>4, <4>1 DEF About, IsAck, SesKind, Sids, Msg
        <5>3. m.sid = s
          BY <5>1, <5>2 DEF SysInv, PilotOne
        <5> QED
          BY <3>2, <4>1, <5>3, AfterAck
      <4>2. CASE ~IsAck(m)
        <5>1. After(q, p, Len(q) + 1, s) \/ AckDue(peers[Pilot], d, s)'
          BY <2>1, <2>2, <3>1, <3>8, <4>2
        <5> QED
          BY <3>2, <4>2, <5>1, AfterOther
      <4> QED
        BY <4>1, <4>2
    <3> QED
      BY <3>2, <3>5, <3>7, <3>8
  <2> QED
    BY <2>3, <2>4
<1> QED
  BY <1>7, <1>8, <1>9, <1>10, <1>12, <1>13, <1>17, <1>21, <1>22 DEF SysInv

-----------------------------------------------------------------------------
(***************************************************************************)
(* A message is handled.                                                   *)
(***************************************************************************)
LEMMA ReceiveKeeps ==
    ASSUME SysInv, NEW i \in PeerID, Recv(i)
    PROVE  SysInv'
<1>1. TypeOK /\ ClientsPlaced
  BY DEF SysInv
<1>2. PICK c \in Conn : c = cl[i].conn /\ down[c] # <<>> /\ cl[i].at = "in"
  BY <1>1, RecvDoes
<1>3. PICK q \in Seq(Msg) : q = down[c] /\ q # <<>>
  BY <1>2 DEF SysInv, TypeOK
<1>4. PICK m \in Msg : m = Head(q) /\ m = q[1] /\ m.sid \in Sids
  <2>1. Head(q) \in Msg /\ Head(q) = q[1]
    BY <1>3, TailFacts
  <2> QED
    BY <2>1 DEF Msg, Sids
<1>5. PICK new, out : RecvEffect(i, m, new, out) /\ Received(i, new, out)
  BY <1>1, <1>2, <1>3, <1>4, RecvDoes
<1>6. /\ new \in Client /\ new.at = "in" /\ new.conn = c
      /\ out \in Seq(Frame) /\ Len(out) <= 1
      /\ \A k \in DOMAIN out :
            out[k].kind = "session.req" => m.kind = "hello.ok" /\ i = Pilot /\ out[k].peer = Drone
      /\ m.kind = "hello.ok" => new = cl[i]
      /\ IsAck(m) => \/ new.pc = m.sid
                     \/ new.pc = NoSid /\ i = Drone
                     \/ new.pc = cl[i].pc /\ (i = Pilot \/ ~Counts')
      /\ ~IsAck(m) => new.pc \in {cl[i].pc, NoSid}
      /\ \/ new.applied = cl[i].applied
         \/ /\ m.kind \in FwdKind /\ cl[i].pc # NoSid
            /\ new.applied = cl[i].applied \cup {<<cl[i].pc, m.sid>>}
  BY <1>2, <1>5 DEF RecvEffect
<1>7. /\ cl' = [cl EXCEPT ![i] = new] /\ down' = [down EXCEPT ![c] = Tail(@)]
      /\ up' = ToServer(c, out)
      /\ UNCHANGED <<prog, srv, peers, sessions>>
  BY <1>2, <1>5 DEF Received
<1>8. faults' \in Nat /\ (faults' = 0 => faults = 0)
  BY <1>1, RecvDoes
<1>9. PICK r \in Seq(Msg) : r = Tail(q)
  BY <1>3, TailFacts
<1>10. /\ Len(r) = Len(q) - 1 /\ DOMAIN q = 1 .. Len(q) /\ DOMAIN r = 1 .. (Len(q) - 1)
       /\ Len(q) \in Nat \ {0} /\ 1 \in DOMAIN q
       /\ \A k \in DOMAIN r : k + 1 \in DOMAIN q /\ r[k] = q[k + 1]
  BY <1>3, <1>9, TailFacts
<1>11. /\ down'[c] = r /\ \A d \in Conn \ {c} : down'[d] = down[d]
       /\ down' \in [Conn -> Seq(Msg)]
  BY <1>3, <1>7, <1>9 DEF SysInv, TypeOK
<1>12. /\ cl'[i] = new /\ \A j \in PeerID \ {i} : cl'[j] = cl[j]
       /\ cl' \in [PeerID -> Client]
       /\ \A j \in PeerID : cl'[j].conn = cl[j].conn /\ cl'[j].at = cl[j].at
  BY <1>2, <1>6, <1>7 DEF SysInv, TypeOK
<1>13. /\ up' \in [Conn -> Seq(Frame)]
       /\ \A d \in Conn : up'[d] = IF d = c /\ srv[c].at # "over" THEN up[c] \o out ELSE up[d]
  BY <1>1, <1>6, <1>7, ToServerFacts
<1>14. ASSUME NEW d \in Conn, NEW k \in DOMAIN up'[d]
       PROVE  \/ k \in DOMAIN up[d] /\ up'[d][k] = up[d][k]
              \/ d = c /\ srv[c].at # "over" /\ \E j \in DOMAIN out : up'[d][k] = out[j]
  <2>1. CASE d = c /\ srv[c].at # "over"
    <3>1. PICK u \in Seq(Frame) : u = up[c]
      BY DEF SysInv, TypeOK
    <3>2. up'[d] = u \o out
      BY <1>13, <2>1, <3>1
    <3>3. \A n \in DOMAIN (u \o out) : \/ n \in DOMAIN u /\ (u \o out)[n] = u[n]
                                       \/ \E j \in DOMAIN out : (u \o out)[n] = out[j]
      BY <1>6, <3>1
    <3> QED
      BY <1>14, <2>1, <3>1, <3>2, <3>3
  <2>2. CASE ~(d = c /\ srv[c].at # "over")
    BY <1>13, <2>2
  <2> QED
    BY <2>1, <2>2
<1>15. \A s : Open(s)' <=> Open(s)
  BY <1>7 DEF Open
<1>16. \A d \in Conn : PilotEnd(d)' <=> PilotEnd(d)
  BY <1>7, <1>12, SystemAssumption DEF PilotEnd
<1>17. TypeOK'
  BY <1>7, <1>8, <1>11, <1>12, <1>13 DEF SysInv, TypeOK
<1>18. ClientsPlaced'
  BY <1>2, <1>6, <1>12, SystemAssumption DEF SysInv, ClientsPlaced
<1>19. EndsAgree'
  <2>1. ASSUME NEW d \in Conn
        PROVE  /\ \A j \in PeerID : cl'[j].conn = d /\ srv[d].at # "over" => srv[d].id = j
               /\ down'[d] # <<>> => \E j \in PeerID : cl'[j].conn = d
               /\ up'[d] # <<>> => srv[d].at # "over"
    <3>1. down'[d] # <<>> => \E j \in PeerID : cl[j].conn = d
      BY <1>2, <1>11 DEF SysInv, EndsAgree
    <3>2. up'[d] # <<>> => srv[d].at # "over"
      BY <1>13 DEF SysInv, EndsAgree
    <3> QED
      BY <1>12, <3>1, <3>2 DEF SysInv, EndsAgree
  <2> QED
    BY <1>7, <2>1 DEF SysInv, EndsAgree
<1>20. Registered' /\ SessionsOfBoth'
  BY <1>7, <1>15 DEF SysInv, Registered, SessionsOfBoth
<1>21. DueShape'
  BY <1>7, <1>12, SystemAssumption DEF SysInv, DueShape
<1>22. ReqsOfPilot'
  <2>1. srv[c].at # "over" => srv[c].id = i
    BY <1>2 DEF SysInv, EndsAgree
  <2>2. ASSUME NEW d \in Conn, NEW k \in DOMAIN up'[d], up'[d][k].kind = "session.req"
        PROVE  srv[d].id = Pilot /\ up'[d][k].peer = Drone
    BY <1>6, <1>14, <2>1, <2>2 DEF SysInv, ReqsOfPilot
  <2> QED
    BY <1>7, <2>2 DEF ReqsOfPilot
<1>23. ASSUME NEW d \in Conn, NEW s \in Sids, About(d, s)' PROVE About(d, s)
  <2>1. ASSUME NEW k \in DOMAIN down'[d], down'[d][k].kind \in SesKind, down'[d][k].sid = s
        PROVE  About(d, s)
    <3>1. \E j \in DOMAIN down[d] : down'[d][k] = down[d][j]
      BY <1>3, <1>10, <1>11
    <3> QED
      BY <2>1, <3>1 DEF About
  <2>2. ASSUME cl'[Pilot].conn = d, cl'[Pilot].pc = s, s # NoSid
        PROVE  About(d, s)
    <3>1. CASE i = Pilot
      <4>1. d = c
        BY <1>6, <1>12, <2>2, <3>1
      <4>2. CASE IsAck(m) /\ m.sid = s
        BY <1>3, <1>4, <1>10, <4>1, <4>2 DEF About, IsAck, SesKind
      <4>3. CASE cl[Pilot].pc = s
        BY <1>2, <2>2, <3>1, <4>1, <4>3 DEF About
      <4> QED
        BY <1>6, <1>12, <2>2, <3>1, <4>2, <4>3, SystemAssumption
    <3>2. CASE i # Pilot
      BY <1>12, <2>2, <3>2, SystemAssumption DEF About
    <3> QED
      BY <3>1, <3>2
  <2> QED
    BY <1>7, <1>15, <1>23, <2>1, <2>2 DEF About
<1>24. PilotOne'
  BY <1>16, <1>23 DEF SysInv, PilotOne
<1>25. ASSUME NEW d \in Conn, Blank(d), d # c \/ m.kind = "hello.ok" PROVE Blank(d)'
  <2>1. cl'[Pilot].conn = d => cl[Pilot].conn = d /\ cl'[Pilot].live = cl[Pilot].live
    BY <1>2, <1>6, <1>12, <1>25, SystemAssumption
  <2> QED
    BY <1>7, <1>23, <1>25, <2>1 DEF Blank
<1>26. Tokens'
  <2> SUFFICES ASSUME NEW d \in Conn, PilotEnd(d)
               PROVE  /\ srv[d].at = "hello" \/ HelloDue(d) =>
                            Blank(d)' /\ down'[d] = <<>> /\ up'[d] = <<>>
                      /\ HelloSent(d)' => Blank(d)' /\ Len(down'[d]) = 1 /\ up'[d] = <<>>
                      /\ ReqSent(d)' => Blank(d)' /\ Len(up'[d]) = 1 /\ down'[d] = <<>>
    BY <1>7, <1>16 DEF Tokens, HelloDue
  <2>1. /\ srv[d].at = "hello" \/ HelloDue(d) => Blank(d) /\ down[d] = <<>> /\ up[d] = <<>>
        /\ HelloSent(d) => Blank(d) /\ Len(down[d]) = 1 /\ up[d] = <<>>
        /\ ReqSent(d) => Blank(d) /\ Len(up[d]) = 1 /\ down[d] = <<>>
    BY DEF SysInv, Tokens
  <2>2. CASE d # c
    <3>1. down'[d] = down[d] /\ up'[d] = up[d]
      BY <1>11, <1>13, <2>2
    <3>2. (HelloSent(d)' <=> HelloSent(d)) /\ (ReqSent(d)' <=> ReqSent(d))
      BY <3>1 DEF HelloSent, ReqSent
    <3> QED
      BY <1>25, <2>1, <2>2, <3>1, <3>2
  <2>3. CASE d = c
    <3>1. srv[d].at # "hello" /\ ~HelloDue(d) /\ ~ReqSent(d)
      BY <1>2, <2>1, <2>3
    <3>2. ~HelloSent(d)'
      <4> SUFFICES ASSUME HelloSent(d)' PROVE FALSE
        OBVIOUS
      <4>1. PICK k \in DOMAIN r : r[k].kind = "hello.ok"
        BY <1>11, <2>3 DEF HelloSent
      <4>2. HelloSent(d)
        BY <1>3, <1>10, <2>3, <4>1 DEF HelloSent
      <4>3. Len(q) = 1
        BY <1>3, <2>1, <2>3, <4>2
      <4> QED
        BY <1>10, <4>1, <4>3
    <3>3. ASSUME ReqSent(d)' PROVE Blank(d)' /\ Len(up'[d]) = 1 /\ down'[d] = <<>>
      <4>1. PICK k \in DOMAIN up'[d] : up'[d][k].kind = "session.req"
        BY <3>3 DEF ReqSent
      <4>2. ~(k \in DOMAIN up[d] /\ up'[d][k] = up[d][k])
        BY <3>1, <4>1 DEF ReqSent
      <4>3. srv[c].at # "over" /\ m.kind = "hello.ok" /\ DOMAIN out # {}
        BY <1>6, <1>14, <4>1, <4>2
      <4>4. HelloSent(d)
        BY <1>3, <1>4, <1>10, <2>3, <4>3 DEF HelloSent
      <4>5. Blank(d) /\ Len(q) = 1 /\ up[c] = <<>>
        BY <1>3, <2>1, <2>3, <4>4
      <4>6. down'[d] = <<>>
        BY <1>9, <1>10, <1>11, <2>3, <4>5
      <4>7. Len(up'[d]) = 1
        <5>1. up'[d] = <<>> \o out
          BY <1>13, <2>3, <4>3, <4>5
        <5>2. <<>> \o out = out /\ Len(out) \in Nat /\ DOMAIN out = 1 .. Len(out)
          BY <1>6
        <5>3. Len(out) = 1
          BY <1>6, <4>3, <5>2
        <5> QED
          BY <5>1, <5>2, <5>3
      <4> QED
        BY <1>25, <4>3, <4>5, <4>6, <4>7
    <3> QED
      BY <3>1, <3>2, <3>3
  <2> QED
    BY <2>2, <2>3
<1>27. Counts' => Counts
  BY <1>7, <1>8 DEF Counts, IsRelay
<1>28. DroneOrder'
  <2>1. CASE i = Pilot
    <3>1. ASSUME NEW d \in Conn, cl'[Drone].conn = d
          PROVE  cl[Drone].conn = d /\ cl'[Drone].pc = cl[Drone].pc /\ down'[d] = down[d]
      <4>1. cl'[Drone] = cl[Drone] /\ d # c
        BY <1>2, <1>12, <2>1, <3>1, SystemAssumption, HubAssumption DEF SysInv, ClientsPlaced
      <4> QED
        BY <1>11, <3>1, <4>1
    <3> QED
      BY <1>7, <1>15, <1>27, <3>1, DroneOrderKept
  <2>2. CASE i = Drone
    <3> SUFFICES ASSUME Counts'
                 PROVE  /\ \A k \in DOMAIN r :
                              r[k].kind \in FwdKind => After(r, new.pc, k, r[k].sid)
                        /\ \A e \in Conn : \A k \in DOMAIN srv[e].due :
                              srv[e].due[k].to = c /\ srv[e].due[k].msg.kind \in FwdKind =>
                                 After(r, new.pc, Len(r) + 1, srv[e].due[k].msg.sid)
                        /\ \A s \in SessionID : Open(s) /\ peers[Drone] = c =>
                              After(r, new.pc, Len(r) + 1, s) \/ AckDue(peers[Pilot], c, s)
      <4>1. cl'[Drone].conn = c /\ cl'[Drone].pc = new.pc /\ down'[c] = r
        BY <1>6, <1>11, <1>12, <2>2
      <4>2. \A s : AckDue(peers[Pilot], c, s)' <=> AckDue(peers[Pilot], c, s)
        BY <1>7 DEF AckDue
      <4> QED
        BY <1>7, <1>15, <4>1, <4>2 DEF DroneOrder, Ready
    <3>1. /\ \A k \in DOMAIN q : q[k].kind \in FwdKind => After(q, cl[Drone].pc, k, q[k].sid)
          /\ \A e \in Conn : \A k \in DOMAIN srv[e].due :
                srv[e].due[k].to = c /\ srv[e].due[k].msg.kind \in FwdKind =>
                   After(q, cl[Drone].pc, Len(q) + 1, srv[e].due[k].msg.sid)
          /\ \A s \in SessionID : Open(s) /\ peers[Drone] = c =>
                After(q, cl[Drone].pc, Len(q) + 1, s) \/ AckDue(peers[Pilot], c, s)
      BY <1>2, <1>3, <1>27, <2>2 DEF SysInv, DroneOrder, Ready
    <3>2. new.pc \in {NoSid, IF IsAck(Head(q)) THEN Head(q).sid ELSE cl[Drone].pc}
      BY <1>4, <1>6, <2>2, SystemAssumption
    <3>3. ASSUME NEW k \in Nat, k > 1, NEW s, After(q, cl[Drone].pc, k, s)
          PROVE  After(r, new.pc, k - 1, s)
      BY <1>3, <1>9, <3>2, <3>3, AfterTail
    <3>4. ASSUME NEW k \in DOMAIN r, r[k].kind \in FwdKind PROVE After(r, new.pc, k, r[k].sid)
      <4>1. k + 1 \in DOMAIN q /\ q[k + 1] = r[k] /\ k + 1 \in Nat /\ k + 1 > 1 /\ (k + 1) - 1 = k
        BY <1>10
      <4>2. After(q, cl[Drone].pc, k + 1, r[k].sid)
        BY <3>1, <3>4, <4>1
      <4>3. After(r, new.pc, (k + 1) - 1, r[k].sid)
        BY <3>3, <4>1, <4>2
      <4> QED
        BY <4>1, <4>3
    <3>5. ASSUME NEW s, After(q, cl[Drone].pc, Len(q) + 1, s) PROVE After(r, new.pc, Len(r) + 1, s)
      <4>1. Len(q) + 1 \in Nat /\ Len(q) + 1 > 1 /\ (Len(q) + 1) - 1 = Len(r) + 1
        BY <1>10
      <4>2. After(r, new.pc, (Len(q) + 1) - 1, s)
        BY <3>3, <3>5, <4>1
      <4> QED
        BY <4>1, <4>2
    <3> QED
      BY <3>1, <3>4, <3>5
  <2> QED
    BY <2>1, <2>2, SystemAssumption
\* What is applied is of the session of the PeerConnection it is applied to.
<1>29. NoMixedSessions'
  <2>1. ASSUME m.kind \in FwdKind, cl[i].pc # NoSid, i = Pilot \/ Counts
        PROVE  cl[i].pc = m.sid
    <3>1. cl[i].pc \in Sids
      BY DEF SysInv, TypeOK, Client
    <3>2. CASE i = Pilot
      <4>1. About(c, cl[i].pc) /\ PilotEnd(c)
        BY <1>2, <2>1, <3>2 DEF About, PilotEnd
      <4>2. About(c, m.sid)
        BY <1>3, <1>4, <1>10, <2>1 DEF About, SesKind
      <4> QED
        BY <1>4, <3>1, <4>1, <4>2 DEF SysInv, PilotOne
    <3>3. CASE i = Drone /\ Counts
      <4>1. After(q, cl[i].pc, 1, m.sid)
        BY <1>2, <1>3, <1>4, <1>10, <2>1, <3>3 DEF SysInv, DroneOrder
      <4>2. \A j \in DOMAIN q : ~(j < 1)
        BY <1>10
      <4> QED
        BY <2>1, <4>1, <4>2 DEF After
    <3> QED
      BY <2>1, <3>2, <3>3, SystemAssumption
  <2> SUFFICES ASSUME NEW j \in PeerID, (j = Pilot \/ IsRelay(j) \/ faults' = 0), NEW x \in cl'[j].applied
               PROVE  x[1] = x[2]
    BY <1>7 DEF NoMixedSessions, IsRelay
  <2>2. j = Pilot \/ Counts
    BY <1>8 DEF Counts, IsRelay
  <2>3. CASE x \in cl[j].applied
    BY <1>8, <2>3 DEF SysInv, NoMixedSessions
  <2>4. CASE x \notin cl[j].applied
    <3>1. j = i /\ m.kind \in FwdKind /\ cl[i].pc # NoSid /\ x = <<cl[i].pc, m.sid>>
      BY <1>6, <1>12, <2>4
    <3> QED
      BY <2>1, <2>2, <3>1
  <2> QED
    BY <2>3, <2>4
<1> QED
  BY <1>17, <1>18, <1>19, <1>20, <1>21, <1>22, <1>24, <1>26, <1>28, <1>29 DEF SysInv

-----------------------------------------------------------------------------
(***************************************************************************)
(* Every step.                                                             *)
(***************************************************************************)
\* A path that fails, or nothing.
LEMMA IdleKeeps ==
    ASSUME SysInv, Idle
    PROVE  SysInv'
<1>1. /\ UNCHANGED <<prog, cl, srv, up, down, peers, sessions>>
      /\ faults' \in Nat /\ (faults' = 0 => faults = 0)
  BY DEF Idle
<1>2. Counts' => Counts
  BY <1>1 DEF Counts, IsRelay
<1>3. \A s : Open(s)' <=> Open(s)
  BY <1>1 DEF Open
<1>4. TypeOK' /\ ClientsPlaced' /\ EndsAgree' /\ Registered' /\ DueShape' /\ ReqsOfPilot'
      /\ SessionsOfBoth' /\ NoMixedSessions'
  BY <1>1, <1>3 DEF SysInv, TypeOK, ClientsPlaced, EndsAgree, Registered, DueShape, ReqsOfPilot,
                    SessionsOfBoth, NoMixedSessions, IsRelay
<1>5. \A c \in Conn : (PilotEnd(c)' <=> PilotEnd(c)) /\ \A s : About(c, s)' <=> About(c, s)
  BY <1>1, <1>3 DEF PilotEnd, About
<1>6. \A c \in Conn : Blank(c)' <=> Blank(c)
  BY <1>1, <1>5 DEF Blank
<1>7. PilotOne' /\ Tokens'
  BY <1>1, <1>5, <1>6 DEF SysInv, PilotOne, Tokens, HelloDue, HelloSent, ReqSent
<1>8. DroneOrder'
  BY <1>1, <1>2, <1>3, DroneOrderKept
<1> QED
  BY <1>4, <1>7, <1>8 DEF SysInv

LEMMA StepSysInv == SysInv /\ [Next]_vars => SysInv'
<1> SUFFICES ASSUME SysInv, [Next]_vars PROVE SysInv'
  OBVIOUS
<1>1. ASSUME NEW c \in Conn, Server(c) PROVE SysInv'
  <2>1. CASE HelloOK(c)
    BY <2>1, GreetsKeeps
  <2>2. CASE HelloRefused(c) \/ ConnEnds(c)
    BY <2>2, HandlerEndsForm, HandlerEndsKeeps
  <2>3. CASE Dispatch(c)
    BY <2>3, DispatchForm, ForwardsKeeps, OpensKeeps
  <2>4. CASE SendNext(c)
    BY <2>4, SendKeeps
  <2> QED
    BY <1>1, <2>1, <2>2, <2>3, <2>4 DEF Server
<1>2. ASSUME NEW c \in Conn, PathBreaks(c) PROVE SysInv'
  <2>1. Idle
    BY <1>2 DEF PathBreaks, Fault, Idle, hubVars, SysInv, TypeOK
  <2> QED
    BY <2>1, IdleKeeps
<1>3. CASE ServerRestarts
  BY <1>3, RestartsKeeps
<1>4. ASSUME NEW i \in PeerID,
             \/ UserStarts(i) \/ Connect(i) \/ ConnectFails(i) \/ LoopEnds(i) \/ Recv(i)
             \/ \E s \in SessionID : OnICECandidate(i, s)
      PROVE  SysInv'
  <2>1. CASE UserStarts(i) \/ ConnectFails(i) \/ LoopEnds(i)
    BY <2>1, LeavesForm, LeavesKeeps
  <2>2. CASE Connect(i)
    BY <2>2, ConnectKeeps
  <2>3. CASE Recv(i)
    BY <2>3, ReceiveKeeps
  <2>4. CASE \E s \in SessionID : OnICECandidate(i, s)
    BY <2>4, CandidateKeeps
  <2> QED
    BY <1>4, <2>1, <2>2, <2>3, <2>4
<1>5. CASE UNCHANGED vars
  <2>1. Idle
    BY <1>5 DEF vars, net, hubVars, Idle, SysInv, TypeOK
  <2> QED
    BY <2>1, IdleKeeps
<1> QED
  BY <1>1, <1>2, <1>3, <1>4, <1>5 DEF Next

\* The two clients, the connections and the registry stay in step, and what concerns
\* the sessions reaches each client in an order that keeps them apart (hub.go, ws.go,
\* cmd/relay/main.go runWSLoop, cmd/testpeer/main.go).
THEOREM SysInvariance == Spec => []SysInv
<1>1. Init => SysInv
  BY InitSysInv
<1>2. SysInv /\ [Next]_vars => SysInv'
  BY StepSysInv
<1> QED
  BY <1>1, <1>2, PTL DEF Spec

\* No description or candidate of one session is applied to the PeerConnection of
\* another, although no client compares session ids (hub.go OtherPeer, cmd/relay/main.go
\* runWSLoop and handlePeerSDP, cmd/testpeer/main.go).
THEOREM NoMixing == Spec => []NoMixedSessions
<1>1. SysInv => NoMixedSessions
  BY DEF SysInv
<1> QED
  BY <1>1, SysInvariance, PTL
=============================================================================
