----------------------- MODULE SignalDeliveryProofs -----------------------
(***************************************************************************)
(* Proofs about what the signaling server delivers, for every set of       *)
(* connections, peers and sessions and every queue size: who receives what *)
(* concerns a session, that acks and notices are not lost on a connection  *)
(* that stays healthy, that no notice comes twice, and that a session's    *)
(* ack comes first.                                                        *)
(*                                                                         *)
(* A message passes through the hands of three goroutines: the dispatch or *)
(* the Unregister that decides on it under the hub's lock and has it "due" *)
(* afterwards, the channel, and the write loop.  The inductive invariant   *)
(* DInv follows it along the way; the parts beside the five properties are *)
(* stated first, each with what it is for.                                 *)
(***************************************************************************)
EXTENDS SignalProofs, SequenceTheorems

\* c and d are the two ends of the session s (which may be one connection).
Ends(s, c, d) ==
    \/ c = hist[s].ini /\ d = hist[s].tgt
    \/ c = hist[s].tgt /\ d = hist[s].ini

\* The two Sends with which the dispatch of a session.req announces the session s.
AckIni(s) == [to |-> hist[s].ini, msg |-> SessionAckMsg(s, id[hist[s].tgt])]
AckTgt(s) == [to |-> hist[s].tgt, msg |-> SessionAckMsg(s, id[hist[s].ini])]

\* Neither of them has been made; the second has not been made.
BothDue(s) == out[hist[s].ini] = <<AckIni(s), AckTgt(s)>>
LastDue(s) == BothDue(s) \/ out[hist[s].ini] = <<AckTgt(s)>>

\* The Unregister of d, or its dispatch of a bye, has yet to send the peer.gone of s.
GoneDue(d, s) ==
    \/ \E k \in DOMAIN out[d] : out[d][k].msg = PeerGoneMsg(s)
    \/ \E n \in notify[d] : n.sid = s

-----------------------------------------------------------------------------
\* What the goroutines hold only while they are at the point that needs it, and a
\* connection that has not said hello was sent nothing.
HeldInPlace ==
    \A c \in Conn :
        /\ reader[c] # "send" => out[c] = <<>>
        /\ phase[c] # "notify" => notify[c] = {}
        /\ writer[c] # "write" => inflight[c] = <<>>
        /\ phase[c] = "new" => recv[c] = <<>> /\ inflight[c] = <<>> /\ send[c] = <<>>

\* The ends of a session have said their hello, so that their ids are settled.
EndsSettled ==
    \A s \in Minted : phase[hist[s].ini] # "new" /\ phase[hist[s].tgt] # "new"

\* What a dispatch has still to send: an answer to its own client, what is left of the
\* two acks, or one message to the other end of a session whose first ack is out.
DueAnswer(c) == \E m \in Msg : m.sid = NoSid /\ out[c] = <<[to |-> c, msg |-> m]>>
DueAcks(c)   == \E s \in Minted : c = hist[s].ini /\ LastDue(s)
DueRelay(c)  ==
    \E s \in Minted, d \in Conn, m \in Msg :
        /\ out[c] = <<[to |-> d, msg |-> m]>>
        /\ Ends(s, c, d) /\ ~BothDue(s)
        /\ m.sid = s /\ m.kind \in {"peer.sdp", "peer.ice", "peer.gone"}
        /\ m.kind = "peer.gone" \/ m.peer = id[c]
OutShapeAt(c) == out[c] = <<>> \/ DueAnswer(c) \/ DueAcks(c) \/ DueRelay(c)

OutShape == \A c \in Conn : OutShapeAt(c)

\* Notices go from one end of a session to the other.
NoticeShape ==
    \A c \in Conn : \A n \in notify[c] : n.sid \in Minted /\ Ends(n.sid, c, n.to)

\* A session that a client names, or was told of, has its first ack sent.
FirstAckSent ==
    /\ \A c \in Conn : reader[c] = "dispatch" /\ frame[c].sid # NoSid =>
          frame[c].sid \in Minted /\ ~BothDue(frame[c].sid)
    /\ \A c \in Conn : \A k \in DOMAIN Stream(c) :
          Stream(c)[k].kind = "session.ack" /\ Stream(c)[k].sid # NoSid =>
              ~BothDue(Stream(c)[k].sid)

\* AckNotLost for every session ever opened, with the place where an ack is due.
AcksKept ==
    \A s \in Minted :
        /\ Healthy(hist[s].ini) => Queued(hist[s].ini, AckIni(s).msg) \/ BothDue(s)
        /\ Healthy(hist[s].tgt) => Queued(hist[s].tgt, AckTgt(s).msg) \/ LastDue(s)

\* The peer.gone of a session is nowhere while the session is open; afterwards it is
\* due at one place, or in the streams, there once.
GoneUnique ==
    \A s \in SessionID :
        /\ \A d \in Conn : GoneDue(d, s) =>
              /\ ~Open(s)
              /\ \A e \in Conn : ~Queued(e, PeerGoneMsg(s)) /\ (GoneDue(e, s) => e = d)
        /\ \A c \in Conn : Queued(c, PeerGoneMsg(s)) => ~Open(s)
        /\ \A c \in Conn : \A j, k \in DOMAIN Stream(c) :
              Stream(c)[j] = PeerGoneMsg(s) /\ Stream(c)[k] = PeerGoneMsg(s) => j = k

\* When an end of the session ended it, the other end is told.
OtherEndTold ==
    \A s \in Minted : ~Open(s) /\ hist[s].by \in {hist[s].ini, hist[s].tgt} =>
        \A c \in {hist[s].ini, hist[s].tgt} \ {hist[s].by} :
            Healthy(c) => Queued(c, PeerGoneMsg(s)) \/ Due(c, PeerGoneMsg(s))

\* Where clients name only sessions of their own, only members end sessions.
EndedByEnds ==
    ~ForeignSids =>
        /\ \A s \in Minted : Open(s) \/ hist[s].by \in {hist[s].ini, hist[s].tgt}
        /\ \A c \in Conn : reader[c] = "dispatch" /\ frame[c].sid # NoSid =>
              id[c] \in {id[hist[frame[c].sid].ini], id[hist[frame[c].sid].tgt]}

DInv ==
    /\ IInv
    /\ HeldInPlace /\ EndsSettled
    /\ OutShape /\ NoticeShape /\ RoutedWithinSession
    /\ FirstAckSent /\ AcksKept /\ AckFirst
    /\ GoneUnique /\ OtherEndTold /\ EndedByEnds

-----------------------------------------------------------------------------
(***************************************************************************)
(* Streams.  A step keeps the stream of a connection, adds a message to    *)
(* it, or loses messages of a connection that is not healthy afterwards.   *)
(***************************************************************************)
Kept(d)      == Stream(d)' = Stream(d)
Pushed(d, m) == Stream(d)' = Append(Stream(d), m)
Lost(d) ==
    /\ ~Healthy(d)'
    /\ \E g \in [DOMAIN Stream(d)' -> DOMAIN Stream(d)] :
          /\ \A k \in DOMAIN Stream(d)' : Stream(d)'[k] = Stream(d)[g[k]]
          /\ \A j, k \in DOMAIN Stream(d)' : g[j] = g[k] => j = k

\* What a step does to d: it may push m, and it makes no connection healthy.
Effect(d, m) ==
    /\ Kept(d) \/ Pushed(d, m) \/ Lost(d)
    /\ Healthy(d)' => Healthy(d)

LEMMA StreamType ==
    ASSUME TypeOK, NEW c \in Conn
    PROVE  /\ recv[c] \in Seq(Msg) /\ inflight[c] \in Seq(Msg) /\ send[c] \in Seq(Msg)
           /\ recv[c] \o inflight[c] \in Seq(Msg)
           /\ Stream(c) \in Seq(Msg)
           /\ DOMAIN Stream(c) = 1 .. Len(Stream(c)) /\ Len(Stream(c)) \in Nat
           /\ \A k \in DOMAIN Stream(c) : Stream(c)[k] \in Msg
<1>1. recv[c] \in Seq(Msg) /\ inflight[c] \in Seq(Msg) /\ send[c] \in Seq(Msg)
  BY DEF TypeOK
<1>2. recv[c] \o inflight[c] \in Seq(Msg)
  BY <1>1, ConcatProperties
<1>3. Stream(c) \in Seq(Msg)
  BY <1>1, <1>2, ConcatProperties DEF Stream
<1> QED
  BY <1>1, <1>2, <1>3, LenProperties, ElementOfSeq

\* Appending to the channel appends to the stream.
LEMMA CatAppend ==
    ASSUME NEW S, NEW a \in Seq(S), NEW b \in Seq(S), NEW m \in S
    PROVE  a \o Append(b, m) = Append(a \o b, m)
<1>1. <<m>> \in Seq(S) /\ a \o b \in Seq(S)
  BY ConcatProperties
<1>2. Append(b, m) = b \o <<m>> /\ Append(a \o b, m) = (a \o b) \o <<m>>
  BY <1>1, AppendIsConcat
<1> QED
  BY <1>1, <1>2, ConcatAssociative

\* Taking the head of the channel in hand leaves the stream alone.
LEMMA CatHeadTail ==
    ASSUME NEW S, NEW a \in Seq(S), NEW b \in Seq(S), b # <<>>
    PROVE  (a \o <<>>) \o b = (a \o <<Head(b)>>) \o Tail(b)
<1>1. Head(b) \in S /\ Tail(b) \in Seq(S) /\ Len(Tail(b)) = Len(b) - 1
      /\ \A i \in 1 .. Len(Tail(b)) : Tail(b)[i] = b[i + 1]
  BY HeadTailProperties
<1>2. <<Head(b)>> \in Seq(S) /\ Len(<<Head(b)>>) = 1 /\ <<Head(b)>>[1] = b[1]
  BY <1>1
<1> DEFINE c == <<Head(b)>> \o Tail(b)
<1>3. /\ c \in Seq(S) /\ Len(c) = 1 + Len(Tail(b))
      /\ \A i \in 1 .. 1 + Len(Tail(b)) : c[i] =
            IF i <= 1 THEN <<Head(b)>>[i] ELSE Tail(b)[i - 1]
  BY <1>1, <1>2, ConcatProperties
<1>4. Len(b) \in Nat /\ Len(b) = 1 + Len(Tail(b))
  BY <1>1
<1>5. \A i \in 1 .. Len(b) : c[i] = b[i]
  <2> HIDE DEF c
  <2> QED
    BY <1>1, <1>2, <1>3, <1>4
<1>6. c = b
  <2> HIDE DEF c
  <2> QED
    BY <1>3, <1>4, <1>5, SeqEqual
<1>7. a \o <<>> = a
  BY ConcatEmptySeq
<1>8. (a \o <<Head(b)>>) \o Tail(b) = a \o c
  BY <1>1, <1>2, ConcatAssociative
<1> QED
  BY <1>6, <1>7, <1>8

LEMMA PushedFacts ==
    ASSUME TypeOK, NEW d \in Conn, NEW m \in Msg, Pushed(d, m)
    PROVE  /\ DOMAIN Stream(d)' = DOMAIN Stream(d) \cup {Len(Stream(d)) + 1}
           /\ Len(Stream(d)) + 1 \notin DOMAIN Stream(d)
           /\ \A k \in DOMAIN Stream(d) : Stream(d)'[k] = Stream(d)[k]
           /\ Stream(d)'[Len(Stream(d)) + 1] = m
<1>1. Stream(d) \in Seq(Msg) /\ DOMAIN Stream(d) = 1 .. Len(Stream(d)) /\ Len(Stream(d)) \in Nat
  BY StreamType
<1>2. /\ Append(Stream(d), m) \in Seq(Msg)
      /\ Len(Append(Stream(d), m)) = Len(Stream(d)) + 1
      /\ \A k \in 1 .. Len(Stream(d)) : Append(Stream(d), m)[k] = Stream(d)[k]
      /\ Append(Stream(d), m)[Len(Stream(d)) + 1] = m
  BY <1>1, AppendProperties
<1>3. DOMAIN Append(Stream(d), m) = 1 .. Len(Stream(d)) + 1
  BY <1>2, LenProperties
<1>4. \A n \in Nat : 1 .. n + 1 = (1 .. n) \cup {n + 1} /\ n + 1 \notin 1 .. n
  OBVIOUS
<1> QED
  BY <1>1, <1>2, <1>3, <1>4 DEF Pushed

\* Nothing comes into a stream but what is pushed.
LEMMA NothingElse ==
    ASSUME TypeOK, NEW d \in Conn, NEW m \in Msg, Effect(d, m)
    PROVE  \A k \in DOMAIN Stream(d)' :
              \/ \E j \in DOMAIN Stream(d) : Stream(d)'[k] = Stream(d)[j]
              \/ Stream(d)'[k] = m /\ Pushed(d, m)
<1>1. CASE Kept(d)
  BY <1>1 DEF Kept
<1>2. CASE Pushed(d, m)
  BY <1>2, PushedFacts
<1>3. CASE Lost(d)
  BY <1>3 DEF Lost
<1> QED
  BY <1>1, <1>2, <1>3 DEF Effect

\* Nothing is lost on a connection that is healthy afterwards.
LEMMA NothingLost ==
    ASSUME TypeOK, NEW d \in Conn, NEW m \in Msg, Effect(d, m), Healthy(d)'
    PROVE  /\ Healthy(d)
           /\ \A k \in DOMAIN Stream(d) : k \in DOMAIN Stream(d)' /\ Stream(d)'[k] = Stream(d)[k]
           /\ \A x : Queued(d, x) => Queued(d, x)'
<1>1. Healthy(d) /\ (Kept(d) \/ Pushed(d, m))
  BY DEF Effect, Lost
<1>2. \A k \in DOMAIN Stream(d) : k \in DOMAIN Stream(d)' /\ Stream(d)'[k] = Stream(d)[k]
  <2>1. CASE Kept(d)
    BY <2>1 DEF Kept
  <2>2. CASE Pushed(d, m)
    BY <2>2, PushedFacts
  <2> QED
    BY <1>1, <2>1, <2>2
<1> QED
  BY <1>1, <1>2 DEF Queued

\* What was there at most once still is, unless it was there and is pushed.
LEMMA StaysUnique ==
    ASSUME TypeOK, NEW d \in Conn, NEW m \in Msg, NEW x, Effect(d, m),
           \A j, k \in DOMAIN Stream(d) : Stream(d)[j] = x /\ Stream(d)[k] = x => j = k,
           Pushed(d, m) /\ x = m => ~Queued(d, x)
    PROVE  \A j, k \in DOMAIN Stream(d)' : Stream(d)'[j] = x /\ Stream(d)'[k] = x => j = k
<1>1. CASE Kept(d)
  BY <1>1 DEF Kept
<1>2. CASE Pushed(d, m)
  <2> DEFINE n == Len(Stream(d)) + 1
  <2>1. /\ DOMAIN Stream(d)' = DOMAIN Stream(d) \cup {n} /\ n \notin DOMAIN Stream(d)
        /\ \A k \in DOMAIN Stream(d) : Stream(d)'[k] = Stream(d)[k]
        /\ Stream(d)'[n] = m
    BY <1>2, PushedFacts
  <2>2. x = m => \A k \in DOMAIN Stream(d) : Stream(d)[k] # x
    BY <1>2 DEF Queued
  <2> HIDE DEF n
  <2> SUFFICES ASSUME NEW j \in DOMAIN Stream(d)', NEW k \in DOMAIN Stream(d)',
                      Stream(d)'[j] = x, Stream(d)'[k] = x
               PROVE  j = k
    OBVIOUS
  <2>3. CASE j = n \/ k = n
    BY <2>1, <2>2, <2>3
  <2>4. CASE j # n /\ k # n
    BY <2>1, <2>4
  <2> QED
    BY <2>3, <2>4
<1>3. CASE Lost(d)
  <2>1. PICK g \in [DOMAIN Stream(d)' -> DOMAIN Stream(d)] :
            /\ \A k \in DOMAIN Stream(d)' : Stream(d)'[k] = Stream(d)[g[k]]
            /\ \A j, k \in DOMAIN Stream(d)' : g[j] = g[k] => j = k
    BY <1>3 DEF Lost
  <2>2. \A k \in DOMAIN Stream(d)' : g[k] \in DOMAIN Stream(d)
    BY <2>1
  <2> QED
    BY <2>1, <2>2
<1> QED
  BY <1>1, <1>2, <1>3 DEF Effect

\* The ack still leads when a message of the session is pushed only behind its ack.
LEMMA StillLeads ==
    ASSUME TypeOK, NEW d \in Conn, NEW m \in Msg, NEW s, NEW except, Effect(d, m), Healthy(d)',
           AckLeads(d, s, except),
           Pushed(d, m) /\ m.sid = s /\ m.kind \notin except \cup {"session.ack"} =>
               \E j \in DOMAIN Stream(d) : Stream(d)[j].sid = s /\ Stream(d)[j].kind = "session.ack"
    PROVE  AckLeads(d, s, except)'
<1> SUFFICES ASSUME NEW k \in DOMAIN Stream(d)',
                    Stream(d)'[k].sid = s, Stream(d)'[k].kind \notin except
             PROVE  \E j \in 1 .. k : Stream(d)'[j].sid = s /\ Stream(d)'[j].kind = "session.ack"
  BY DEF AckLeads
<1>1. \A i \in DOMAIN Stream(d) : i \in DOMAIN Stream(d)' /\ Stream(d)'[i] = Stream(d)[i]
  BY NothingLost
<1>2. DOMAIN Stream(d) = 1 .. Len(Stream(d)) /\ Len(Stream(d)) \in Nat
  BY StreamType
<1>3. CASE k \in DOMAIN Stream(d)
  <2>1. PICK j \in 1 .. k : Stream(d)[j].sid = s /\ Stream(d)[j].kind = "session.ack"
    BY <1>1, <1>3 DEF AckLeads
  <2>2. j \in DOMAIN Stream(d)
    BY <1>2, <1>3
  <2> QED
    BY <1>1, <2>1, <2>2
<1>4. CASE k \notin DOMAIN Stream(d)
  <2>1. Pushed(d, m)
    BY <1>4 DEF Effect, Kept, Lost
  <2>2. k = Len(Stream(d)) + 1 /\ Stream(d)'[k] = m
    BY <1>4, <2>1, PushedFacts
  <2>3. CASE m.kind = "session.ack"
    BY <1>2, <2>2, <2>3
  <2>4. CASE m.kind # "session.ack"
    <3>1. PICK j \in DOMAIN Stream(d) : Stream(d)[j].sid = s /\ Stream(d)[j].kind = "session.ack"
      BY <2>1, <2>2, <2>4
    <3>2. j \in 1 .. k
      BY <1>2, <2>2
    <3> QED
      BY <1>1, <3>1, <3>2
  <2> QED
    BY <2>3, <2>4
<1> QED
  BY <1>3, <1>4

-----------------------------------------------------------------------------
(***************************************************************************)
(* The effect of each step on the streams.                                 *)
(***************************************************************************)
LEMMA SameEffect ==
    ASSUME NEW d \in Conn, NEW m,
           UNCHANGED <<recv[d], inflight[d], send[d], closeCh[d], link[d]>>
    PROVE  Kept(d) /\ Effect(d, m) /\ (Healthy(d)' <=> Healthy(d))
BY DEF Kept, Effect, Healthy, Stream

\* Peer.Send: the message is in the stream, or the peer is closed.
LEMMA SendEffect ==
    ASSUME TypeOK, NEW c \in Conn, NEW m \in Msg, Send(c, m), UNCHANGED <<recv, inflight, link>>
    PROVE  /\ Effect(c, m)
           /\ Healthy(c)' => Pushed(c, m)
           /\ \A d \in Conn \ {c} : Kept(d) /\ (Healthy(d)' <=> Healthy(d))
<1>1. send \in [Conn -> Seq(Msg)] /\ closeCh \in [Conn -> BOOLEAN]
  BY DEF TypeOK
<1>2. CASE send' = [send EXCEPT ![c] = Append(@, m)] /\ UNCHANGED closeCh
  <2>1. send'[c] = Append(send[c], m) /\ \A d \in Conn \ {c} : send'[d] = send[d]
    BY <1>1, <1>2
  <2>2. \A d \in Conn \ {c} : Kept(d) /\ (Healthy(d)' <=> Healthy(d))
    BY <1>2, <2>1, SameEffect
  <2>3. Pushed(c, m)
    <3> DEFINE a == recv[c] \o inflight[c]
               b == send[c]
    <3>1. a \in Seq(Msg) /\ b \in Seq(Msg) /\ m \in Msg
      BY StreamType
    <3>2. Stream(c) = a \o b /\ Stream(c)' = a \o Append(b, m)
      BY <2>1 DEF Stream
    <3> HIDE DEF a, b
    <3>3. a \o Append(b, m) = Append(a \o b, m)
      BY <3>1, CatAppend
    <3> QED
      BY <3>2, <3>3 DEF Pushed
  <2>4. Healthy(c)' => Healthy(c)
    BY <1>2 DEF Healthy
  <2> QED
    BY <2>2, <2>3, <2>4 DEF Effect
<1>3. CASE closeCh' = [closeCh EXCEPT ![c] = TRUE] /\ UNCHANGED send
  <2>1. closeCh'[c] /\ \A d \in Conn \ {c} : closeCh'[d] = closeCh[d]
    BY <1>1, <1>3
  <2>2. \A d \in Conn \ {c} : Kept(d) /\ (Healthy(d)' <=> Healthy(d))
    BY <1>3, <2>1, SameEffect
  <2>3. Kept(c) /\ ~Healthy(c)'
    BY <1>3, <2>1 DEF Kept, Stream, Healthy
  <2> QED
    BY <2>2, <2>3 DEF Effect
<1> QED
  BY <1>2, <1>3 DEF Send

\* The message in hand is dropped.
LEMMA DropEffect ==
    ASSUME TypeOK, NEW d \in Conn, recv'[d] = recv[d], inflight'[d] = <<>>, send'[d] = send[d],
           ~Healthy(d)'
    PROVE  Lost(d)
<1> DEFINE a == recv[d]
           b == inflight[d]
           c == send[d]
           g == [k \in 1 .. Len(a) + Len(c) |-> IF k <= Len(a) THEN k ELSE k + Len(b)]
<1>1. /\ a \in Seq(Msg) /\ b \in Seq(Msg) /\ c \in Seq(Msg)
      /\ Len(a) \in Nat /\ Len(b) \in Nat /\ Len(c) \in Nat
  BY StreamType, LenProperties
<1>2. Stream(d) = (a \o b) \o c /\ Stream(d)' = a \o c
  <2>1. a \o <<>> = a
    BY <1>1, ConcatEmptySeq
  <2> QED
    BY <2>1 DEF Stream
<1>3. ~Healthy(d)'
  OBVIOUS
<1> HIDE DEF a, b, c
<1>4. /\ a \o c \in Seq(Msg) /\ Len(a \o c) = Len(a) + Len(c)
      /\ \A i \in 1 .. Len(a) + Len(c) : (a \o c)[i] = IF i <= Len(a) THEN a[i] ELSE c[i - Len(a)]
  BY <1>1, ConcatProperties
<1>5. /\ a \o b \in Seq(Msg) /\ Len(a \o b) = Len(a) + Len(b)
      /\ \A i \in 1 .. Len(a) + Len(b) : (a \o b)[i] = IF i <= Len(a) THEN a[i] ELSE b[i - Len(a)]
  BY <1>1, ConcatProperties
<1>6. /\ (a \o b) \o c \in Seq(Msg) /\ Len((a \o b) \o c) = Len(a \o b) + Len(c)
      /\ \A i \in 1 .. Len(a \o b) + Len(c) :
            ((a \o b) \o c)[i] = IF i <= Len(a \o b) THEN (a \o b)[i] ELSE c[i - Len(a \o b)]
  BY <1>1, <1>5, ConcatProperties
<1>7. DOMAIN (a \o c) = 1 .. Len(a) + Len(c) /\ DOMAIN ((a \o b) \o c) = 1 .. Len(a) + Len(b) + Len(c)
  BY <1>1, <1>4, <1>5, <1>6, LenProperties
<1>8. \A k \in 1 .. Len(a) + Len(c) :
          g[k] \in 1 .. Len(a) + Len(b) + Len(c) /\ g[k] = IF k <= Len(a) THEN k ELSE k + Len(b)
  BY <1>1
<1>9. g \in [DOMAIN (a \o c) -> DOMAIN ((a \o b) \o c)]
  BY <1>7, <1>8
<1> HIDE DEF g
<1>10. \A k \in DOMAIN (a \o c) : (a \o c)[k] = ((a \o b) \o c)[g[k]]
  <2> SUFFICES ASSUME NEW k \in 1 .. Len(a) + Len(c)
               PROVE  (a \o c)[k] = ((a \o b) \o c)[g[k]]
    BY <1>7
  <2>1. CASE k <= Len(a)
    BY <1>1, <1>4, <1>5, <1>6, <1>8, <2>1
  <2>2. CASE ~(k <= Len(a))
    <3>1. g[k] = k + Len(b) /\ g[k] > Len(a \o b) /\ g[k] - Len(a \o b) = k - Len(a)
      BY <1>1, <1>5, <1>8, <2>2
    <3> QED
      BY <1>1, <1>4, <1>5, <1>6, <1>8, <2>2, <3>1
  <2> QED
    BY <2>1, <2>2
<1>11. \A j, k \in DOMAIN (a \o c) : g[j] = g[k] => j = k
  BY <1>1, <1>7, <1>8
<1>12. /\ g \in [DOMAIN Stream(d)' -> DOMAIN Stream(d)]
       /\ \A k \in DOMAIN Stream(d)' : Stream(d)'[k] = Stream(d)[g[k]]
       /\ \A j, k \in DOMAIN Stream(d)' : g[j] = g[k] => j = k
  BY <1>2, <1>9, <1>10, <1>11
<1> QED
  BY <1>3, <1>12, Zenon DEF Lost

\* The steps that touch no session, no frame and nothing that is due.
Inner(c) ==
    \/ \E i \in PeerID : HelloRegisters(c, i) \/ HelloRefused(c, i)
    \/ HelloFails(c) \/ Greet(c) \/ RunWakes(c) \/ ReadEnds(c) \/ WriteLoop(c) \/ LinkLost(c)

\* They push at most what is about no session.
LEMMA InnerEffect ==
    ASSUME TypeOK, HeldInPlace, NEW c \in Conn, Inner(c)
    PROVE  \A d \in Conn : \E m \in Msg : m.sid = NoSid /\ Effect(d, m)
<1>1. /\ closeCh \in [Conn -> BOOLEAN] /\ link \in [Conn -> {"up", "lost"}]
      /\ recv \in [Conn -> Seq(Msg)] /\ inflight \in [Conn -> Seq(Msg)]
      /\ send \in [Conn -> Seq(Msg)] /\ id[c] \in PeerID \cup {NoPeer}
  BY DEF TypeOK
<1>2. PongMsg \in Msg /\ PongMsg.sid = NoSid /\ ErrMsg \in Msg /\ ErrMsg.sid = NoSid
  BY DEF PongMsg, ErrMsg, Msg, MsgKind
<1>3. ASSUME UNCHANGED <<recv, inflight, send>>,
             \A d \in Conn : Healthy(d)' => Healthy(d)
      PROVE  \A d \in Conn : \E m \in Msg : m.sid = NoSid /\ Effect(d, m)
  BY <1>2, <1>3 DEF Effect, Kept, Stream
<1>4. CASE \/ \E i \in PeerID : HelloRegisters(c, i)
           \/ HelloFails(c) \/ RunWakes(c) \/ ReadEnds(c)
           \/ PingFails(c) \/ WriterStops(c) \/ LinkLost(c)
  <2>1. UNCHANGED <<recv, inflight, send>>
    BY <1>4 DEF HelloRegisters, HelloFails, RunWakes, ReadEnds, PingFails, WriterStops, LinkLost
  <2>2. \A d \in Conn : Healthy(d)' => Healthy(d)
    <3>1. \/ UNCHANGED <<closeCh, link>>
          \/ closeCh' = [closeCh EXCEPT ![c] = TRUE] /\ UNCHANGED link
          \/ link' = [link EXCEPT ![c] = "lost"] /\ UNCHANGED closeCh
      BY <1>4 DEF HelloRegisters, HelloFails, RunWakes, ReadEnds, PingFails, WriterStops, LinkLost
    <3> QED
      BY <1>1, <3>1 DEF Healthy
  <2> QED
    BY <1>3, <2>1, <2>2
<1>5. CASE Greet(c)
  <2>1. HelloOKMsg(id[c]) \in Msg /\ HelloOKMsg(id[c]).sid = NoSid
    BY <1>1 DEF HelloOKMsg, Msg, MsgKind
  <2>2. PICK m \in Msg : m = HelloOKMsg(id[c])
    BY <2>1
  <2>3. Send(c, m) /\ UNCHANGED <<recv, inflight, link>>
    BY <1>5, <2>2 DEF Greet
  <2>4. Effect(c, m) /\ \A d \in Conn \ {c} : Kept(d) /\ (Healthy(d)' <=> Healthy(d))
    BY <2>3, SendEffect
  <2>5. \A d \in Conn \ {c} : Effect(d, m)
    BY <2>4 DEF Effect
  <2> QED
    BY <2>1, <2>2, <2>4, <2>5
<1>6. ASSUME NEW i \in PeerID, HelloRefused(c, i)
      PROVE  \A d \in Conn : \E m \in Msg : m.sid = NoSid /\ Effect(d, m)
  <2>1. /\ phase[c] = "new" /\ recv' = [recv EXCEPT ![c] = Append(@, ErrMsg)]
        /\ UNCHANGED <<inflight, send, closeCh, link>>
    BY <1>6 DEF HelloRefused, Goto
  <2>2. /\ recv[c] = <<>> /\ inflight'[c] = <<>> /\ send'[c] = <<>>
        /\ inflight[c] = <<>> /\ send[c] = <<>>
        /\ recv'[c] = Append(<<>>, ErrMsg) /\ \A d \in Conn \ {c} : recv'[d] = recv[d]
    BY <1>1, <2>1 DEF HeldInPlace
  <2>3. \A d \in Conn \ {c} : Effect(d, ErrMsg)
    BY <2>1, <2>2, SameEffect
  <2>4. Append(<<>>, ErrMsg) \in Seq(Msg)
    BY <1>2
  <2>5. Stream(c) = <<>> /\ Stream(c)' = Append(<<>>, ErrMsg)
    <3>1. \A q \in Seq(Msg) : (q \o <<>>) \o <<>> = q
      BY ConcatEmptySeq
    <3>2. <<>> \in Seq(Msg)
      OBVIOUS
    <3> QED
      BY <2>2, <2>4, <3>1, <3>2 DEF Stream
  <2>6. Effect(c, ErrMsg)
    BY <2>1, <2>5 DEF Effect, Pushed, Healthy
  <2> QED
    BY <1>2, <2>3, <2>6
<1>7. CASE WriteTake(c)
  <2>1. /\ send[c] # <<>> /\ inflight[c] = <<>> /\ UNCHANGED <<recv, closeCh, link>>
        /\ inflight'[c] = <<Head(send[c])>> /\ send'[c] = Tail(send[c])
        /\ \A d \in Conn \ {c} : inflight'[d] = inflight[d] /\ send'[d] = send[d]
    BY <1>1, <1>7 DEF WriteTake, HeldInPlace
  <2>2. \A d \in Conn \ {c} : Effect(d, PongMsg)
    BY <2>1, SameEffect
  <2>3. Kept(c)
    <3> DEFINE a == recv[c]
               b == send[c]
    <3>1. a \in Seq(Msg) /\ b \in Seq(Msg) /\ b # <<>>
      BY <1>1, <2>1
    <3>2. Stream(c) = (a \o <<>>) \o b /\ Stream(c)' = (a \o <<Head(b)>>) \o Tail(b)
      BY <2>1 DEF Stream
    <3> HIDE DEF a, b
    <3>3. (a \o <<>>) \o b = (a \o <<Head(b)>>) \o Tail(b)
      BY <3>1, CatHeadTail
    <3> QED
      BY <3>2, <3>3 DEF Kept
  <2>4. Effect(c, PongMsg)
    BY <2>1, <2>3 DEF Effect, Healthy
  <2> QED
    BY <1>2, <2>2, <2>4
<1>8. CASE WriteOK(c)
  <2>1. /\ UNCHANGED <<send, closeCh, link>> /\ inflight'[c] = <<>>
        /\ \A d \in Conn \ {c} : inflight'[d] = inflight[d] /\ recv'[d] = recv[d]
        /\ link[c] = "up" => recv'[c] = recv[c] \o inflight[c]
        /\ link[c] # "up" => recv'[c] = recv[c]
    BY <1>1, <1>8 DEF WriteOK
  <2>2. \A d \in Conn \ {c} : Effect(d, PongMsg)
    BY <2>1, SameEffect
  <2>3. CASE link[c] = "up"
    <3>1. recv[c] \o inflight[c] \in Seq(Msg)
      BY StreamType
    <3>2. (recv[c] \o inflight[c]) \o <<>> = recv[c] \o inflight[c]
      BY <3>1, ConcatEmptySeq
    <3>3. Kept(c)
      BY <2>1, <2>3, <3>2 DEF Kept, Stream
    <3> QED
      BY <1>2, <2>1, <2>2, <3>3 DEF Effect, Healthy
  <2>4. CASE link[c] # "up"
    <3>1. ~Healthy(c)'
      BY <2>1, <2>4 DEF Healthy
    <3>2. Lost(c)
      BY <2>1, <2>4, <3>1, DropEffect
    <3> QED
      BY <1>2, <2>2, <3>1, <3>2 DEF Effect
  <2> QED
    BY <2>3, <2>4
<1>9. CASE WriteFails(c)
  <2>1. /\ UNCHANGED <<recv, send, link>> /\ inflight'[c] = <<>> /\ closeCh'[c]
        /\ \A d \in Conn \ {c} : inflight'[d] = inflight[d] /\ closeCh'[d] = closeCh[d]
    BY <1>1, <1>9 DEF WriteFails
  <2>2. \A d \in Conn \ {c} : Effect(d, PongMsg)
    BY <2>1, SameEffect
  <2>3. ~Healthy(c)'
    BY <2>1 DEF Healthy
  <2>4. Lost(c)
    BY <2>1, <2>3, DropEffect
  <2> QED
    BY <1>2, <2>2, <2>3, <2>4 DEF Effect
<1> QED
  BY <1>4, <1>5, <1>6, <1>7, <1>8, <1>9 DEF Inner, WriteLoop

-----------------------------------------------------------------------------
(***************************************************************************)
(* Sessions and their ends.                                                *)
(***************************************************************************)
LEMMA StepCases ==
    ASSUME [Next]_vars
    PROVE  \/ \E c \in Conn :
                 \/ Inner(c) \/ SendNext(c) \/ Dispatch(c) \/ RunUnregisters(c)
                 \/ \E n \in notify[c] : NotifyOne(c, n)
                 \/ \E f \in ClientFrame(c) : ReadFrame(c, f)
           \/ UNCHANGED vars
BY DEF Next, Handler, ReadLoop, Idle, Inner

\* What is left alone by the steps that are not a dispatch, an Unregister or a Send.
LEMMA InnerKeeps ==
    ASSUME NEW c \in Conn, Inner(c), TypeOK
    PROVE  /\ UNCHANGED <<sessions, hist, out, notify, frame>>
           /\ \A d \in Conn : reader'[d] = "dispatch" => reader[d] = "dispatch"
BY DEF Inner, HelloRegisters, HelloRefused, HelloFails, Greet, RunWakes, ReadEnds, WriteLoop,
       WriteTake, WriteOK, WriteFails, PingFails, WriterStops, LinkLost, Register, hubVars, TypeOK

\* The ends of an open session are the connections of its members.
LEMMA OpenEnds ==
    ASSUME IInv, NEW s \in SessionID, Open(s)
    PROVE  /\ s \in Minted /\ hist[s] \in History
           /\ hist[s].ini \in Conn /\ hist[s].tgt \in Conn
           /\ Registered(hist[s].ini) /\ Registered(hist[s].tgt)
           /\ id[hist[s].ini] = sessions[s].initiator /\ id[hist[s].tgt] = sessions[s].target
           /\ peers[sessions[s].initiator] = hist[s].ini /\ peers[sessions[s].target] = hist[s].tgt
<1>1. /\ hist[s] # NoSession
      /\ peers[sessions[s].initiator] = hist[s].ini
      /\ peers[sessions[s].target] = hist[s].tgt
  BY DEF IInv, SessionBoundToConns
<1>2. hist[s] \in History /\ sessions[s].initiator \in PeerID /\ sessions[s].target \in PeerID
  BY <1>1 DEF IInv, TypeOK, HubTypeOK, Open, Session
<1>3. hist[s].ini \in Conn /\ hist[s].tgt \in Conn
  BY <1>2 DEF History
<1> QED
  BY <1>1, <1>2, <1>3, HubAssumption DEF Minted, IInv, RegistryExact

LEMMA MintedEnds ==
    ASSUME TypeOK, NEW s \in Minted
    PROVE  s \in SessionID /\ hist[s] \in History /\ hist[s].ini \in Conn /\ hist[s].tgt \in Conn
BY DEF TypeOK, HubTypeOK, Minted, History

\* A registered member of an open session is one end, and OtherMember names the other.
LEMMA MemberEnds ==
    ASSUME IInv, NEW s \in SessionID, Open(s), NEW c \in Conn, Registered(c), id[c] \in Members(s)
    PROVE  /\ peers[OtherMember(s, id[c])] \in Conn
           /\ Ends(s, c, peers[OtherMember(s, id[c])])
           /\ OtherMember(s, id[c]) = id[c] => hist[s].ini = c /\ hist[s].tgt = c
<1>1. /\ hist[s].ini \in Conn /\ hist[s].tgt \in Conn
      /\ peers[sessions[s].initiator] = hist[s].ini /\ peers[sessions[s].target] = hist[s].tgt
  BY OpenEnds
<1>2. peers[id[c]] = c
  BY DEF IInv, RegistryExact
<1>3. CASE sessions[s].initiator = id[c]
  BY <1>1, <1>2, <1>3 DEF OtherMember, Ends
<1>4. CASE sessions[s].initiator # id[c]
  <2>1. sessions[s].target = id[c] /\ OtherMember(s, id[c]) = sessions[s].initiator
    BY <1>4 DEF Members, OtherMember
  <2> QED
    BY <1>1, <1>2, <1>4, <2>1 DEF Ends
<1> QED
  BY <1>3, <1>4

\* Deleting sessions only notes who did it.
LEMMA DeleteHist ==
    ASSUME IInv, NEW c \in Conn, NEW gone \in SUBSET SessionID, \A s \in gone : Open(s),
           Delete(gone, c)
    PROVE  /\ Minted' = Minted
           /\ \A s \in Minted : hist'[s].ini = hist[s].ini /\ hist'[s].tgt = hist[s].tgt
           /\ \A s \in SessionID \ gone : hist'[s] = hist[s] /\ sessions'[s] = sessions[s]
           /\ \A s \in gone : hist'[s].by = c /\ sessions'[s] = NoSession
<1>1. HubTypeOK /\ \A s \in gone : hist[s] # NoSession
  BY DEF IInv, TypeOK, SessionBoundToConns
<1>2. /\ Minted' = Minted
      /\ \A s \in SessionID \ gone : hist'[s] = hist[s] /\ sessions'[s] = sessions[s]
      /\ \A s \in gone : sessions'[s] = NoSession
  BY <1>1, DeleteType
<1>3. \A s \in gone : hist'[s].ini = hist[s].ini /\ hist'[s].tgt = hist[s].tgt /\ hist'[s].by = c
  <2> SUFFICES ASSUME NEW s \in gone
               PROVE  hist'[s].ini = hist[s].ini /\ hist'[s].tgt = hist[s].tgt /\ hist'[s].by = c
    OBVIOUS
  <2>1. hist[s] \in History
    BY <1>1 DEF HubTypeOK
  <2>2. hist'[s] = [hist[s] EXCEPT !.by = c]
    BY DEF Delete
  <2> QED
    BY <2>1, <2>2 DEF History
<1> QED
  BY <1>2, <1>3 DEF Minted

-----------------------------------------------------------------------------
(***************************************************************************)
(* What each dispatch and each Unregister leaves due.                      *)
(***************************************************************************)
LEMMA DispatchFacts ==
    ASSUME IInv, HeldInPlace, NEW c \in Conn, Dispatch(c)
    PROVE  /\ reader[c] = "dispatch" /\ out[c] = <<>> /\ frame[c] \in Frame
           /\ phase[c] \in {"run", "wait"} /\ Registered(c) /\ notify[c] = {}
           /\ id[c] \in PeerID /\ peers[id[c]] = c
           /\ UNCHANGED <<phase, id, link, send, closeCh, writer, inflight, notify, recv, peers>>
           /\ reader'[c] # "dispatch" /\ (reader'[c] # "send" => out'[c] = <<>>)
           /\ \A e \in Conn \ {c} : UNCHANGED <<out[e], reader[e], frame[e]>>
<1>1. PICK sends : Replies(c, sends) /\ reader[c] = "dispatch"
  BY DEF Dispatch, DispatchPing, DispatchSessionReq, DispatchSessionReqFails, DispatchForward,
         DispatchBye, DispatchBad, Dispatching
<1>2. UNCHANGED peers
  BY DEF Dispatch, DispatchPing, DispatchSessionReq, DispatchSessionReqFails, DispatchForward,
         DispatchBye, DispatchBad, OpenSession, CloseSession, hubVars
<1>3. /\ frame[c] \in Frame /\ out[c] = <<>> /\ phase[c] \in {"run", "wait"}
  BY <1>1 DEF IInv, DispatchReady, HeldInPlace, LoopsWithinRegistration
<1>4. Registered(c) /\ notify[c] = {} /\ id[c] \in PeerID /\ peers[id[c]] = c
  BY <1>3 DEF Registered, HeldInPlace, IInv, RegistryExact
<1>5. out \in [Conn -> Seq(Sending)] /\ reader \in [Conn -> Reader]
      /\ frame \in [Conn -> Frame \cup {NoFrame}]
  BY DEF IInv, TypeOK
<1>6. /\ out' = [out EXCEPT ![c] = sends] /\ frame' = [frame EXCEPT ![c] = NoFrame]
      /\ reader' = [reader EXCEPT ![c] = IF sends = <<>> THEN "read" ELSE "send"]
      /\ UNCHANGED <<phase, id, link, send, closeCh, writer, inflight, notify, recv>>
  BY <1>1 DEF Replies
<1>7. /\ reader'[c] # "dispatch" /\ (reader'[c] # "send" => out'[c] = <<>>)
      /\ \A e \in Conn \ {c} : out'[e] = out[e] /\ reader'[e] = reader[e] /\ frame'[e] = frame[e]
  BY <1>5, <1>6
<1> QED
  BY <1>1, <1>2, <1>3, <1>4, <1>6, <1>7

LEMMA RequestFacts ==
    ASSUME IInv, HeldInPlace, NEW c \in Conn, NEW s \in SessionID, DispatchSessionReq(c, s)
    PROVE  /\ s \notin Minted /\ Minted' = Minted \cup {s}
           /\ hist'[s].ini = c /\ hist'[s].tgt \in Conn /\ Registered(hist'[s].tgt)
           /\ hist'[s].by = NoConn
           /\ Open(s)' /\ \A u \in SessionID \ {s} : hist'[u] = hist[u] /\ sessions'[u] = sessions[u]
           /\ BothDue(s)'
<1>1. Dispatch(c)
  BY DEF Dispatch
<1>2. /\ reader[c] = "dispatch" /\ id[c] \in PeerID /\ peers[id[c]] = c /\ UNCHANGED <<id, peers>>
  BY <1>1, DispatchFacts
<1>3. PICK t \in PeerID : t = frame[c].peer
  BY <1>2 DEF IInv, DispatchReady, DispatchSessionReq, Dispatching
<1>4. PICK d \in Conn : d = peers[t]
  BY <1>3 DEF DispatchSessionReq, OpenSession, IInv, TypeOK, HubTypeOK
<1>5. d # NoConn
  BY <1>4, HubAssumption
<1>6. id[d] = t /\ Registered(d)
  BY <1>4, <1>5 DEF IInv, RegistryExact
<1> DEFINE h == [ini |-> c, tgt |-> d, by |-> NoConn]
           z == [initiator |-> id[c], target |-> t]
<1>7. h \in History /\ h # NoSession /\ h.ini = c /\ h.tgt = d /\ h.by = NoConn
      /\ z \in Session /\ z # NoSession
  BY <1>2, HubAssumption DEF History, Session
<1>8. /\ s \notin Minted /\ hist' = [hist EXCEPT ![s] = h] /\ sessions' = [sessions EXCEPT ![s] = z]
      /\ out' = [out EXCEPT ![c] = <<[to |-> c, msg |-> SessionAckMsg(s, t)],
                                     [to |-> d, msg |-> SessionAckMsg(s, id[c])]>>]
  BY <1>3, <1>4 DEF DispatchSessionReq, OpenSession, Replies
<1> HIDE DEF h, z
<1>9. /\ hist'[s] = h /\ sessions'[s] = z
      /\ \A u \in SessionID \ {s} : hist'[u] = hist[u] /\ sessions'[u] = sessions[u]
      /\ out'[c] = <<[to |-> c, msg |-> SessionAckMsg(s, t)],
                     [to |-> d, msg |-> SessionAckMsg(s, id[c])]>>
  BY <1>8 DEF IInv, TypeOK, HubTypeOK
<1>10. Minted' = Minted \cup {s}
  BY <1>7, <1>9 DEF Minted
<1>11. BothDue(s)'
  BY <1>2, <1>6, <1>7, <1>9 DEF BothDue, AckIni, AckTgt
<1> QED
  BY <1>6, <1>7, <1>8, <1>9, <1>10, <1>11 DEF Open

\* A dispatch that opens and ends nothing: one message is due, to its own client or to
\* the other end of the open session its frame names.
LEMMA AnswerFacts ==
    ASSUME IInv, HeldInPlace, NEW c \in Conn,
           DispatchPing(c) \/ DispatchSessionReqFails(c) \/ DispatchForward(c) \/ DispatchBad(c)
    PROVE  /\ UNCHANGED hubVars
           /\ \/ \E m \in Msg : m.sid = NoSid /\ out'[c] = <<[to |-> c, msg |-> m]>>
              \/ /\ Open(frame[c].sid) /\ frame[c].sid # NoSid
                 /\ \E d \in Conn, m \in Msg :
                       /\ out'[c] = <<[to |-> d, msg |-> m]>>
                       /\ Ends(frame[c].sid, c, d)
                       /\ m.sid = frame[c].sid /\ m.kind \in {"peer.sdp", "peer.ice"}
                       /\ m.peer = id[c]
<1>0. Dispatch(c)
  BY DEF Dispatch
<1>1. reader[c] = "dispatch" /\ frame[c] \in Frame /\ Registered(c) /\ id[c] \in PeerID
  BY <1>0, DispatchFacts
<1>2. UNCHANGED hubVars
  BY DEF DispatchPing, DispatchSessionReqFails, DispatchForward, DispatchBad
<1>3. out \in [Conn -> Seq(Sending)]
  BY DEF IInv, TypeOK
<1>4. \A x : Replies(c, <<x>>) => out'[c] = <<x>>
  BY <1>3 DEF Replies
<1>5. PongMsg \in Msg /\ PongMsg.sid = NoSid /\ ErrMsg \in Msg /\ ErrMsg.sid = NoSid
  BY DEF PongMsg, ErrMsg, Msg, MsgKind
<1>6. CASE \/ Replies(c, <<[to |-> c, msg |-> PongMsg]>>)
           \/ Replies(c, <<[to |-> c, msg |-> ErrMsg]>>)
  BY <1>2, <1>4, <1>5, <1>6
<1>7. CASE /\ OtherPeer(frame[c].sid, id[c]) # NoConn /\ frame[c].kind \in {"sdp", "ice"}
           /\ Replies(c, <<[to |-> OtherPeer(frame[c].sid, id[c]),
                            msg |-> ForwardedMsg(frame[c].kind, frame[c].sid, id[c])]>>)
  <2> DEFINE s == frame[c].sid
             m == ForwardedMsg(frame[c].kind, s, id[c])
  <2>1. Open(s) /\ s \in SessionID /\ id[c] \in Members(s)
    BY <1>7 DEF OtherPeer, Open
  <2>2. OtherPeer(s, id[c]) = peers[OtherMember(s, id[c])]
    BY <2>1 DEF OtherPeer
  <2>3. OtherPeer(s, id[c]) \in Conn /\ Ends(s, c, OtherPeer(s, id[c]))
    BY <1>1, <2>1, <2>2, MemberEnds
  <2>4. m \in Msg /\ m.sid = s /\ m.kind \in {"peer.sdp", "peer.ice"} /\ m.peer = id[c]
    BY <1>1, <2>1 DEF ForwardedMsg, Msg, MsgKind
  <2>5. out'[c] = <<[to |-> OtherPeer(s, id[c]), msg |-> m]>>
    BY <1>4, <1>7
  <2>6. s # NoSid
    BY <2>1, WireAssumption
  <2> HIDE DEF m
  <2> QED
    BY <1>2, <2>1, <2>3, <2>4, <2>5, <2>6
<1> QED
  BY <1>6, <1>7 DEF DispatchPing, DispatchSessionReqFails, DispatchForward, DispatchBad, Dispatching

\* A bye ends the session it names, if it is open; the peer.gone is due to the other
\* end when the bye came from one end, and to nobody otherwise.
LEMMA ByeFacts ==
    ASSUME IInv, HeldInPlace, NEW c \in Conn, DispatchBye(c)
    PROVE  /\ Minted' = Minted
           /\ \A u \in Minted : hist'[u].ini = hist[u].ini /\ hist'[u].tgt = hist[u].tgt
           /\ \A u \in SessionID : u # frame[c].sid \/ ~Open(u) =>
                 hist'[u] = hist[u] /\ sessions'[u] = sessions[u]
           /\ Open(frame[c].sid) =>
                 hist'[frame[c].sid].by = c /\ sessions'[frame[c].sid] = NoSession
           /\ \/ /\ Open(frame[c].sid) /\ id[c] \in Members(frame[c].sid)
                 /\ \E d \in Conn : /\ Ends(frame[c].sid, c, d)
                                    /\ out'[c] = <<[to |-> d, msg |-> PeerGoneMsg(frame[c].sid)]>>
              \/ /\ ~(Open(frame[c].sid) /\ id[c] \in Members(frame[c].sid))
                 /\ out'[c] = <<>>
<1>0. Dispatch(c)
  BY DEF Dispatch
<1>1. reader[c] = "dispatch" /\ frame[c] \in Frame /\ Registered(c) /\ id[c] \in PeerID
  BY <1>0, DispatchFacts
<1>2. PICK s : s = frame[c].sid
  OBVIOUS
<1> DEFINE gone == {t \in SessionID : t = s /\ Open(t)}
<1>3. Delete(gone, c) /\ gone \in SUBSET SessionID /\ \A t \in gone : Open(t)
  BY <1>2 DEF DispatchBye, CloseSession
<1>4. /\ \A u \in SessionID : u # s \/ ~Open(u) => u \in SessionID \ gone
      /\ Open(s) => s \in gone
  BY DEF Open
<1> HIDE DEF gone
<1>5. /\ Minted' = Minted
      /\ \A u \in Minted : hist'[u].ini = hist[u].ini /\ hist'[u].tgt = hist[u].tgt
      /\ \A u \in SessionID \ gone : hist'[u] = hist[u] /\ sessions'[u] = sessions[u]
      /\ \A u \in gone : hist'[u].by = c /\ sessions'[u] = NoSession
  BY <1>3, DeleteHist
<1>6. out \in [Conn -> Seq(Sending)]
  BY DEF IInv, TypeOK
<1>7. out'[c] = IF OtherPeer(s, id[c]) = NoConn THEN <<>>
                ELSE <<[to |-> OtherPeer(s, id[c]), msg |-> PeerGoneMsg(s)]>>
  BY <1>2, <1>6 DEF DispatchBye, ByeRecipient, Replies
<1>8. CASE Open(s) /\ id[c] \in Members(s)
  <2>1. s \in SessionID
    BY <1>8 DEF Open
  <2>2. OtherPeer(s, id[c]) \in Conn /\ Ends(s, c, OtherPeer(s, id[c]))
    BY <1>1, <1>8, <2>1, MemberEnds DEF OtherPeer
  <2>3. out'[c] = <<[to |-> OtherPeer(s, id[c]), msg |-> PeerGoneMsg(s)]>>
    BY <1>7, <2>2, HubAssumption
  <2> QED
    BY <1>2, <1>4, <1>5, <1>8, <2>2, <2>3
<1>9. CASE ~(Open(s) /\ id[c] \in Members(s))
  <2>1. out'[c] = <<>>
    BY <1>7, <1>9 DEF OtherPeer
  <2> QED
    BY <1>2, <1>4, <1>5, <1>9, <2>1
<1> QED
  BY <1>8, <1>9

\* Unregister ends the sessions of its connection and has a notice for every other end.
LEMMA UnregisterFacts ==
    ASSUME IInv, HeldInPlace, NEW c \in Conn, RunUnregisters(c)
    PROVE  /\ phase[c] = "wait" /\ out[c] = <<>> /\ notify[c] = {}
           /\ UNCHANGED <<id, link, send, closeCh, reader, frame, out, writer, inflight, recv>>
           /\ \A e \in Conn \ {c} : notify'[e] = notify[e] /\ phase'[e] = phase[e]
           /\ phase'[c] \in {"notify", "done"} /\ (phase'[c] # "notify" => notify'[c] = {})
           /\ Minted' = Minted
           /\ \A u \in Minted : hist'[u].ini = hist[u].ini /\ hist'[u].tgt = hist[u].tgt
           /\ \A u \in SessionID : ~(Open(u) /\ id[c] \in Members(u)) =>
                 hist'[u] = hist[u] /\ sessions'[u] = sessions[u]
           /\ \A u \in SessionID : Open(u) /\ id[c] \in Members(u) =>
                 /\ hist'[u].by = c /\ sessions'[u] = NoSession
                 /\ c \in {hist[u].ini, hist[u].tgt}
                 /\ \A d \in {hist[u].ini, hist[u].tgt} \ {c} : [to |-> d, sid |-> u] \in notify'[c]
           /\ \A n \in notify'[c] : /\ n.sid \in SessionID /\ Open(n.sid)
                                    /\ id[c] \in Members(n.sid) /\ Ends(n.sid, c, n.to)
<1>1. /\ phase[c] = "wait" /\ reader[c] = "done"
      /\ phase' = [phase EXCEPT ![c] = AfterNotices(Notices(id[c]))]
      /\ notify' = [notify EXCEPT ![c] = Notices(id[c])]
      /\ UNCHANGED <<id, link, send, closeCh, reader, frame, out, writer, inflight, recv>>
  BY DEF RunUnregisters, Goto
<1>2. /\ phase \in [Conn -> Phase] /\ notify \in [Conn -> SUBSET Notice]
  BY DEF IInv, TypeOK
<1>3. out[c] = <<>> /\ notify[c] = {} /\ Registered(c)
  BY <1>1 DEF HeldInPlace, Registered
<1>4. /\ notify'[c] = Notices(id[c]) /\ phase'[c] = AfterNotices(notify'[c])
      /\ \A e \in Conn \ {c} : notify'[e] = notify[e] /\ phase'[e] = phase[e]
  BY <1>1, <1>2
<1>5. phase'[c] \in {"notify", "done"} /\ (phase'[c] # "notify" => notify'[c] = {})
  BY <1>4 DEF AfterNotices
<1> DEFINE gone == {u \in SessionID : Open(u) /\ id[c] \in Members(u)}
<1>6. Delete(gone, c) /\ gone \in SUBSET SessionID /\ \A t \in gone : Open(t)
  BY DEF RunUnregisters, Unregister
<1>7. \A u \in SessionID : u \in gone <=> Open(u) /\ id[c] \in Members(u)
  OBVIOUS
<1> HIDE DEF gone
<1>8. /\ Minted' = Minted
      /\ \A u \in Minted : hist'[u].ini = hist[u].ini /\ hist'[u].tgt = hist[u].tgt
      /\ \A u \in SessionID \ gone : hist'[u] = hist[u] /\ sessions'[u] = sessions[u]
      /\ \A u \in gone : hist'[u].by = c /\ sessions'[u] = NoSession
  BY <1>6, DeleteHist
<1>9. ASSUME NEW u \in SessionID, Open(u), id[c] \in Members(u)
      PROVE  /\ c \in {hist[u].ini, hist[u].tgt}
             /\ \A d \in {hist[u].ini, hist[u].tgt} \ {c} : [to |-> d, sid |-> u] \in notify'[c]
  <2>1. /\ peers[OtherMember(u, id[c])] \in Conn
        /\ Ends(u, c, peers[OtherMember(u, id[c])])
        /\ OtherMember(u, id[c]) = id[c] => hist[u].ini = c /\ hist[u].tgt = c
    BY <1>3, <1>9, MemberEnds
  <2>2. c \in {hist[u].ini, hist[u].tgt}
    BY <2>1 DEF Ends
  <2>3. ASSUME NEW d \in {hist[u].ini, hist[u].tgt} \ {c}
        PROVE  [to |-> d, sid |-> u] \in notify'[c]
    <3>1. d = peers[OtherMember(u, id[c])] /\ OtherMember(u, id[c]) # id[c]
      BY <2>1, <2>3 DEF Ends
    <3>2. peers[OtherMember(u, id[c])] # NoConn
      BY <2>1, HubAssumption
    <3> QED
      BY <1>4, <1>9, <3>1, <3>2 DEF Notices
  <2> QED
    BY <2>2, <2>3
<1>10. ASSUME NEW n \in notify'[c]
       PROVE  /\ n.sid \in SessionID /\ Open(n.sid)
              /\ id[c] \in Members(n.sid) /\ Ends(n.sid, c, n.to)
  <2>1. PICK u \in SessionID : /\ Open(u) /\ id[c] \in Members(u)
                               /\ n = [to |-> peers[OtherMember(u, id[c])], sid |-> u]
    BY <1>4 DEF Notices
  <2>2. Ends(u, c, peers[OtherMember(u, id[c])])
    BY <1>3, <2>1, MemberEnds
  <2>3. n.sid = u /\ n.to = peers[OtherMember(u, id[c])]
    BY <2>1
  <2> QED
    BY <2>1, <2>2, <2>3 DEF Ends
<1> QED
  BY <1>1, <1>3, <1>4, <1>5, <1>7, <1>8, <1>9, <1>10

-----------------------------------------------------------------------------
(***************************************************************************)
(* What is due, and to whom.                                               *)
(***************************************************************************)
\* The Send a dispatch is about to make.
LEMMA NextSend ==
    ASSUME DInv, NEW c \in Conn, SendNext(c)
    PROVE  \E d \in Conn, m \in Msg :
              /\ Head(out[c]) = [to |-> d, msg |-> m] /\ out[c] # <<>>
              /\ phase[d] # "new" /\ phase[c] \in {"run", "wait"}
              /\ Send(d, m) /\ UNCHANGED <<recv, inflight, link>>
<1>1. /\ reader[c] = "send" /\ Send(Head(out[c]).to, Head(out[c]).msg)
      /\ UNCHANGED <<recv, inflight, link>>
  BY DEF SendNext
<1>2. /\ out[c] # <<>> /\ out[c] \in Seq(Sending) /\ phase[c] \in {"run", "wait"}
  BY <1>1 DEF DInv, IInv, TypeOK, DispatchReady, LoopsWithinRegistration
<1>3. Head(out[c]) \in Sending
  BY <1>2
<1>4. PICK d \in Conn, m \in Msg : Head(out[c]) = [to |-> d, msg |-> m]
  BY <1>3 DEF Sending
<1>5. Send(d, m)
  BY <1>1, <1>4
<1>6. phase[d] # "new"
  <2>1. CASE \E x \in Msg : x.sid = NoSid /\ out[c] = <<[to |-> c, msg |-> x]>>
    BY <1>2, <1>4, <2>1
  <2>2. CASE \E s \in Minted : c = hist[s].ini /\ LastDue(s)
    <3>1. PICK s \in Minted : out[c] = <<AckIni(s), AckTgt(s)>> \/ out[c] = <<AckTgt(s)>>
      BY <2>2 DEF LastDue, BothDue
    <3>2. Head(out[c]) = AckIni(s) \/ Head(out[c]) = AckTgt(s)
      BY <3>1
    <3>3. d = hist[s].ini \/ d = hist[s].tgt
      BY <1>4, <3>2 DEF AckIni, AckTgt
    <3> QED
      BY <3>3 DEF DInv, EndsSettled
  <2>3. CASE \E s \in Minted, e \in Conn, x \in Msg :
                out[c] = <<[to |-> e, msg |-> x]>> /\ Ends(s, c, e)
    <3>1. PICK s \in Minted, e \in Conn, x \in Msg :
                out[c] = <<[to |-> e, msg |-> x]>> /\ Ends(s, c, e)
      BY <2>3
    <3>2. d = e
      BY <1>4, <3>1
    <3> QED
      BY <3>1, <3>2 DEF DInv, EndsSettled, Ends
  <2> QED
    BY <1>2, <2>1, <2>2, <2>3 DEF DInv, OutShape, OutShapeAt, DueAnswer, DueAcks, DueRelay
<1> QED
  BY <1>1, <1>2, <1>4, <1>5, <1>6

\* The notice an Unregister is about to send.
LEMMA NextNotice ==
    ASSUME DInv, NEW c \in Conn, NEW n \in notify[c], NotifyOne(c, n)
    PROVE  \E d \in Conn, s \in SessionID :
              /\ n = [to |-> d, sid |-> s] /\ s \in Minted /\ Ends(s, c, d)
              /\ phase[d] # "new" /\ phase[c] = "notify" /\ out[c] = <<>>
              /\ PeerGoneMsg(s) \in Msg /\ Send(d, PeerGoneMsg(s))
              /\ UNCHANGED <<recv, inflight, link>>
<1>1. phase[c] = "notify" /\ Send(n.to, PeerGoneMsg(n.sid)) /\ UNCHANGED <<recv, inflight, link>>
  BY DEF NotifyOne, Goto
<1>2. n \in Notice
  BY DEF DInv, IInv, TypeOK
<1>3. PICK d \in Conn, s \in SessionID : n = [to |-> d, sid |-> s]
  BY <1>2 DEF Notice
<1>4. n.to = d /\ n.sid = s
  BY <1>3
<1>5. s \in Minted /\ Ends(s, c, d)
  BY <1>4 DEF DInv, NoticeShape
<1>6. phase[d] # "new"
  BY <1>5 DEF DInv, EndsSettled, Ends
<1>7. out[c] = <<>>
  BY <1>1 DEF DInv, IInv, LoopsWithinRegistration, HeldInPlace
<1>8. PeerGoneMsg(s) \in Msg
  BY MsgType
<1> QED
  BY <1>1, <1>3, <1>4, <1>5, <1>6, <1>7, <1>8

-----------------------------------------------------------------------------
\* Once a connection has said hello its id stays, and a session keeps its ends.
LEMMA Settled ==
    ASSUME DInv, [Next]_vars
    PROVE  /\ \A c \in Conn : phase[c] # "new" => phase'[c] # "new" /\ id'[c] = id[c]
           /\ Minted \subseteq Minted'
           /\ \A s \in Minted : hist'[s].ini = hist[s].ini /\ hist'[s].tgt = hist[s].tgt
<1> USE DEF DInv
<1>1. \A c \in Conn : phase[c] # "new" => phase'[c] # "new" /\ id'[c] = id[c]
  <2>0. phase \in [Conn -> Phase] /\ id \in [Conn -> PeerID \cup {NoPeer}]
    BY DEF IInv, TypeOK
  <2>1. ASSUME NEW c \in Conn, Inner(c)
        PROVE  \A d \in Conn : phase[d] # "new" => phase'[d] # "new" /\ id'[d] = id[d]
    BY <2>0, <2>1 DEF Inner, HelloRegisters, HelloRefused, HelloFails, Greet, RunWakes, ReadEnds,
           WriteLoop, WriteTake, WriteOK, WriteFails, PingFails, WriterStops, LinkLost, Goto
  <2>2. ASSUME NEW c \in Conn, SendNext(c) \/ \E f \in ClientFrame(c) : ReadFrame(c, f)
        PROVE  UNCHANGED <<phase, id>>
    BY <2>2 DEF SendNext, ReadFrame
  <2>3. ASSUME NEW c \in Conn, RunUnregisters(c) \/ \E n \in notify[c] : NotifyOne(c, n)
        PROVE  \A d \in Conn : phase[d] # "new" => phase'[d] # "new" /\ id'[d] = id[d]
    BY <2>0, <2>3 DEF RunUnregisters, NotifyOne, Goto, AfterNotices
  <2>4. ASSUME NEW c \in Conn, Dispatch(c) PROVE UNCHANGED <<phase, id>>
    BY <2>4, DispatchFacts
  <2>5. CASE UNCHANGED vars
    BY <2>5 DEF vars, connVars
  <2> QED
    BY <2>1, <2>2, <2>3, <2>4, <2>5, StepCases
<1>2. /\ Minted \subseteq Minted'
      /\ \A s \in Minted : hist'[s].ini = hist[s].ini /\ hist'[s].tgt = hist[s].tgt
  <2>1. ASSUME UNCHANGED hist
        PROVE  /\ Minted \subseteq Minted'
               /\ \A s \in Minted : hist'[s].ini = hist[s].ini /\ hist'[s].tgt = hist[s].tgt
    BY <2>1 DEF Minted
  <2>2. ASSUME NEW c \in Conn,
               \/ Inner(c) \/ SendNext(c) \/ \E n \in notify[c] : NotifyOne(c, n)
               \/ \E f \in ClientFrame(c) : ReadFrame(c, f)
        PROVE  UNCHANGED hist
    BY <2>2, InnerKeeps DEF SendNext, NotifyOne, ReadFrame, hubVars, IInv
  <2>3. ASSUME NEW c \in Conn, Dispatch(c)
        PROVE  /\ Minted \subseteq Minted'
               /\ \A s \in Minted : hist'[s].ini = hist[s].ini /\ hist'[s].tgt = hist[s].tgt
    <3>1. ASSUME NEW s \in SessionID, DispatchSessionReq(c, s)
          PROVE  /\ Minted \subseteq Minted'
                 /\ \A u \in Minted : hist'[u].ini = hist[u].ini /\ hist'[u].tgt = hist[u].tgt
      <4>1. /\ s \notin Minted /\ Minted' = Minted \cup {s}
            /\ \A u \in SessionID \ {s} : hist'[u] = hist[u]
        BY <3>1, RequestFacts
      <4>2. Minted \subseteq SessionID
        BY DEF Minted
      <4> QED
        BY <4>1, <4>2
    <3>2. CASE DispatchPing(c) \/ DispatchSessionReqFails(c) \/ DispatchForward(c) \/ DispatchBad(c)
      BY <2>1, <3>2, AnswerFacts DEF hubVars
    <3> QED
      BY <2>3, <3>1, <3>2, ByeFacts DEF Dispatch
  <2>4. CASE UNCHANGED vars
    BY <2>1, <2>4 DEF vars, hubVars
  <2> QED
    BY <2>1, <2>2, <2>3, <2>4, UnregisterFacts, StepCases
<1> QED
  BY <1>1, <1>2

\* A session id is drawn by the dispatch of a session.req.
LEMMA Drawn ==
    ASSUME DInv, [Next]_vars, NEW s \in Minted', s \notin Minted
    PROVE  \E c \in Conn : DispatchSessionReq(c, s)
<1> USE DEF DInv
<1>0. s \in SessionID
  BY DEF Minted
<1>1. ASSUME NEW c \in Conn,
             \/ Inner(c) \/ SendNext(c) \/ \E n \in notify[c] : NotifyOne(c, n)
             \/ \E f \in ClientFrame(c) : ReadFrame(c, f)
      PROVE  FALSE
  <2>1. UNCHANGED hist
    BY <1>1, InnerKeeps DEF SendNext, NotifyOne, ReadFrame, hubVars, IInv
  <2> QED
    BY <2>1 DEF Minted
<1>2. ASSUME NEW c \in Conn, Dispatch(c) PROVE DispatchSessionReq(c, s)
  <2>1. ASSUME NEW u \in SessionID, DispatchSessionReq(c, u) PROVE u = s
    BY <2>1, RequestFacts
  <2>2. CASE DispatchPing(c) \/ DispatchSessionReqFails(c) \/ DispatchForward(c) \/ DispatchBad(c)
    BY <2>2, AnswerFacts DEF hubVars, Minted
  <2>3. ~DispatchBye(c)
    BY ByeFacts
  <2> QED
    BY <1>2, <2>1, <2>2, <2>3 DEF Dispatch
<1>3. ASSUME NEW c \in Conn, RunUnregisters(c) PROVE FALSE
  BY <1>3, UnregisterFacts
<1>4. CASE UNCHANGED vars
  BY <1>4 DEF vars, hubVars, Minted
<1> QED
  BY <1>1, <1>2, <1>3, <1>4, StepCases

LEMMA EndsSettledStep ==
    ASSUME DInv, [Next]_vars
    PROVE  EndsSettled'
<1> SUFFICES ASSUME NEW s \in Minted'
             PROVE  phase'[hist'[s].ini] # "new" /\ phase'[hist'[s].tgt] # "new"
  BY DEF EndsSettled
<1>1. CASE s \in Minted
  <2>1. hist[s].ini \in Conn /\ hist[s].tgt \in Conn
    BY <1>1, MintedEnds DEF DInv, IInv
  <2>2. phase[hist[s].ini] # "new" /\ phase[hist[s].tgt] # "new"
    BY <1>1 DEF DInv, EndsSettled
  <2> QED
    BY <1>1, <2>1, <2>2, Settled
<1>2. CASE s \notin Minted
  <2>1. PICK c \in Conn : DispatchSessionReq(c, s)
    BY <1>2, Drawn
  <2>2. s \in SessionID
    BY DEF Minted
  <2>3. hist'[s].ini = c /\ hist'[s].tgt \in Conn /\ Registered(hist'[s].tgt)
    BY <2>1, <2>2, RequestFacts DEF DInv
  <2>4. Registered(c) /\ UNCHANGED phase
    BY <2>1, <2>2, DispatchFacts DEF DInv, Dispatch
  <2> QED
    BY <2>3, <2>4 DEF Registered
<1> QED
  BY <1>1, <1>2

LEMMA HeldInPlaceStep ==
    ASSUME DInv, [Next]_vars
    PROVE  HeldInPlace'
<1> USE DEF DInv
<1>0. /\ phase \in [Conn -> Phase] /\ reader \in [Conn -> Reader] /\ writer \in [Conn -> Writer]
      /\ out \in [Conn -> Seq(Sending)] /\ notify \in [Conn -> SUBSET Notice]
      /\ recv \in [Conn -> Seq(Msg)] /\ inflight \in [Conn -> Seq(Msg)] /\ send \in [Conn -> Seq(Msg)]
  BY DEF IInv, TypeOK
<1>1. ASSUME NEW d \in Conn, NEW m \in Msg, Send(d, m), phase[d] # "new", UNCHANGED <<recv, inflight>>,
             \A e \in Conn : phase'[e] = "new" => phase[e] = "new"
      PROVE  \A e \in Conn : phase'[e] = "new" =>
                recv'[e] = <<>> /\ inflight'[e] = <<>> /\ send'[e] = <<>>
  BY <1>0, <1>1 DEF Send, HeldInPlace
<1>2. ASSUME NEW c \in Conn, Inner(c) PROVE HeldInPlace'
  <2>1. CASE \/ \E i \in PeerID : HelloRegisters(c, i) \/ HelloRefused(c, i)
             \/ HelloFails(c) \/ RunWakes(c) \/ ReadEnds(c) \/ LinkLost(c)
    BY <1>0, <2>1 DEF HelloRegisters, HelloRefused, HelloFails, RunWakes, ReadEnds, LinkLost, Goto,
                      HeldInPlace
  <2>2. CASE Greet(c)
    <3>1. PICK m \in Msg : m = HelloOKMsg(id[c])
      BY DEF HelloOKMsg, Msg, MsgKind, IInv, TypeOK
    <3>2. /\ Send(c, m) /\ phase[c] = "greet" /\ phase' = [phase EXCEPT ![c] = "run"]
          /\ reader' = [reader EXCEPT ![c] = "read"] /\ writer' = [writer EXCEPT ![c] = "select"]
          /\ UNCHANGED <<out, notify, recv, inflight>>
      BY <2>2, <3>1 DEF Greet, Goto
    <3>3. reader[c] # "send" /\ writer[c] # "write"
      BY <3>2 DEF IInv, LoopsWithinRegistration
    <3>4. \A e \in Conn : phase'[e] = "new" => recv'[e] = <<>> /\ inflight'[e] = <<>> /\ send'[e] = <<>>
      BY <1>0, <1>1, <3>2
    <3>5. \A e \in Conn : /\ reader'[e] # "send" => out'[e] = <<>>
                          /\ phase'[e] # "notify" => notify'[e] = {}
                          /\ writer'[e] # "write" => inflight'[e] = <<>>
      BY <1>0, <3>2, <3>3 DEF HeldInPlace
    <3> QED
      BY <3>4, <3>5 DEF HeldInPlace
  <2>3. CASE WriteLoop(c)
    <3>1. UNCHANGED <<phase, reader, out, notify>>
      BY <2>3 DEF WriteLoop, WriteTake, WriteOK, WriteFails, PingFails, WriterStops
    <3>2. phase[c] # "new"
      BY <2>3 DEF WriteLoop, WriteTake, WriteOK, WriteFails, PingFails, WriterStops, IInv,
                  LoopsWithinRegistration
    <3>3. \A e \in Conn \ {c} : UNCHANGED <<recv[e], inflight[e], send[e], writer[e]>>
      BY <1>0, <2>3 DEF WriteLoop, WriteTake, WriteOK, WriteFails, PingFails, WriterStops
    <3>4. writer'[c] # "write" => inflight'[c] = <<>>
      BY <1>0, <2>3 DEF WriteLoop, WriteTake, WriteOK, WriteFails, PingFails, WriterStops, HeldInPlace
    <3> QED
      BY <3>1, <3>2, <3>3, <3>4 DEF HeldInPlace
  <2> QED
    BY <1>2, <2>1, <2>2, <2>3 DEF Inner
<1>3. ASSUME NEW c \in Conn, SendNext(c) PROVE HeldInPlace'
  <2>1. PICK d \in Conn, m \in Msg : phase[d] # "new" /\ Send(d, m) /\ UNCHANGED <<recv, inflight>>
    BY <1>3, NextSend
  <2>2. /\ reader' = [reader EXCEPT ![c] = IF Tail(out[c]) = <<>> THEN "read" ELSE "send"]
        /\ out' = [out EXCEPT ![c] = Tail(@)] /\ UNCHANGED <<phase, writer, notify>>
    BY <1>3 DEF SendNext
  <2>3. \A e \in Conn : phase'[e] = "new" => recv'[e] = <<>> /\ inflight'[e] = <<>> /\ send'[e] = <<>>
    BY <1>1, <2>1, <2>2
  <2>4. \A e \in Conn : reader'[e] # "send" => out'[e] = <<>>
    BY <1>0, <2>2 DEF HeldInPlace
  <2> QED
    BY <2>1, <2>2, <2>3, <2>4 DEF HeldInPlace
<1>4. ASSUME NEW c \in Conn, NEW n \in notify[c], NotifyOne(c, n) PROVE HeldInPlace'
  <2>1. PICK d \in Conn, m \in Msg : phase[d] # "new" /\ Send(d, m) /\ UNCHANGED <<recv, inflight>>
    BY <1>4, NextNotice
  <2>2. /\ phase[c] = "notify" /\ phase' = [phase EXCEPT ![c] = AfterNotices(notify[c] \ {n})]
        /\ notify' = [notify EXCEPT ![c] = @ \ {n}] /\ UNCHANGED <<reader, out, writer>>
    BY <1>4 DEF NotifyOne, Goto
  <2>3. \A e \in Conn : phase'[e] = "new" => phase[e] = "new"
    BY <1>0, <2>2 DEF AfterNotices
  <2>4. \A e \in Conn : phase'[e] = "new" => recv'[e] = <<>> /\ inflight'[e] = <<>> /\ send'[e] = <<>>
    BY <1>1, <2>1, <2>3
  <2>5. \A e \in Conn : phase'[e] # "notify" => notify'[e] = {}
    BY <1>0, <2>2 DEF AfterNotices, HeldInPlace
  <2> QED
    BY <2>1, <2>2, <2>4, <2>5 DEF HeldInPlace
<1>5. ASSUME NEW c \in Conn, Dispatch(c) PROVE HeldInPlace'
  <2>1. /\ UNCHANGED <<phase, send, writer, inflight, notify, recv>>
        /\ (reader'[c] # "send" => out'[c] = <<>>)
        /\ \A e \in Conn \ {c} : UNCHANGED <<out[e], reader[e]>>
    BY <1>5, DispatchFacts
  <2> QED
    BY <2>1 DEF HeldInPlace
<1>6. ASSUME NEW c \in Conn, RunUnregisters(c) PROVE HeldInPlace'
  <2>1. /\ UNCHANGED <<send, reader, out, writer, inflight, recv>>
        /\ \A e \in Conn \ {c} : notify'[e] = notify[e] /\ phase'[e] = phase[e]
        /\ phase'[c] \in {"notify", "done"} /\ (phase'[c] # "notify" => notify'[c] = {})
    BY <1>6, UnregisterFacts
  <2> QED
    BY <2>1 DEF HeldInPlace
<1>7. ASSUME NEW c \in Conn, NEW f, ReadFrame(c, f) PROVE HeldInPlace'
  BY <1>0, <1>7 DEF ReadFrame, HeldInPlace
<1>8. CASE UNCHANGED vars
  BY <1>8 DEF vars, connVars, HeldInPlace
<1> QED
  BY <1>2, <1>3, <1>4, <1>5, <1>6, <1>7, <1>8, StepCases

-----------------------------------------------------------------------------
(***************************************************************************)
(* The shape of what is due.                                               *)
(***************************************************************************)
\* What is said of a session's ends stays true.
LEMMA Stable ==
    ASSUME DInv, [Next]_vars, NEW s \in Minted
    PROVE  /\ s \in Minted'
           /\ hist'[s].ini = hist[s].ini /\ hist'[s].tgt = hist[s].tgt
           /\ id'[hist[s].ini] = id[hist[s].ini] /\ id'[hist[s].tgt] = id[hist[s].tgt]
           /\ AckIni(s)' = AckIni(s) /\ AckTgt(s)' = AckTgt(s)
           /\ \A c, d \in Conn : Ends(s, c, d)' <=> Ends(s, c, d)
<1>1. hist[s].ini \in Conn /\ hist[s].tgt \in Conn
  BY MintedEnds DEF DInv, IInv
<1>2. phase[hist[s].ini] # "new" /\ phase[hist[s].tgt] # "new"
  BY DEF DInv, EndsSettled
<1>3. /\ s \in Minted'
      /\ hist'[s].ini = hist[s].ini /\ hist'[s].tgt = hist[s].tgt
      /\ id'[hist[s].ini] = id[hist[s].ini] /\ id'[hist[s].tgt] = id[hist[s].tgt]
  BY <1>1, <1>2, Settled
<1> QED
  BY <1>3 DEF AckIni, AckTgt, Ends

\* A dispatch makes its last Send, or the first of the two acks.
LEMMA SendNextOut ==
    ASSUME DInv, NEW c \in Conn, SendNext(c)
    PROVE  /\ \A e \in Conn \ {c} : out'[e] = out[e]
           /\ \/ \E d \in Conn, m \in Msg : /\ out[c] = <<[to |-> d, msg |-> m]>> /\ out'[c] = <<>>
                                            /\ Send(d, m)
              \/ \E s \in Minted : /\ c = hist[s].ini /\ BothDue(s) /\ out'[c] = <<AckTgt(s)>>
                                   /\ Send(c, AckIni(s).msg)
<1>1. /\ reader[c] = "send" /\ Send(Head(out[c]).to, Head(out[c]).msg)
      /\ out' = [out EXCEPT ![c] = Tail(@)]
  BY DEF SendNext
<1>2. out \in [Conn -> Seq(Sending)] /\ out[c] # <<>>
  BY <1>1 DEF DInv, IInv, TypeOK, DispatchReady
<1>3. out'[c] = Tail(out[c]) /\ \A e \in Conn \ {c} : out'[e] = out[e]
  BY <1>1, <1>2
<1>4. ASSUME NEW x, out[c] = <<x>>
      PROVE  \E d \in Conn, m \in Msg : /\ out[c] = <<[to |-> d, msg |-> m]>> /\ out'[c] = <<>>
                                        /\ Send(d, m)
  <2>1. Head(out[c]) = x /\ Tail(out[c]) = <<>> /\ x \in Sending
    <3>1. Len(<<x>>) = 1 /\ <<x>>[1] = x /\ Head(<<x>>) = x /\ Tail(<<x>>) = <<>>
      OBVIOUS
    <3>2. out[c] \in Seq(Sending)
      BY <1>2
    <3>3. <<x>>[1] \in Sending
      BY <1>4, <3>1, <3>2, ElementOfSeq
    <3> QED
      BY <1>4, <3>1, <3>3
  <2>2. PICK d \in Conn, m \in Msg : x = [to |-> d, msg |-> m]
    BY <2>1 DEF Sending
  <2>3. Send(d, m)
    BY <1>1, <2>1, <2>2
  <2> QED
    BY <1>3, <1>4, <2>1, <2>2, <2>3
<1>5. ASSUME NEW s \in Minted, c = hist[s].ini, BothDue(s)
      PROVE  out'[c] = <<AckTgt(s)>> /\ Send(c, AckIni(s).msg)
  <2>1. Head(out[c]) = AckIni(s) /\ Tail(out[c]) = <<AckTgt(s)>>
    BY <1>5 DEF BothDue
  <2>2. Head(out[c]).to = c
    BY <1>5, <2>1 DEF AckIni
  <2> QED
    BY <1>1, <1>3, <2>1, <2>2
<1>6. CASE DueAcks(c)
  BY <1>3, <1>4, <1>5, <1>6 DEF DueAcks, LastDue
<1>7. CASE DueAnswer(c) \/ DueRelay(c)
  BY <1>3, <1>4, <1>7 DEF DueAnswer, DueRelay
<1> QED
  BY <1>2, <1>6, <1>7 DEF DInv, OutShape, OutShapeAt

\* A dispatch and a Send change what is due at their own connection; nothing else does.
LEMMA OutElsewhere ==
    ASSUME DInv, [Next]_vars, NEW e \in Conn, out'[e] # out[e]
    PROVE  SendNext(e) \/ Dispatch(e)
<1>1. ASSUME NEW c \in Conn,
             \/ Inner(c) \/ RunUnregisters(c) \/ \E n \in notify[c] : NotifyOne(c, n)
             \/ \E f \in ClientFrame(c) : ReadFrame(c, f)
      PROVE  UNCHANGED out
  BY <1>1, InnerKeeps DEF RunUnregisters, NotifyOne, ReadFrame, DInv, IInv
<1>2. ASSUME NEW c \in Conn, c # e PROVE ~SendNext(c) /\ ~Dispatch(c)
  BY <1>2, SendNextOut, DispatchFacts DEF DInv
<1>3. CASE UNCHANGED vars
  BY <1>3 DEF vars, connVars
<1> QED
  BY <1>1, <1>2, <1>3, StepCases

\* Both acks are due at once when the session is opened, and never again.
LEMMA BothDueOnce ==
    ASSUME DInv, [Next]_vars, NEW s \in Minted, BothDue(s)'
    PROVE  BothDue(s)
<1>1. PICK e \in Conn : e = hist[s].ini
  BY MintedEnds DEF DInv, IInv
<1>2. /\ hist'[s].ini = e /\ AckIni(s)' = AckIni(s) /\ AckTgt(s)' = AckTgt(s)
  BY <1>1, Stable
<1>3. out'[e] = <<AckIni(s), AckTgt(s)>>
  BY <1>2 DEF BothDue
<1>4. CASE out'[e] = out[e]
  BY <1>1, <1>3, <1>4 DEF BothDue
<1>5. ASSUME NEW x PROVE out'[e] # <<x>> /\ out'[e] # <<>>
  BY <1>3
<1>6. ~SendNext(e)
  BY <1>5, SendNextOut
<1>7. ~Dispatch(e)
  <2>1. ASSUME NEW u \in SessionID, DispatchSessionReq(e, u) PROVE FALSE
    <3>1. u \notin Minted /\ hist'[u].ini = e /\ BothDue(u)'
      BY <2>1, RequestFacts DEF DInv
    <3>2. out'[e][1].msg.sid = u
      BY <3>1 DEF BothDue, AckIni, SessionAckMsg
    <3>3. out'[e][1].msg.sid = s
      BY <1>3 DEF AckIni, SessionAckMsg
    <3> QED
      BY <3>1, <3>2, <3>3
  <2>2. ~(DispatchPing(e) \/ DispatchSessionReqFails(e) \/ DispatchForward(e) \/ DispatchBad(e))
    BY <1>5, AnswerFacts DEF DInv
  <2>3. ~DispatchBye(e)
    BY <1>5, ByeFacts DEF DInv
  <2> QED
    BY <2>1, <2>2, <2>3 DEF Dispatch
<1> QED
  BY <1>4, <1>6, <1>7, OutElsewhere

\* How a message about a session comes into the stream of d: one of the two acks, a
\* message that is due from the other end, or a notice.
Arrival(d, m) ==
    \/ \E s \in Minted : /\ d = hist[s].ini /\ m = AckIni(s).msg
                         /\ BothDue(s) /\ out'[d] = <<AckTgt(s)>>
    \/ \E s \in Minted : /\ d = hist[s].tgt /\ m = AckTgt(s).msg
                         /\ out[hist[s].ini] = <<AckTgt(s)>> /\ out'[hist[s].ini] = <<>>
    \/ \E s \in Minted, c \in Conn :
          /\ Ends(s, c, d) /\ ~BothDue(s)
          /\ m.sid = s /\ m.kind \in {"peer.sdp", "peer.ice", "peer.gone"}
          /\ m.kind = "peer.gone" \/ m.peer = id[c]
          /\ out[c] = <<[to |-> d, msg |-> m]>> /\ out'[c] = <<>>
    \/ \E s \in Minted, c \in Conn :
          /\ Ends(s, c, d) /\ m = PeerGoneMsg(s)
          /\ [to |-> d, sid |-> s] \in notify[c] /\ out[c] = <<>>
          /\ notify'[c] = notify[c] \ {[to |-> d, sid |-> s]}

\* Nothing about a session comes into a stream but in these ways.
LEMMA Arrives ==
    ASSUME DInv, [Next]_vars, NEW d \in Conn
    PROVE  \E m \in Msg : Effect(d, m) /\ (m.sid = NoSid \/ Arrival(d, m))
<1>0. TypeOK /\ HeldInPlace /\ PongMsg \in Msg /\ PongMsg.sid = NoSid
  BY DEF DInv, IInv, PongMsg, Msg, MsgKind
<1>1. ASSUME NEW c \in Conn, Inner(c)
      PROVE  \E m \in Msg : Effect(d, m) /\ (m.sid = NoSid \/ Arrival(d, m))
  BY <1>0, <1>1, InnerEffect
<1>2. ASSUME UNCHANGED <<recv, inflight, send, closeCh, link>>
      PROVE  \E m \in Msg : Effect(d, m) /\ (m.sid = NoSid \/ Arrival(d, m))
  BY <1>0, <1>2, SameEffect
<1>3. ASSUME NEW e \in Conn, NEW x \in Msg, Send(e, x), UNCHANGED <<recv, inflight, link>>,
             e = d => x.sid = NoSid \/ Arrival(d, x)
      PROVE  \E m \in Msg : Effect(d, m) /\ (m.sid = NoSid \/ Arrival(d, m))
  <2>1. Effect(e, x) /\ \A f \in Conn \ {e} : Kept(f) /\ (Healthy(f)' <=> Healthy(f))
    BY <1>0, <1>3, SendEffect
  <2>2. CASE e = d
    BY <1>3, <2>1, <2>2
  <2>3. CASE e # d
    BY <1>0, <2>1, <2>3 DEF Effect
  <2> QED
    BY <2>2, <2>3
<1>4. ASSUME NEW c \in Conn, SendNext(c)
      PROVE  \E m \in Msg : Effect(d, m) /\ (m.sid = NoSid \/ Arrival(d, m))
  <2>0. UNCHANGED <<recv, inflight, link>>
    BY <1>4 DEF SendNext
  <2>1. ASSUME NEW e \in Conn, NEW x \in Msg,
               out[c] = <<[to |-> e, msg |-> x]>>, out'[c] = <<>>, e = d
        PROVE  x.sid = NoSid \/ Arrival(d, x)
    <3>1. \A y : out[c] = <<y>> => y.to = d /\ y.msg = x
      BY <2>1
    <3>2. \A y, z : out[c] # <<y, z>> /\ out[c] # <<>>
      BY <2>1
    <3>3. CASE DueAnswer(c)
      BY <3>1, <3>3 DEF DueAnswer
    <3>4. CASE DueAcks(c)
      <4>1. PICK s \in Minted : c = hist[s].ini /\ out[c] = <<AckTgt(s)>>
        BY <3>2, <3>4 DEF DueAcks, LastDue, BothDue
      <4>2. d = hist[s].tgt /\ x = AckTgt(s).msg
        BY <3>1, <4>1 DEF AckTgt
      <4> QED
        BY <2>1, <4>1, <4>2 DEF Arrival
    <3>5. CASE DueRelay(c)
      <4>1. PICK s \in Minted, f \in Conn, m \in Msg :
                /\ out[c] = <<[to |-> f, msg |-> m]>>
                /\ Ends(s, c, f) /\ ~BothDue(s)
                /\ m.sid = s /\ m.kind \in {"peer.sdp", "peer.ice", "peer.gone"}
                /\ m.kind = "peer.gone" \/ m.peer = id[c]
        BY <3>5 DEF DueRelay
      <4>2. f = d /\ m = x
        BY <3>1, <4>1
      <4> QED
        BY <2>1, <4>1, <4>2 DEF Arrival
    <3> QED
      BY <3>2, <3>3, <3>4, <3>5 DEF DInv, OutShape, OutShapeAt
  <2>2. CASE \E e \in Conn, x \in Msg : /\ out[c] = <<[to |-> e, msg |-> x]>> /\ out'[c] = <<>>
                                        /\ Send(e, x)
    BY <1>3, <2>0, <2>1, <2>2
  <2>3. ASSUME NEW s \in Minted, c = hist[s].ini, BothDue(s), out'[c] = <<AckTgt(s)>>,
               Send(c, AckIni(s).msg)
        PROVE  \E m \in Msg : Effect(d, m) /\ (m.sid = NoSid \/ Arrival(d, m))
    <3>1. AckIni(s).msg \in Msg
      BY MintedEnds, MsgType, <1>0 DEF AckIni, TypeOK
    <3>2. PICK x \in Msg : x = AckIni(s).msg
      BY <3>1
    <3>3. c = d => Arrival(d, x)
      BY <2>3, <3>2 DEF Arrival
    <3> QED
      BY <1>3, <2>0, <2>3, <3>2, <3>3
  <2> QED
    BY <1>4, <2>2, <2>3, SendNextOut
<1>5. ASSUME NEW c \in Conn, NEW n \in notify[c], NotifyOne(c, n)
      PROVE  \E m \in Msg : Effect(d, m) /\ (m.sid = NoSid \/ Arrival(d, m))
  <2>1. PICK e \in Conn, s \in SessionID :
              /\ n = [to |-> e, sid |-> s] /\ s \in Minted /\ Ends(s, c, e) /\ out[c] = <<>>
              /\ PeerGoneMsg(s) \in Msg /\ Send(e, PeerGoneMsg(s))
              /\ UNCHANGED <<recv, inflight, link>>
    BY <1>5, NextNotice
  <2>2. notify'[c] = notify[c] \ {n}
    BY <1>0, <1>5 DEF NotifyOne, TypeOK
  <2>3. e = d => Arrival(d, PeerGoneMsg(s))
    BY <1>5, <2>1, <2>2 DEF Arrival
  <2> QED
    BY <1>3, <2>1, <2>3
<1>6. ASSUME NEW c \in Conn,
             Dispatch(c) \/ RunUnregisters(c) \/ \E f \in ClientFrame(c) : ReadFrame(c, f)
      PROVE  UNCHANGED <<recv, inflight, send, closeCh, link>>
  BY <1>6, DispatchFacts DEF RunUnregisters, ReadFrame, DInv
<1>7. CASE UNCHANGED vars
  BY <1>2, <1>7 DEF vars, connVars
<1> QED
  BY <1>1, <1>2, <1>4, <1>5, <1>6, <1>7, StepCases

\* What is due stays due or is sent: it is then in the stream of a healthy connection.
LEMMA DueIsSent ==
    ASSUME DInv, [Next]_vars, NEW c \in Conn, NEW d \in Conn, NEW m \in Msg,
           NEW k \in DOMAIN out[c], out[c][k] = [to |-> d, msg |-> m], Healthy(d)'
    PROVE  Queued(d, m)' \/ \E j \in DOMAIN out'[c] : out'[c][j] = [to |-> d, msg |-> m]
<1>0. TypeOK /\ HeldInPlace /\ IInv
  BY DEF DInv, IInv
<1>1. CASE out'[c] = out[c]
  BY <1>1
<1>2. CASE Dispatch(c)
  <2>1. out[c] = <<>>
    BY <1>0, <1>2, DispatchFacts
  <2> QED
    BY <2>1
<1>3. ASSUME Send(d, m), SendNext(c) PROVE Queued(d, m)'
  <2>1. Pushed(d, m)
    BY <1>0, <1>3, SendEffect DEF SendNext
  <2> QED
    BY <1>0, <2>1, PushedFacts DEF Queued
<1>4. CASE SendNext(c)
  <2>1. ASSUME NEW e \in Conn, NEW x \in Msg, out[c] = <<[to |-> e, msg |-> x]>>, Send(e, x)
        PROVE  Send(d, m)
    <3>1. k = 1
      BY <2>1
    <3>2. e = d /\ x = m
      BY <2>1, <3>1
    <3> QED
      BY <2>1, <3>2
  <2>2. ASSUME NEW s \in Minted, c = hist[s].ini, BothDue(s), out'[c] = <<AckTgt(s)>>,
               Send(c, AckIni(s).msg)
        PROVE  Send(d, m) \/ \E j \in DOMAIN out'[c] : out'[c][j] = [to |-> d, msg |-> m]
    <3>1. out[c] = <<AckIni(s), AckTgt(s)>>
      BY <2>2 DEF BothDue
    <3>2. k = 1 \/ k = 2
      BY <3>1
    <3>3. CASE k = 1
      <4>1. AckIni(s) = [to |-> d, msg |-> m]
        BY <3>1, <3>3
      <4>2. d = c /\ m = AckIni(s).msg
        BY <2>2, <4>1 DEF AckIni
      <4> QED
        BY <2>2, <4>2
    <3>4. CASE k = 2
      <4>1. AckTgt(s) = [to |-> d, msg |-> m]
        BY <3>1, <3>4
      <4> QED
        BY <2>2, <4>1
    <3> QED
      BY <3>2, <3>3, <3>4
  <2> QED
    BY <1>3, <1>4, <2>1, <2>2, SendNextOut
<1> QED
  BY <1>1, <1>2, <1>4, OutElsewhere

LEMMA NoticeIsSent ==
    ASSUME DInv, [Next]_vars, NEW c \in Conn, NEW d \in Conn, NEW s \in SessionID,
           [to |-> d, sid |-> s] \in notify[c], Healthy(d)'
    PROVE  Queued(d, PeerGoneMsg(s))' \/ [to |-> d, sid |-> s] \in notify'[c]
<1>0. TypeOK /\ HeldInPlace /\ IInv /\ notify \in [Conn -> SUBSET Notice]
  BY DEF DInv, IInv, TypeOK
<1>1. ASSUME NEW e \in Conn,
             \/ Inner(e) \/ SendNext(e) \/ Dispatch(e) \/ \E f \in ClientFrame(e) : ReadFrame(e, f)
      PROVE  UNCHANGED notify
  BY <1>0, <1>1, InnerKeeps, DispatchFacts DEF SendNext, ReadFrame
<1>2. ASSUME NEW e \in Conn, RunUnregisters(e) PROVE [to |-> d, sid |-> s] \in notify'[c]
  BY <1>0, <1>2, UnregisterFacts
<1>3. ASSUME NEW e \in Conn, NEW n \in notify[e], NotifyOne(e, n)
      PROVE  Queued(d, PeerGoneMsg(s))' \/ [to |-> d, sid |-> s] \in notify'[c]
  <2>1. notify'[e] = notify[e] \ {n} /\ \A f \in Conn \ {e} : notify'[f] = notify[f]
    BY <1>0, <1>3 DEF NotifyOne
  <2>2. CASE e = c /\ n = [to |-> d, sid |-> s]
    <3>1. n.to = d /\ n.sid = s
      BY <2>2
    <3>2. PICK m \in Msg : m = PeerGoneMsg(s)
      BY MsgType
    <3>3. Send(d, m) /\ UNCHANGED <<recv, inflight, link>>
      BY <1>3, <3>1, <3>2 DEF NotifyOne
    <3>4. Pushed(d, m)
      BY <1>0, <3>3, SendEffect
    <3> QED
      BY <1>0, <3>2, <3>4, PushedFacts DEF Queued
  <2> QED
    BY <2>1, <2>2
<1>4. CASE UNCHANGED vars
  BY <1>4 DEF vars, connVars
<1> QED
  BY <1>1, <1>2, <1>3, <1>4, StepCases

LEMMA OutShapeStep ==
    ASSUME DInv, [Next]_vars
    PROVE  OutShape'
<1> SUFFICES ASSUME NEW c \in Conn PROVE OutShapeAt(c)'
  BY DEF OutShape
<1>0. IInv /\ HeldInPlace /\ OutShapeAt(c)
  BY DEF DInv, OutShape
<1>1. CASE out'[c] = <<>>
  BY <1>1 DEF OutShapeAt
<1>2. ASSUME NEW s \in Minted, NEW d \in Conn, NEW m \in Msg,
             out'[c] = <<[to |-> d, msg |-> m]>>, Ends(s, c, d), ~BothDue(s),
             m.sid = s, m.kind \in {"peer.sdp", "peer.ice", "peer.gone"},
             m.kind = "peer.gone" \/ m.peer = id[c]
      PROVE  OutShapeAt(c)'
  <2>1. s \in Minted' /\ Ends(s, c, d)' /\ id'[c] = id[c]
    BY <1>2, Stable DEF Ends
  <2>2. ~BothDue(s)'
    BY <1>2, BothDueOnce
  <2> QED
    BY <1>2, <2>1, <2>2 DEF OutShapeAt, DueRelay
<1>3. CASE out'[c] = out[c]
  <2>1. CASE out[c] = <<>>
    BY <1>1, <1>3, <2>1
  <2>2. CASE DueAnswer(c)
    BY <1>3, <2>2 DEF OutShapeAt, DueAnswer
  <2>3. CASE DueAcks(c)
    <3>1. PICK s \in Minted : c = hist[s].ini /\ LastDue(s)
      BY <2>3 DEF DueAcks
    <3>2. /\ s \in Minted' /\ hist'[s].ini = c
          /\ AckIni(s)' = AckIni(s) /\ AckTgt(s)' = AckTgt(s)
      BY <3>1, Stable
    <3>3. LastDue(s)'
      BY <1>3, <3>1, <3>2 DEF LastDue, BothDue
    <3> QED
      BY <3>2, <3>3 DEF OutShapeAt, DueAcks
  <2>4. CASE DueRelay(c)
    BY <1>2, <1>3, <2>4 DEF DueRelay
  <2> QED
    BY <1>0, <2>1, <2>2, <2>3, <2>4 DEF OutShapeAt
<1>4. CASE SendNext(c)
  <2>1. ASSUME NEW s \in Minted, c = hist[s].ini, out'[c] = <<AckTgt(s)>> PROVE OutShapeAt(c)'
    <3>1. s \in Minted' /\ hist'[s].ini = c /\ AckTgt(s)' = AckTgt(s)
      BY <2>1, Stable
    <3> QED
      BY <2>1, <3>1 DEF OutShapeAt, DueAcks, LastDue
  <2> QED
    BY <1>1, <1>4, <2>1, SendNextOut
<1>5. CASE Dispatch(c)
  <2>1. ASSUME NEW s \in SessionID, DispatchSessionReq(c, s) PROVE OutShapeAt(c)'
    <3>1. s \in Minted' /\ hist'[s].ini = c /\ BothDue(s)'
      BY <1>0, <2>1, RequestFacts
    <3> QED
      BY <3>1 DEF OutShapeAt, DueAcks, LastDue
  <2>2. reader[c] = "dispatch"
    BY <1>0, <1>5, DispatchFacts
  <2>3. ASSUME Open(frame[c].sid)
        PROVE  \E s \in Minted : s = frame[c].sid /\ ~BothDue(s)
    <3>1. frame[c].sid \in SessionID
      BY <2>3 DEF Open
    <3>2. frame[c].sid # NoSid
      BY <3>1, WireAssumption
    <3> QED
      BY <2>2, <3>2 DEF DInv, FirstAckSent
  <2>4. CASE DispatchPing(c) \/ DispatchSessionReqFails(c) \/ DispatchForward(c) \/ DispatchBad(c)
    <3>1. CASE \E m \in Msg : m.sid = NoSid /\ out'[c] = <<[to |-> c, msg |-> m]>>
      BY <3>1 DEF OutShapeAt, DueAnswer
    <3>2. CASE ~\E m \in Msg : m.sid = NoSid /\ out'[c] = <<[to |-> c, msg |-> m]>>
      <4>1. /\ Open(frame[c].sid)
            /\ \E d \in Conn, m \in Msg :
                       /\ out'[c] = <<[to |-> d, msg |-> m]>>
                       /\ Ends(frame[c].sid, c, d)
                       /\ m.sid = frame[c].sid /\ m.kind \in {"peer.sdp", "peer.ice"}
                       /\ m.peer = id[c]
        BY <1>0, <2>4, <3>2, AnswerFacts
      <4>2. PICK s \in Minted : s = frame[c].sid /\ ~BothDue(s)
        BY <2>3, <4>1
      <4> QED
        BY <1>2, <4>1, <4>2
    <3> QED
      BY <3>1, <3>2
  <2>5. CASE DispatchBye(c)
    <3>1. CASE out'[c] # <<>>
      <4>1. PICK d \in Conn : /\ Open(frame[c].sid) /\ Ends(frame[c].sid, c, d)
                              /\ out'[c] = <<[to |-> d, msg |-> PeerGoneMsg(frame[c].sid)]>>
        BY <1>0, <2>5, <3>1, ByeFacts
      <4>2. PICK s \in Minted : s = frame[c].sid /\ ~BothDue(s)
        BY <2>3, <4>1
      <4>3. PICK m \in Msg : m = PeerGoneMsg(s)
        BY <4>2, MsgType DEF Minted
      <4>4. m.sid = s /\ m.kind = "peer.gone"
        BY <4>3 DEF PeerGoneMsg
      <4> QED
        BY <1>2, <4>1, <4>2, <4>3, <4>4
    <3> QED
      BY <1>1, <3>1
  <2> QED
    BY <1>5, <2>1, <2>4, <2>5 DEF Dispatch
<1> QED
  BY <1>3, <1>4, <1>5, OutElsewhere

LEMMA NoticeShapeStep ==
    ASSUME DInv, [Next]_vars
    PROVE  NoticeShape'
<1> SUFFICES ASSUME NEW c \in Conn, NEW n \in notify'[c]
             PROVE  n.sid \in Minted' /\ Ends(n.sid, c, n.to)'
  BY DEF NoticeShape
<1>0. IInv /\ HeldInPlace /\ notify \in [Conn -> SUBSET Notice]
  BY DEF DInv, IInv, TypeOK
<1>1. ASSUME n.sid \in Minted, Ends(n.sid, c, n.to)
      PROVE  n.sid \in Minted' /\ Ends(n.sid, c, n.to)'
  <2>1. PICK s \in Minted : s = n.sid
    BY <1>1
  <2>2. s \in Minted' /\ hist'[s].ini = hist[s].ini /\ hist'[s].tgt = hist[s].tgt
    BY Stable
  <2> QED
    BY <1>1, <2>1, <2>2 DEF Ends
<1>2. CASE n \in notify[c]
  BY <1>1, <1>2 DEF DInv, NoticeShape
<1>3. CASE n \notin notify[c]
  <2>1. ASSUME NEW e \in Conn,
             \/ Inner(e) \/ SendNext(e) \/ Dispatch(e) \/ \E f \in ClientFrame(e) : ReadFrame(e, f)
        PROVE  UNCHANGED notify
    BY <1>0, <2>1, InnerKeeps, DispatchFacts DEF SendNext, ReadFrame, IInv
  <2>2. ASSUME NEW e \in Conn, NEW x \in notify[e], NotifyOne(e, x) PROVE FALSE
    BY <1>0, <1>3, <2>2 DEF NotifyOne
  <2>3. ASSUME NEW e \in Conn, RunUnregisters(e)
        PROVE  n.sid \in Minted /\ Ends(n.sid, c, n.to)
    <3>1. c = e
      BY <1>0, <1>3, <2>3, UnregisterFacts
    <3>2. n.sid \in SessionID /\ Open(n.sid) /\ Ends(n.sid, c, n.to)
      BY <1>0, <2>3, <3>1, UnregisterFacts
    <3> QED
      BY <1>0, <3>2, OpenEnds
  <2>4. CASE UNCHANGED vars
    BY <1>3, <2>4 DEF vars, connVars
  <2> QED
    BY <1>1, <1>3, <2>1, <2>2, <2>3, <2>4, StepCases
<1> QED
  BY <1>2, <1>3

\* The connection d may be sent m.
RightRoute(d, m) ==
    m.sid # NoSid =>
        /\ m.sid \in Minted
        /\ d \in {hist[m.sid].ini, hist[m.sid].tgt}
        /\ m.kind \in {"peer.sdp", "peer.ice"} =>
              \/ d = hist[m.sid].tgt /\ m.peer = id[hist[m.sid].ini]
              \/ d = hist[m.sid].ini /\ m.peer = id[hist[m.sid].tgt]

LEMMA RoutedIsRight ==
    ASSUME TypeOK
    PROVE  RoutedWithinSession <=>
              \A d \in Conn : \A k \in DOMAIN Stream(d) : RightRoute(d, Stream(d)[k])
<1> SUFFICES ASSUME NEW d \in Conn, NEW k \in DOMAIN Stream(d)
             PROVE  RightRoute(d, Stream(d)[k]) <=>
                       LET m == Stream(d)[k]
                           h == hist[m.sid]
                       IN  m.sid # NoSid =>
                               /\ h # NoSession
                               /\ d \in {h.ini, h.tgt}
                               /\ m.kind \in {"peer.sdp", "peer.ice"} =>
                                     \/ d = h.tgt /\ m.peer = id[h.ini]
                                     \/ d = h.ini /\ m.peer = id[h.tgt]
  BY DEF RoutedWithinSession
<1>1. Stream(d)[k] \in Msg
  BY StreamType
<1>2. Stream(d)[k].sid \in SessionID \cup {NoSid}
  BY <1>1 DEF Msg
<1> QED
  BY <1>2 DEF RightRoute, Minted

LEMMA RightRouteStays ==
    ASSUME DInv, [Next]_vars, NEW d \in Conn, NEW m, RightRoute(d, m)
    PROVE  RightRoute(d, m)'
<1>1. CASE m.sid = NoSid
  BY <1>1 DEF RightRoute
<1>2. CASE m.sid # NoSid
  <2>1. PICK s \in Minted : s = m.sid
    BY <1>2 DEF RightRoute
  <2>2. /\ s \in Minted' /\ hist'[s].ini = hist[s].ini /\ hist'[s].tgt = hist[s].tgt
        /\ id'[hist[s].ini] = id[hist[s].ini] /\ id'[hist[s].tgt] = id[hist[s].tgt]
    BY Stable
  <2> QED
    BY <2>1, <2>2 DEF RightRoute
<1> QED
  BY <1>1, <1>2

\* What arrives comes the right way.
LEMMA ArrivalRight ==
    ASSUME DInv, NEW d \in Conn, NEW m \in Msg, Arrival(d, m)
    PROVE  RightRoute(d, m)
<1>1. ASSUME NEW s \in Minted, d = hist[s].ini, m = AckIni(s).msg PROVE RightRoute(d, m)
  <2>1. m.sid = s /\ m.kind = "session.ack"
    BY <1>1 DEF AckIni, SessionAckMsg
  <2> QED
    BY <1>1, <2>1 DEF RightRoute
<1>2. ASSUME NEW s \in Minted, d = hist[s].tgt, m = AckTgt(s).msg PROVE RightRoute(d, m)
  <2>1. m.sid = s /\ m.kind = "session.ack"
    BY <1>2 DEF AckTgt, SessionAckMsg
  <2> QED
    BY <1>2, <2>1 DEF RightRoute
<1>3. ASSUME NEW s \in Minted, NEW c \in Conn, Ends(s, c, d), m.sid = s,
             m.kind = "peer.gone" \/ m.peer = id[c]
      PROVE  RightRoute(d, m)
  BY <1>3 DEF RightRoute, Ends
<1>4. \A s : PeerGoneMsg(s).sid = s /\ PeerGoneMsg(s).kind = "peer.gone"
  BY DEF PeerGoneMsg
<1> QED
  BY <1>1, <1>2, <1>3, <1>4 DEF Arrival

LEMMA RoutedStep ==
    ASSUME DInv, [Next]_vars
    PROVE  RoutedWithinSession'
<1>0. TypeOK
  BY DEF DInv, IInv
<1>1. ASSUME NEW d \in Conn, NEW k \in DOMAIN Stream(d)'
      PROVE  Stream(d)'[k] \in Msg /\ RightRoute(d, Stream(d)[k])'
  <2>1. PICK x \in Msg : Effect(d, x) /\ (x.sid = NoSid \/ Arrival(d, x))
    BY Arrives
  <2>2. RightRoute(d, x)
    BY <2>1, ArrivalRight DEF RightRoute
  <2>3. RightRoute(d, x)'
    BY <2>2, RightRouteStays
  <2>4. CASE \E j \in DOMAIN Stream(d) : Stream(d)'[k] = Stream(d)[j]
    <3>1. PICK j \in DOMAIN Stream(d) : Stream(d)'[k] = Stream(d)[j]
      BY <2>4
    <3>2. PICK m \in Msg : m = Stream(d)[j]
      BY <1>0, StreamType
    <3>3. RightRoute(d, m)
      BY <1>0, <3>2, RoutedIsRight DEF DInv
    <3>4. RightRoute(d, m)'
      BY <3>3, RightRouteStays
    <3> QED
      BY <3>1, <3>2, <3>4
  <2>5. CASE Stream(d)'[k] = x
    BY <2>3, <2>5
  <2> QED
    BY <1>0, <2>1, <2>4, <2>5, NothingElse
<1>2. ASSUME NEW d \in Conn, NEW k \in DOMAIN Stream(d)', Stream(d)'[k].sid # NoSid
      PROVE  /\ hist'[Stream(d)'[k].sid] # NoSession
             /\ RightRoute(d, Stream(d)[k])'
  <2>1. Stream(d)'[k] \in Msg /\ RightRoute(d, Stream(d)[k])'
    BY <1>1, <1>2
  <2> QED
    BY <1>2, <2>1 DEF RightRoute, Minted
<1> QED
  BY <1>2 DEF RoutedWithinSession, RightRoute

-----------------------------------------------------------------------------
(***************************************************************************)
(* The acks.                                                               *)
(***************************************************************************)
\* A frame is dispatched as it was read.
LEMMA FrameHeld ==
    ASSUME DInv, [Next]_vars, NEW c \in Conn, reader'[c] = "dispatch"
    PROVE  \/ reader[c] = "dispatch" /\ frame'[c] = frame[c]
           \/ \E f \in ClientFrame(c) : ReadFrame(c, f) /\ frame'[c] = f
<1>0. IInv /\ HeldInPlace /\ TypeOK /\ frame \in [Conn -> Frame \cup {NoFrame}] /\ reader \in [Conn -> Reader]
  BY DEF DInv, IInv, TypeOK
<1>1. ASSUME NEW e \in Conn,
             Inner(e) \/ RunUnregisters(e) \/ \E n \in notify[e] : NotifyOne(e, n)
      PROVE  reader[c] = "dispatch" /\ frame'[c] = frame[c]
  BY <1>0, <1>1, InnerKeeps DEF RunUnregisters, NotifyOne
<1>2. ASSUME NEW e \in Conn, SendNext(e) PROVE reader[c] = "dispatch" /\ frame'[c] = frame[c]
  BY <1>0, <1>2 DEF SendNext
<1>3. ASSUME NEW e \in Conn, Dispatch(e) PROVE reader[c] = "dispatch" /\ frame'[c] = frame[c]
  <2>1. e # c
    BY <1>0, <1>3, DispatchFacts
  <2> QED
    BY <1>0, <1>3, <2>1, DispatchFacts
<1>4. ASSUME NEW e \in Conn, NEW f \in ClientFrame(e), ReadFrame(e, f)
      PROVE  \/ reader[c] = "dispatch" /\ frame'[c] = frame[c]
             \/ e = c /\ frame'[c] = f
  BY <1>0, <1>4 DEF ReadFrame
<1>5. CASE UNCHANGED vars
  BY <1>5 DEF vars, connVars
<1> QED
  BY <1>1, <1>2, <1>3, <1>4, <1>5, StepCases

\* A session a client can name was announced to a connection, one of the client's own
\* where clients do not name the sessions of others.
LEMMA NamedWasTold ==
    ASSUME DInv, NEW c \in Conn, NEW f \in ClientFrame(c), f.sid # NoSid
    PROVE  /\ f.sid \in Minted
           /\ \E d \in Conn : /\ ForeignSids \/ id[d] = id[c]
                              /\ \E k \in DOMAIN Stream(d) :
                                    Stream(d)[k].sid = f.sid /\ Stream(d)[k].kind = "session.ack"
<1>0. TypeOK
  BY DEF DInv, IInv
<1>1. f.sid \in Nameable(c)
  BY DEF ClientFrame
<1>2. PICK d \in Conn : (ForeignSids \/ id[d] = id[c]) /\ f.sid \in Told(d)
  BY <1>1 DEF Nameable
<1>3. PICK k \in DOMAIN recv[d] : recv[d][k].kind = "session.ack" /\ recv[d][k].sid = f.sid
  BY <1>2 DEF Told
<1>4. k \in DOMAIN Stream(d) /\ Stream(d)[k] = recv[d][k]
  <2> DEFINE a == recv[d]
             b == inflight[d]
             e == send[d]
  <2>1. a \in Seq(Msg) /\ b \in Seq(Msg) /\ e \in Seq(Msg) /\ a \o b \in Seq(Msg) /\ k \in DOMAIN a
    BY <1>0, StreamType
  <2>2. Stream(d) = (a \o b) \o e
    BY DEF Stream
  <2> HIDE DEF a, b, e
  <2>3. /\ Len(a \o b) = Len(a) + Len(b) /\ k \in 1 .. Len(a) /\ Len(a) \in Nat /\ Len(b) \in Nat
        /\ \A i \in 1 .. Len(a) + Len(b) : (a \o b)[i] = IF i <= Len(a) THEN a[i] ELSE b[i - Len(a)]
    BY <2>1, ConcatProperties, LenProperties
  <2>4. /\ (a \o b) \o e \in Seq(Msg) /\ Len((a \o b) \o e) = Len(a \o b) + Len(e) /\ Len(e) \in Nat
        /\ \A i \in 1 .. Len(a \o b) + Len(e) :
              ((a \o b) \o e)[i] = IF i <= Len(a \o b) THEN (a \o b)[i] ELSE e[i - Len(a \o b)]
    BY <2>1, ConcatProperties, LenProperties
  <2>5. DOMAIN ((a \o b) \o e) = 1 .. Len(a) + Len(b) + Len(e)
    BY <2>3, <2>4, LenProperties
  <2>6. ((a \o b) \o e)[k] = a[k]
    BY <2>3, <2>4
  <2>7. k \in DOMAIN ((a \o b) \o e)
    BY <2>3, <2>4, <2>5
  <2>8. k \in DOMAIN Stream(d) /\ Stream(d)[k] = a[k]
    BY <2>2, <2>6, <2>7
  <2> QED
    BY <2>8 DEF a
<1>5. f.sid \in Minted
  BY <1>0, <1>3, <1>4, RoutedIsRight DEF DInv, RightRoute
<1> QED
  BY <1>2, <1>3, <1>4, <1>5

LEMMA FirstAckSentStep ==
    ASSUME DInv, [Next]_vars
    PROVE  FirstAckSent'
<1>0. TypeOK
  BY DEF DInv, IInv
<1>1. ASSUME NEW s \in Minted, ~BothDue(s) PROVE s \in Minted' /\ ~BothDue(s)'
  BY <1>1, BothDueOnce, Stable
<1>2. ASSUME NEW c \in Conn, reader'[c] = "dispatch", frame'[c].sid # NoSid
      PROVE  frame'[c].sid \in Minted' /\ ~BothDue(frame[c].sid)'
  <2>1. PICK s : s = frame'[c].sid
    OBVIOUS
  <2>2. s \in Minted /\ ~BothDue(s)
    <3>1. CASE reader[c] = "dispatch" /\ frame'[c] = frame[c]
      BY <1>2, <2>1, <3>1 DEF DInv, FirstAckSent
    <3>2. ASSUME NEW f \in ClientFrame(c), frame'[c] = f PROVE s \in Minted /\ ~BothDue(s)
      <4>1. f.sid = s /\ s # NoSid
        BY <1>2, <2>1, <3>2
      <4> QED
        BY <4>1, NamedWasTold DEF DInv, FirstAckSent
    <3> QED
      BY <1>2, <3>1, <3>2, FrameHeld
  <2>3. s \in Minted' /\ ~BothDue(s)'
    BY <1>1, <2>2
  <2> QED
    BY <2>1, <2>3
<1>3. ASSUME NEW d \in Conn, NEW k \in DOMAIN Stream(d)',
             Stream(d)'[k].kind = "session.ack", Stream(d)'[k].sid # NoSid
      PROVE  ~BothDue(Stream(d)[k].sid)'
  <2>1. PICK s : s = Stream(d)'[k].sid
    OBVIOUS
  <2>2. PICK x \in Msg : Effect(d, x) /\ (x.sid = NoSid \/ Arrival(d, x))
    BY Arrives
  <2>3. CASE \E j \in DOMAIN Stream(d) : Stream(d)'[k] = Stream(d)[j]
    <3>1. PICK j \in DOMAIN Stream(d) : Stream(d)'[k] = Stream(d)[j]
      BY <2>3
    <3>2. s \in Minted
      BY <1>0, <1>3, <2>1, <3>1, RoutedIsRight DEF DInv, RightRoute
    <3>3. ~BothDue(s)
      BY <1>3, <2>1, <3>1 DEF DInv, FirstAckSent
    <3>4. ~BothDue(s)'
      BY <1>1, <3>2, <3>3
    <3> QED
      BY <2>1, <3>4
  <2>4. CASE Stream(d)'[k] = x
    <3>1. x.kind = "session.ack" /\ x.sid = s /\ Arrival(d, x)
      BY <1>3, <2>1, <2>2, <2>4
    <3>2. ASSUME NEW u \in Minted, x.sid = u, \E y : out'[hist[u].ini] = <<y>> \/ out'[hist[u].ini] = <<>>
          PROVE  ~BothDue(s)'
      <4>1. hist'[u].ini = hist[u].ini
        BY <3>2, Stable
      <4>2. \A y, z : out'[hist[u].ini] # <<y, z>>
        BY <3>2
      <4> QED
        BY <3>1, <3>2, <4>1, <4>2 DEF BothDue
    <3>3. \E u \in Minted : /\ x.sid = u
                           /\ \E y : out'[hist[u].ini] = <<y>> \/ out'[hist[u].ini] = <<>>
      <4>1. \A u : AckIni(u).msg.sid = u /\ AckTgt(u).msg.sid = u /\ PeerGoneMsg(u).kind = "peer.gone"
        BY DEF AckIni, AckTgt, SessionAckMsg, PeerGoneMsg
      <4>2. CASE \E u \in Minted : d = hist[u].ini /\ x = AckIni(u).msg /\ out'[d] = <<AckTgt(u)>>
        BY <4>1, <4>2
      <4>3. CASE \E u \in Minted : x = AckTgt(u).msg /\ out'[hist[u].ini] = <<>>
        BY <4>1, <4>3
      <4> QED
        BY <3>1, <4>1, <4>2, <4>3 DEF Arrival
    <3>4. ~BothDue(s)'
      BY <3>2, <3>3
    <3> QED
      BY <2>1, <3>4
  <2> QED
    BY <1>0, <2>2, <2>3, <2>4, NothingElse
<1> QED
  BY <1>2, <1>3 DEF FirstAckSent

\* A message that is sent is in the stream of a connection healthy afterwards.
LEMMA SentIsQueued ==
    ASSUME TypeOK, NEW c \in Conn, SendNext(c), NEW d \in Conn, NEW m \in Msg, Send(d, m), Healthy(d)'
    PROVE  Queued(d, m)'
<1>1. Pushed(d, m)
  BY SendEffect DEF SendNext
<1> QED
  BY <1>1, PushedFacts DEF Queued

LEMMA AckMsgs ==
    ASSUME TypeOK, NEW s \in Minted
    PROVE  /\ AckIni(s).to = hist[s].ini /\ AckTgt(s).to = hist[s].tgt
           /\ AckIni(s).msg \in Msg /\ AckTgt(s).msg \in Msg
           /\ AckIni(s).msg.sid = s /\ AckTgt(s).msg.sid = s
           /\ AckIni(s).msg.kind = "session.ack" /\ AckTgt(s).msg.kind = "session.ack"
<1>1. s \in SessionID /\ hist[s].ini \in Conn /\ hist[s].tgt \in Conn
  BY MintedEnds
<1>2. id[hist[s].ini] \in PeerID \cup {NoPeer} /\ id[hist[s].tgt] \in PeerID \cup {NoPeer}
  BY <1>1 DEF TypeOK
<1> QED
  BY <1>1, <1>2 DEF AckIni, AckTgt, SessionAckMsg, Msg, MsgKind

\* The dispatch makes the two Sends one after the other.
LEMMA AcksGoOut ==
    ASSUME DInv, [Next]_vars, NEW s \in Minted
    PROVE  /\ BothDue(s) =>
                 \/ BothDue(s)'
                 \/ /\ out'[hist[s].ini] = <<AckTgt(s)>>
                    /\ Healthy(hist[s].ini)' => Queued(hist[s].ini, AckIni(s).msg)'
           /\ out[hist[s].ini] = <<AckTgt(s)>> =>
                 \/ out'[hist[s].ini] = <<AckTgt(s)>>
                 \/ Healthy(hist[s].tgt)' => Queued(hist[s].tgt, AckTgt(s).msg)'
<1>0. TypeOK /\ IInv /\ HeldInPlace
  BY DEF DInv, IInv
<1>1. PICK c \in Conn, t \in Conn : c = hist[s].ini /\ t = hist[s].tgt
  BY <1>0, MintedEnds
<1>2. PICK m \in Msg, n \in Msg : m = AckIni(s).msg /\ n = AckTgt(s).msg
  BY <1>0, AckMsgs
<1>3. AckIni(s) = [to |-> c, msg |-> m] /\ AckTgt(s) = [to |-> t, msg |-> n]
  BY <1>1, <1>2 DEF AckIni, AckTgt
<1>4. hist'[s].ini = c /\ hist'[s].tgt = t /\ AckIni(s)' = AckIni(s) /\ AckTgt(s)' = AckTgt(s)
  BY <1>1, Stable
<1>5. out[c] # <<>> => out'[c] = out[c] \/ SendNext(c)
  BY <1>0, OutElsewhere, DispatchFacts
<1>6. ASSUME BothDue(s), ~BothDue(s)'
      PROVE  out'[c] = <<AckTgt(s)>> /\ (Healthy(c)' => Queued(c, m)')
  <2>1. out[c] = <<AckIni(s), AckTgt(s)>> /\ out'[c] # out[c]
    BY <1>1, <1>4, <1>6 DEF BothDue
  <2>2. SendNext(c) /\ \A x : out[c] # <<x>>
    BY <1>5, <2>1
  <2>3. PICK u \in Minted : /\ c = hist[u].ini /\ BothDue(u) /\ out'[c] = <<AckTgt(u)>>
                            /\ Send(c, AckIni(u).msg)
    BY <2>2, SendNextOut
  <2>4. <<AckIni(s), AckTgt(s)>> = <<AckIni(u), AckTgt(u)>>
    BY <2>1, <2>3 DEF BothDue
  <2>5. AckIni(s) = AckIni(u) /\ AckTgt(s) = AckTgt(u)
    BY <2>4
  <2>6. Send(c, m)
    BY <1>2, <2>3, <2>5
  <2> QED
    BY <1>0, <2>2, <2>3, <2>5, <2>6, SentIsQueued
<1>7. ASSUME out[c] = <<AckTgt(s)>>, out'[c] # <<AckTgt(s)>>
      PROVE  Healthy(t)' => Queued(t, n)'
  <2>1. SendNext(c) /\ \A x, y : out[c] # <<x, y>>
    BY <1>5, <1>7
  <2>2. PICK d \in Conn, x \in Msg : out[c] = <<[to |-> d, msg |-> x]>> /\ Send(d, x)
    <3>1. \A u : c = hist[u].ini => ~BothDue(u)
      BY <2>1 DEF BothDue
    <3> QED
      BY <2>1, <3>1, SendNextOut
  <2>3. [to |-> d, msg |-> x] = [to |-> t, msg |-> n]
    BY <1>3, <1>7, <2>2
  <2>4. Send(t, n)
    BY <2>2, <2>3
  <2> QED
    BY <1>0, <2>1, <2>4, SentIsQueued
<1>8. BothDue(s) => BothDue(s)' \/ (out'[c] = <<AckTgt(s)>> /\ (Healthy(c)' => Queued(c, m)'))
  BY <1>6
<1>9. out[c] = <<AckTgt(s)>> => out'[c] = <<AckTgt(s)>> \/ (Healthy(t)' => Queued(t, n)')
  BY <1>7
<1>10. /\ Healthy(hist[s].ini)' <=> Healthy(c)'
       /\ Queued(hist[s].ini, AckIni(s).msg)' <=> Queued(c, m)'
       /\ Healthy(hist[s].tgt)' <=> Healthy(t)'
       /\ Queued(hist[s].tgt, AckTgt(s).msg)' <=> Queued(t, n)'
  BY <1>1, <1>2, <1>4
<1> QED
  BY <1>1, <1>8, <1>9, <1>10

LEMMA AcksKeptStep ==
    ASSUME DInv, [Next]_vars
    PROVE  AcksKept'
<1>0. TypeOK
  BY DEF DInv, IInv
<1> SUFFICES ASSUME NEW s \in Minted'
             PROVE  /\ Healthy(hist[s].ini)' => Queued(hist[s].ini, AckIni(s).msg)' \/ BothDue(s)'
                    /\ Healthy(hist[s].tgt)' => Queued(hist[s].tgt, AckTgt(s).msg)' \/ LastDue(s)'
  BY DEF AcksKept
<1>1. CASE s \notin Minted
  <2>1. PICK c \in Conn : DispatchSessionReq(c, s)
    BY <1>1, Drawn
  <2>2. s \in SessionID
    BY DEF Minted
  <2>3. BothDue(s)'
    BY <2>1, <2>2, RequestFacts DEF DInv
  <2> QED
    BY <2>3 DEF LastDue
<1>2. CASE s \in Minted
  <2>1. PICK c \in Conn, t \in Conn : c = hist[s].ini /\ t = hist[s].tgt
    BY <1>0, <1>2, MintedEnds
  <2>2. PICK m \in Msg, n \in Msg : m = AckIni(s).msg /\ n = AckTgt(s).msg
    BY <1>0, <1>2, AckMsgs
  <2>3. hist'[s].ini = c /\ hist'[s].tgt = t /\ AckIni(s)' = AckIni(s) /\ AckTgt(s)' = AckTgt(s)
    BY <1>2, <2>1, Stable
  <2>4. \A d \in Conn : Healthy(d)' => Healthy(d) /\ \A x : Queued(d, x) => Queued(d, x)'
    <3> SUFFICES ASSUME NEW d \in Conn, Healthy(d)'
                 PROVE  Healthy(d) /\ \A x : Queued(d, x) => Queued(d, x)'
      OBVIOUS
    <3>1. PICK x \in Msg : Effect(d, x)
      BY Arrives
    <3> QED
      BY <1>0, <3>1, NothingLost
  <2>5. /\ Healthy(c) => Queued(c, m) \/ BothDue(s)
        /\ Healthy(t) => Queued(t, n) \/ LastDue(s)
    BY <1>2, <2>1, <2>2 DEF DInv, AcksKept
  <2>6. /\ BothDue(s) => \/ BothDue(s)'
                         \/ out'[c] = <<AckTgt(s)>> /\ (Healthy(c)' => Queued(c, m)')
        /\ out[c] = <<AckTgt(s)>> => out'[c] = <<AckTgt(s)>> \/ (Healthy(t)' => Queued(t, n)')
    BY <1>2, <2>1, <2>2, <2>3, AcksGoOut
  <2>7. Healthy(c)' => Queued(c, m)' \/ BothDue(s)'
    BY <2>4, <2>5, <2>6
  <2>8. LastDue(s) <=> BothDue(s) \/ out[c] = <<AckTgt(s)>>
    BY <2>1 DEF LastDue
  <2>9. LastDue(s)' <=> BothDue(s)' \/ out'[c] = <<AckTgt(s)>>
    BY <2>3 DEF LastDue
  <2>10. Healthy(t)' => Queued(t, n)' \/ LastDue(s)'
    BY <2>4, <2>5, <2>6, <2>8, <2>9
  <2> QED
    BY <2>2, <2>3, <2>7, <2>10
<1> QED
  BY <1>1, <1>2

\* When a message of the session arrives at an end, the ack is there already: a relay
\* needs a session id that only an ack makes known, and the initiator, which sends the
\* target's ack, sends what else the target gets after it.
LEMMA AckIsThere ==
    ASSUME DInv, NEW s \in Minted, NEW d \in Conn, NEW m \in Msg, Arrival(d, m), Healthy(d),
           m.sid = s, m.kind # "session.ack",
           d = hist[s].tgt \/ (d = hist[s].ini /\ m.kind # "peer.gone")
    PROVE  \E j \in DOMAIN Stream(d) : Stream(d)[j].sid = s /\ Stream(d)[j].kind = "session.ack"
<1>0. TypeOK
  BY DEF DInv, IInv
<1>1. /\ AckIni(s).msg.sid = s /\ AckTgt(s).msg.sid = s
      /\ AckIni(s).msg.kind = "session.ack" /\ AckTgt(s).msg.kind = "session.ack"
  BY <1>0, AckMsgs
<1>2. /\ Queued(d, AckIni(s).msg) \/ Queued(d, AckTgt(s).msg) =>
            \E j \in DOMAIN Stream(d) : Stream(d)[j].sid = s /\ Stream(d)[j].kind = "session.ack"
  BY <1>1 DEF Queued
<1>3. \A u \in Minted : m # AckIni(u).msg /\ m # AckTgt(u).msg
  BY <1>0, AckMsgs
<1>4. \A u : PeerGoneMsg(u).sid = u /\ PeerGoneMsg(u).kind = "peer.gone"
  BY DEF PeerGoneMsg
<1>5. PICK c \in Conn :
          /\ Ends(s, c, d)
          /\ \/ ~BothDue(s) /\ out[c] = <<[to |-> d, msg |-> m]>>
             \/ m.kind = "peer.gone" /\ out[c] = <<>>
  <2>1. CASE \E u \in Minted, c \in Conn :
                Ends(u, c, d) /\ ~BothDue(u) /\ m.sid = u /\ out[c] = <<[to |-> d, msg |-> m]>>
    BY <2>1
  <2>2. CASE \E u \in Minted, c \in Conn : Ends(u, c, d) /\ m = PeerGoneMsg(u) /\ out[c] = <<>>
    BY <1>4, <2>2
  <2> QED
    BY <1>3, <2>1, <2>2 DEF Arrival
<1>6. CASE d = hist[s].tgt
  <2>1. c = hist[s].ini
    BY <1>5, <1>6 DEF Ends
  <2>2. out[c] # <<AckTgt(s)>>
    <3>1. CASE out[c] = <<[to |-> d, msg |-> m]>>
      <4>1. AckTgt(s).msg # m
        BY <1>3
      <4>2. \A x : out[c] = <<x>> => x.msg = m
        BY <3>1
      <4> QED
        BY <4>1, <4>2
    <3>2. CASE out[c] = <<>>
      BY <3>2
    <3> QED
      BY <1>5, <3>1, <3>2
  <2>3. ~BothDue(s)
    <3>1. CASE out[c] = <<>>
      BY <2>1, <3>1 DEF BothDue
    <3> QED
      BY <1>5, <3>1
  <2>4. ~LastDue(s)
    BY <2>1, <2>2, <2>3 DEF LastDue
  <2> QED
    BY <1>2, <1>6, <2>4 DEF DInv, AcksKept
<1>7. CASE d = hist[s].ini /\ m.kind # "peer.gone"
  BY <1>2, <1>5, <1>7 DEF DInv, AcksKept
<1> QED
  BY <1>6, <1>7

LEMMA AckFirstStep ==
    ASSUME DInv, [Next]_vars
    PROVE  AckFirst'
<1>0. TypeOK /\ IInv /\ HeldInPlace
  BY DEF DInv, IInv
<1> SUFFICES ASSUME NEW s \in Minted'
             PROVE  /\ Healthy(hist[s].ini)' => AckLeads(hist[s].ini, s, {"peer.gone"})'
                    /\ Healthy(hist[s].tgt)' => AckLeads(hist[s].tgt, s, {})'
  BY DEF AckFirst
<1>1. CASE s \notin Minted
  <2>1. PICK c \in Conn : DispatchSessionReq(c, s)
    BY <1>1, Drawn
  <2>2. s \in SessionID
    BY DEF Minted
  <2>3. hist'[s].ini = c /\ hist'[s].tgt \in Conn
    BY <1>0, <2>1, <2>2, RequestFacts
  <2>4. UNCHANGED <<recv, inflight, send>>
    BY <1>0, <2>1, <2>2, DispatchFacts DEF Dispatch
  <2>5. ASSUME NEW d \in Conn, NEW ex PROVE AckLeads(d, s, ex)'
    <3>1. Stream(d)' = Stream(d)
      BY <2>4 DEF Stream
    <3>2. \A k \in DOMAIN Stream(d) : Stream(d)[k].sid # s
      BY <1>0, <1>1, <2>2, WireAssumption, RoutedIsRight DEF DInv, RightRoute
    <3> QED
      BY <3>1, <3>2 DEF AckLeads
  <2>6. PICK t \in Conn : t = hist'[s].tgt
    BY <2>3
  <2>7. AckLeads(c, s, {"peer.gone"})' /\ AckLeads(t, s, {})'
    BY <2>5
  <2> QED
    BY <2>3, <2>6, <2>7
<1>2. CASE s \in Minted
  <2>1. PICK c \in Conn, t \in Conn : c = hist[s].ini /\ t = hist[s].tgt
    BY <1>0, <1>2, MintedEnds
  <2>2. hist'[s].ini = c /\ hist'[s].tgt = t
    BY <1>2, <2>1, Stable
  <2>3. s # NoSid
    BY <1>2, WireAssumption DEF Minted
  <2>4. ASSUME NEW d \in Conn, NEW ex, Healthy(d)', Healthy(d) => AckLeads(d, s, ex),
               d = t \/ (d = c /\ "peer.gone" \in ex)
        PROVE  AckLeads(d, s, ex)'
    <3>1. PICK x \in Msg : Effect(d, x) /\ (x.sid = NoSid \/ Arrival(d, x))
      BY Arrives
    <3>2. Healthy(d)
      BY <2>4, <3>1 DEF Effect
    <3>3. ASSUME x.sid = s, x.kind \notin ex \cup {"session.ack"}
          PROVE  \E j \in DOMAIN Stream(d) : Stream(d)[j].sid = s /\ Stream(d)[j].kind = "session.ack"
      <4>1. Arrival(d, x) /\ x.kind # "session.ack"
        BY <2>3, <3>1, <3>3
      <4>2. d = hist[s].tgt \/ (d = hist[s].ini /\ x.kind # "peer.gone")
        BY <2>1, <2>4, <3>3
      <4> QED
        BY <1>2, <3>2, <3>3, <4>1, <4>2, AckIsThere
    <3> QED
      BY <1>0, <2>4, <3>1, <3>2, <3>3, StillLeads
  <2>5. /\ Healthy(c) => AckLeads(c, s, {"peer.gone"})
        /\ Healthy(t) => AckLeads(t, s, {})
    BY <1>2, <2>1 DEF DInv, AckFirst
  <2>6. Healthy(c)' => AckLeads(c, s, {"peer.gone"})'
    <3>1. PICK ex : ex = {"peer.gone"}
      OBVIOUS
    <3>2. Healthy(c)' => AckLeads(c, s, ex)'
      BY <2>4, <2>5, <3>1
    <3> QED
      BY <3>1, <3>2
  <2>7. Healthy(t)' => AckLeads(t, s, {})'
    <3>1. PICK ex : ex = {}
      OBVIOUS
    <3>2. Healthy(t) => AckLeads(t, s, ex)
      BY <2>5, <3>1
    <3>3. Healthy(t)' => AckLeads(t, s, ex)'
      BY <2>4, <3>2
    <3> QED
      BY <3>1, <3>3
  <2> QED
    BY <2>2, <2>6, <2>7
<1> QED
  BY <1>1, <1>2

-----------------------------------------------------------------------------
(***************************************************************************)
(* The notices.                                                            *)
(***************************************************************************)
LEMMA GoneMsg ==
    ASSUME NEW s \in SessionID
    PROVE  /\ PeerGoneMsg(s) \in Msg /\ PeerGoneMsg(s).sid = s /\ PeerGoneMsg(s).kind = "peer.gone"
           /\ s # NoSid
BY MsgType, WireAssumption DEF PeerGoneMsg

\* What a dispatch has to send of a session's end is a peer.gone alone.
LEMMA GoneInOut ==
    ASSUME DInv, NEW c \in Conn, NEW s \in SessionID, NEW k \in DOMAIN out[c],
           out[c][k].msg = PeerGoneMsg(s)
    PROVE  /\ s \in Minted
           /\ \E d \in Conn : out[c] = <<[to |-> d, msg |-> PeerGoneMsg(s)]>> /\ Ends(s, c, d)
<1>0. TypeOK
  BY DEF DInv, IInv
<1>1. PeerGoneMsg(s).sid = s /\ PeerGoneMsg(s).kind = "peer.gone" /\ s # NoSid
  BY GoneMsg
<1>2. out[c] # <<>>
  OBVIOUS
<1>3. ASSUME NEW x, out[c] = <<x>> PROVE x.msg = PeerGoneMsg(s)
  <2>1. k = 1
    BY <1>3
  <2> QED
    BY <1>3, <2>1
<1>4. ~DueAnswer(c)
  <2>1. ASSUME NEW m \in Msg, m.sid = NoSid, out[c] = <<[to |-> c, msg |-> m]>> PROVE FALSE
    <3>1. [to |-> c, msg |-> m].msg = PeerGoneMsg(s)
      BY <1>3, <2>1
    <3> QED
      BY <1>1, <2>1, <3>1
  <2> QED
    BY <2>1 DEF DueAnswer
<1>5. ~DueAcks(c)
  <2>1. ASSUME NEW u \in Minted, c = hist[u].ini, LastDue(u) PROVE FALSE
    <3>1. AckIni(u).msg.kind = "session.ack" /\ AckTgt(u).msg.kind = "session.ack"
      BY <1>0, AckMsgs
    <3>2. out[c] # <<AckTgt(u)>>
      BY <1>1, <1>3, <3>1
    <3>3. CASE out[c] = <<AckIni(u), AckTgt(u)>>
      <4>1. out[c][k] = AckIni(u) \/ out[c][k] = AckTgt(u)
        BY <3>3
      <4> QED
        BY <1>1, <3>1, <4>1
    <3> QED
      BY <2>1, <3>2, <3>3 DEF LastDue, BothDue
  <2> QED
    BY <2>1 DEF DueAcks
<1>6. DueRelay(c)
  BY <1>2, <1>4, <1>5 DEF DInv, OutShape, OutShapeAt
<1>7. PICK u \in Minted, d \in Conn, m \in Msg :
          out[c] = <<[to |-> d, msg |-> m]>> /\ Ends(u, c, d) /\ m.sid = u
  BY <1>6 DEF DueRelay
<1>8. m = PeerGoneMsg(s)
  BY <1>3, <1>7
<1> QED
  BY <1>1, <1>7, <1>8

LEMMA GoneMinted ==
    ASSUME DInv, NEW s \in SessionID, NEW c \in Conn, GoneDue(c, s) \/ Queued(c, PeerGoneMsg(s))
    PROVE  s \in Minted
<1>1. CASE \E k \in DOMAIN out[c] : out[c][k].msg = PeerGoneMsg(s)
  BY <1>1, GoneInOut
<1>2. CASE \E n \in notify[c] : n.sid = s
  BY <1>2 DEF DInv, NoticeShape
<1>3. CASE Queued(c, PeerGoneMsg(s))
  <2>1. PICK k \in DOMAIN Stream(c) : Stream(c)[k] = PeerGoneMsg(s)
    BY <1>3 DEF Queued
  <2>2. RightRoute(c, Stream(c)[k])
    BY RoutedIsRight DEF DInv, IInv
  <2> QED
    BY <2>1, <2>2, GoneMsg DEF RightRoute
<1> QED
  BY <1>1, <1>2, <1>3 DEF GoneDue

\* A session that has ended is not opened again.
LEMMA NotReopened ==
    ASSUME DInv, [Next]_vars, NEW s \in Minted, Open(s)'
    PROVE  Open(s)
<1>0. IInv /\ HeldInPlace /\ TypeOK /\ s \in SessionID
  BY DEF DInv, IInv, Minted
<1>1. sessions'[s] # NoSession
  BY DEF Open
<1>2. ASSUME sessions'[s] = sessions[s] PROVE Open(s)
  BY <1>0, <1>1, <1>2 DEF Open
<1>3. ASSUME NEW c \in Conn,
             \/ Inner(c) \/ SendNext(c) \/ \E n \in notify[c] : NotifyOne(c, n)
             \/ \E f \in ClientFrame(c) : ReadFrame(c, f)
      PROVE  sessions'[s] = sessions[s]
  BY <1>0, <1>3, InnerKeeps DEF SendNext, NotifyOne, ReadFrame, hubVars
<1>4. ASSUME NEW c \in Conn, RunUnregisters(c) PROVE sessions'[s] = sessions[s]
  BY <1>0, <1>1, <1>4, UnregisterFacts
<1>5. ASSUME NEW c \in Conn, Dispatch(c) PROVE sessions'[s] = sessions[s]
  <2>1. ASSUME NEW u \in SessionID, DispatchSessionReq(c, u) PROVE sessions'[s] = sessions[s]
    BY <1>0, <2>1, RequestFacts
  <2>2. CASE DispatchPing(c) \/ DispatchSessionReqFails(c) \/ DispatchForward(c) \/ DispatchBad(c)
    BY <1>0, <2>2, AnswerFacts DEF hubVars
  <2>3. CASE DispatchBye(c)
    <3>1. ~(s = frame[c].sid /\ Open(s))
      BY <1>0, <1>1, <2>3, ByeFacts
    <3> QED
      BY <1>0, <2>3, <3>1, ByeFacts
  <2> QED
    BY <1>5, <2>1, <2>2, <2>3 DEF Dispatch
<1>6. CASE UNCHANGED vars
  BY <1>2, <1>6 DEF vars, hubVars
<1> QED
  BY <1>2, <1>3, <1>4, <1>5, <1>6, StepCases

\* The peer.gone comes due in the step that ends the session, at the one that ends it.
LEMMA GoneComesDue ==
    ASSUME DInv, [Next]_vars, NEW s \in SessionID, NEW d \in Conn, GoneDue(d, s)', ~GoneDue(d, s)
    PROVE  /\ Open(s) /\ ~Open(s)' /\ hist'[s].by = d
           /\ \A e \in Conn : Kept(e)
<1>0. IInv /\ HeldInPlace /\ TypeOK /\ notify \in [Conn -> SUBSET Notice]
  BY DEF DInv, IInv, TypeOK
<1>1. PeerGoneMsg(s).sid = s /\ PeerGoneMsg(s).kind = "peer.gone" /\ s # NoSid
  BY GoneMsg
<1>2. ASSUME NEW k \in DOMAIN out'[d], out'[d][k].msg = PeerGoneMsg(s)
      PROVE  DispatchBye(d) /\ Open(s) /\ sessions'[s] = NoSession /\ hist'[s].by = d
  <2>1. out'[d] # out[d] /\ out'[d] # <<>>
    BY <1>2 DEF GoneDue
  <2>2. ASSUME NEW x, out'[d] = <<x>> PROVE x.msg = PeerGoneMsg(s)
    <3>1. k = 1
      BY <1>2, <2>2
    <3> QED
      BY <1>2, <2>2, <3>1
  <2>3. ~SendNext(d)
    <3>1. \A u \in Minted : AckTgt(u).msg.kind = "session.ack"
      BY <1>0, AckMsgs
    <3> QED
      BY <1>1, <2>1, <2>2, <3>1, SendNextOut
  <2>4. Dispatch(d)
    BY <2>1, <2>3, OutElsewhere
  <2>5. ASSUME NEW u \in SessionID, DispatchSessionReq(d, u) PROVE FALSE
    <3>1. hist'[u].ini = d /\ BothDue(u)'
      BY <1>0, <2>5, RequestFacts
    <3>2. out'[d] = <<AckIni(u)', AckTgt(u)'>>
      BY <3>1 DEF BothDue
    <3>3. out'[d][k] = AckIni(u)' \/ out'[d][k] = AckTgt(u)'
      BY <1>2, <3>2
    <3>4. AckIni(u)'.msg.kind = "session.ack" /\ AckTgt(u)'.msg.kind = "session.ack"
      BY DEF AckIni, AckTgt, SessionAckMsg
    <3> QED
      BY <1>1, <1>2, <3>3, <3>4
  <2>6. ~(DispatchPing(d) \/ DispatchSessionReqFails(d) \/ DispatchForward(d) \/ DispatchBad(d))
    <3>1. ASSUME NEW e \in Conn, NEW m \in Msg, out'[d] = <<[to |-> e, msg |-> m]>>
          PROVE  m.sid # NoSid /\ m.kind \notin {"peer.sdp", "peer.ice"}
      <4>1. [to |-> e, msg |-> m].msg = PeerGoneMsg(s)
        BY <2>2, <3>1
      <4> QED
        BY <1>1, <4>1
    <3> QED
      BY <1>0, <3>1, AnswerFacts
  <2>7. DispatchBye(d)
    BY <2>4, <2>5, <2>6 DEF Dispatch
  <2>8. PICK e \in Conn : /\ Open(frame[d].sid)
                          /\ out'[d] = <<[to |-> e, msg |-> PeerGoneMsg(frame[d].sid)]>>
    BY <1>0, <2>1, <2>7, ByeFacts
  <2>9. PeerGoneMsg(frame[d].sid) = PeerGoneMsg(s)
    BY <2>2, <2>8
  <2>10. frame[d].sid = s
    BY <1>1, <2>9 DEF PeerGoneMsg
  <2> QED
    BY <1>0, <2>7, <2>8, <2>10, ByeFacts
<1>3. ASSUME NEW n \in notify'[d], n.sid = s
      PROVE  RunUnregisters(d) /\ Open(s) /\ sessions'[s] = NoSession /\ hist'[s].by = d
  <2>1. n \notin notify[d]
    BY <1>3 DEF GoneDue
  <2>2. ASSUME NEW e \in Conn,
             \/ Inner(e) \/ SendNext(e) \/ Dispatch(e) \/ \E f \in ClientFrame(e) : ReadFrame(e, f)
        PROVE  UNCHANGED notify
    BY <1>0, <2>2, InnerKeeps, DispatchFacts DEF SendNext, ReadFrame
  <2>3. ASSUME NEW e \in Conn, NEW x \in notify[e], NotifyOne(e, x) PROVE FALSE
    BY <1>0, <1>3, <2>1, <2>3 DEF NotifyOne
  <2>4. ~UNCHANGED vars
    BY <1>3, <2>1 DEF vars, connVars
  <2>5. ASSUME NEW e \in Conn, RunUnregisters(e) PROVE e = d
    BY <1>0, <1>3, <2>1, <2>5, UnregisterFacts
  <2>6. RunUnregisters(d)
    BY <1>3, <2>1, <2>2, <2>3, <2>4, <2>5, StepCases
  <2> QED
    BY <1>0, <1>3, <2>6, UnregisterFacts
<1>4. /\ DispatchBye(d) \/ RunUnregisters(d)
      /\ Open(s) /\ sessions'[s] = NoSession /\ hist'[s].by = d
  BY <1>2, <1>3 DEF GoneDue
<1>5. UNCHANGED <<recv, inflight, send>>
  BY <1>0, <1>4, DispatchFacts DEF Dispatch, RunUnregisters
<1> QED
  BY <1>4, <1>5 DEF Open, Kept, Stream

\* When a peer.gone arrives it was due, and is so no longer.
LEMMA GoneArrives ==
    ASSUME DInv, [Next]_vars, NEW s \in SessionID, NEW d \in Conn, Arrival(d, PeerGoneMsg(s))
    PROVE  \E c \in Conn : GoneDue(c, s) /\ ~GoneDue(c, s)'
<1>0. IInv /\ HeldInPlace /\ TypeOK
  BY DEF DInv, IInv
<1>1. PeerGoneMsg(s).sid = s /\ PeerGoneMsg(s).kind = "peer.gone"
  BY GoneMsg
<1>2. \A u \in Minted : PeerGoneMsg(s) # AckIni(u).msg /\ PeerGoneMsg(s) # AckTgt(u).msg
  BY <1>0, <1>1, AckMsgs
<1>3. \A u : PeerGoneMsg(s) = PeerGoneMsg(u) => s = u
  BY DEF PeerGoneMsg
<1>4. ASSUME NEW c \in Conn, out[c] = <<[to |-> d, msg |-> PeerGoneMsg(s)]>>, out'[c] = <<>>
      PROVE  GoneDue(c, s) /\ ~GoneDue(c, s)'
  <2>1. 1 \in DOMAIN out[c] /\ out[c][1].msg = PeerGoneMsg(s)
    BY <1>4
  <2>2. out[c] # <<>> /\ out'[c] # out[c]
    BY <1>4
  <2>3. SendNext(c)
    BY <1>0, <2>2, OutElsewhere, DispatchFacts
  <2>4. UNCHANGED notify
    BY <2>3 DEF SendNext
  <2>5. phase[c] \in {"run", "wait"}
    BY <1>0, <2>3, NextSend
  <2>6. notify[c] = {}
    BY <1>0, <2>5 DEF HeldInPlace
  <2>7. DOMAIN out'[c] = {}
    BY <1>4
  <2> QED
    BY <2>1, <2>4, <2>6, <2>7 DEF GoneDue
<1>5. ASSUME NEW c \in Conn, s \in Minted, Ends(s, c, d), [to |-> d, sid |-> s] \in notify[c],
             out[c] = <<>>, notify'[c] = notify[c] \ {[to |-> d, sid |-> s]}
      PROVE  GoneDue(c, s) /\ ~GoneDue(c, s)'
  <2>1. GoneDue(c, s)
    BY <1>5 DEF GoneDue
  <2>2. out'[c] = <<>>
    <3>1. CASE SendNext(c)
      BY <1>0, <1>5, <3>1, NextSend
    <3>2. CASE Dispatch(c)
      BY <1>0, <1>5, <3>2, DispatchFacts
    <3> QED
      BY <1>5, <3>1, <3>2, OutElsewhere
  <2>3. ASSUME NEW n \in notify'[c], n.sid = s PROVE FALSE
    <3>1. n \in notify[c] /\ n # [to |-> d, sid |-> s] /\ n \in Notice
      BY <1>0, <1>5, <2>3 DEF TypeOK
    <3>2. Ends(s, c, n.to)
      BY <2>3, <3>1 DEF DInv, NoticeShape
    <3>3. n.to = d
      BY <1>5, <3>2 DEF Ends
    <3> QED
      BY <2>3, <3>1, <3>3 DEF Notice
  <2>4. DOMAIN out'[c] = {}
    BY <2>2
  <2> QED
    BY <2>1, <2>3, <2>4 DEF GoneDue
<1>6. CASE \E u \in Minted, c \in Conn :
              /\ PeerGoneMsg(s).sid = u
              /\ out[c] = <<[to |-> d, msg |-> PeerGoneMsg(s)]>> /\ out'[c] = <<>>
  BY <1>4, <1>6
<1>7. CASE \E u \in Minted, c \in Conn :
              /\ Ends(u, c, d) /\ PeerGoneMsg(s) = PeerGoneMsg(u)
              /\ [to |-> d, sid |-> u] \in notify[c] /\ out[c] = <<>>
              /\ notify'[c] = notify[c] \ {[to |-> d, sid |-> u]}
  BY <1>3, <1>5, <1>7
<1> QED
  BY <1>2, <1>6, <1>7 DEF Arrival

LEMMA GoneUniqueStep ==
    ASSUME DInv, [Next]_vars
    PROVE  GoneUnique'
<1>0. TypeOK
  BY DEF DInv, IInv
<1> SUFFICES ASSUME NEW s \in SessionID
             PROVE  /\ \A d \in Conn : GoneDue(d, s)' =>
                          /\ ~Open(s)'
                          /\ \A e \in Conn : ~Queued(e, PeerGoneMsg(s))' /\ (GoneDue(e, s)' => e = d)
                    /\ \A c \in Conn : Queued(c, PeerGoneMsg(s))' => ~Open(s)'
                    /\ \A c \in Conn : \A j, k \in DOMAIN Stream(c)' :
                          Stream(c)'[j] = PeerGoneMsg(s) /\ Stream(c)'[k] = PeerGoneMsg(s) => j = k
  BY DEF GoneUnique
<1>1. /\ \A d \in Conn : GoneDue(d, s) =>
            /\ ~Open(s)
            /\ \A e \in Conn : ~Queued(e, PeerGoneMsg(s)) /\ (GoneDue(e, s) => e = d)
      /\ \A c \in Conn : Queued(c, PeerGoneMsg(s)) => ~Open(s)
      /\ \A c \in Conn : \A j, k \in DOMAIN Stream(c) :
            Stream(c)[j] = PeerGoneMsg(s) /\ Stream(c)[k] = PeerGoneMsg(s) => j = k
  BY DEF DInv, GoneUnique
<1>2. PICK g \in Msg : g = PeerGoneMsg(s) /\ g.sid # NoSid
  BY GoneMsg
<1>3. ASSUME NEW d \in Conn, Queued(d, g)', ~Queued(d, g) PROVE Arrival(d, g)
  <2>1. PICK x \in Msg : Effect(d, x) /\ (x.sid = NoSid \/ Arrival(d, x))
    BY Arrives
  <2>2. PICK k \in DOMAIN Stream(d)' : Stream(d)'[k] = g
    BY <1>3 DEF Queued
  <2>3. g = x
    BY <1>0, <1>3, <2>1, <2>2, NothingElse DEF Queued
  <2> QED
    BY <1>2, <2>1, <2>3
<1>4. ASSUME NEW d \in Conn, GoneDue(d, s) \/ Queued(d, g) \/ Arrival(d, g)
      PROVE  ~Open(s)'
  <2>1. PICK c \in Conn : GoneDue(c, s) \/ Queued(c, g)
    BY <1>2, <1>4, GoneArrives
  <2>2. s \in Minted /\ ~Open(s)
    BY <1>1, <1>2, <2>1, GoneMinted
  <2> QED
    BY <2>2, NotReopened
<1>5. ASSUME NEW d \in Conn, GoneDue(d, s)'
      PROVE  /\ ~Open(s)'
             /\ \A e \in Conn : ~Queued(e, g)' /\ (GoneDue(e, s)' => e = d)
  <2>1. CASE GoneDue(d, s)
    <3>1. ASSUME NEW e \in Conn, Queued(e, g)' PROVE FALSE
      <4>1. Arrival(e, g)
        BY <1>1, <1>2, <1>3, <2>1, <3>1
      <4>2. PICK c \in Conn : GoneDue(c, s) /\ ~GoneDue(c, s)'
        BY <1>2, <4>1, GoneArrives
      <4>3. c = d
        BY <1>1, <2>1, <4>2
      <4> QED
        BY <1>5, <4>2, <4>3
    <3>2. ASSUME NEW e \in Conn, GoneDue(e, s)' PROVE e = d
      <4>1. GoneDue(e, s)
        BY <1>1, <2>1, <3>2, GoneComesDue
      <4> QED
        BY <1>1, <2>1, <4>1
    <3> QED
      BY <1>4, <2>1, <3>1, <3>2
  <2>2. CASE ~GoneDue(d, s)
    <3>1. Open(s) /\ ~Open(s)' /\ hist'[s].by = d /\ \A e \in Conn : Kept(e)
      BY <1>5, <2>2, GoneComesDue
    <3>2. ASSUME NEW e \in Conn, Queued(e, g)' PROVE FALSE
      <4>1. Queued(e, g)
        BY <3>1, <3>2 DEF Queued, Kept
      <4> QED
        BY <1>1, <1>2, <3>1, <4>1
    <3>3. ASSUME NEW e \in Conn, GoneDue(e, s)' PROVE e = d
      <4>1. ~GoneDue(e, s)
        BY <1>1, <3>1
      <4>2. hist'[s].by = e
        BY <3>3, <4>1, GoneComesDue
      <4> QED
        BY <3>1, <4>2
    <3> QED
      BY <3>1, <3>2, <3>3
  <2> QED
    BY <2>1, <2>2
<1>6. ASSUME NEW c \in Conn, Queued(c, g)' PROVE ~Open(s)'
  BY <1>3, <1>4, <1>6
<1>7. ASSUME NEW c \in Conn
      PROVE  \A j, k \in DOMAIN Stream(c)' : Stream(c)'[j] = g /\ Stream(c)'[k] = g => j = k
  <2>1. PICK x \in Msg : Effect(c, x) /\ (x.sid = NoSid \/ Arrival(c, x))
    BY Arrives
  <2>2. ASSUME x = g PROVE ~Queued(c, g)
    <3>1. Arrival(c, g)
      BY <1>2, <2>1, <2>2
    <3>2. PICK d \in Conn : GoneDue(d, s)
      BY <1>2, <3>1, GoneArrives
    <3> QED
      BY <1>1, <1>2, <3>2
  <2>3. \A j, k \in DOMAIN Stream(c) : Stream(c)[j] = g /\ Stream(c)[k] = g => j = k
    BY <1>1, <1>2
  <2> QED
    BY <1>0, <2>1, <2>2, <2>3, StaysUnique
<1>8. \A e \in Conn : Queued(e, PeerGoneMsg(s))' <=> Queued(e, g)'
  BY <1>2
<1> QED
  BY <1>2, <1>5, <1>6, <1>7, <1>8

\* A session is ended by a bye that names it or by the Unregister of an end, once.
LEMMA EndsNow ==
    ASSUME DInv, [Next]_vars, NEW s \in Minted
    PROVE  /\ ~Open(s) => hist'[s].by = hist[s].by
           /\ Open(s) /\ ~Open(s)' =>
                 \E e \in Conn : /\ hist'[s].by = e
                                 /\ \/ DispatchBye(e) /\ frame[e].sid = s
                                    \/ RunUnregisters(e) /\ id[e] \in Members(s)
<1>0. IInv /\ HeldInPlace /\ TypeOK /\ s \in SessionID
  BY DEF DInv, IInv, Minted
<1>1. Open(s) /\ ~Open(s)' => sessions'[s] # sessions[s]
  BY <1>0 DEF Open
<1>2. ASSUME NEW c \in Conn,
             \/ Inner(c) \/ SendNext(c) \/ \E n \in notify[c] : NotifyOne(c, n)
             \/ \E f \in ClientFrame(c) : ReadFrame(c, f)
      PROVE  UNCHANGED <<sessions, hist>>
  BY <1>0, <1>2, InnerKeeps DEF SendNext, NotifyOne, ReadFrame, hubVars
<1>3. ASSUME NEW c \in Conn, NEW u \in SessionID, DispatchSessionReq(c, u)
      PROVE  sessions'[s] = sessions[s] /\ hist'[s] = hist[s]
  BY <1>0, <1>3, RequestFacts
<1>4. ASSUME NEW c \in Conn,
             DispatchPing(c) \/ DispatchSessionReqFails(c) \/ DispatchForward(c) \/ DispatchBad(c)
      PROVE  UNCHANGED <<sessions, hist>>
  BY <1>0, <1>4, AnswerFacts DEF hubVars
<1>5. ASSUME NEW c \in Conn, DispatchBye(c)
      PROVE  \/ sessions'[s] = sessions[s] /\ hist'[s] = hist[s]
             \/ Open(s) /\ hist'[s].by = c /\ frame[c].sid = s
  BY <1>0, <1>5, ByeFacts
<1>6. ASSUME NEW c \in Conn, RunUnregisters(c)
      PROVE  \/ sessions'[s] = sessions[s] /\ hist'[s] = hist[s]
             \/ Open(s) /\ hist'[s].by = c /\ id[c] \in Members(s)
  BY <1>0, <1>6, UnregisterFacts
<1>7. \/ sessions'[s] = sessions[s] /\ hist'[s] = hist[s]
      \/ \E e \in Conn : /\ hist'[s].by = e /\ Open(s)
                         /\ \/ DispatchBye(e) /\ frame[e].sid = s
                            \/ RunUnregisters(e) /\ id[e] \in Members(s)
  <2>1. CASE UNCHANGED vars
    BY <2>1 DEF vars, hubVars
  <2>2. ASSUME NEW c \in Conn, Dispatch(c)
        PROVE  \/ sessions'[s] = sessions[s] /\ hist'[s] = hist[s]
               \/ /\ hist'[s].by = c /\ Open(s)
                  /\ DispatchBye(c) /\ frame[c].sid = s
    BY <1>3, <1>4, <1>5, <2>2 DEF Dispatch
  <2> QED
    BY <1>2, <1>6, <2>1, <2>2, StepCases
<1> QED
  BY <1>1, <1>7

LEMMA OtherEndToldStep ==
    ASSUME DInv, [Next]_vars
    PROVE  OtherEndTold'
<1>0. IInv /\ HeldInPlace /\ TypeOK
  BY DEF DInv, IInv
<1> SUFFICES ASSUME NEW s \in Minted', ~Open(s)', hist'[s].by \in {hist'[s].ini, hist'[s].tgt},
                    NEW c \in {hist'[s].ini, hist'[s].tgt} \ {hist'[s].by}, Healthy(c)'
             PROVE  Queued(c, PeerGoneMsg(s))' \/ Due(c, PeerGoneMsg(s))'
  BY DEF OtherEndTold
<1>1. s \in Minted
  <2>1. s \in SessionID
    BY DEF Minted
  <2> QED
    BY <1>0, <2>1, Drawn, RequestFacts
<1>2. s \in SessionID /\ hist'[s].ini = hist[s].ini /\ hist'[s].tgt = hist[s].tgt
      /\ hist[s].ini \in Conn /\ hist[s].tgt \in Conn
  BY <1>0, <1>1, MintedEnds, Stable
<1>3. c \in Conn /\ c \in {hist[s].ini, hist[s].tgt}
  BY <1>2
<1>4. PICK g \in Msg : g = PeerGoneMsg(s) /\ g.sid # NoSid
  BY <1>2, GoneMsg
<1>5. CASE ~Open(s)
  <2>1. hist'[s].by = hist[s].by
    BY <1>1, <1>5, EndsNow
  <2>2. PICK x \in Msg : Effect(c, x)
    BY <1>3, Arrives
  <2>3. Healthy(c) /\ (Queued(c, g) => Queued(c, g)')
    BY <1>0, <1>3, <2>2, NothingLost
  <2>4. Queued(c, g) \/ Due(c, g)
    BY <1>1, <1>2, <1>3, <1>4, <1>5, <2>1, <2>3 DEF DInv, OtherEndTold
  <2>5. CASE Queued(c, g)
    BY <1>4, <2>3, <2>5
  <2>6. ASSUME NEW d \in Conn, NEW k \in DOMAIN out[d], out[d][k] = [to |-> c, msg |-> g]
        PROVE  Queued(c, g)' \/ Due(c, g)'
    BY <1>3, <2>6, DueIsSent DEF Due
  <2>7. ASSUME NEW d \in Conn, NEW n \in notify[d], n.to = c, PeerGoneMsg(n.sid) = g
        PROVE  Queued(c, g)' \/ Due(c, g)'
    <3>1. n \in Notice
      BY <1>0, <2>7 DEF TypeOK
    <3>2. n.sid = s
      BY <1>4, <2>7 DEF PeerGoneMsg
    <3>3. n = [to |-> c, sid |-> s]
      BY <2>7, <3>1, <3>2 DEF Notice
    <3>4. Queued(c, PeerGoneMsg(s))' \/ [to |-> c, sid |-> s] \in notify'[d]
      BY <1>2, <1>3, <2>7, <3>3, NoticeIsSent
    <3> QED
      BY <1>4, <3>3, <2>7, <3>4 DEF Due
  <2> QED
    BY <1>4, <2>4, <2>5, <2>6, <2>7 DEF Due
<1>6. CASE Open(s)
  <2>1. PICK e \in Conn : /\ hist'[s].by = e
                          /\ \/ DispatchBye(e) /\ frame[e].sid = s
                             \/ RunUnregisters(e) /\ id[e] \in Members(s)
    BY <1>1, <1>6, EndsNow
  <2>2. e \in {hist[s].ini, hist[s].tgt} /\ c # e
    BY <1>2, <2>1
  <2>3. id[e] \in Members(s)
    BY <1>0, <1>2, <1>6, <2>2, OpenEnds DEF Members
  <2>4. CASE RunUnregisters(e)
    <3>1. [to |-> c, sid |-> s] \in notify'[e]
      BY <1>0, <1>2, <1>3, <1>6, <2>2, <2>3, <2>4, UnregisterFacts
    <3>2. [to |-> c, sid |-> s].to = c /\ [to |-> c, sid |-> s].sid = s
      OBVIOUS
    <3>3. Due(c, g)'
      BY <1>4, <3>1, <3>2 DEF Due
    <3> QED
      BY <1>4, <3>3
  <2>5. CASE DispatchBye(e) /\ frame[e].sid = s
    <3>1. PICK d \in Conn : Ends(s, e, d) /\ out'[e] = <<[to |-> d, msg |-> PeerGoneMsg(s)]>>
      BY <1>0, <1>6, <2>3, <2>5, ByeFacts
    <3>2. d = c
      BY <1>3, <2>2, <3>1 DEF Ends
    <3>3. 1 \in DOMAIN out'[e] /\ out'[e][1] = [to |-> c, msg |-> g]
      BY <1>4, <3>1, <3>2
    <3>4. Due(c, g)'
      BY <3>3 DEF Due
    <3> QED
      BY <1>4, <3>4
  <2> QED
    BY <2>1, <2>4, <2>5
<1> QED
  BY <1>5, <1>6

LEMMA EndedByEndsStep ==
    ASSUME DInv, [Next]_vars
    PROVE  EndedByEnds'
<1>0. IInv /\ HeldInPlace /\ TypeOK
  BY DEF DInv, IInv
<1> SUFFICES ASSUME ~ForeignSids
             PROVE  /\ \A s \in Minted' : Open(s)' \/ hist'[s].by \in {hist'[s].ini, hist'[s].tgt}
                    /\ \A c \in Conn : reader'[c] = "dispatch" /\ frame'[c].sid # NoSid =>
                          id'[c] \in {id'[hist'[frame'[c].sid].ini], id'[hist'[frame'[c].sid].tgt]}
  BY DEF EndedByEnds
<1>1. ASSUME NEW s \in Minted', ~Open(s)' PROVE hist'[s].by \in {hist'[s].ini, hist'[s].tgt}
  <2>0. s \in SessionID
    BY <1>1 DEF Minted
  <2>1. s \in Minted
    BY <1>0, <1>1, <2>0, Drawn, RequestFacts
  <2>2. hist'[s].ini = hist[s].ini /\ hist'[s].tgt = hist[s].tgt
    BY <2>1, Stable
  <2>3. CASE ~Open(s)
    BY <2>1, <2>2, <2>3, EndsNow DEF DInv, EndedByEnds
  <2>4. CASE Open(s)
    <3>1. PICK e \in Conn : /\ hist'[s].by = e
                            /\ \/ DispatchBye(e) /\ frame[e].sid = s
                               \/ RunUnregisters(e) /\ id[e] \in Members(s)
      BY <1>1, <2>1, <2>4, EndsNow
    <3>2. CASE RunUnregisters(e) /\ id[e] \in Members(s)
      BY <1>0, <2>0, <2>2, <2>4, <3>1, <3>2, UnregisterFacts
    <3>3. CASE DispatchBye(e) /\ frame[e].sid = s
      <4>1. reader[e] = "dispatch" /\ Registered(e)
        BY <1>0, <3>3, DispatchFacts DEF Dispatch
      <4>2. id[e] \in {id[hist[s].ini], id[hist[s].tgt]}
        BY <2>0, <3>3, <4>1, WireAssumption DEF DInv, EndedByEnds
      <4>3. id[e] \in Members(s)
        BY <1>0, <2>0, <2>4, <4>2, OpenEnds DEF Members
      <4>4. e \in {hist[s].ini, hist[s].tgt}
        BY <1>0, <2>0, <2>4, <4>1, <4>3, MemberEnds DEF Ends
      <4> QED
        BY <2>2, <3>1, <4>4
    <3> QED
      BY <3>1, <3>2, <3>3
  <2> QED
    BY <2>3, <2>4
<1>2. ASSUME NEW c \in Conn, reader'[c] = "dispatch", frame'[c].sid # NoSid
      PROVE  id'[c] \in {id'[hist'[frame'[c].sid].ini], id'[hist'[frame'[c].sid].tgt]}
  <2>1. PICK s : s = frame'[c].sid
    OBVIOUS
  <2>2. s \in Minted /\ id[c] \in {id[hist[s].ini], id[hist[s].tgt]} /\ phase[c] # "new"
    <3>1. CASE reader[c] = "dispatch" /\ frame'[c] = frame[c]
      BY <1>2, <2>1, <3>1 DEF DInv, FirstAckSent, EndedByEnds, IInv, LoopsWithinRegistration
    <3>2. ASSUME NEW f \in ClientFrame(c), ReadFrame(c, f), frame'[c] = f
          PROVE  s \in Minted /\ id[c] \in {id[hist[s].ini], id[hist[s].tgt]} /\ phase[c] # "new"
      <4>1. f.sid = s /\ s # NoSid
        BY <1>2, <2>1, <3>2
      <4>2. PICK d \in Conn : /\ s \in Minted /\ id[d] = id[c]
                              /\ \E k \in DOMAIN Stream(d) : Stream(d)[k].sid = s
        BY <4>1, NamedWasTold
      <4>3. d \in {hist[s].ini, hist[s].tgt}
        BY <1>0, <4>1, <4>2, RoutedIsRight DEF DInv, RightRoute
      <4>4. phase[c] # "new"
        BY <1>0, <3>2 DEF ReadFrame, IInv, LoopsWithinRegistration
      <4> QED
        BY <4>2, <4>3, <4>4
    <3> QED
      BY <1>2, <3>1, <3>2, FrameHeld
  <2>3. /\ hist'[s].ini = hist[s].ini /\ hist'[s].tgt = hist[s].tgt
        /\ id'[hist[s].ini] = id[hist[s].ini] /\ id'[hist[s].tgt] = id[hist[s].tgt]
    BY <2>2, Stable
  <2>4. id'[c] = id[c]
    BY <2>2, Settled
  <2> QED
    BY <2>1, <2>2, <2>3, <2>4
<1> QED
  BY <1>1, <1>2

-----------------------------------------------------------------------------
(***************************************************************************)
(* The theorems.                                                           *)
(***************************************************************************)
LEMMA InitDInv == Init => DInv
<1> SUFFICES ASSUME Init PROVE DInv
  OBVIOUS
<1>1. IInv
  BY InitIInv
<1>2. Minted = {} /\ \A s \in SessionID : ~Open(s)
  BY DEF Init, NewHub, Minted, Open
<1>3. \A c \in Conn : /\ out[c] = <<>> /\ notify[c] = {} /\ reader[c] = "off"
                      /\ recv[c] = <<>> /\ inflight[c] = <<>> /\ send[c] = <<>>
  BY DEF Init
<1>4. \A c \in Conn : DOMAIN Stream(c) = {} /\ \A m : ~Queued(c, m)
  <2>1. <<>> \o <<>> \o <<>> = <<>>
    BY ConcatEmptySeq
  <2>2. \A c \in Conn : Stream(c) = <<>>
    BY <1>3, <2>1 DEF Stream
  <2>3. \A c \in Conn : DOMAIN Stream(c) = {}
    BY <2>2
  <2> QED
    BY <2>3 DEF Queued
<1>5. HeldInPlace
  BY <1>3 DEF HeldInPlace, Init
<1>6. EndsSettled /\ AcksKept /\ AckFirst /\ OtherEndTold
  BY <1>2 DEF EndsSettled, AcksKept, AckFirst, OtherEndTold
<1>7. OutShape /\ NoticeShape
  BY <1>3 DEF OutShape, OutShapeAt, NoticeShape
<1>8. RoutedWithinSession /\ FirstAckSent
  BY <1>3, <1>4 DEF RoutedWithinSession, FirstAckSent
<1>9. GoneUnique
  <2>1. \A c \in Conn, s \in SessionID : ~GoneDue(c, s)
    BY <1>3 DEF GoneDue
  <2> QED
    BY <1>4, <2>1 DEF GoneUnique
<1>10. EndedByEnds
  BY <1>2, <1>3 DEF EndedByEnds
<1> QED
  BY <1>1, <1>5, <1>6, <1>7, <1>8, <1>9, <1>10 DEF DInv

LEMMA StepDInv == DInv /\ [Next]_vars => DInv'
<1> SUFFICES ASSUME DInv, [Next]_vars PROVE DInv'
  OBVIOUS
<1>1. IInv'
  BY StepIInv DEF DInv
<1> QED
  BY <1>1, HeldInPlaceStep, EndsSettledStep, OutShapeStep, NoticeShapeStep, RoutedStep,
     FirstAckSentStep, AcksKeptStep, AckFirstStep, GoneUniqueStep, OtherEndToldStep, EndedByEndsStep
     DEF DInv

\* The inductive invariant holds throughout, whatever clients do and however the
\* goroutines of ws.go and peer.go interleave.
THEOREM DInvariance == Spec => []DInv
<1> QED
  BY InitDInv, StepDInv, PTL DEF Spec

\* hub.go OtherPeer and peer.go dispatch: what concerns a session reaches only the two
\* connections it was opened between, and what is forwarded comes from the other one.
THEOREM RoutingIsPrivate == Spec => []RoutedWithinSession
<1>1. DInv => RoutedWithinSession
  BY DEF DInv
<1> QED
  BY <1>1, DInvariance, PTL

\* peer.go dispatch of session.req: no ack of an open session is lost on the way to a
\* connection that stays healthy.
THEOREM AcksAreNotLost == Spec => []AckNotLost
<1>1. DInv => AckNotLost
  <2> SUFFICES ASSUME DInv, NEW s \in SessionID, Open(s)
               PROVE  /\ Healthy(hist[s].ini) =>
                            \/ Queued(hist[s].ini, SessionAckMsg(s, sessions[s].target))
                            \/ Due(hist[s].ini, SessionAckMsg(s, sessions[s].target))
                      /\ Healthy(hist[s].tgt) =>
                            \/ Queued(hist[s].tgt, SessionAckMsg(s, sessions[s].initiator))
                            \/ Due(hist[s].tgt, SessionAckMsg(s, sessions[s].initiator))
    BY DEF AckNotLost
  <2>1. /\ s \in Minted /\ hist[s].ini \in Conn
        /\ id[hist[s].ini] = sessions[s].initiator /\ id[hist[s].tgt] = sessions[s].target
    BY OpenEnds DEF DInv
  <2>2. /\ AckIni(s) = [to |-> hist[s].ini, msg |-> SessionAckMsg(s, sessions[s].target)]
        /\ AckTgt(s) = [to |-> hist[s].tgt, msg |-> SessionAckMsg(s, sessions[s].initiator)]
    BY <2>1 DEF AckIni, AckTgt
  <2>3. /\ AckIni(s).msg = SessionAckMsg(s, sessions[s].target)
        /\ AckTgt(s).msg = SessionAckMsg(s, sessions[s].initiator)
    BY <2>2
  <2>4. /\ Healthy(hist[s].ini) => Queued(hist[s].ini, AckIni(s).msg) \/ BothDue(s)
        /\ Healthy(hist[s].tgt) => Queued(hist[s].tgt, AckTgt(s).msg) \/ LastDue(s)
    BY <2>1 DEF DInv, AcksKept
  <2>5. ASSUME BothDue(s)
        PROVE  /\ \E k \in DOMAIN out[hist[s].ini] : out[hist[s].ini][k] = AckIni(s)
               /\ \E k \in DOMAIN out[hist[s].ini] : out[hist[s].ini][k] = AckTgt(s)
    <3>1. out[hist[s].ini] = <<AckIni(s), AckTgt(s)>>
      BY <2>5 DEF BothDue
    <3>2. /\ 1 \in DOMAIN out[hist[s].ini] /\ out[hist[s].ini][1] = AckIni(s)
          /\ 2 \in DOMAIN out[hist[s].ini] /\ out[hist[s].ini][2] = AckTgt(s)
      BY <3>1
    <3> QED
      BY <3>2
  <2>6. ASSUME LastDue(s)
        PROVE  \E k \in DOMAIN out[hist[s].ini] : out[hist[s].ini][k] = AckTgt(s)
    <3>1. CASE out[hist[s].ini] = <<AckTgt(s)>>
      <4>1. 1 \in DOMAIN out[hist[s].ini] /\ out[hist[s].ini][1] = AckTgt(s)
        BY <3>1
      <4> QED
        BY <4>1
    <3> QED
      BY <2>5, <2>6, <3>1 DEF LastDue
  <2>7. /\ BothDue(s) => Due(hist[s].ini, SessionAckMsg(s, sessions[s].target))
        /\ LastDue(s) => Due(hist[s].tgt, SessionAckMsg(s, sessions[s].initiator))
    BY <2>1, <2>2, <2>5, <2>6 DEF Due
  <2> QED
    BY <2>3, <2>4, <2>7
<1> QED
  BY <1>1, DInvariance, PTL

\* peer.go dispatch: on both sides the ack comes before anything the counterparty sends,
\* on the target's also before peer.gone, although both acks are sent outside the lock.
THEOREM AcksComeFirst == Spec => []AckFirst
<1>1. DInv => AckFirst
  BY DEF DInv
<1> QED
  BY <1>1, DInvariance, PTL

\* hub.go CloseSession against Unregister: the end of a session is never told twice.
THEOREM GoneToldOnce == Spec => []GoneOnce
<1>1. DInv => GoneOnce
  <2> SUFFICES ASSUME DInv, NEW s \in SessionID, NEW c \in Conn
               PROVE  /\ \A j, k \in DOMAIN Stream(c) :
                            Stream(c)[j] = PeerGoneMsg(s) /\ Stream(c)[k] = PeerGoneMsg(s) => j = k
                      /\ ~(Queued(c, PeerGoneMsg(s)) /\ Due(c, PeerGoneMsg(s)))
    BY DEF GoneOnce
  <2>1. ASSUME Due(c, PeerGoneMsg(s)) PROVE \E d \in Conn : GoneDue(d, s)
    <3>1. ASSUME NEW d \in Conn, NEW k \in DOMAIN out[d], out[d][k] = [to |-> c, msg |-> PeerGoneMsg(s)]
          PROVE  GoneDue(d, s)
      <4>1. out[d][k].msg = PeerGoneMsg(s)
        BY <3>1
      <4> QED
        BY <3>1, <4>1 DEF GoneDue
    <3>2. ASSUME NEW d \in Conn, NEW n \in notify[d], PeerGoneMsg(n.sid) = PeerGoneMsg(s)
          PROVE  GoneDue(d, s)
      <4>1. n.sid = s
        BY <3>2 DEF PeerGoneMsg
      <4> QED
        BY <3>2, <4>1 DEF GoneDue
    <3> QED
      BY <2>1, <3>1, <3>2 DEF Due
  <2> QED
    BY <2>1 DEF DInv, GoneUnique
<1> QED
  BY <1>1, DInvariance, PTL

\* hub.go CloseSession and Unregister: when a member's handler ended a session the other
\* member's peer.gone is not lost on a connection that stays healthy.
THEOREM MembersEndIsTold == Spec => []OtherEndTold
<1>1. DInv => OtherEndTold
  BY DEF DInv
<1> QED
  BY <1>1, DInvariance, PTL

\* The same of every session that ended, where clients name only sessions of their own:
\* the bye of another client ends a session without a word to its members.
THEOREM GoneIsNotLost ==
    ASSUME ~ForeignSids
    PROVE  Spec => []GoneNotLost
<1>1. DInv => GoneNotLost
  <2> SUFFICES ASSUME DInv, NEW s \in SessionID, hist[s] # NoSession, ~Open(s),
                      NEW c \in {hist[s].ini, hist[s].tgt} \ {hist[s].by}, Healthy(c)
               PROVE  Queued(c, PeerGoneMsg(s)) \/ Due(c, PeerGoneMsg(s))
    BY DEF GoneNotLost
  <2>1. s \in Minted
    BY DEF Minted
  <2>2. hist[s].by \in {hist[s].ini, hist[s].tgt}
    BY <2>1 DEF DInv, EndedByEnds
  <2> QED
    BY <2>1, <2>2 DEF DInv, OtherEndTold
<1> QED
  BY <1>1, DInvariance, PTL

=============================================================================
