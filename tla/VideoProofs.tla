---------------------------- MODULE VideoProofs ----------------------------
(***************************************************************************)
(* Proofs about Video, for any number of sources and any socket buffer.    *)
(*                                                                         *)
(* That no packet of another source is read rests on where the main        *)
(* goroutine is: between the places at which NothingLeftBehind speaks the  *)
(* port and the process are given up one after the other.  Staged says     *)
(* what each place has, and OwnPackets follows the packets of the one      *)
(* process that may be alive through the socket into the track.            *)
(***************************************************************************)
EXTENDS Video, TLAPS

\* The process of v was started and Wait has not returned for it.
Unreaped(v) == ffmpeg[v] \in {"running", "killed", "dead"}

\* Only the source that is bound to the port may have a process to wait for.
OneProcess == \A v \in Source : Unreaped(v) => port = v

\* What the main goroutine has in hand, place by place.
Staged ==
    /\ at = "loop" => port = camera /\ (camera # NoSource => Unreaped(camera))
    /\ at # "loop" => vs \in Source
    /\ at \in {"listen", "start", "addtrack"} => camera = NoSource
    /\ at = "listen" => port = NoSource /\ ffmpeg[vs] = "none"
    /\ at = "start" => port = vs /\ ffmpeg[vs] = "none"
    /\ at = "addtrack" => port = vs /\ Unreaped(vs)
    /\ at \in {"kill", "wait"} => port = vs /\ camera = vs /\ Unreaped(vs)
    /\ at = "unbind" => port = vs /\ camera = vs /\ ffmpeg[vs] = "reaped"

\* The socket holds packets of its own source only, and so does every readRTP.
OwnPackets ==
    /\ port = NoSource => queue = <<>>
    /\ \A k \in DOMAIN queue : queue[k] = port
    /\ \A v \in Source : rtp[v] = "write" => hand[v] = v

VideoInv == TypeOK /\ OneProcess /\ Staged /\ OwnPackets /\ OwnVideoOnly

LEMMA InitVideoInv == Init => VideoInv
<1> SUFFICES ASSUME Init PROVE VideoInv
  OBVIOUS
<1>1. queue \in Seq(Source) /\ Len(queue) <= MaxQueue
  BY VideoAssumption DEF Init
<1>2. TypeOK
  BY <1>1 DEF Init, TypeOK, Place
<1> QED
  BY <1>2 DEF Init, VideoInv, OneProcess, Staged, OwnPackets, OwnVideoOnly, Unreaped

-----------------------------------------------------------------------------
\* The steps of the main goroutine.
LEMMA MainKeepsStages ==
    ASSUME VideoInv,
           \/ \E v \in Source : Offer(v)
           \/ Starting \/ CloseBegins \/ Closing
    PROVE  TypeOK' /\ OneProcess' /\ Staged'
<1> USE DEF VideoInv
<1>1. ASSUME NEW v \in Source, Offer(v) PROVE TypeOK' /\ OneProcess' /\ Staged'
  BY <1>1, VideoAssumption
  DEF Offer, Goto, TypeOK, OneProcess, Staged, Unreaped, Place, socket, reader
<1>2. CASE ListenUDP
  BY <1>2, VideoAssumption
  DEF ListenUDP, Goto, TypeOK, OneProcess, Staged, Unreaped, Place, reader
<1>3. CASE ListenUDPFails
  BY <1>3, VideoAssumption
  DEF ListenUDPFails, Goto, TypeOK, OneProcess, Staged, Unreaped, Place, socket, reader
<1>4. CASE FfmpegStarts
  BY <1>4, VideoAssumption
  DEF FfmpegStarts, Goto, TypeOK, OneProcess, Staged, Unreaped, Place, socket
<1>5. CASE FfmpegFails
  BY <1>5, VideoAssumption
  DEF FfmpegFails, Goto, Release, TypeOK, OneProcess, Staged, Unreaped, Place, reader
<1>6. CASE AddTrack
  BY <1>6, VideoAssumption
  DEF AddTrack, Goto, TypeOK, OneProcess, Staged, Unreaped, Place, socket, reader
<1>7. CASE CloseBegins
  BY <1>7, VideoAssumption
  DEF CloseBegins, Goto, TypeOK, OneProcess, Staged, Unreaped, Place, socket, reader
<1>8. CASE Kill
  BY <1>8, VideoAssumption
  DEF Kill, Signalled, Goto, TypeOK, OneProcess, Staged, Unreaped, Place, socket, reader
<1>9. CASE Wait
  BY <1>9, VideoAssumption
  DEF Wait, Goto, TypeOK, OneProcess, Staged, Unreaped, Place, socket, reader
<1>10. CASE CloseSocket
  BY <1>10, VideoAssumption
  DEF CloseSocket, Goto, Release, TypeOK, OneProcess, Staged, Unreaped, Place, reader
<1> QED
  BY <1>1, <1>2, <1>3, <1>4, <1>5, <1>6, <1>7, <1>8, <1>9, <1>10 DEF Starting, Closing

\* They touch no packet but by binding a port that nobody has bound, or giving it up.
LEMMA MainKeepsPackets ==
    ASSUME VideoInv,
           \/ \E v \in Source : Offer(v)
           \/ Starting \/ CloseBegins \/ Closing
    PROVE  OwnPackets' /\ OwnVideoOnly'
<1> USE DEF VideoInv
<1>1. UNCHANGED <<hand, got>> /\ \A v \in Source : rtp'[v] = "write" => rtp[v] = "write"
  BY DEF Offer, Starting, Closing, ListenUDP, ListenUDPFails, FfmpegStarts, FfmpegFails, AddTrack,
         CloseBegins, Kill, Wait, CloseSocket, reader, TypeOK
<1>2. \/ UNCHANGED <<port, queue>>
      \/ port = NoSource /\ UNCHANGED queue
      \/ port' = NoSource /\ queue' = <<>>
  BY DEF Offer, Starting, Closing, ListenUDP, ListenUDPFails, FfmpegStarts, FfmpegFails, AddTrack,
         CloseBegins, Kill, Wait, CloseSocket, Release, socket
<1>3. (port' = NoSource => queue' = <<>>) /\ \A k \in DOMAIN queue' : queue'[k] = port'
  <2>1. CASE UNCHANGED <<port, queue>>
    BY <2>1 DEF OwnPackets
  <2>2. CASE queue' = <<>>
    BY <2>2
  <2> QED
    BY <1>2, <2>1, <2>2 DEF OwnPackets
<1> QED
  BY <1>1, <1>3 DEF OwnPackets, OwnVideoOnly

-----------------------------------------------------------------------------
\* The process of a source and the goroutine that watches its context: a process that
\* is not reaped stays so, and none begins.
LEMMA ProcessKeeps ==
    ASSUME VideoInv, NEW v \in Source, WatchCtx(v) \/ Dies(v) \/ StderrEnds(v)
    PROVE  VideoInv'
<1> USE DEF VideoInv
<1>1. /\ UNCHANGED <<at, vs, camera, port, queue, rtp, hand, got, ctx, cancelled>>
      /\ \A u \in Source : Unreaped(u)' <=> Unreaped(u)
      /\ \A u \in Source : \A p \in {"none", "reaped"} : ffmpeg[u] = p => ffmpeg'[u] = p
  BY DEF WatchCtx, Dies, StderrEnds, Signalled, Unreaped, TypeOK, main, socket, reader
<1>2. TypeOK'
  BY <1>1 DEF WatchCtx, Dies, StderrEnds, Signalled, TypeOK
<1>3. OneProcess' /\ Staged'
  BY <1>1 DEF OneProcess, Staged, TypeOK
<1> QED
  BY <1>1, <1>2, <1>3 DEF OwnPackets, OwnVideoOnly

\* A packet reaches the socket from the source that is bound to it.
LEMMA SendKeeps ==
    ASSUME VideoInv, NEW v \in Source, SendRTP(v)
    PROVE  VideoInv'
<1> USE DEF VideoInv
<1>1. /\ UNCHANGED <<at, vs, camera, port, rtp, hand, got, ctx, ffmpeg, stderr, cancelled>>
      /\ queue' = Append(queue, v) /\ Len(queue) < MaxQueue /\ port # NoSource
  BY DEF SendRTP, main, reader
<1>2. port = v
  BY DEF SendRTP, OneProcess, Unreaped
<1>3. /\ queue' \in Seq(Source) /\ Len(queue') <= MaxQueue
      /\ \A k \in DOMAIN queue' : queue'[k] = v
  BY <1>1, <1>2, VideoAssumption DEF TypeOK, OwnPackets
<1>4. TypeOK'
  BY <1>1, <1>3 DEF TypeOK
<1>5. OneProcess' /\ Staged'
  BY <1>1 DEF OneProcess, Staged, Unreaped
<1> QED
  BY <1>1, <1>2, <1>3, <1>4, <1>5 DEF OwnPackets, OwnVideoOnly

\* readRTP takes packets from the socket of its own source.
LEMMA ReadKeeps ==
    ASSUME VideoInv, NEW v \in Source, ReadRTP(v)
    PROVE  VideoInv'
<1> USE DEF VideoInv
<1>1. UNCHANGED <<at, vs, camera, port, ctx, ffmpeg, stderr, cancelled>>
  BY DEF ReadRTP, ReadTop, ReadFromUDP, ReadFails, WriteRTP, main, socket
<1>2. OneProcess' /\ Staged'
  BY <1>1 DEF OneProcess, Staged, Unreaped
<1>3. CASE ReadTop(v) \/ ReadFails(v)
  <2>1. TypeOK'
    BY <1>1, <1>3 DEF ReadTop, ReadFails, TypeOK, socket
  <2>2. OwnPackets' /\ OwnVideoOnly'
    BY <1>3 DEF ReadTop, ReadFails, TypeOK, OwnPackets, OwnVideoOnly, socket
  <2> QED
    BY <1>2, <2>1, <2>2
<1>4. CASE ReadFromUDP(v)
  <2>1. /\ port = v /\ queue # <<>> /\ queue' = Tail(queue) /\ UNCHANGED got
        /\ \/ rtp' = [rtp EXCEPT ![v] = "write"] /\ hand' = [hand EXCEPT ![v] = Head(queue)]
           \/ rtp' = [rtp EXCEPT ![v] = "top"] /\ UNCHANGED hand
    BY <1>4 DEF ReadFromUDP
  <2>2. /\ queue' \in Seq(Source) /\ Len(queue') <= MaxQueue
        /\ \A k \in DOMAIN queue' : queue'[k] = queue[k + 1] /\ k + 1 \in DOMAIN queue
        /\ Head(queue) = queue[1] /\ 1 \in DOMAIN queue
    BY <2>1, VideoAssumption DEF TypeOK
  <2>3. Head(queue) = v
    BY <2>1, <2>2 DEF OwnPackets
  <2>4. TypeOK'
    BY <1>1, <2>1, <2>2, <2>3 DEF TypeOK
  <2>5. OwnPackets'
    BY <1>1, <2>1, <2>2, <2>3, VideoAssumption DEF TypeOK, OwnPackets
  <2> QED
    BY <1>2, <2>1, <2>4, <2>5 DEF OwnVideoOnly
<1>5. CASE WriteRTP(v)
  <2>1. hand[v] = v
    BY <1>5 DEF WriteRTP, OwnPackets
  <2>2. TypeOK'
    BY <1>1, <1>5, <2>1 DEF WriteRTP, TypeOK, socket
  <2>3. OwnPackets'
    BY <1>1, <1>5 DEF WriteRTP, TypeOK, OwnPackets, socket
  <2>4. OwnVideoOnly'
    BY <1>5, <2>1 DEF WriteRTP, TypeOK, OwnVideoOnly
  <2> QED
    BY <1>2, <2>2, <2>3, <2>4
<1> QED
  BY <1>3, <1>4, <1>5 DEF ReadRTP

LEMMA StepVideoInv == VideoInv /\ [Next]_vars => VideoInv'
<1> SUFFICES ASSUME VideoInv, [Next]_vars PROVE VideoInv'
  OBVIOUS
<1>1. CASE (\E v \in Source : Offer(v)) \/ Starting \/ CloseBegins \/ Closing
  BY <1>1, MainKeepsStages, MainKeepsPackets DEF VideoInv
<1>2. CASE Cancel \/ UNCHANGED vars
  <2>1. UNCHANGED <<at, vs, camera, port, queue, rtp, hand, got, ctx, ffmpeg, stderr>>
    BY <1>2 DEF Cancel, vars, main, socket, reader
  <2>2. cancelled' \in BOOLEAN
    BY <1>2 DEF Cancel, vars, VideoInv, TypeOK
  <2> QED
    BY <2>1, <2>2 DEF VideoInv, TypeOK, OneProcess, Staged, Unreaped, OwnPackets, OwnVideoOnly
<1> QED
  BY <1>1, <1>2, ProcessKeeps, SendKeeps, ReadKeeps DEF Next, Idle

-----------------------------------------------------------------------------
\* video.go: the inductive invariant holds of every behaviour.
THEOREM VideoInvariance == Spec => []VideoInv
BY InitVideoInv, StepVideoInv, PTL DEF Spec

\* video.go Close, readRTP: the track of a session only ever carries packets of the
\* ffmpeg started for it, although all of them send to one port.
THEOREM VideoIsOwn == Spec => []OwnVideoOnly
<1>1. VideoInv => OwnVideoOnly
  BY DEF VideoInv
<1> QED
  BY <1>1, VideoInvariance, PTL

\* video.go startVideoSource and Close, main.go runWSLoop: back at its read, the loop
\* has left no port bound and no process unreaped but those of the running camera.
THEOREM LoopLeavesNothing == Spec => []NothingLeftBehind
<1>1. VideoInv => NothingLeftBehind
  BY DEF VideoInv, TypeOK, OneProcess, Staged, Unreaped, NothingLeftBehind
<1> QED
  BY <1>1, VideoInvariance, PTL
=============================================================================
