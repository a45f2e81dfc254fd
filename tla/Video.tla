-------------------------------- MODULE Video --------------------------------
(***************************************************************************)
(* The relay's video source (cmd/relay/video.go) as runWSLoop uses it: the *)
(* main goroutine starts a source with the first offer of a session and    *)
(* closes it at the session's end, step by step; ffmpeg, the goroutine of  *)
(* os/exec that watches the context, readRTP and logFfmpegStderr run       *)
(* beside it.  All sources send to, and read from, the one loopback port.  *)
(* A packet is the source whose ffmpeg sent it.                            *)
(*                                                                         *)
(* Definitions named Bug_* are seeded bugs, see Hub.                       *)
(***************************************************************************)
EXTENDS Naturals, Sequences

CONSTANTS
    Source,     \* the calls of startVideoSource
    NoSource,   \* the nil *videoSource
    MaxQueue    \* bound: packets waiting in the socket

ASSUME VideoAssumption == NoSource \notin Source /\ MaxQueue \in Nat

VARIABLES
    at,         \* where the main goroutine is
    vs,         \* the source it is starting or closing
    camera,     \* runWSLoop's camera
    port,       \* the source whose socket is bound to the loopback port
    queue,      \* the packets waiting in that socket
    ctx,        \* Source -> is its context cancelled by cancel()?
    ffmpeg,     \* Source -> state of its process
    rtp,        \* Source -> where its readRTP is
    hand,       \* Source -> the packet its readRTP has in hand
    stderr,     \* Source -> where its logFfmpegStderr is
    got,        \* Source -> the packets written to its track
    cancelled   \* is the parent context cancelled?

main   == <<at, vs, camera>>
socket == <<port, queue>>
reader == <<rtp, hand, got>>
vars   == <<main, socket, reader, ctx, ffmpeg, stderr, cancelled>>

Place == {"loop", "listen", "start", "addtrack", "kill", "wait", "unbind"}

\* Every variable has its type.
TypeOK ==
    /\ at \in Place /\ {vs, camera, port} \subseteq Source \cup {NoSource}
    /\ queue     \in Seq(Source) /\ Len(queue) <= MaxQueue
    /\ ctx       \in [Source -> BOOLEAN]
    /\ ffmpeg    \in [Source -> {"none", "running", "killed", "dead", "reaped"}]
    /\ rtp       \in [Source -> {"none", "top", "read", "write", "done"}]
    /\ hand      \in [Source -> Source \cup {NoSource}]
    /\ stderr    \in [Source -> {"none", "read", "done"}]
    /\ got       \in [Source -> SUBSET Source]
    /\ cancelled \in BOOLEAN

Init ==
    /\ at = "loop" /\ vs = NoSource /\ camera = NoSource
    /\ port = NoSource /\ queue = <<>>
    /\ ctx       = [v \in Source |-> FALSE]
    /\ ffmpeg    = [v \in Source |-> "none"]
    /\ rtp       = [v \in Source |-> "none"]
    /\ hand      = [v \in Source |-> NoSource]
    /\ stderr    = [v \in Source |-> "none"]
    /\ got       = [v \in Source |-> {}]
    /\ cancelled = FALSE

Goto(from, to) == at = from /\ at' = to
Release == port' = NoSource /\ queue' = <<>>

-----------------------------------------------------------------------------
(***************************************************************************)
(* startVideoSource, called by the handler of peer.sdp.                    *)
(***************************************************************************)
\* An offer, and no camera: a new source is started.
Offer(v) ==
    /\ Goto("loop", "listen")
    /\ camera = NoSource /\ ~ctx[v] /\ ffmpeg[v] = "none"
    /\ vs' = v
    /\ UNCHANGED <<camera, socket, reader, ctx, ffmpeg, stderr, cancelled>>

\* net.ListenUDP binds the loopback port.
ListenUDP ==
    /\ Goto("listen", "start")
    /\ port = NoSource
    /\ port' = vs
    /\ UNCHANGED <<vs, camera, queue, reader, ctx, ffmpeg, stderr, cancelled>>

\* It does not (or the track could not be made): nothing is there to clean up.
ListenUDPFails ==
    /\ Goto("listen", "loop")
    /\ UNCHANGED <<vs, camera, socket, reader, ctx, ffmpeg, stderr, cancelled>>

\* StderrPipe and Start succeed, and the two goroutines begin.  Start refuses a
\* context that is done.
FfmpegStarts ==
    /\ Goto("start", "addtrack")
    /\ ~cancelled
    /\ ffmpeg' = [ffmpeg EXCEPT ![vs] = "running"]
    /\ rtp' = [rtp EXCEPT ![vs] = "top"]
    /\ stderr' = [stderr EXCEPT ![vs] = "read"]
    /\ UNCHANGED <<vs, camera, socket, hand, got, ctx, cancelled>>

\* One of them fails: the socket is closed and the context cancelled.
Bug_FailureKeepsPort ==
    /\ Goto("start", "loop")
    /\ ctx' = [ctx EXCEPT ![vs] = TRUE]
    /\ UNCHANGED <<vs, camera, socket, reader, ffmpeg, stderr, cancelled>>
FfmpegFails ==
    /\ Goto("start", "loop")
    /\ Release
    /\ ctx' = [ctx EXCEPT ![vs] = TRUE]
    /\ UNCHANGED <<vs, camera, reader, ffmpeg, stderr, cancelled>>

\* AddTrack succeeds and the handler is done with the camera, or it fails and the
\* camera is closed.
AddTrack ==
    /\ camera' = vs
    /\ \/ Goto("addtrack", "loop") /\ UNCHANGED ctx
       \/ Goto("addtrack", "kill") /\ ctx' = [ctx EXCEPT ![vs] = TRUE]
    /\ UNCHANGED <<vs, socket, reader, ffmpeg, stderr, cancelled>>

-----------------------------------------------------------------------------
(***************************************************************************)
(* Close.  Close of the nil camera does nothing.                           *)
(***************************************************************************)
\* session.ack, peer.gone or the end of the loop: cancel comes first.
CloseBegins ==
    /\ Goto("loop", "kill")
    /\ camera # NoSource
    /\ vs' = camera
    /\ ctx' = [ctx EXCEPT ![camera] = TRUE]
    /\ UNCHANGED <<camera, socket, reader, ffmpeg, stderr, cancelled>>

\* Process.Kill sends the signal.  A process that has exited is left alone.
Signalled(v) == IF ffmpeg[v] = "running" THEN [ffmpeg EXCEPT ![v] = "killed"] ELSE ffmpeg
Kill ==
    /\ Goto("kill", "wait")
    /\ ffmpeg' = Signalled(vs)
    /\ UNCHANGED <<vs, camera, socket, reader, ctx, stderr, cancelled>>

\* Wait returns when the process is dead.
Bug_CloseDoesNotWait ==
    /\ Goto("wait", "unbind")
    /\ UNCHANGED <<vs, camera, socket, reader, ctx, ffmpeg, stderr, cancelled>>
Wait ==
    /\ Goto("wait", "unbind")
    /\ ffmpeg[vs] = "dead"
    /\ ffmpeg' = [ffmpeg EXCEPT ![vs] = "reaped"]
    /\ UNCHANGED <<vs, camera, socket, reader, ctx, stderr, cancelled>>

\* The socket is closed, and the caller forgets the camera.
Bug_SocketStaysOpen ==
    /\ Goto("unbind", "loop")
    /\ camera' = NoSource
    /\ UNCHANGED <<vs, socket, reader, ctx, ffmpeg, stderr, cancelled>>
CloseSocket ==
    /\ Goto("unbind", "loop")
    /\ Release
    /\ camera' = NoSource
    /\ UNCHANGED <<vs, reader, ctx, ffmpeg, stderr, cancelled>>

-----------------------------------------------------------------------------
(***************************************************************************)
(* The processes and goroutines beside it.                                 *)
(***************************************************************************)
\* exec.CommandContext: the process is killed when its context is done.
Bug_PlainCommand(v) == FALSE /\ UNCHANGED vars
WatchCtx(v) ==
    /\ ffmpeg[v] = "running" /\ (ctx[v] \/ cancelled)
    /\ ffmpeg' = Signalled(v)
    /\ UNCHANGED <<main, socket, reader, ctx, stderr, cancelled>>

\* ffmpeg sends a packet to the loopback port, whoever has bound it.
SendRTP(v) ==
    /\ ffmpeg[v] \in {"running", "killed"} /\ port # NoSource /\ Len(queue) < MaxQueue
    /\ queue' = Append(queue, v)
    /\ UNCHANGED <<main, port, reader, ctx, ffmpeg, stderr, cancelled>>

\* ffmpeg dies: of the signal, or by itself (the camera is unplugged).
Dies(v) ==
    /\ ffmpeg[v] \in {"running", "killed"}
    /\ ffmpeg' = [ffmpeg EXCEPT ![v] = "dead"]
    /\ UNCHANGED <<main, socket, reader, ctx, stderr, cancelled>>

\* readRTP: the context is looked at before every read.
ReadTop(v) ==
    /\ rtp[v] = "top"
    /\ rtp' = [rtp EXCEPT ![v] = IF ctx[v] \/ cancelled THEN "done" ELSE "read"]
    /\ UNCHANGED <<main, socket, hand, got, ctx, ffmpeg, stderr, cancelled>>

\* ReadFromUDP returns a packet; one that does not unmarshal is skipped.
ReadFromUDP(v) ==
    /\ rtp[v] = "read" /\ port = v /\ queue # <<>>
    /\ queue' = Tail(queue)
    /\ \/ rtp' = [rtp EXCEPT ![v] = "write"] /\ hand' = [hand EXCEPT ![v] = Head(queue)]
       \/ rtp' = [rtp EXCEPT ![v] = "top"] /\ UNCHANGED hand
    /\ UNCHANGED <<main, port, got, ctx, ffmpeg, stderr, cancelled>>

\* The socket was closed.
ReadFails(v) ==
    /\ rtp[v] = "read" /\ port # v
    /\ rtp' = [rtp EXCEPT ![v] = "done"]
    /\ UNCHANGED <<main, socket, hand, got, ctx, ffmpeg, stderr, cancelled>>

\* track.WriteRTP; it fails when the track is no longer consumed.
WriteRTP(v) ==
    /\ rtp[v] = "write"
    /\ \/ rtp' = [rtp EXCEPT ![v] = "top"] /\ got' = [got EXCEPT ![v] = @ \cup {hand[v]}]
       \/ rtp' = [rtp EXCEPT ![v] = "done"] /\ UNCHANGED got
    /\ hand' = [hand EXCEPT ![v] = NoSource]
    /\ UNCHANGED <<main, socket, ctx, ffmpeg, stderr, cancelled>>

\* logFfmpegStderr ends with the process, or when Wait closes the pipe.
StderrEnds(v) ==
    /\ stderr[v] = "read" /\ ffmpeg[v] \in {"dead", "reaped"}
    /\ stderr' = [stderr EXCEPT ![v] = "done"]
    /\ UNCHANGED <<main, socket, reader, ctx, ffmpeg, cancelled>>

\* SIGTERM.
Cancel ==
    /\ ~cancelled /\ cancelled' = TRUE
    /\ UNCHANGED <<main, socket, reader, ctx, ffmpeg, stderr>>

\* No session comes any more.
Idle == at = "loop" /\ camera = NoSource /\ UNCHANGED vars

Starting == ListenUDP \/ ListenUDPFails \/ FfmpegStarts \/ FfmpegFails \/ AddTrack
Closing  == Kill \/ Wait \/ CloseSocket
ReadRTP(v) == ReadTop(v) \/ ReadFromUDP(v) \/ ReadFails(v) \/ WriteRTP(v)

Next ==
    \/ \E v \in Source : \/ Offer(v) \/ WatchCtx(v) \/ SendRTP(v) \/ Dies(v)
                         \/ ReadRTP(v) \/ StderrEnds(v)
    \/ Starting \/ CloseBegins \/ Closing \/ Cancel \/ Idle

\* Goroutines that can go on do, and a killed process dies.  No session need come or
\* end, and no packet.
Fairness ==
    /\ WF_vars(Starting) /\ WF_vars(Closing)
    /\ \A v \in Source : /\ WF_vars(WatchCtx(v))
                         /\ WF_vars(ffmpeg[v] = "killed" /\ Dies(v))
                         /\ WF_vars(ReadRTP(v))
                         /\ WF_vars(StderrEnds(v))

Spec == Init /\ [][Next]_vars
FairSpec == Spec /\ Fairness

-----------------------------------------------------------------------------
\* video.go Close: ffmpeg is reaped before the port is given up, so the track of a
\* session never carries a packet of an earlier session's ffmpeg, although all of them
\* send to the same port and the next source may bind it at once.
OwnVideoOnly == \A v \in Source : got[v] \subseteq {v}

\* video.go startVideoSource and Close, main.go runWSLoop: whenever the loop is back at
\* its read, exactly the running camera holds the port, and every other source's process
\* is reaped: no failure in the middle leaves a port taken (which would end video for
\* good, the port being fixed) or an ffmpeg holding the camera device.
NothingLeftBehind ==
    at = "loop" =>
        /\ port = camera
        /\ \A v \in Source \ {camera} : ffmpeg[v] \in {"none", "reaped"}

\* video.go Close, readRTP, logFfmpegStderr: a source that is closed ends completely,
\* both goroutines included, although readRTP may be blocked in ReadFromUDP.
ClosedSourceEnds ==
    \A v \in Source :
        ctx[v] ~> /\ ffmpeg[v] \in {"none", "reaped"}
                  /\ rtp[v] \in {"none", "done"}
                  /\ stderr[v] \in {"none", "done"}

\* The comment on startVideoSource: ffmpeg is killed "when the parent context is
\* cancelled", with the main goroutine doing anything or nothing.
CancelStopsFfmpeg ==
    \A v \in Source : cancelled ~> (ffmpeg[v] \notin {"running", "killed"})
=============================================================================
