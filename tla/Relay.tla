-------------------------------- MODULE Relay --------------------------------
(***************************************************************************)
(* The drone-side relay (cmd/relay/main.go) on top of the MAVLink bridge.  *)
(*                                                                         *)
(* The main goroutine logs in, dials the signaling server and serves its   *)
(* messages (runWSLoop), with a backoff between attempts (runWithBackoff). *)
(* The callbacks it hands to pion run in goroutines of their own, at any   *)
(* time after their cause, and share only the bridge with it.  A handler   *)
(* of runWSLoop is one step: what a callback does in its midst to the      *)
(* bridge's callback, it may as well do just before or just after.         *)
(*                                                                         *)
(* External: pion's PeerConnection, modelled by the states and callbacks   *)
(* the code relies on, and the signaling server, which announces a session *)
(* before anything else of it and reports its end last (module Signal,     *)
(* AckFirst), but interleaves its sessions freely.                         *)
(***************************************************************************)
EXTENDS MavBridge

CONSTANTS
    PC,         \* PeerConnections; with its "tlm" channel each is a bridge callback
    NoPC,       \* the nil PeerConnection, and the nil videoSource
    Sid,        \* session ids
    NoSid,      \* the empty session id
    DebugOnly,  \* the bridge callback that only logs frames
    Debug,      \* -debug-mavlink
    HasCamera,  \* is -camera given?
    MinDelay,   \* -reconnect-min
    MaxDelay,   \* -reconnect-max
    MaxBlips    \* bound: ICE connectivity losses

ASSUME RelayAssumption ==
    /\ NoPC \notin PC /\ NoSid \notin Sid /\ DebugOnly \notin PC
    /\ Callback = PC \cup {DebugOnly}
    /\ Writer = PC
    /\ Debug \in BOOLEAN /\ HasCamera \in BOOLEAN
    /\ MinDelay \in Nat \ {0} /\ MaxDelay \in Nat /\ MinDelay <= MaxDelay
    /\ MaxBlips \in Nat

VARIABLES
    loop,       \* where the main goroutine is
    delay,      \* runWithBackoff's delay
    pc,         \* runWSLoop's pc
    sessionID,  \* runWSLoop's sessionID
    camera,     \* runWSLoop's camera: the PeerConnection its track was added to
    pcSt,       \* PC -> connection state ("none": not made yet; "answered": answer sent)
    session,    \* PC -> the session it was made for
    remote,     \* PC -> the sessions whose offers and candidates were applied to it
    tlm,        \* PC -> state of its telemetry channel
    pending,    \* callbacks started and not yet run: <<PeerConnection, cause>>
    server,     \* Sid -> is the session announced to this relay, or over?
    blips       \* connectivity losses so far, for the bound

relayVars == <<loop, delay, pc, sessionID, camera, pcSt, session, remote, tlm, pending,
               server, blips>>
vars == <<relayVars, bridgeVars>>

Loop    == {"start", "login", "dial", "hello", "read", "returned", "wait", "idle", "exited"}
PCState == {"none", "new", "answered", "connected", "disconnected", "failed", "closed"}
Cause   == {"disconnected", "failed", "closed", "tlm.open", "tlm.close"}

\* Every variable has its type.
TypeOK ==
    /\ BridgeTypeOK
    /\ loop      \in Loop
    /\ delay     \in Nat
    /\ pc        \in PC \cup {NoPC}
    /\ sessionID \in Sid \cup {NoSid}
    /\ camera    \in PC \cup {NoPC}
    /\ pcSt      \in [PC -> PCState]
    /\ session   \in [PC -> Sid \cup {NoSid}]
    /\ remote    \in [PC -> SUBSET Sid]
    /\ tlm       \in [PC -> {"none", "open", "closed"}]
    /\ pending   \subseteq PC \X Cause
    /\ server    \in [Sid -> {"fresh", "open", "over"}]
    /\ blips     \in 0 .. MaxBlips

Live(p) == pcSt[p] \notin {"none", "closed"}

\* installTelemetryHandler(bridge, dc, debug), for the "tlm" channel of p, or nil.
Install(p) ==
    SetOnPacket(IF p # NoPC THEN p ELSE IF Debug THEN DebugOnly ELSE NoCallback)

Init ==
    /\ Listen
    /\ loop      = "start"
    /\ delay     = MinDelay
    /\ pc        = NoPC
    /\ sessionID = NoSid
    /\ camera    = NoPC
    /\ pcSt      = [p \in PC |-> "none"]
    /\ session   = [p \in PC |-> NoSid]
    /\ remote    = [p \in PC |-> {}]
    /\ tlm       = [p \in PC |-> "none"]
    /\ pending   = {}
    /\ server    = [s \in Sid |-> "fresh"]
    /\ blips     = 0

-----------------------------------------------------------------------------
(***************************************************************************)
(* runWithBackoff and sessionCycle.                                        *)
(***************************************************************************)
UNCHANGED_sessions == UNCHANGED <<pc, sessionID, camera, pcSt, session, remote, tlm, pending,
                                  server, blips>>

\* main, with the bridge already running: -debug-mavlink installs the frame logger,
\* and with -skip-signaling the bridge is left to itself until ctx is cancelled.
Start ==
    /\ loop = "start"
    /\ loop' \in {"login", "idle"}
    /\ IF Debug THEN Install(NoPC) ELSE UNCHANGED bridgeVars
    /\ UNCHANGED delay /\ UNCHANGED_sessions

\* login, websocket.Dial and the write of hello succeed.
CycleAdvances ==
    /\ ~cancelled
    /\ \/ loop = "login" /\ loop' = "dial"
       \/ loop = "dial"  /\ loop' = "hello"
       \/ loop = "hello" /\ loop' = "read"
    /\ UNCHANGED delay /\ UNCHANGED_sessions /\ UNCHANGED bridgeVars

\* One of them fails.  sessionCycle returns an error, here and when the loop ends, so
\* the branch of runWithBackoff that resets the delay is never taken.
CycleFails ==
    /\ loop \in {"login", "dial", "hello"}
    /\ loop' = "returned"
    /\ UNCHANGED delay /\ UNCHANGED_sessions /\ UNCHANGED bridgeVars

\* The attempt is over and ctx is not cancelled: wait.
Bug_GiveUp ==
    /\ loop = "returned" /\ ~cancelled /\ delay < MaxDelay
    /\ loop' = "wait"
    /\ UNCHANGED delay /\ UNCHANGED_sessions /\ UNCHANGED bridgeVars
BeginWait ==
    /\ loop = "returned" /\ ~cancelled
    /\ loop' = "wait"
    /\ UNCHANGED delay /\ UNCHANGED_sessions /\ UNCHANGED bridgeVars

\* The timer fires: try again, and double the delay up to the maximum.
Bug_UncappedDelay ==
    /\ loop = "wait"
    /\ loop' = "login"
    /\ delay' = 2 * delay
    /\ UNCHANGED_sessions /\ UNCHANGED bridgeVars
RetryAfterDelay ==
    /\ loop = "wait"
    /\ loop' = "login"
    /\ delay' = IF 2 * delay > MaxDelay THEN MaxDelay ELSE 2 * delay
    /\ UNCHANGED_sessions /\ UNCHANGED bridgeVars

\* ctx is cancelled: runWithBackoff, if it runs, and main return, which closes the bridge.
Bug_ExitFromWaitOnly ==
    /\ loop = "wait" /\ cancelled
    /\ loop' = "exited"
    /\ Close
    /\ UNCHANGED delay /\ UNCHANGED_sessions
Exit ==
    /\ loop \in {"returned", "wait", "idle"} /\ cancelled
    /\ loop' = "exited"
    /\ Close
    /\ UNCHANGED delay /\ UNCHANGED_sessions

-----------------------------------------------------------------------------
(***************************************************************************)
(* pion: Close, and the callbacks that a change of state starts.           *)
(***************************************************************************)
\* The callbacks closing p starts: OnConnectionStateChange(Closed), and OnClose of an
\* open telemetry channel.
ClosingCallbacks(p) == {<<p, "closed">>} \cup (IF tlm[p] = "open" THEN {<<p, "tlm.close">>} ELSE {})

\* pc.Close for the current PeerConnection, if there is one.
ClosePC ==
    /\ pcSt' = [p \in PC |-> IF p = pc THEN "closed" ELSE pcSt[p]]
    /\ tlm' = [p \in PC |-> IF p = pc /\ tlm[p] = "open" THEN "closed" ELSE tlm[p]]
    /\ pending' = pending \cup (IF pc = NoPC THEN {} ELSE ClosingCallbacks(pc))

\* The callbacks of newPeerConn and wireTelemetry.
Bug_OpenIgnored(p, cause) ==
    /\ loop # "exited" /\ <<p, cause>> \in pending
    /\ pending' = pending \ {<<p, cause>>}
    /\ Install(NoPC)
    /\ UNCHANGED <<loop, delay, pc, sessionID, camera, pcSt, session, remote, tlm, server, blips>>
RunCallback(p, cause) ==
    /\ loop # "exited" /\ <<p, cause>> \in pending
    /\ pending' = pending \ {<<p, cause>>}
    /\ Install(IF cause = "tlm.open" THEN p ELSE NoPC)
    /\ UNCHANGED <<loop, delay, pc, sessionID, camera, pcSt, session, remote, tlm, server, blips>>

PionLeaves == UNCHANGED <<loop, delay, pc, sessionID, camera, session, remote, server, bridgeVars>>

\* ICE connects, which takes the offer of the session's own phone, or recovers.
Connects(p) ==
    /\ \/ pcSt[p] = "answered" /\ session[p] \in remote[p]
       \/ pcSt[p] = "disconnected"
    /\ pcSt' = [pcSt EXCEPT ![p] = "connected"]
    /\ UNCHANGED <<tlm, pending, blips>> /\ PionLeaves

\* Connectivity is lost; bound: one pending run of the callback.
Disconnects(p) ==
    /\ pcSt[p] = "connected" /\ blips < MaxBlips /\ <<p, "disconnected">> \notin pending
    /\ blips' = blips + 1
    /\ pcSt' = [pcSt EXCEPT ![p] = "disconnected"]
    /\ pending' = pending \cup {<<p, "disconnected">>}
    /\ UNCHANGED tlm /\ PionLeaves

\* It does not come back.
Fails(p) ==
    /\ pcSt[p] = "disconnected"
    /\ pcSt' = [pcSt EXCEPT ![p] = "failed"]
    /\ pending' = pending \cup {<<p, "failed">>}
    /\ UNCHANGED <<tlm, blips>> /\ PionLeaves

\* The phone's "tlm" channel arrives (OnDataChannel wires it) and opens.
TlmOpens(p) ==
    /\ pcSt[p] = "connected" /\ tlm[p] = "none"
    /\ tlm' = [tlm EXCEPT ![p] = "open"]
    /\ pending' = pending \cup {<<p, "tlm.open">>}
    /\ UNCHANGED <<pcSt, blips>> /\ PionLeaves

\* The phone closes it.
TlmCloses(p) ==
    /\ tlm[p] = "open"
    /\ tlm' = [tlm EXCEPT ![p] = "closed"]
    /\ pending' = pending \cup {<<p, "tlm.close">>}
    /\ UNCHANGED <<pcSt, blips>> /\ PionLeaves

\* A command arrives on the "cmd" channel of p, and OnMessage writes it to the bridge;
\* the write may still be under way when p is closed.
CmdArrives(p) == pcSt[p] = "connected" /\ WriteBegins(p) /\ UNCHANGED relayVars
CmdWritten(p) == loop # "exited" /\ (WriteLoads(p) \/ WriteSends(p)) /\ UNCHANGED relayVars

-----------------------------------------------------------------------------
(***************************************************************************)
(* runWSLoop, one action per message.  hello.ok, err, an ack that names the*)
(* relay as initiator and frames that do not decode are only logged.       *)
(***************************************************************************)
\* session.ack: drop the current PeerConnection and camera, then make a new one.  It
\* is made after the old one is closed; when that fails the relay has none.
Bug_AckKeepsOldPC(s, p) ==
    /\ loop = "read" /\ server[s] = "fresh" /\ pcSt[p] = "none"
    /\ server' = [server EXCEPT ![s] = "open"]
    /\ IF pc = NoPC THEN UNCHANGED bridgeVars ELSE Install(NoPC)
    /\ camera' = NoPC
    /\ sessionID' = s
    /\ pc' = p
    /\ pcSt' = [pcSt EXCEPT ![p] = "new"]
    /\ session' = [session EXCEPT ![p] = s]
    /\ UNCHANGED <<loop, delay, remote, tlm, pending, blips>>
RecvSessionAck(s, p) ==
    /\ loop = "read" /\ server[s] = "fresh" /\ pcSt[p] = "none"
    /\ server' = [server EXCEPT ![s] = "open"]
    /\ IF pc = NoPC THEN UNCHANGED bridgeVars ELSE Install(NoPC)
    /\ camera' = NoPC
    /\ sessionID' = s
    /\ pc' = p
    /\ pcSt' = [q \in PC |-> IF q = pc THEN "closed" ELSE IF q = p THEN "new" ELSE pcSt[q]]
    /\ tlm' = [q \in PC |-> IF q = pc /\ tlm[q] = "open" THEN "closed" ELSE tlm[q]]
    /\ pending' = pending \cup (IF pc = NoPC THEN {} ELSE ClosingCallbacks(pc))
    /\ session' = [session EXCEPT ![p] = s]
    /\ UNCHANGED <<loop, delay, remote, blips>>

RecvSessionAckFails(s) ==
    /\ loop = "read" /\ server[s] = "fresh"
    /\ server' = [server EXCEPT ![s] = "open"]
    /\ IF pc = NoPC THEN UNCHANGED bridgeVars ELSE Install(NoPC)
    /\ ClosePC
    /\ camera' = NoPC
    /\ sessionID' = s
    /\ pc' = NoPC
    /\ UNCHANGED <<loop, delay, session, remote, blips>>

\* peer.sdp: the offer goes to the current PeerConnection, whatever its session.  The
\* camera starts with the first offer; the answer may fail in three places, and the
\* session goes on without it.  An answer, or an offer pion refuses, is dropped.
RecvPeerSDP(s) ==
    /\ loop = "read" /\ server[s] = "open" /\ pc # NoPC
    /\ remote' = [remote EXCEPT ![pc] = @ \cup {s}]
    /\ camera' \in IF HasCamera /\ camera = NoPC THEN {pc, NoPC} ELSE {camera}
    /\ \/ pcSt' = IF pcSt[pc] = "new" THEN [pcSt EXCEPT ![pc] = "answered"] ELSE pcSt
       \/ UNCHANGED pcSt
    /\ UNCHANGED <<loop, delay, pc, sessionID, session, tlm, pending, server, blips, bridgeVars>>

\* peer.ice: likewise.
RecvPeerICE(s) ==
    /\ loop = "read" /\ server[s] = "open" /\ pc # NoPC
    /\ remote' = [remote EXCEPT ![pc] = @ \cup {s}]
    /\ UNCHANGED <<loop, delay, pc, sessionID, camera, pcSt, session, tlm, pending, server, blips,
                   bridgeVars>>

\* peer.gone: drop the current PeerConnection and camera, whatever their session.
Bug_GoneKeepsCamera(s) ==
    /\ loop = "read" /\ server[s] = "open"
    /\ server' = [server EXCEPT ![s] = "over"]
    /\ ClosePC
    /\ pc' = NoPC
    /\ Install(NoPC)
    /\ UNCHANGED <<loop, delay, sessionID, camera, session, remote, blips>>
RecvPeerGone(s) ==
    /\ loop = "read" /\ server[s] = "open"
    /\ server' = [server EXCEPT ![s] = "over"]
    /\ ClosePC
    /\ pc' = NoPC
    /\ camera' = NoPC
    /\ Install(NoPC)
    /\ UNCHANGED <<loop, delay, sessionID, session, remote, blips>>

\* wsjson.Read fails: the deferred cleanup runs and sessionCycle returns.  The server
\* drops the relay's sessions with its connection.
WSLoopEnds ==
    /\ loop = "read"
    /\ loop' = "returned"
    /\ server' = [s \in Sid |-> IF server[s] = "open" THEN "over" ELSE server[s]]
    /\ ClosePC
    /\ pc' = NoPC /\ camera' = NoPC /\ sessionID' = NoSid
    /\ Install(NoPC)
    /\ UNCHANGED <<delay, session, remote, blips>>

-----------------------------------------------------------------------------
Cycle == Start \/ CycleAdvances \/ CycleFails \/ BeginWait \/ RetryAfterDelay \/ Exit

WSLoop ==
    \/ \E s \in Sid : \/ \E p \in PC : RecvSessionAck(s, p)
                      \/ RecvSessionAckFails(s)
                      \/ RecvPeerSDP(s) \/ RecvPeerICE(s) \/ RecvPeerGone(s)
    \/ WSLoopEnds

Pion ==
    \E p \in PC :
        \/ Connects(p) \/ Disconnects(p) \/ Fails(p)
        \/ TlmOpens(p) \/ TlmCloses(p)
        \/ CmdArrives(p) \/ CmdWritten(p)
        \/ \E cause \in Cause : RunCallback(p, cause)

Shutdown == Cancel /\ UNCHANGED relayVars

\* After main has returned the process is gone (Run may be seen to return).
Exited == loop = "exited" /\ UNCHANGED vars

Next == Cycle \/ WSLoop \/ Pion \/ Shutdown \/ (Run /\ UNCHANGED relayVars) \/ Exited

\* The timer fires, callbacks that were started run, and the cancelled context ends
\* every attempt and every read.  Nothing is assumed of the network and the phones.
Fairness ==
    /\ WF_vars(Start)
    /\ WF_vars(BeginWait)
    /\ WF_vars(RetryAfterDelay)
    /\ WF_vars(Exit)
    /\ WF_vars(cancelled /\ (CycleFails \/ WSLoopEnds))
    /\ \A p \in PC, cause \in Cause : WF_vars(RunCallback(p, cause))

Spec == Init /\ [][Next]_vars
FairSpec == Spec /\ Fairness

-----------------------------------------------------------------------------
\* main.go runWSLoop, session.ack: "one phone at a time".  Whatever fails and however
\* sessions overlap, only the current PeerConnection can deliver commands or receive
\* telemetry, and none outlives the signaling connection it was negotiated on.
OnePhone ==
    /\ \A p \in PC : Live(p) => p = pc
    /\ loop # "read" => pc = NoPC

\* main.go runWSLoop: a running camera feeds the current PeerConnection; peer.sdp
\* starts none while there is one, so a camera left from an earlier session would
\* leave the next phone without video.
CameraOnCurrentPC == camera # NoPC => camera = pc

\* main.go runWithBackoff: the delay never leaves its limits.
DelayBounded == delay \in MinDelay .. MaxDelay

\* main.go wireTelemetry: in a first session without connectivity losses, an open
\* telemetry channel gets the bridge's datagrams, unless it closes.
TelemetryStarts ==
    \A p \in PC : (tlm[p] = "open") ~> (onPkt = p \/ tlm[p] = "closed")

\* main.go runWithBackoff: after every failure the relay tries again, or exits.
KeepsTrying == (loop = "returned") ~> (loop \in {"login", "exited"})

\* main.go main: on SIGTERM the relay exits, whatever it is doing and in either mode.
ShutdownCompletes == cancelled ~> (loop = "exited")

\* SIGNALING.md: DataChannels open, "MAVLink2 frames flow".  While the current phone is
\* connected with an open telemetry channel and no callback is outstanding, the
\* bridge's callback is that channel.
TelemetryFlows ==
    (pc # NoPC /\ pending = {}) =>
        (pcSt[pc] = "connected" /\ tlm[pc] = "open" => onPkt = pc)
=============================================================================
