# PocketPilot cloud in TLA+

PocketPilot connects a phone to a drone over WebRTC. The cloud side of it is a
login service (`cmd/auth`) that issues tokens, a signaling service
(`cmd/signal`) that introduces the phone to the drone over WebSockets, and a
relay (`cmd/relay`) that runs on the drone, answers the phone's offer and moves
MAVLink frames and video between the autopilot and the phone. This directory
holds TLA+ models of the parts of the code where goroutines, messages and
failures meet, what they promise, and the proofs of those promises.

## 1. The system

| component | state | operations | talks to |
|---|---|---|---|
| hub (`internal/signal/hub.go`) | `peers`: id -> Peer, `sessions`: id -> two ids, under one lock | Register, Unregister, OpenSession, OtherPeer, CloseSession | every connection's goroutines |
| connection (`internal/signal/peer.go`, `ws.go`) | outbound channel `send` (32), `closeCh`, context | ServeHTTP/acceptHello, run, readLoop + dispatch, writeLoop, Send | the hub; other connections' `send` |
| wire format (`internal/signal/messages.go`) | none | message types | |
| MAVLink bridge (`internal/mavbridge/udp.go`) | `endpoint` (atomic), `onPkt` (RWMutex), socket | Run, SetOnPacket, Write, Close | autopilot; relay callbacks |
| relay (`cmd/relay/main.go`) | backoff delay; `pc`, `sessionID`, `camera` of runWSLoop | login, dial, hello, one handler per message, pion callbacks | auth, signal, pion, bridge, video |
| video (`cmd/relay/video.go`) | ffmpeg process, RTP socket, track | startVideoSource, Close, readRTP, logFfmpegStderr | relay, pion |
| auth (`internal/auth`) | user table | Add, Authenticate, Login, Me | token |
| token (`internal/token`) | the secret | Issue, Verify, middleware | auth, signal |
| frame parser (`internal/mavframe/parse.go`) | none (a counter in the logger) | ParseHeader, MsgName, debug logger | relay, testpeer |
| test peer (`cmd/testpeer`) | pc, session of its loop | a phone or drone for development | auth, signal, pion |

How they interact. A client logs in at auth, dials the signaling WebSocket and
sends `hello` with its token; the hub registers it under the token's subject.
`session.req` opens a session with another registered id and both members get a
`session.ack`; `sdp` and `ice` are then forwarded to the counterparty, `bye` or a
disconnect ends the session with `peer.gone`. The relay answers the offer of the
phone, waits for its DataChannels, and installs the telemetry channel as the
bridge's callback; commands go the other way through `bridge.Write`.

What is hard here, and what makes each part correct:

* **Three goroutines per connection and one hub.** Decisions are made under the
  hub's lock and announced after it is released, one non-blocking `Send` at a
  time. Correct: an id belongs to one connection, a session to the two
  connections it was opened between; acks and ends of sessions are neither lost,
  repeated nor overtaken; a bounded queue that overflows takes its connection
  down instead of losing a message or blocking a sender.
* **Failure.** Clients leave, stall or fall silent at any point. Correct: each of
  those ends with the connection unregistered and its counterparties told.
* **Callbacks out of order.** pion's callbacks run in goroutines of their own,
  possibly after the PeerConnection was replaced. Correct: one phone at a time,
  the camera belongs to it, telemetry reaches it.
* **State read under a lock and used after it** in the bridge (callback,
  endpoint). Correct: a detached callback gets nothing new, an answer to a frame goes
  where the frame came from, or to where a later one did.
* **Retries and shutdown.** Correct: the relay keeps trying within its delay
  limits, cancellation ends every blocked call, and a relay that lost its
  connection, or the whole service, gets back in and lets go of the sessions
  that are over.
* **A process, a port and two goroutines per camera.** Correct: whatever fails in
  the middle, nothing of one session's camera is left for the next to trip over.
* **Checked once, used later.** A token is verified at the hello or at the start of
  a request. Correct: whoever is let in goes back to a login with the password at an
  auth service with the same secret, and expiry is the one the login reported.

## 2. Modules

| module | models | notes |
|---|---|---|
| `Wire` | messages.go | kinds with session and peer fields; payloads are left out, the code forwards them verbatim |
| `Hub` | hub.go | one operator per critical section; the Sends that follow are left to the caller |
| `Signal` | peer.go, ws.go, EXTENDS `Hub` | all goroutines of all connections |
| `Rendezvous` | what the hub promises | abstract specification: online peers and pairings |
| `SignalProps` | properties of `Signal`, and the refinement mapping to `Rendezvous` | |
| `MCSignal` | symmetry for TLC | |
| `SignalProofs` | theorems | types, registry, sessions, refinement of `Rendezvous` |
| `SignalDeliveryProofs` | theorems, EXTENDS `SignalProofs` | what is delivered, to whom and in which order |
| `MavBridge` | udp.go | |
| `MavBridgeProofs` | theorems | |
| `Relay` | cmd/relay/main.go, EXTENDS `MavBridge` | composed with the running bridge; pion and the signaling server are its environment |
| `MCRelay` | symmetry for TLC | |
| `RelayProofs` | theorems | |
| `MavFrame` | parse.go | pure operators, and the wire format as reference |
| `BridgeLog` | `MavBridge` composed with the loggers of `MavFrame` | as `installTelemetryHandler` composes them under `-debug-mavlink` |
| `BridgeLogProofs` | theorems about `MavFrame` and `BridgeLog` | |
| `MCBridge` | the headers the autopilot sends | |
| `Video` | video.go and its use in main.go | its own run module |
| `VideoProofs` | theorems | |
| `Auth` | internal/auth, internal/token, cmd/auth, the hello of ws.go | |
| `AuthProofs` | theorems | |
| `MCAuth` | accounts, passwords, foreign tokens | |
| `System` | cmd/testpeer, the relay's loop, cmd/signal, EXTENDS `Hub` | the clients against the service |
| `SystemProofs` | theorems | |
| `MCSystem` | how often each client is started | |

Definitions named `Bug_*` are plausible bugs (a dropped wait, a swapped order, a
missing reset). No specification uses them; each property has been seen to fail
when the definition below the bug is replaced by it. `PROJECT.json` maps each
definition to its lines.

### Signal

`Conn` is the set of accepted WebSockets. The handler goroutine of `c` is at
`phase[c]`: `new` (before the hello), `greet` (registered, `hello.ok` not queued),
`run` (in run's select), `wait` (in `wg.Wait`), `notify` (Unregister has left the
lock and is sending notices), `done`. `reader[c]` and `writer[c]` are the two loops,
`frame[c]` the frame in dispatch, `out[c]` the Sends that dispatch still has to
make, `inflight[c]` the message in `wsjson.Write`, `recv[c]` what the client
received. One step is one critical section, one Send or one receive of a select.

| code | actions |
|---|---|
| `ServeHTTP`, `acceptHello` | `HelloRegisters`, `HelloRefused`, `HelloFails`, `Greet` |
| `Peer.run`, `Hub.Unregister` | `RunWakes`, `RunUnregisters`, `NotifyOne` |
| `readLoop`, `dispatch` | `ReadFrame`, `ReadEnds`, `DispatchPing`, `DispatchSessionReq`, `DispatchSessionReqFails`, `DispatchForward`, `DispatchBye`, `DispatchBad`, `SendNext` |
| `writeLoop` | `WriteTake`, `WriteOK`, `WriteFails`, `PingFails`, `WriterStops` |
| environment | `LinkLost`, and the choice of frames in `ClientFrame` |

Two points that matter. The select of `writeLoop` chooses freely among ready cases,
so `WriteTake` stays possible after the peer is closed. And a write to a client that
fell silent succeeds (a kernel buffer took it) or fails, freely.

`hist` is a history variable: for each session the two connections it was opened
between and the one whose handler ended it. It does not influence a step except
that a session id is drawn once, which is what `uuid.NewString` gives.

### MavBridge

`runAt` is the place of `Run`: `read` (in ReadFromUDP), `learn` (a datagram is in hand),
`load` (before the callback is loaded under the read lock), `call`. Actions:
`ReadFromUDP`, `Learn`, `Load`, `Call`, `SetReadDeadline` (context.AfterFunc),
`RunReturns`; `SetOnPacket`, `Close`, `Cancel`. A Write is called, loads the endpoint and
sends to what it loaded in three steps (`WriteBegins`, `WriteLoads`, `WriteSends`), with
steps of Run and of others in between. A datagram is its source. `srcs`, `handed` (the
last datagram for which Run has loaded a callback), `began` (`handed` when a Write was
called) and `detachedAt` are history variables.

### Relay

The main goroutine is at `loop`. `Start`, `CycleAdvances`, `CycleFails`, `BeginWait`,
`RetryAfterDelay` and `Exit` are `main`, `runWithBackoff` and `sessionCycle`; one `Recv*`
action per message handler of `runWSLoop`, and `WSLoopEnds` for the failing read with
its deferred cleanup. Every handler includes the calls it makes: `pc.Close`, the
camera's Close, `installTelemetryHandler`. Closing a PeerConnection *starts* its
callbacks (`pending`); `RunCallback` runs one, at any later time. A handler is one step
although callbacks may run during it: they share only the bridge's callback with it,
which each side writes once, so any interleaving equals one where the callback runs
just before or just after.

External: pion (`Connects`, `Disconnects`, `Fails`, `TlmCloses`), and the signaling server,
which announces a session before anything else of it (that is `AckFirst` of the
server) and lets sessions of one relay overlap.

### MavFrame and BridgeLog

A packet is its sequence of bytes. `ParseHeader` and `DebugLog` (the closure that
`NewDebugLogger` returns, as a function of its counter) are translated; `Encode` is
MAVLink's header layout and stands for the truth. `BridgeLog` gives every
installed callback a logger of its own, as the relay does, and lets the
autopilot send headers of both versions, whole or cut short. A panic of the
logger stops everything, as it does the process.

### Video

The main goroutine is at `at`: `loop` (in runWSLoop), `listen`, `start`, `addtrack` (inside
the handler of `peer.sdp`), `kill`, `wait`, `unbind` (inside `Close`). Beside it run, for each
source, ffmpeg (`ffmpeg`), the goroutine of os/exec that watches the context
(`WatchCtx`), `readRTP` (`rtp`, with the packet in `hand`) and `logFfmpegStderr`. `port` is the
source whose socket is bound; ffmpeg sends to the port, not to a source.

### Auth

Time is in ticks, several to a second, because `Issue` computes with times while
tokens and `expires_at` carry whole seconds. `Authenticate` and `LoginAnswers` are the
two halves of Login, `RequireToken` and `Me` those of `/v1/me`, `AcceptHello` the check at
the signaling service. `Restart` is the `main` of either service run again, with the
secret it had or another. Clients present the tokens of their logins and tokens that
other programs signed (`Foreign`): with a shared secret under another issuer, by another
method, or in the auth service's name with another key.

### System

One client per account: the pilot is the test peer with `-role pilot`, the drone
either the relay or the test peer with `-role drone` (`prog`). `cl[i]` is a client:
where it is, its connection, `sessionID`, `pc`, and the PeerConnections it has not
closed, each being the session it was made for. The hub is the module `Hub`;
goroutines and queue of a connection, which `Signal` has in full, are one handler
(`srv`) and one FIFO in each direction (`up`, `down`). A handler acts under the hub's
lock and makes its Sends one by one afterwards (`due`), which is where the notices
of an old connection and the acks of a new one interleave. Faults: a path fails
and each end finds out when it does (`PathBreaks`), the service restarts
(`ServerRestarts`), a hello is refused, or a call into pion fails.

| code | actions |
|---|---|
| `cmd/testpeer` main, login; the relay's sessionCycle | `UserStarts`, `Connect`, `ConnectFails` |
| runLoop, runWSLoop | `RecvHelloOK`, `RecvSessionAck`, `RecvSessionAckFails`, `RecvPeerSDP`, `RecvPeerICE`, `RecvPeerGone`, `LoopEnds` |
| newPeerConn | `OnICECandidate` |
| ws.go, peer.go, hub.go | `HelloOK`, `HelloRefused`, `Dispatch`, `SendNext`, `ConnEnds` |
| cmd/signal main | `ServerRestarts` |

## 3. Runs

All bounds are constants of the cfg or named in a guard.

| run | bounds | shows |
|---|---|---|
| `signal_registry` | 3 connections, 2 ids, 1 session, queue 2, 2 frames, 1 fault, foreign session ids | `TypeOK`, `RegistryExact`, `LoopsWithinRegistration`, `SessionBoundToConns`, `RoutedWithinSession`, `ImplementsRendezvous` |
| `signal_delivery` | 2 connections, 2 ids, 1 session, queue 2, 3 frames, 1 fault | `AckNotLost`, `GoneNotLost`, `GoneOnce`, `AckFirst` |
| `signal_liveness` | 2 connections, queue 1, 1 frame of any kind, 1 fault | `SilentPeerLeaves`, `ClosedPeerEnds`, `FrameHandled`, `SessionAnnounced` |
| `bridge` | 2 addresses, 2 callbacks, 1 writer, 3 datagrams of either version, whole or a byte short; the logger prints the first and then every third | `DetachedGetsNothingNew`, `AnswerReachesSender`, `LinesTellTruth`, `SampledFramesPrinted`, `RunStopsOnCancel` |
| `relay_session` | 2 PeerConnections, 2 sessions, 1 connectivity loss, camera | `OnePhone`, `CameraOnCurrentPC` |
| `relay_cycle` | 1 PeerConnection, 1 datagram, delays 1 to 3 | `DelayBounded`, `TelemetryStarts`, `KeepsTrying`, `ShutdownCompletes` |
| `video` | 2 cameras, 2 packets waiting at the port | `OwnVideoOnly`, `NothingLeftBehind`, `ClosedSourceEnds`, `CancelStopsFfmpeg` |
| `auth` | 2 accounts, 2 clients, 2 secrets, 1 other key, 3 tokens of other programs, 2 logins, 2 restarts, 6 half seconds, tokens that live for 3 | `AcceptedFromLogin`, `ExpiresWhenReported` |
| `system` | 3 connections, 2 sessions, the pilot started twice, the drone's stub once, 1 candidate, 1 fault | `NoMixedSessions`, `RelayComesBack`, `EndedSessionSeen` |

Why the bounds are enough to be interesting. Three connections for two ids give a
reconnect under an id while the old connection is being taken down, and a
refused duplicate. A queue of one or two overflows within the few messages of a
session (the real 32 would only need more of them); the theorems hold for any
capacity. One session suffices where the property speaks of one session at a
time, and the frames suffice to open it, use it and end it from both sides. One
fault, at any point, is what makes the handlers race. In the relay two
PeerConnections and two sessions are the least in which one replaces the other.
Delays 1, 2, 3 include the step that meets the cap without reaching it exactly. Two
cameras are the least that can meet on the port. In the system a third connection
is what a reconnect needs while both old ones are still known to the server, and
two sessions let one be opened while the other is being ended.

Symmetry is used in safety runs only, over sets of model values the modules treat
alike.

### What the code does otherwise than it says

Each of these runs checks one property that a document or comment of the
repository states, and shows a behaviour of the code that violates it.

| run | behaviour | stated at |
|---|---|---|
| `relay_blip` | after a disconnection that recovers, an open telemetry channel gets no telemetry (main.go:369) | SIGNALING.md:89 |
| `frame_empty` | an empty datagram that is to be printed makes the logger index its first byte (parse.go:92): the callback panics and the relay is gone | parse.go:76 |
| `system_stale_gone` | a phone leaves and reconnects; the `peer.gone` of its old session, sent after the hub's lock is released (hub.go:94), comes after the new `session.ack`, and the relay closes the new PeerConnection (main.go:295), although that session stays open | SIGNALING.md:123 |

Further observations, without a run of their own:

* A `session.ack` may arrive before `hello.ok`: the Peer is registered, thus reachable,
  before `hello.ok` is queued (ws.go:53, 59), where SIGNALING.md:58-70 shows it first.
* A `bye` of a client that is no member ends the session and nobody is told
  (hub.go:146); SIGNALING.md:112 says the other peer gets `peer.gone`.
* The initiator may get `peer.gone` before its `session.ack`, when the target leaves
  between OpenSession and the ack (peer.go:142); `AckFirst` leaves that case out. The
  test peer then makes a PeerConnection for a session that is over and keeps it
  until it exits, which is why `EndedSessionSeen` speaks of the relay only.
* A late callback of a replaced PeerConnection detaches the new one's telemetry
  (main.go:370). With a second PeerConnection in its cfg `TelemetryFlows` fails that way,
  on a shorter trace than the one of `relay_blip`, which is why that run has only one.
* Two phones with overlapping sessions: the relay applies the earlier one's offers
  and candidates to the PeerConnection of the later (main.go:232). `NoMixedSessions`
  is about one phone.
* The bridge's endpoint is the latest source (`Learn`), where the comment on the type
  (udp.go:22-24) says the first. The comment in Run ("PX4 restarted on a new ephemeral
  port", udp.go:77) has it the code's way, and so has `AnswerReachesSender`.
* `sessionCycle` never returns nil, so the branch that resets the delay (main.go:123)
  is never taken: the loss of a connection that was served for hours is followed by
  whatever delay earlier failures left behind (`CycleFails`, `WSLoopEnds`).
* A hello whose token is refused is answered by closing the WebSocket (ws.go:46-51);
  the error `invalid_token` that SIGNALING.md lists for it is sent over HTTP only.

## 4. Fairness

*Signal.* Weak fairness of every step of a goroutine that can go on: the Go
scheduler does not starve one. A write ends, one way or the other (`writeTimeout`);
a ping to a client that fell silent fails (`pingInterval`, `writeTimeout`); a Read with
a cancelled context fails. No client is assumed to connect, to send a frame, to
leave or to stay: `ReadFrame`, the hello, `LinkLost` and failures without a cause have
no fairness.

*MavBridge.* `Run` goes on when it has something to do; the AfterFunc goroutine runs.
No datagram need arrive.

*Relay.* Timers fire, callbacks that were started run, and a cancelled context ends
login, dial and Read. Nothing is assumed of the network, the server or the phone.

*Video.* A goroutine that can go on does, and a killed process dies. No session need
come or end, and no packet.

*System.* The handler of a connection and the loop of a client go on when they can, and
each end of a failed path finds out: the server by its ping, the relay by TCP
keepalive (it has no timeout of its own). The relay's `Connect` is fair, which is
`KeepsTrying` with a service and a network that can be reached again: faults are
finitely many. No user is assumed to start or stop a test peer. `Auth` has no liveness.

## 5. Proofs

Each theorem holds for every value of the constants that satisfies the assumptions
its module inherits, each named in the module that declares the constants:

* `WireAssumption`, `HubAssumption`, `SignalAssumption`: the nil values are not values; a peer's queue
  holds at least one message.
* `MavBridgeAssumption`, `RelayAssumption`: the same; `0 < MinDelay <= MaxDelay`.
* `MavFrameAssumption`, `BridgeLogAssumption`: `LogEvery` is at least 1, the code's
  counter is taken modulo it; the autopilot sends something.
* `VideoAssumption`: the nil source is not a source.
* `AuthAssumption`: no other program signs with a secret of the services under the issuer of
  cmd/auth ("Only cmd/auth uses this", token.go:26), while it may sign anything else with
  any key or method; the lifetime is at least a second.
* `SystemAssumption`: the two peers are one pilot and one drone.

Every invariant and action property of a run that passes is stated by a theorem below.

**SignalProofs.** The inductive invariant is `IInv`:

* `TypeOK`, without which a queue or a function cannot be updated;
* `DispatchReady`: a reader in `dispatch` has a frame;
* `LoopsWithinRegistration`: the loops live only in `run` and `wait`;
* `RegistryExact`;
* `SessionBoundToConns`.

None of the last three is inductive alone. OpenSession does not check that its
initiator is registered. It is, because the dispatching loop lives within the
registration (`LoopsWithinRegistration`, from `wg.Wait` before Unregister) and a
registered handler holds its id (`RegistryExact`). That makes
`SessionBoundToConns` hold for a new session, and Unregister, which deletes by id,
removes exactly the sessions of its own connection. The step is proved action by
action in three lemmas, `TypeStep`, `ControlStep` and `HubStep`. From `Invariance` follow
`TypeCorrect`, `RegistryIsExact`, `LoopsConfined`, `SessionsBound`, and `Refinement`:
every step of the server is a step of `Rendezvous` or leaves its state alone; the
initiator being registered is again what makes OpenSession a `Pair`.

**SignalDeliveryProofs.** A message passes through the hands of three goroutines. The
dispatch or the Unregister that decides on it under the hub's lock holds it as due, then it
is in the channel, then in the write loop and on the wire. `DInv` follows it along the
way. Beside `IInv` and the properties themselves its parts are:

* `HeldInPlace`, `EndsSettled`: a goroutine holds a message only where it needs it, and the
  ends of a session are past their hello, so that their ids are settled;
* `OutShape`, `NoticeShape`: what may be due, to whom, and of which session;
* `FirstAckSent`, `AcksKept`: both acks of a session are still to be sent, or in the stream
  of every connection that stays healthy, and nobody names a session before its
  initiator's ack is sent;
* `GoneUnique`: the peer.gone of a session is due at one place or in the streams, there
  once, and only after the session ended;
* `OtherEndTold`, `EndedByEnds`: the end that one member caused is due to the other, or in
  its stream; where no client names a foreign session, only members end one.

The lock orders the decisions, not the sends. That the orders agree all the same is what
`AckFirst` says, and its step is proved hand by hand. Theorems `RoutingIsPrivate`,
`AcksAreNotLost`, `AcksComeFirst`, `GoneToldOnce`, `MembersEndIsTold` and `GoneIsNotLost`.
The last has the hypothesis `~ForeignSids`: the bye of a stranger ends a session without a
word to its members (hub.go CloseSession notifies neither when the closer is not one), so
the property is false of such clients. `MembersEndIsTold` is what holds of all.

**MavBridgeProofs.** `BridgeInv` adds to the two properties that the endpoint is the source
of a datagram at least as recent as the last that was handed on (`EndpointKnown`), because
Run learns before it loads the callback, and that the callback about to be called is not
nil (`LoadedCallback`). Theorems `DetachIsFinal`, `AnswersReachSender`.

**RelayProofs.** `RelayInv` is `OnePhone`, `CameraOnCurrentPC`, `DelayBounded` and the types
of the variables they read; the four handlers that close the current PeerConnection
share the lemma `ClosedAll`. Theorems `OnePhoneAlways`, `CameraFollows`,
`DelayStaysBounded`. Every step of the relay is a step of the bridge or leaves it alone,
which makes `BridgeInv` an invariant of the relay too (`BridgeInRelay`) and gives
`ReplacedPhoneHearsNothingNew`: `DetachedGetsNothingNew` with the callbacks that pion's
events really install. `RelayTypeCorrect` is `TypeOK`.

**BridgeLogProofs.** `ParseHeader` is the inverse of `Encode` for every header and
whatever payload follows (`ParsesV2`, `ParsesV1`), and yields nothing for packets that are
too short or start otherwise (`RefusesOthers`). `LogInv` adds to `BridgeInv` that a
logger has counted the datagrams its callback was called with (`Counted`), that a datagram
due by the sampling was printed or made the logger panic (`SampledOrFatal`), and
that only an empty datagram does the latter (`OnlyEmptyIsFatal`). Theorems `LinesAreTrue`;
`SampledArePrinted`, under the hypothesis that no empty datagram is sent, since the run
`frame_empty` shows what one does; and `RefinesBridge`, with `LoggedDetachIsFinal` and
`LoggedAnswersReachSender` for the bridge under `-debug-mavlink`.

**VideoProofs.** All ffmpegs send to one port, so `OwnVideoOnly` rests on the order in which
the main goroutine gives things up. `VideoInv` is `TypeOK`, `OneProcess` (at most one
unreaped process, that of the source in hand), `Staged` (which of port and process each
place of the main goroutine has), `OwnPackets` (the packets in the socket and in the
reader's hand are that source's) and the property. Theorems `VideoIsOwn`,
`LoopLeavesNothing`.

**AuthProofs.** What a token says is fixed when it is issued and relied on when it is checked.
`AuthInv` therefore says of every answered login how its token came about
(`LoginsGenuine`), and of every login between its check and its answer what was checked
(`LoginsChecked`). A token that passes `Verify` under the issuer and the service's own
secret cannot be another program's, so it is a login's, signed with that secret; a
restart with another secret drops what the service had accepted. Theorems
`OnlyLoginsAccepted` and `ExpiryIsReported`, for any clock resolution, lifetime and secrets,
and tokens of other programs as `AuthAssumption` has them.

**SystemProofs.** `NoMixedSessions`: no description or candidate of one session is applied
to the PeerConnection of another, although neither client compares session ids. The two
clients are safe for different reasons.

* The pilot asks for one session on each connection (`PilotOne`), so all that reaches it
  there is of that session. `Tokens` counts hello, greeting and request: together they
  happen once, so the request is made only on a connection nothing was written to.
* The relay sees session after session on one connection. The server writes the ack of a
  session before anything it forwards in it, and opens the next only when the pilot of the
  one before is gone (`DroneOrder`, which follows each message from the handler that has it
  due through the connection to the client).

The second argument, like the property, leaves out the test peer in the drone's role
once something failed (`Counts`): it keeps its old PeerConnection when it cannot make a new one.
The rest of `SysInv` keeps clients, connections and registry in step (`ClientsPlaced`,
`EndsAgree`, `Registered`, `DueShape`, `ReqsOfPilot`, `SessionsOfBoth`). TLC checked
`SysInv` with the constants of both `system` runs before it was proved.
Theorems `SysInvariance`, `NoMixing`.

Only model-checked: the liveness properties, for fairness and ENABLED are out of the
prover's reach (`SilentPeerLeaves`, `ClosedPeerEnds`, `FrameHandled`, `SessionAnnounced`,
`RunStopsOnCancel`, `TelemetryStarts`, `KeepsTrying`, `ShutdownCompletes`,
`ClosedSourceEnds`, `CancelStopsFfmpeg`, `RelayComesBack`, `EndedSessionSeen`). The runs
that expect a violation refute their property on one instance, so no theorem can state it.

## 6. Not modelled

* Payloads, wording and logging (message names, ffmpeg's output); the list of ICE
  servers; flags and routes of the entry points.
* What the test peer's DataChannels echo and log.
* bcrypt and the JWT encoding: a password matches or not, a token is its claims and
  its key.
* The chi middlewares (request ids, recovery, the timeout at auth).
* A full queue in `System`: that is `Signal`'s subject.

## 7. Plan

1. Done: `Wire`, `Hub`, `Signal`, `Rendezvous`, `MavBridge`, `Relay`, `MavFrame`, `BridgeLog`,
   `Video`, `Auth`, `System`, their runs and the theorems above.
2. Done: proofs about the server's deliveries, the logger, the relay on its bridge, the
   video source, login and tokens, and the whole system; every safety property of a
   passing run is a theorem.
3. Left: that the server inside `System` implements `Rendezvous` too, proved as `Refinement`
   is; that it delivers as `Signal` does where no queue fills.
4. The hazards without a property are behaviours the models have: an ack ahead of hello.ok
   (ws.go:59), the relay going on without telemetry after a socket error (main.go:91), a late
   Closed callback (main.go:370), a delay that is never reset (main.go:123) and a stranger's
   bye (hub.go:146). `PROJECT.json` says of each why no property states it.
