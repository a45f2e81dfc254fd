---------------------------- MODULE RelayProofs ----------------------------
(***************************************************************************)
(* Proofs about Relay, for any number of PeerConnections, sessions and     *)
(* overlapping callbacks and any pair of reconnect delays.                 *)
(***************************************************************************)
EXTENDS Relay, MavBridgeProofs

\* The types the argument needs.
RelayTypes ==
    /\ pc \in PC \cup {NoPC}
    /\ camera \in PC \cup {NoPC}
    /\ pcSt \in [PC -> PCState]
    /\ delay \in Nat

RelayInv == RelayTypes /\ OnePhone /\ CameraOnCurrentPC /\ DelayBounded

LEMMA InitRelayInv == Init => RelayInv
BY RelayAssumption DEF Init, RelayInv, RelayTypes, OnePhone, Live, CameraOnCurrentPC, DelayBounded,
   PCState

\* A handler that closes the current PeerConnection leaves none that can talk.
LEMMA ClosedAll ==
    ASSUME RelayInv, pcSt' = [p \in PC |-> IF p = pc THEN "closed" ELSE pcSt[p]],
           pc' = NoPC, camera' = NoPC, UNCHANGED delay
    PROVE  RelayInv'
<1>1. RelayTypes'
  BY DEF RelayInv, RelayTypes, PCState
<1>2. OnePhone'
  BY DEF RelayInv, RelayTypes, OnePhone, Live
<1> QED
  BY <1>1, <1>2 DEF RelayInv, CameraOnCurrentPC, DelayBounded

\* A step of pion moves a live PeerConnection to a live state and touches nothing else.
LEMMA LiveStaysCurrent ==
    ASSUME RelayInv, NEW p \in PC, Live(p), NEW st \in PCState, pcSt' = [pcSt EXCEPT ![p] = st],
           UNCHANGED <<loop, delay, pc, camera>>
    PROVE  RelayInv'
<1>1. RelayTypes'
  BY DEF RelayInv, RelayTypes
<1>2. OnePhone'
  BY DEF RelayInv, RelayTypes, OnePhone, Live
<1> QED
  BY <1>1, <1>2 DEF RelayInv, CameraOnCurrentPC, DelayBounded

LEMMA RelayStep == RelayInv /\ [Next]_vars => RelayInv'
<1> SUFFICES ASSUME RelayInv, [Next]_vars PROVE RelayInv'
  OBVIOUS
<1>1. CASE Cycle
  <2>1. UNCHANGED <<pc, camera, pcSt>> /\ loop # "read"
    BY <1>1 DEF Cycle, Start, CycleAdvances, CycleFails, BeginWait, RetryAfterDelay, Exit,
                UNCHANGED_sessions
  <2>2. delay' \in Nat /\ DelayBounded'
    BY <1>1, RelayAssumption
    DEF Cycle, Start, CycleAdvances, CycleFails, BeginWait, RetryAfterDelay, Exit, RelayInv,
        RelayTypes, DelayBounded
  <2> QED
    BY <2>1, <2>2 DEF RelayInv, RelayTypes, OnePhone, Live, CameraOnCurrentPC
<1>2. ASSUME NEW s \in Sid, NEW p \in PC, RecvSessionAck(s, p) PROVE RelayInv'
  <2>1. /\ pcSt' = [q \in PC |-> IF q = pc THEN "closed" ELSE IF q = p THEN "new" ELSE pcSt[q]]
        /\ pc' = p /\ camera' = NoPC /\ loop = "read" /\ UNCHANGED <<loop, delay>>
    BY <1>2 DEF RecvSessionAck
  <2>2. RelayTypes'
    BY <2>1 DEF RelayInv, RelayTypes, PCState
  <2>3. OnePhone'
    BY <2>1 DEF RelayInv, RelayTypes, OnePhone, Live
  <2> QED
    BY <2>1, <2>2, <2>3 DEF RelayInv, CameraOnCurrentPC, DelayBounded
<1>3. ASSUME NEW s \in Sid, RecvSessionAckFails(s) \/ RecvPeerGone(s) PROVE RelayInv'
  BY <1>3, ClosedAll DEF RecvSessionAckFails, RecvPeerGone, ClosePC
<1>4. CASE WSLoopEnds
  BY <1>4, ClosedAll DEF WSLoopEnds, ClosePC
<1>5. ASSUME NEW s \in Sid, RecvPeerSDP(s) PROVE RelayInv'
  <2>1. /\ pc # NoPC /\ camera' \in {camera, pc, NoPC} /\ UNCHANGED <<loop, delay, pc>>
        /\ \/ pcSt[pc] = "new" /\ pcSt' = [pcSt EXCEPT ![pc] = "answered"]
           \/ UNCHANGED pcSt
    BY <1>5 DEF RecvPeerSDP
  <2>2. RelayTypes'
    BY <2>1 DEF RelayInv, RelayTypes, PCState
  <2>3. OnePhone'
    BY <2>1 DEF RelayInv, RelayTypes, OnePhone, Live
  <2> QED
    BY <2>1, <2>2, <2>3 DEF RelayInv, CameraOnCurrentPC, DelayBounded
<1>6. ASSUME NEW p \in PC, Connects(p) \/ Disconnects(p) \/ Fails(p) PROVE RelayInv'
  <2>1. /\ Live(p) /\ UNCHANGED <<loop, delay, pc, camera>>
        /\ \E st \in PCState : pcSt' = [pcSt EXCEPT ![p] = st]
    BY <1>6 DEF Connects, Disconnects, Fails, Live, PionLeaves, PCState
  <2> QED
    BY <2>1, LiveStaysCurrent
<1>7. ASSUME UNCHANGED <<loop, delay, pc, camera, pcSt>> PROVE RelayInv'
  BY <1>7 DEF RelayInv, RelayTypes, OnePhone, Live, CameraOnCurrentPC, DelayBounded
<1>8. ASSUME NEW p \in PC,
             \/ TlmOpens(p) \/ TlmCloses(p) \/ CmdArrives(p) \/ CmdWritten(p)
             \/ \E cause \in Cause : RunCallback(p, cause)
      PROVE  UNCHANGED <<loop, delay, pc, camera, pcSt>>
  BY <1>8 DEF TlmOpens, TlmCloses, CmdArrives, CmdWritten, RunCallback, PionLeaves, relayVars
<1>9. ASSUME \/ \E s \in Sid : RecvPeerICE(s)
             \/ Shutdown \/ UNCHANGED relayVars \/ UNCHANGED vars
      PROVE  UNCHANGED <<loop, delay, pc, camera, pcSt>>
  BY <1>9 DEF RecvPeerICE, Shutdown, vars, relayVars
<1> QED
  BY <1>1, <1>2, <1>3, <1>4, <1>5, <1>6, <1>7, <1>8, <1>9 DEF Next, WSLoop, Pion, Exited

\* main.go: the inductive invariant holds of every behaviour.
THEOREM RelayInvariance == Spec => []RelayInv
BY InitRelayInv, RelayStep, PTL DEF Spec

\* main.go runWSLoop: however sessions overlap and whatever fails, only the current
\* PeerConnection can talk, and none outlives the signaling connection.
THEOREM OnePhoneAlways == Spec => []OnePhone
<1>1. RelayInv => OnePhone
  BY DEF RelayInv
<1> QED
  BY <1>1, RelayInvariance, PTL

\* main.go runWSLoop: a running camera always feeds the current PeerConnection.
THEOREM CameraFollows == Spec => []CameraOnCurrentPC
<1>1. RelayInv => CameraOnCurrentPC
  BY DEF RelayInv
<1> QED
  BY <1>1, RelayInvariance, PTL

\* main.go runWithBackoff: the delay stays within its limits, for any limits.
THEOREM DelayStaysBounded == Spec => []DelayBounded
<1>1. RelayInv => DelayBounded
  BY DEF RelayInv
<1> QED
  BY <1>1, RelayInvariance, PTL

-----------------------------------------------------------------------------
(***************************************************************************)
(* The relay on its bridge.                                                *)
(***************************************************************************)
\* Every callback the relay installs is one the bridge knows.
LEMMA InstallIsSetOnPacket ==
    ASSUME NEW p \in PC \cup {NoPC}, Install(p)
    PROVE  \E h \in Callback \cup {NoCallback} : SetOnPacket(h)
BY RelayAssumption DEF Install

\* Whatever the relay does is a step of the bridge, or leaves it alone.
LEMMA RelayStepIsBridgeStep == [Next]_vars => [BridgeNext]_bridgeVars
<1> SUFFICES ASSUME [Next]_vars PROVE [BridgeNext]_bridgeVars
  OBVIOUS
<1>1. ASSUME NEW p \in PC \cup {NoPC}, Install(p) PROVE BridgeNext
  BY <1>1, InstallIsSetOnPacket DEF BridgeNext
<1>2. CASE Cycle
  BY <1>1, <1>2 DEF Cycle, Start, CycleAdvances, CycleFails, BeginWait, RetryAfterDelay, Exit, BridgeNext
<1>3. CASE WSLoop
  BY <1>1, <1>3 DEF WSLoop, RecvSessionAck, RecvSessionAckFails, RecvPeerSDP, RecvPeerICE,
                    RecvPeerGone, WSLoopEnds
<1>4. ASSUME NEW p \in PC, Connects(p) \/ Disconnects(p) \/ Fails(p) \/ TlmOpens(p) \/ TlmCloses(p)
      PROVE  UNCHANGED bridgeVars
  BY <1>4 DEF Connects, Disconnects, Fails, TlmOpens, TlmCloses, PionLeaves
<1>5. ASSUME NEW p \in PC, CmdArrives(p) \/ CmdWritten(p) PROVE BridgeNext
  BY <1>5, RelayAssumption DEF CmdArrives, CmdWritten, BridgeNext
<1>6. ASSUME NEW p \in PC, NEW cause \in Cause, RunCallback(p, cause) PROVE BridgeNext
  <2>1. PICK q \in PC \cup {NoPC} : Install(q)
    BY <1>6 DEF RunCallback
  <2> QED
    BY <1>1, <2>1
<1>7. CASE Shutdown \/ (Run /\ UNCHANGED relayVars)
  BY <1>7 DEF Shutdown, BridgeNext
<1>8. CASE UNCHANGED vars
  BY <1>8 DEF vars
<1> QED
  BY <1>2, <1>3, <1>4, <1>5, <1>6, <1>7, <1>8 DEF Next, Pion, Exited

\* main.go on udp.go: the relay refines the bridge it is built on, so what holds of the
\* bridge holds of it.
THEOREM BridgeInRelay == Spec => []BridgeInv
<1>1. Init => Listen
  BY DEF Init
<1> QED
  BY <1>1, ListenInv, BridgeStep, RelayStepIsBridgeStep, PTL DEF Spec

\* main.go wireTelemetry on udp.go SetOnPacket: whatever pion's callbacks install and
\* in whatever order, the channel of a phone that was replaced gets no datagram that
\* the autopilot sent after it.
THEOREM ReplacedPhoneHearsNothingNew == Spec => []DetachedGetsNothingNew
<1>1. BridgeInv => DetachedGetsNothingNew
  BY DEF BridgeInv
<1> QED
  BY <1>1, BridgeInRelay, PTL

-----------------------------------------------------------------------------
(***************************************************************************)
(* Types.                                                                  *)
(***************************************************************************)
\* The variables of the relay apart from the bridge's.
RelayTypeOK ==
    /\ loop      \in Loop
    /\ delay     \in Nat
    /\ pc        \in PC \cup {NoPC}
    /\ sessionID \in Sid \cup {NoSid}
    /\ camera    \in PC \cup {NoPC}
    /\ pcSt      \in [PC -> PCState]
    /\ session   \in [PC -> Sid \cup {NoSid}]
    /\ remote    \in [PC -> SUBSET Sid]
    /\ tlm       \in [PC -> {"none", "open", "closed"}]
    /\ pending   \subseteq PC \X Cause
    /\ server    \in [Sid -> {"fresh", "open", "over"}]
    /\ blips     \in 0 .. MaxBlips

LEMMA InitTypes == Init => RelayTypeOK
BY RelayAssumption DEF Init, RelayTypeOK, Loop, PCState

LEMMA ClosePCTypes ==
    ASSUME RelayTypeOK, ClosePC
    PROVE  /\ pcSt' \in [PC -> PCState] /\ tlm' \in [PC -> {"none", "open", "closed"}]
           /\ pending' \subseteq PC \X Cause
BY DEF RelayTypeOK, ClosePC, ClosingCallbacks, PCState, Cause

LEMMA TypesStep == RelayTypeOK /\ [Next]_vars => RelayTypeOK'
<1> SUFFICES ASSUME RelayTypeOK, [Next]_vars PROVE RelayTypeOK'
  OBVIOUS
<1> USE DEF RelayTypeOK
<1>1. CASE Cycle
  BY <1>1, RelayAssumption
  DEF Cycle, Start, CycleAdvances, CycleFails, BeginWait, RetryAfterDelay, Exit,
      UNCHANGED_sessions, Loop
<1>2. ASSUME NEW s \in Sid, NEW p \in PC, RecvSessionAck(s, p) PROVE RelayTypeOK'
  <2>1. pcSt' \in [PC -> PCState] /\ tlm' \in [PC -> {"none", "open", "closed"}]
    BY <1>2 DEF RecvSessionAck, PCState
  <2>2. pending' \subseteq PC \X Cause
    BY <1>2 DEF RecvSessionAck, ClosingCallbacks, Cause
  <2>3. server' \in [Sid -> {"fresh", "open", "over"}] /\ session' \in [PC -> Sid \cup {NoSid}]
    BY <1>2 DEF RecvSessionAck
  <2> QED
    BY <1>2, <2>1, <2>2, <2>3 DEF RecvSessionAck
<1>3. ASSUME NEW s \in Sid, RecvSessionAckFails(s) \/ RecvPeerGone(s) PROVE RelayTypeOK'
  BY <1>3, ClosePCTypes DEF RecvSessionAckFails, RecvPeerGone
<1>4. CASE WSLoopEnds
  BY <1>4, ClosePCTypes DEF WSLoopEnds, Loop
<1>5. ASSUME NEW s \in Sid, RecvPeerSDP(s) \/ RecvPeerICE(s) PROVE RelayTypeOK'
  <2>1. remote' \in [PC -> SUBSET Sid]
    BY <1>5 DEF RecvPeerSDP, RecvPeerICE
  <2>2. pcSt' \in [PC -> PCState] /\ camera' \in PC \cup {NoPC}
    BY <1>5 DEF RecvPeerSDP, RecvPeerICE, PCState
  <2> QED
    BY <1>5, <2>1, <2>2 DEF RecvPeerSDP, RecvPeerICE
<1>6. ASSUME NEW p \in PC, Connects(p) \/ Disconnects(p) \/ Fails(p) PROVE RelayTypeOK'
  BY <1>6, RelayAssumption DEF Connects, Disconnects, Fails, PionLeaves, PCState, Cause
<1>7. ASSUME NEW p \in PC, TlmOpens(p) \/ TlmCloses(p) PROVE RelayTypeOK'
  BY <1>7 DEF TlmOpens, TlmCloses, PionLeaves, Cause
<1>8. ASSUME NEW p \in PC, NEW cause \in Cause, RunCallback(p, cause) PROVE RelayTypeOK'
  BY <1>8 DEF RunCallback
<1>9. CASE UNCHANGED relayVars
  BY <1>9 DEF relayVars
<1> QED
  BY <1>1, <1>2, <1>3, <1>4, <1>5, <1>6, <1>7, <1>8, <1>9
  DEF Next, WSLoop, Pion, CmdArrives, CmdWritten, Shutdown, Exited, vars

\* Every variable of the relay and of its bridge has its type.
THEOREM RelayTypeCorrect == Spec => []TypeOK
<1>1. Spec => []RelayTypeOK
  BY InitTypes, TypesStep, PTL DEF Spec
<1>2. RelayTypeOK /\ BridgeInv => TypeOK
  BY DEF RelayTypeOK, BridgeInv, TypeOK
<1> QED
  BY <1>1, <1>2, BridgeInRelay, PTL
=============================================================================
