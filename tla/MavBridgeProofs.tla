-------------------------- MODULE MavBridgeProofs --------------------------
(***************************************************************************)
(* Proofs about MavBridge, for any number of callbacks, writers, addresses *)
(* and datagrams.                                                          *)
(*                                                                         *)
(* BridgeInv adds to the two safety properties what ties the endpoint to   *)
(* the datagrams: it is the source of one not older than the last that was *)
(* handed on, and of the one in hand from the moment it is learned.        *)
(***************************************************************************)
EXTENDS MavBridge, TLAPS

\* The endpoint is the source of a datagram as recent as the last that was handed on;
\* Run has a datagram when it is about to learn or to load, by then the endpoint's; no
\* Write was called in the future.
EndpointKnown ==
    /\ endpoint # NoAddr => \E k \in handed .. Len(srcs) : k > 0 /\ srcs[k] = endpoint
    /\ handed > 0 => endpoint # NoAddr
    /\ runAt = "learn" => Len(srcs) > 0
    /\ runAt = "load" => Len(srcs) > 0 /\ endpoint = srcs[Len(srcs)]
    /\ \A w \in Writer : began[w] <= handed
    /\ \A h \in Callback : detachedAt[h] <= Len(srcs)

\* A loaded callback is a callback.
LoadedCallback == runAt = "call" => cb \in Callback

BridgeInv ==
    /\ BridgeTypeOK
    /\ EndpointKnown
    /\ LoadedCallback
    /\ DetachedGetsNothingNew
    /\ AnswerReachesSender

LEMMA ListenInv == Listen => BridgeInv
<1> SUFFICES ASSUME Listen PROVE BridgeInv
  OBVIOUS
<1>1. srcs \in Seq(Addr) /\ Len(srcs) = 0
  BY DEF Listen
<1>2. BridgeTypeOK
  <2>1. cancelled \in BOOLEAN /\ deadline \in BOOLEAN /\ closed \in BOOLEAN
    BY DEF Listen
  <2>2. /\ Len(srcs) <= MaxPackets /\ handed \in 0 .. Len(srcs)
        /\ began \in [Writer -> 0 .. MaxPackets]
        /\ detachedAt \in [Callback -> 0 .. MaxPackets]
    BY <1>1, MavBridgeAssumption DEF Listen
  <2> QED
    BY <1>1, <2>1, <2>2 DEF Listen, BridgeTypeOK, RunPlace
<1>3. EndpointKnown
  BY <1>1 DEF Listen, EndpointKnown
<1>4. LoadedCallback /\ DetachedGetsNothingNew /\ AnswerReachesSender
  BY DEF Listen, LoadedCallback, DetachedGetsNothingNew, AnswerReachesSender
<1> QED
  BY <1>2, <1>3, <1>4 DEF BridgeInv

\* A datagram added at the end leaves the earlier ones where they are.
LEMMA ReadKeeps ==
    ASSUME BridgeInv, NEW a \in Addr, ReadFromUDP(a)
    PROVE  BridgeInv'
<1>1. /\ srcs' = Append(srcs, a) /\ runAt' = "learn" /\ Len(srcs) < MaxPackets
      /\ runAt = "read"
      /\ UNCHANGED <<endpoint, onPkt, cb, cancelled, deadline, closed, writeAt, writeTo, handed,
                     began, detachedAt>>
  BY DEF ReadFromUDP, write
<1>2. srcs \in Seq(Addr) /\ handed \in 0 .. Len(srcs) /\ Len(srcs) \in Nat
  BY DEF BridgeInv, BridgeTypeOK
<1>3. /\ srcs' \in Seq(Addr) /\ Len(srcs') = Len(srcs) + 1
      /\ \A k \in 1 .. Len(srcs) : srcs'[k] = srcs[k]
  BY <1>1, <1>2
<1>4. BridgeTypeOK'
  BY <1>1, <1>2, <1>3, MavBridgeAssumption DEF BridgeInv, BridgeTypeOK, RunPlace
<1>5. \A m \in Nat, b \in Addr :
        (\E k \in m .. Len(srcs) : k > 0 /\ srcs[k] = b)
            => \E k \in m .. Len(srcs') : k > 0 /\ srcs'[k] = b
  BY <1>2, <1>3
<1>6. EndpointKnown'
  BY <1>1, <1>2, <1>3, <1>5 DEF BridgeInv, BridgeTypeOK, EndpointKnown
<1>7. DetachedGetsNothingNew' /\ LoadedCallback'
  BY <1>1 DEF DetachedGetsNothingNew, LoadedCallback
<1>8. AnswerReachesSender'
  <2> SUFFICES ASSUME NEW w \in Writer
               PROVE  /\ writeAt[w] = "load" /\ began[w] > 0 => endpoint # NoAddr
                      /\ writeAt[w] = "send" =>
                            \E k \in began[w] .. Len(srcs') : k > 0 /\ srcs'[k] = writeTo[w]
    BY <1>1 DEF AnswerReachesSender
  <2>1. began[w] \in Nat
    BY DEF BridgeInv, BridgeTypeOK
  <2>2. writeAt[w] = "send" => \E k \in began[w] .. Len(srcs) : k > 0 /\ srcs[k] = writeTo[w]
    BY DEF BridgeInv, AnswerReachesSender
  <2>3. writeAt[w] = "send" => writeTo[w] \in Addr
    BY <1>2, <2>1, <2>2
  <2> QED
    BY <1>5, <2>1, <2>2, <2>3 DEF BridgeInv, AnswerReachesSender
<1> QED
  BY <1>4, <1>6, <1>7, <1>8 DEF BridgeInv

LEMMA LearnKeeps ==
    ASSUME BridgeInv, Learn
    PROVE  BridgeInv'
<1>1. /\ runAt = "learn" /\ runAt' = "load" /\ endpoint' = srcs[Len(srcs)]
      /\ UNCHANGED <<onPkt, cb, cancelled, deadline, closed, writeAt, writeTo, srcs, handed, began,
                     detachedAt>>
  BY DEF Learn, write
<1>2. srcs \in Seq(Addr) /\ handed \in 0 .. Len(srcs) /\ Len(srcs) > 0 /\ Len(srcs) \in Nat
  BY <1>1 DEF BridgeInv, BridgeTypeOK, EndpointKnown
<1>3. srcs[Len(srcs)] \in Addr
  BY <1>2
<1>4. BridgeTypeOK'
  BY <1>1, <1>2, <1>3 DEF BridgeInv, BridgeTypeOK, RunPlace
<1>5. EndpointKnown'
  BY <1>1, <1>2, <1>3, MavBridgeAssumption DEF BridgeInv, BridgeTypeOK, EndpointKnown
<1>6. DetachedGetsNothingNew' /\ LoadedCallback'
  BY <1>1 DEF DetachedGetsNothingNew, LoadedCallback
<1>7. AnswerReachesSender'
  BY <1>1, <1>3, MavBridgeAssumption DEF BridgeInv, AnswerReachesSender
<1> QED
  BY <1>4, <1>5, <1>6, <1>7 DEF BridgeInv

\* What is handed on came from the endpoint.
LEMMA LoadKeeps ==
    ASSUME BridgeInv, Load
    PROVE  BridgeInv'
<1>1. /\ runAt = "load" /\ cb' = onPkt
      /\ runAt' = IF onPkt = NoCallback THEN "read" ELSE "call"
      /\ handed' = IF onPkt = NoCallback THEN handed ELSE Len(srcs)
      /\ UNCHANGED <<endpoint, onPkt, cancelled, deadline, closed, writeAt, writeTo, srcs, began,
                     detachedAt>>
  BY DEF Load, write
<1>2. /\ srcs \in Seq(Addr) /\ handed \in 0 .. Len(srcs) /\ Len(srcs) > 0 /\ Len(srcs) \in Nat
      /\ endpoint = srcs[Len(srcs)] /\ endpoint \in Addr
  BY <1>1 DEF BridgeInv, BridgeTypeOK, EndpointKnown
<1>3. handed' \in handed .. Len(srcs)
  BY <1>1, <1>2
<1>4. BridgeTypeOK'
  BY <1>1, <1>2, <1>3 DEF BridgeInv, BridgeTypeOK, RunPlace
<1>5. EndpointKnown'
  <2>1. \A w \in Writer : began[w] \in Nat /\ began[w] <= handed
    BY DEF BridgeInv, BridgeTypeOK, EndpointKnown
  <2>2. \A w \in Writer : began'[w] <= handed'
    BY <1>1, <1>2, <1>3, <2>1
  <2>3. \E k \in handed' .. Len(srcs') : k > 0 /\ srcs'[k] = endpoint'
    BY <1>1, <1>2, <1>3
  <2>4. endpoint' # NoAddr /\ runAt' \in {"read", "call"}
    BY <1>1, <1>2, MavBridgeAssumption
  <2>5. \A h \in Callback : detachedAt'[h] <= Len(srcs')
    BY <1>1 DEF BridgeInv, EndpointKnown
  <2> QED
    BY <2>2, <2>3, <2>4, <2>5 DEF EndpointKnown
<1>6. DetachedGetsNothingNew' /\ LoadedCallback'
  BY <1>1 DEF BridgeInv, BridgeTypeOK, DetachedGetsNothingNew, LoadedCallback
<1>7. AnswerReachesSender'
  BY <1>1 DEF BridgeInv, AnswerReachesSender
<1> QED
  BY <1>4, <1>5, <1>6, <1>7 DEF BridgeInv

\* The three steps of a Write.
LEMMA WriteKeeps ==
    ASSUME BridgeInv, NEW w \in Writer, WriteBegins(w) \/ WriteLoads(w) \/ WriteSends(w)
    PROVE  BridgeInv'
<1>1. UNCHANGED <<endpoint, onPkt, runAt, cb, cancelled, deadline, closed, srcs, handed, detachedAt>>
  BY DEF WriteBegins, WriteLoads, WriteSends
<1>2. /\ srcs \in Seq(Addr) /\ handed \in 0 .. Len(srcs) /\ Len(srcs) <= MaxPackets
      /\ Len(srcs) \in Nat /\ MaxPackets \in Nat
      /\ began \in [Writer -> 0 .. MaxPackets] /\ writeTo \in [Writer -> Addr \cup {NoAddr}]
      /\ writeAt \in [Writer -> {"out", "load", "send"}]
  BY MavBridgeAssumption DEF BridgeInv, BridgeTypeOK
<1>3. \E at \in {"out", "load", "send"}, to \in Addr \cup {NoAddr}, n \in 0 .. MaxPackets :
        /\ writeAt' = [writeAt EXCEPT ![w] = at]
        /\ writeTo' = [writeTo EXCEPT ![w] = to]
        /\ began' = [began EXCEPT ![w] = n]
        /\ n <= handed
        /\ at = "load" /\ n > 0 => endpoint # NoAddr
        /\ at = "send" => \E k \in n .. Len(srcs) : k > 0 /\ srcs[k] = to
  <2>1. CASE WriteBegins(w)
    <3>1. /\ writeAt' = [writeAt EXCEPT ![w] = "load"]
          /\ writeTo' = [writeTo EXCEPT ![w] = writeTo[w]]
          /\ began' = [began EXCEPT ![w] = handed]
      BY <1>2, <2>1 DEF WriteBegins
    <3>2. handed \in 0 .. MaxPackets /\ writeTo[w] \in Addr \cup {NoAddr}
      BY <1>2
    <3>3. handed > 0 => endpoint # NoAddr
      BY DEF BridgeInv, EndpointKnown
    <3>4. "load" \in {"out", "load", "send"} /\ handed <= handed /\ "load" # "send"
      BY <1>2
    <3> USE <3>2
    <3> WITNESS "load" \in {"out", "load", "send"}, writeTo[w] \in Addr \cup {NoAddr},
                handed \in 0 .. MaxPackets
    <3> QED
      BY <3>1, <3>3, <3>4
  <2>2. CASE (WriteLoads(w) /\ endpoint = NoAddr) \/ WriteSends(w)
    <3>1. /\ writeAt' = [writeAt EXCEPT ![w] = "out"]
          /\ writeTo' = [writeTo EXCEPT ![w] = NoAddr]
          /\ began' = [began EXCEPT ![w] = 0]
      BY <2>2 DEF WriteLoads, WriteSends, Returns
    <3>2. 0 \in 0 .. MaxPackets /\ 0 <= handed /\ NoAddr \in Addr \cup {NoAddr}
      BY <1>2
    <3> USE <3>2
    <3> WITNESS "out" \in {"out", "load", "send"}, NoAddr \in Addr \cup {NoAddr},
                0 \in 0 .. MaxPackets
    <3> QED
      BY <3>1, <3>2
  <2>3. CASE WriteLoads(w) /\ endpoint # NoAddr
    <3>1. /\ writeAt' = [writeAt EXCEPT ![w] = "send"]
          /\ writeTo' = [writeTo EXCEPT ![w] = endpoint]
          /\ began' = [began EXCEPT ![w] = began[w]]
      BY <1>2, <2>3 DEF WriteLoads
    <3>2. began[w] <= handed /\ began[w] \in 0 .. MaxPackets /\ endpoint \in Addr \cup {NoAddr}
      BY <1>2 DEF BridgeInv, BridgeTypeOK, EndpointKnown
    <3>3. PICK k \in handed .. Len(srcs) : k > 0 /\ srcs[k] = endpoint
      BY <2>3 DEF BridgeInv, EndpointKnown
    <3>4. k \in began[w] .. Len(srcs)
      BY <1>2, <3>2
    <3> QED
      BY <3>1, <3>2, <3>3, <3>4
  <2> QED
    BY <2>1, <2>2, <2>3
<1>4. BridgeTypeOK'
  BY <1>1, <1>2, <1>3 DEF BridgeInv, BridgeTypeOK
<1>5. EndpointKnown'
  <2>1. \A v \in Writer : began'[v] <= handed'
    BY <1>1, <1>2, <1>3 DEF BridgeInv, EndpointKnown
  <2> QED
    BY <1>1, <2>1 DEF BridgeInv, EndpointKnown
<1>6. DetachedGetsNothingNew' /\ LoadedCallback'
  BY <1>1 DEF BridgeInv, DetachedGetsNothingNew, LoadedCallback
<1>7. AnswerReachesSender'
  <2> SUFFICES ASSUME NEW v \in Writer
               PROVE  /\ writeAt'[v] = "load" /\ began'[v] > 0 => endpoint # NoAddr
                      /\ writeAt'[v] = "send" =>
                            \E k \in began'[v] .. Len(srcs) : k > 0 /\ srcs[k] = writeTo'[v]
    BY <1>1 DEF AnswerReachesSender
  <2>1. CASE v = w
    BY <1>2, <1>3, <2>1
  <2>2. CASE v # w
    <3>1. writeAt'[v] = writeAt[v] /\ writeTo'[v] = writeTo[v] /\ began'[v] = began[v]
      BY <1>2, <1>3, <2>2
    <3> QED
      BY <3>1 DEF BridgeInv, AnswerReachesSender
  <2> QED
    BY <2>1, <2>2
<1> QED
  BY <1>4, <1>5, <1>6, <1>7 DEF BridgeInv

\* A replaced callback is marked with the datagrams received so far; the one in hand,
\* if there is one, is the last of them.
LEMMA SetOnPacketKeeps ==
    ASSUME BridgeInv, NEW h \in Callback \cup {NoCallback}, SetOnPacket(h)
    PROVE  BridgeInv'
<1>1. /\ onPkt' = h
      /\ detachedAt' = [g \in Callback |-> IF g = onPkt /\ g # h THEN Len(srcs) ELSE detachedAt[g]]
      /\ UNCHANGED <<endpoint, runAt, cb, cancelled, deadline, closed, writeAt, writeTo, srcs, handed,
                     began>>
  BY DEF SetOnPacket, write
<1>2. Len(srcs) \in 0 .. MaxPackets
  BY MavBridgeAssumption DEF BridgeInv, BridgeTypeOK
<1>3. BridgeTypeOK'
  BY <1>1, <1>2 DEF BridgeInv, BridgeTypeOK
<1>4. EndpointKnown'
  BY <1>1, <1>2 DEF BridgeInv, BridgeTypeOK, EndpointKnown
<1>5. DetachedGetsNothingNew' /\ LoadedCallback'
  BY <1>1 DEF BridgeInv, DetachedGetsNothingNew, LoadedCallback
<1>6. AnswerReachesSender'
  BY <1>1 DEF BridgeInv, AnswerReachesSender
<1> QED
  BY <1>3, <1>4, <1>5, <1>6 DEF BridgeInv

LEMMA BridgeStep == BridgeInv /\ [BridgeNext]_bridgeVars => BridgeInv'
<1> SUFFICES ASSUME BridgeInv, [BridgeNext]_bridgeVars PROVE BridgeInv'
  OBVIOUS
<1>1. CASE Call \/ RunReturns
  BY <1>1 DEF Call, RunReturns, write, BridgeInv, BridgeTypeOK, EndpointKnown, LoadedCallback,
              DetachedGetsNothingNew, AnswerReachesSender, RunPlace
<1>2. CASE SetReadDeadline \/ Close \/ Cancel
  BY <1>2 DEF SetReadDeadline, Close, Cancel, write, BridgeInv, BridgeTypeOK, EndpointKnown,
              LoadedCallback, DetachedGetsNothingNew, AnswerReachesSender
<1>3. CASE UNCHANGED bridgeVars
  BY <1>3 DEF bridgeVars, BridgeInv, BridgeTypeOK, EndpointKnown, LoadedCallback,
              DetachedGetsNothingNew, AnswerReachesSender
<1> QED
  BY <1>1, <1>2, <1>3, ReadKeeps, LearnKeeps, LoadKeeps, WriteKeeps, SetOnPacketKeeps
  DEF BridgeNext, Run

\* udp.go: the inductive invariant holds of every behaviour.
THEOREM BridgeInvariance == BridgeSpec => []BridgeInv
BY ListenInv, BridgeStep, PTL DEF BridgeSpec

\* udp.go SetOnPacket against Run: a replaced callback never gets a datagram received
\* after it was replaced.
THEOREM DetachIsFinal == BridgeSpec => []DetachedGetsNothingNew
<1>1. BridgeInv => DetachedGetsNothingNew
  BY DEF BridgeInv
<1> QED
  BY <1>1, BridgeInvariance, PTL

\* udp.go Run against Write: a command called after a frame was handed on goes to where
\* the frame came from, or to where a later one came from.
THEOREM AnswersReachSender == BridgeSpec => []AnswerReachesSender
<1>1. BridgeInv => AnswerReachesSender
  BY DEF BridgeInv
<1> QED
  BY <1>1, BridgeInvariance, PTL
=============================================================================
