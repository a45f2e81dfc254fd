------------------------------ MODULE MavBridge ------------------------------
(***************************************************************************)
(* The MAVLink UDP bridge (internal/mavbridge/udp.go).                     *)
(*                                                                         *)
(* One goroutine, Run, takes datagrams from the socket, learns where the   *)
(* autopilot is and hands each datagram to the installed callback.  Others *)
(* replace the callback (SetOnPacket), send to the autopilot (Write) and   *)
(* close the socket at any time.  A step is what a goroutine does between  *)
(* two accesses to the shared endpoint pointer, to onPkt under its lock or *)
(* to the socket.  A datagram is its source address and its number.        *)
(***************************************************************************)
EXTENDS Naturals, Sequences

CONSTANTS
    Addr,       \* UDP addresses datagrams come from
    NoAddr,     \* the nil endpoint
    Callback,   \* the callbacks SetOnPacket can install
    NoCallback, \* nil: detached
    Writer,     \* the goroutines that call Write
    MaxPackets  \* bound: datagrams that arrive

ASSUME MavBridgeAssumption ==
    /\ NoAddr \notin Addr /\ NoCallback \notin Callback /\ MaxPackets \in Nat

VARIABLES
    endpoint,   \* u.endpoint, the learned address
    onPkt,      \* u.onPkt, the installed callback
    runAt,      \* where Run is
    cb,         \* the callback Run has loaded for the datagram in hand
    cancelled,  \* is the context of Run cancelled?
    deadline,   \* has the socket's read deadline been moved into the past?
    closed,     \* is the socket closed?
    writeAt,    \* Writer -> where its Write is
    writeTo,    \* Writer -> the address its Write has loaded, NoAddr before and after
    srcs,       \* history: the sources of the datagrams received, in order
    handed,     \* history: the number of the last one that a callback was called with
    began,      \* history: Writer -> "handed" when its Write was called
    detachedAt  \* history: Callback -> datagrams received when it was last replaced

write      == <<writeAt, writeTo, began>>
bridgeVars == <<endpoint, onPkt, runAt, cb, cancelled, deadline, closed, writeAt, writeTo,
                srcs, handed, began, detachedAt>>

RunPlace == {"read", "learn", "load", "call", "stopped"}

BridgeTypeOK ==
    /\ endpoint   \in Addr \cup {NoAddr}
    /\ onPkt      \in Callback \cup {NoCallback}
    /\ runAt      \in RunPlace
    /\ cb         \in Callback \cup {NoCallback}
    /\ cancelled  \in BOOLEAN
    /\ deadline   \in BOOLEAN
    /\ closed     \in BOOLEAN
    /\ writeAt    \in [Writer -> {"out", "load", "send"}]
    /\ writeTo    \in [Writer -> Addr \cup {NoAddr}]
    /\ srcs       \in Seq(Addr)
    /\ Len(srcs)  <= MaxPackets
    /\ handed     \in 0 .. Len(srcs)
    /\ began      \in [Writer -> 0 .. MaxPackets]
    /\ detachedAt \in [Callback -> 0 .. MaxPackets]

\* Listen, and main's "go bridge.Run(ctx)".
Listen ==
    /\ endpoint   = NoAddr
    /\ onPkt      = NoCallback
    /\ runAt      = "read"
    /\ cb         = NoCallback
    /\ cancelled  = FALSE
    /\ deadline   = FALSE
    /\ closed     = FALSE
    /\ writeAt    = [w \in Writer |-> "out"]
    /\ writeTo    = [w \in Writer |-> NoAddr]
    /\ srcs       = <<>>
    /\ handed     = 0
    /\ began      = [w \in Writer |-> 0]
    /\ detachedAt = [h \in Callback |-> 0]

-----------------------------------------------------------------------------
(***************************************************************************)
(* Run.                                                                    *)
(***************************************************************************)
\* ReadFromUDP returns a datagram.
ReadFromUDP(a) ==
    /\ runAt = "read" /\ ~deadline /\ ~closed /\ Len(srcs) < MaxPackets
    /\ srcs' = Append(srcs, a)
    /\ runAt' = "learn"
    /\ UNCHANGED <<endpoint, onPkt, cb, cancelled, deadline, closed, write, handed, detachedAt>>

\* The source of the datagram in hand becomes the endpoint when it differs.
Learn ==
    /\ runAt = "learn"
    /\ endpoint' = srcs[Len(srcs)]
    /\ runAt' = "load"
    /\ UNCHANGED <<onPkt, cb, cancelled, deadline, closed, write, srcs, handed, detachedAt>>

\* The callback is loaded under the read lock, and called after it is released.
Bug_LoadKeepsOld ==
    /\ runAt = "load"
    /\ cb' = IF cb = NoCallback THEN onPkt ELSE cb
    /\ runAt' = IF cb' = NoCallback THEN "read" ELSE "call"
    /\ handed' = IF cb' = NoCallback THEN handed ELSE Len(srcs)
    /\ UNCHANGED <<endpoint, onPkt, cancelled, deadline, closed, write, srcs, detachedAt>>
Load ==
    /\ runAt = "load"
    /\ cb' = onPkt
    /\ runAt' = IF onPkt = NoCallback THEN "read" ELSE "call"
    /\ handed' = IF onPkt = NoCallback THEN handed ELSE Len(srcs)
    /\ UNCHANGED <<endpoint, onPkt, cancelled, deadline, closed, write, srcs, detachedAt>>

\* The callback has returned (it may have been replaced meanwhile).
Call ==
    /\ runAt = "call"
    /\ runAt' = "read"
    /\ UNCHANGED <<endpoint, onPkt, cb, cancelled, deadline, closed, write, srcs, handed, detachedAt>>

\* context.AfterFunc: a goroutine of its own moves the read deadline into the past, so
\* that a blocked ReadFromUDP returns.
Bug_NoDeadline == UNCHANGED bridgeVars
SetReadDeadline ==
    /\ cancelled /\ ~deadline
    /\ deadline' = TRUE
    /\ UNCHANGED <<endpoint, onPkt, runAt, cb, cancelled, closed, write, srcs, handed, detachedAt>>

\* ReadFromUDP fails and Run returns: the deadline has passed or the socket is closed.
RunReturns ==
    /\ runAt = "read" /\ (deadline \/ closed)
    /\ runAt' = "stopped"
    /\ UNCHANGED <<endpoint, onPkt, cb, cancelled, deadline, closed, write, srcs, handed, detachedAt>>

-----------------------------------------------------------------------------
(***************************************************************************)
(* The other goroutines.                                                   *)
(***************************************************************************)
\* SetOnPacket replaces the callback; nil detaches.
SetOnPacket(h) ==
    /\ onPkt' = h
    /\ detachedAt' = [g \in Callback |-> IF g = onPkt /\ g # h THEN Len(srcs) ELSE detachedAt[g]]
    /\ UNCHANGED <<endpoint, runAt, cb, cancelled, deadline, closed, write, srcs, handed>>

\* Write is called, by the goroutine of a DataChannel.
WriteBegins(w) ==
    /\ writeAt[w] = "out"
    /\ writeAt' = [writeAt EXCEPT ![w] = "load"]
    /\ began' = [began EXCEPT ![w] = handed]
    /\ UNCHANGED writeTo
    /\ UNCHANGED <<endpoint, onPkt, runAt, cb, cancelled, deadline, closed, srcs, handed, detachedAt>>

\* It returns.
Returns(w) ==
    /\ writeAt' = [writeAt EXCEPT ![w] = "out"]
    /\ writeTo' = [writeTo EXCEPT ![w] = NoAddr]
    /\ began' = [began EXCEPT ![w] = 0]

\* It loads the endpoint; without one it returns ErrNoEndpoint.
WriteLoads(w) ==
    /\ writeAt[w] = "load"
    /\ \/ endpoint = NoAddr /\ Returns(w)
       \/ /\ endpoint # NoAddr
          /\ writeAt' = [writeAt EXCEPT ![w] = "send"]
          /\ writeTo' = [writeTo EXCEPT ![w] = endpoint]
          /\ UNCHANGED began
    /\ UNCHANGED <<endpoint, onPkt, runAt, cb, cancelled, deadline, closed, srcs, handed, detachedAt>>

\* WriteToUDP sends to the loaded address (or fails); the endpoint may have moved on.
Bug_WriteKeepsAddress(w) ==
    /\ writeAt[w] = "send"
    /\ began' = [began EXCEPT ![w] = handed]
    /\ UNCHANGED <<writeAt, writeTo>>
    /\ UNCHANGED <<endpoint, onPkt, runAt, cb, cancelled, deadline, closed, srcs, handed, detachedAt>>
WriteSends(w) ==
    /\ writeAt[w] = "send"
    /\ Returns(w)
    /\ UNCHANGED <<endpoint, onPkt, runAt, cb, cancelled, deadline, closed, srcs, handed, detachedAt>>

\* u.Close (once), or the socket dying under Run.
Close ==
    /\ ~closed
    /\ closed' = TRUE
    /\ UNCHANGED <<endpoint, onPkt, runAt, cb, cancelled, deadline, write, srcs, handed, detachedAt>>

\* The context given to Run is cancelled (SIGINT, SIGTERM).
Cancel ==
    /\ ~cancelled
    /\ cancelled' = TRUE
    /\ UNCHANGED <<endpoint, onPkt, runAt, cb, deadline, closed, write, srcs, handed, detachedAt>>

Run ==
    \/ \E a \in Addr : ReadFromUDP(a)
    \/ Learn \/ Load \/ Call \/ SetReadDeadline \/ RunReturns

BridgeNext ==
    \/ Run
    \/ \E h \in Callback \cup {NoCallback} : SetOnPacket(h)
    \/ \E w \in Writer : WriteBegins(w) \/ WriteLoads(w) \/ WriteSends(w)
    \/ Close \/ Cancel

\* Run goes on whenever it can; a datagram need not come.
BridgeFairness ==
    /\ WF_bridgeVars(Learn \/ Load \/ Call)
    /\ WF_bridgeVars(SetReadDeadline)
    /\ WF_bridgeVars(RunReturns)

BridgeSpec == Listen /\ [][BridgeNext]_bridgeVars /\ BridgeFairness

-----------------------------------------------------------------------------
\* udp.go SetOnPacket against Run: the callback is called after the lock is released,
\* so a replaced callback may still be called, but only with a datagram that was
\* received before it was replaced, never with a later one.
DetachedGetsNothingNew ==
    (runAt = "call" /\ cb # onPkt) => detachedAt[cb] = Len(srcs)

\* udp.go Run against Write: a datagram is handed on only when its source is the
\* endpoint, so an answer to it, a Write called once its callback is loaded, is not
\* refused and goes to where the datagram came from, or to where a later one came from: also
\* after "PX4 restarted on a new ephemeral port" (udp.go:77).  The endpoint may move
\* between the load and the send, and then the answer goes to the address before.
\* (The comment on the type, udp.go:22, would have the first source stay the endpoint.)
AnswerReachesSender ==
    \A w \in Writer :
        /\ writeAt[w] = "load" /\ began[w] > 0 => endpoint # NoAddr
        /\ writeAt[w] = "send" => \E k \in began[w] .. Len(srcs) : k > 0 /\ srcs[k] = writeTo[w]

\* udp.go Run: once its context is cancelled Run returns, although it may be blocked
\* in ReadFromUDP with no datagram coming.
RunStopsOnCancel == cancelled ~> (runAt = "stopped")
=============================================================================
