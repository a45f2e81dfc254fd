----------------------------- MODULE BridgeLog -----------------------------
(***************************************************************************)
(* The bridge with the logger of -debug-mavlink, as the relay composes     *)
(* them: every call of installTelemetryHandler makes a new callback with a *)
(* new logger in it (cmd/relay/main.go).  The autopilot sends MAVLink      *)
(* headers of either version, whole or cut short.                          *)
(***************************************************************************)
EXTENDS MavBridge, MavFrame

HeaderLen(v) == IF v = 2 THEN 10 ELSE 6

\* A datagram is a header in either version, "cut" bytes short of its end; a version 1
\* header has one byte for the message id.
Datagram == {d \in [v : {1, 2}, hdr : Header, cut : 0 .. 10] :
                d.cut <= HeaderLen(d.v) /\ (d.v = 1 => d.hdr.mid = 0 /\ d.hdr.high = 0)}
Bytes(d) == SubSeq(Encode(d.v, d.hdr, 0), 1, HeaderLen(d.v) - d.cut)

CONSTANT Sent   \* the datagrams the autopilot sends

ASSUME BridgeLogAssumption == Sent # {} /\ \A d \in Sent : d \in Datagram

VARIABLES
    pkt,        \* the datagram Run has in hand
    log,        \* Callback -> its logger
    installed,  \* the callbacks made so far
    calls       \* history: Callback -> the datagrams it was called with

logVars == <<pkt, log, installed, calls>>
vars    == <<bridgeVars, logVars>>

Init ==
    /\ Listen
    /\ pkt       = CHOOSE d \in Sent : TRUE
    /\ log       = [h \in Callback |-> NewDebugLogger]
    /\ installed = {}
    /\ calls     = [h \in Callback |-> <<>>]

ReceiveDatagram(a, d) ==
    /\ ReadFromUDP(a)
    /\ pkt' = d
    /\ UNCHANGED <<log, installed, calls>>

\* installTelemetryHandler with debug on.
InstallTelemetryHandler(h) ==
    /\ h \notin installed
    /\ SetOnPacket(h)
    /\ installed' = installed \cup {h}
    /\ UNCHANGED <<pkt, log, calls>>

\* The callback logs the packet (and sends it to the DataChannel).
CallLogs ==
    /\ Call
    /\ log' = [log EXCEPT ![cb] = DebugLog(@, Bytes(pkt))]
    /\ calls' = [calls EXCEPT ![cb] = Append(@, pkt)]
    /\ UNCHANGED <<pkt, installed>>

Quiet ==
    \/ Learn \/ Load \/ SetReadDeadline \/ RunReturns
    \/ \E w \in Writer : WriteBegins(w) \/ WriteLoads(w) \/ WriteSends(w)
    \/ Close \/ Cancel

\* A panic of a callback takes the process down.
Alive == \A h \in Callback : ~log[h].panicked

Next ==
    /\ Alive
    /\ \/ \E a \in Addr, d \in Sent : ReceiveDatagram(a, d)
       \/ \E h \in Callback : InstallTelemetryHandler(h)
       \/ CallLogs
       \/ Quiet /\ UNCHANGED logVars
       \/ runAt = "stopped" /\ UNCHANGED vars

Fairness ==
    /\ WF_vars(Learn /\ UNCHANGED logVars) /\ WF_vars(Load /\ UNCHANGED logVars)
    /\ WF_vars(CallLogs)
    /\ WF_vars(SetReadDeadline /\ UNCHANGED logVars)
    /\ WF_vars(RunReturns /\ UNCHANGED logVars)

Spec == Init /\ [][Next]_vars /\ Fairness

-----------------------------------------------------------------------------
Truth(d) == IF d.cut > 0 THEN Unparsed
            ELSE Parsed(MsgID(d.hdr), d.hdr.sysid, d.hdr.compid, d.hdr.seq)

\* parse.go ParseHeader and NewDebugLogger: every line shows the header that was sent
\* in the datagram it counts, in either version, and an incomplete header is reported
\* as unparsed.
LinesTellTruth ==
    \A h \in Callback : \A k \in DOMAIN log[h].lines :
        LET l == log[h].lines[k]
            d == calls[h][l.n]
        IN  l.n \in DOMAIN calls[h] /\ l.len = Len(Bytes(d)) /\ l.hdr = Truth(d)

\* The comment on NewDebugLogger: it "prints the first 10 frames and every 100th
\* thereafter", whatever they are.
SampledFramesPrinted ==
    \A h \in Callback : \A n \in DOMAIN calls[h] :
        (n <= LogFirst \/ n % LogEvery = 0) => \E k \in DOMAIN log[h].lines : log[h].lines[k].n = n
=============================================================================
