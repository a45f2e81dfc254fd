------------------------------ MODULE MavFrame ------------------------------
(***************************************************************************)
(* The MAVLink header parser and the sampling packet logger                *)
(* (internal/mavframe/parse.go).  A packet is its sequence of bytes.  The  *)
(* names of messages (MsgName) are wording and are left out.               *)
(***************************************************************************)
EXTENDS Naturals, Sequences

CONSTANTS
    LogFirst,   \* the frames printed first: 10 in the code
    LogEvery    \* then every LogEvery-th: 100 in the code

ASSUME MavFrameAssumption == LogFirst \in Nat /\ LogEvery \in Nat \ {0}

-----------------------------------------------------------------------------
Parsed(msgid, sysid, compid, seq) ==
    [ok |-> TRUE, msgid |-> msgid, sysid |-> sysid, compid |-> compid, seq |-> seq]
Unparsed == [ok |-> FALSE, msgid |-> 0, sysid |-> 0, compid |-> 0, seq |-> 0]

\* ParseHeader; byte k of the code is pkt[k + 1].
Bug_MsgIDBigEndian(pkt) ==
    IF Len(pkt) >= 10 /\ pkt[1] = 253
    THEN Parsed(256 * 256 * pkt[8] + 256 * pkt[9] + pkt[10], pkt[6], pkt[7], pkt[5])
    ELSE IF Len(pkt) >= 6 /\ pkt[1] = 254 THEN Parsed(pkt[6], pkt[4], pkt[5], pkt[3])
                                          ELSE Unparsed
ParseHeader(pkt) ==
    IF Len(pkt) >= 10 /\ pkt[1] = 253
    THEN Parsed(pkt[8] + 256 * pkt[9] + 256 * 256 * pkt[10], pkt[6], pkt[7], pkt[5])
    ELSE IF Len(pkt) >= 6 /\ pkt[1] = 254 THEN Parsed(pkt[6], pkt[4], pkt[5], pkt[3])
                                          ELSE Unparsed

\* Is the n-th packet skipped?
Bug_SkippedOffByOne(n) == n >= LogFirst /\ n % LogEvery # 0
Skipped(n) == n > LogFirst /\ n % LogEvery # 0

\* A logger: its counter, what it has printed, and whether a call of it panicked.
NewDebugLogger == [count |-> 0, lines |-> <<>>, panicked |-> FALSE]

\* The logger l after it is called with pkt.  A packet that does not parse is printed
\* with its first byte, which an empty one does not have.
DebugLog(l, pkt) ==
    LET n == l.count + 1
        line == [n |-> n, len |-> Len(pkt), hdr |-> ParseHeader(pkt)]
    IN  IF Skipped(n)     THEN [l EXCEPT !.count = n]
        ELSE IF pkt = <<>> THEN [l EXCEPT !.count = n, !.panicked = TRUE]
                           ELSE [l EXCEPT !.count = n, !.lines = Append(@, line)]

-----------------------------------------------------------------------------
(***************************************************************************)
(* The reference: the wire format of a header, as MAVLink defines it.      *)
(***************************************************************************)
Byte == 0 .. 255

\* A header; its message id is given by its bytes, the least significant first.
Header == [low : Byte, mid : Byte, high : Byte, sysid : Byte, compid : Byte, seq : Byte]
MsgID(h) == h.low + 256 * h.mid + 256 * 256 * h.high

\* The header bytes of version v, with the payload length plen.
Encode(v, h, plen) ==
    IF v = 2
    THEN <<253, plen, 0, 0, h.seq, h.sysid, h.compid, h.low, h.mid, h.high>>
    ELSE <<254, plen, h.seq, h.sysid, h.compid, h.low>>
=============================================================================
