-------------------------- MODULE BridgeLogProofs --------------------------
(***************************************************************************)
(* Proofs about the bridge with its packet logger.  First the parser: it   *)
(* is right on every packet that begins with a frame header of either      *)
(* version, and on every packet too short for one.  Then what the logger   *)
(* prints, for any number of callbacks and datagrams and every sampling.   *)
(*                                                                         *)
(* LogInv adds to LinesTellTruth what ties a logger to the datagrams its   *)
(* callback was called with: it has counted them, and it panics on no      *)
(* datagram but an empty one.                                              *)
(***************************************************************************)
EXTENDS BridgeLog, MavBridgeProofs, SequenceTheorems

\* Does the packet begin with the bytes of e?
Begins(bs, e) == Len(bs) >= Len(e) /\ \A k \in 1 .. Len(e) : bs[k] = e[k]

\* parse.go ParseHeader: the header of a version 2 frame is read back, for every value
\* of its fields and whatever follows it.
THEOREM ParsesV2 ==
    ASSUME NEW h \in Header, NEW plen \in Byte,
           NEW bs \in Seq(Byte), Begins(bs, Encode(2, h, plen))
    PROVE  ParseHeader(bs) = Parsed(MsgID(h), h.sysid, h.compid, h.seq)
<1> DEFINE e == <<253, plen, 0, 0, h.seq, h.sysid, h.compid, h.low, h.mid, h.high>>
<1>1. Encode(2, h, plen) = e
  BY DEF Encode
<1>2. Len(e) = 10
  OBVIOUS
<1>3. /\ e[1] = 253 /\ e[5] = h.seq /\ e[6] = h.sysid /\ e[7] = h.compid
      /\ e[8] = h.low /\ e[9] = h.mid /\ e[10] = h.high
  OBVIOUS
<1> HIDE DEF e
<1>4. Len(bs) >= 10 /\ \A k \in 1 .. 10 : bs[k] = e[k]
  BY <1>1, <1>2 DEF Begins
<1>5. /\ bs[1] = 253 /\ bs[5] = h.seq /\ bs[6] = h.sysid /\ bs[7] = h.compid
      /\ bs[8] = h.low /\ bs[9] = h.mid /\ bs[10] = h.high
  BY <1>3, <1>4
<1> QED
  BY <1>4, <1>5 DEF ParseHeader, MsgID

\* The same for version 1, whose message id is one byte.
THEOREM ParsesV1 ==
    ASSUME NEW h \in Header, NEW plen \in Byte,
           NEW bs \in Seq(Byte), Begins(bs, Encode(1, h, plen))
    PROVE  ParseHeader(bs) = Parsed(h.low, h.sysid, h.compid, h.seq)
<1> DEFINE e == <<254, plen, h.seq, h.sysid, h.compid, h.low>>
<1>1. Encode(1, h, plen) = e
  BY DEF Encode
<1>2. Len(e) = 6
  OBVIOUS
<1>3. e[1] = 254 /\ e[3] = h.seq /\ e[4] = h.sysid /\ e[5] = h.compid /\ e[6] = h.low
  OBVIOUS
<1> HIDE DEF e
<1>4. Len(bs) >= 6 /\ \A k \in 1 .. 6 : bs[k] = e[k]
  BY <1>1, <1>2 DEF Begins
<1>5. bs[1] = 254 /\ bs[3] = h.seq /\ bs[4] = h.sysid /\ bs[5] = h.compid /\ bs[6] = h.low
  BY <1>3, <1>4
<1> QED
  BY <1>4, <1>5 DEF ParseHeader

\* parse.go ParseHeader: a packet too short for the header its first byte announces,
\* or announcing none, is refused.
THEOREM RefusesOthers ==
    ASSUME NEW bs \in Seq(Byte),
           bs # <<>> /\ bs[1] = 253 => Len(bs) < 10,
           bs # <<>> /\ bs[1] = 254 => Len(bs) < 6
    PROVE  ParseHeader(bs) = Unparsed
<1>1. CASE bs = <<>>
  BY <1>1 DEF ParseHeader
<1>2. CASE bs # <<>>
  BY <1>2 DEF ParseHeader
<1> QED
  BY <1>1, <1>2

-----------------------------------------------------------------------------
(***************************************************************************)
(* The logger.                                                             *)
(***************************************************************************)
\* A datagram's bytes are its header, or fewer.
LEMMA BytesShape ==
    ASSUME NEW d \in Datagram
    PROVE  /\ d.hdr \in Header /\ d.v \in {1, 2} /\ d.cut \in 0 .. HeaderLen(d.v)
           /\ d.v = 1 => d.hdr.mid = 0 /\ d.hdr.high = 0
           /\ Bytes(d) \in Seq(Byte) /\ Len(Bytes(d)) = HeaderLen(d.v) - d.cut
           /\ \A k \in 1 .. Len(Bytes(d)) : Bytes(d)[k] = Encode(d.v, d.hdr, 0)[k]
<1>1. /\ d.hdr \in Header /\ d.v \in {1, 2} /\ d.cut \in 0 .. HeaderLen(d.v)
      /\ d.v = 1 => d.hdr.mid = 0 /\ d.hdr.high = 0
  BY DEF Datagram, HeaderLen
<1>2. PICK h \in Header : h = d.hdr
  BY <1>1
<1>3. /\ h.low \in Byte /\ h.mid \in Byte /\ h.high \in Byte
      /\ h.sysid \in Byte /\ h.compid \in Byte /\ h.seq \in Byte
      /\ 253 \in Byte /\ 254 \in Byte /\ 0 \in Byte
  BY DEF Header, Byte
<1>4. Encode(d.v, h, 0) \in Seq(Byte) /\ Len(Encode(d.v, h, 0)) = HeaderLen(d.v)
  <2>1. CASE d.v = 2
    BY <1>3, <2>1 DEF Encode, HeaderLen
  <2>2. CASE d.v = 1
    BY <1>3, <2>2 DEF Encode, HeaderLen
  <2> QED
    BY <1>1, <2>1, <2>2
<1> DEFINE e == Encode(d.v, h, 0)
           m == HeaderLen(d.v) - d.cut
<1>5. e \in Seq(Byte) /\ Len(e) = HeaderLen(d.v) /\ m \in 0 .. Len(e) /\ Bytes(d) = SubSeq(e, 1, m)
  BY <1>1, <1>2, <1>4 DEF Bytes, HeaderLen
<1> HIDE DEF e, m
<1>6. /\ SubSeq(e, 1, m) \in Seq(Byte) /\ Len(SubSeq(e, 1, m)) = m
      /\ \A k \in 1 .. m : SubSeq(e, 1, m)[k] = e[k]
  BY <1>5
<1> QED
  BY <1>1, <1>2, <1>5, <1>6 DEF e, m

\* The parser shows what was sent.
LEMMA ParsesTruth ==
    ASSUME NEW d \in Datagram
    PROVE  ParseHeader(Bytes(d)) = Truth(d)
<1>1. /\ d.hdr \in Header /\ d.v \in {1, 2} /\ d.cut \in 0 .. HeaderLen(d.v)
      /\ d.v = 1 => d.hdr.mid = 0 /\ d.hdr.high = 0
      /\ Bytes(d) \in Seq(Byte) /\ Len(Bytes(d)) = HeaderLen(d.v) - d.cut
      /\ \A k \in 1 .. Len(Bytes(d)) : Bytes(d)[k] = Encode(d.v, d.hdr, 0)[k]
  BY BytesShape
<1>0. PICK h \in Header, bs \in Seq(Byte), z \in Byte :
         h = d.hdr /\ bs = Bytes(d) /\ z = 0 /\ h.low \in Nat
  <2>1. ASSUME NEW h \in Header PROVE h.low \in Nat
    BY DEF Header, Byte
  <2> QED
    BY <1>1, <2>1 DEF Byte
<1>2. CASE d.cut = 0 /\ d.v = 2
  <2>1. Len(Encode(2, h, z)) = 10 /\ Len(bs) = 10
    BY <1>0, <1>1, <1>2 DEF Encode, HeaderLen
  <2>2. Begins(bs, Encode(2, h, z))
    BY <1>0, <1>1, <1>2, <2>1 DEF Begins
  <2> QED
    BY <1>0, <1>2, <2>2, ParsesV2 DEF Truth
<1>3. CASE d.cut = 0 /\ d.v = 1
  <2>1. Len(Encode(1, h, z)) = 6 /\ Len(bs) = 6
    BY <1>0, <1>1, <1>3 DEF Encode, HeaderLen
  <2>2. Begins(bs, Encode(1, h, z))
    BY <1>0, <1>1, <1>3, <2>1 DEF Begins
  <2>3. h.mid = 0 /\ h.high = 0
    BY <1>0, <1>1, <1>3
  <2>4. MsgID(h) = h.low
    BY <1>0, <2>3 DEF MsgID
  <2> QED
    BY <1>0, <1>3, <2>2, <2>4, ParsesV1 DEF Truth
<1>4. CASE d.cut # 0
  <2>1. Len(Bytes(d)) < HeaderLen(d.v) /\ d.cut > 0
    BY <1>1, <1>4 DEF HeaderLen
  <2>2. Bytes(d) # <<>> => Bytes(d)[1] = IF d.v = 2 THEN 253 ELSE 254
    <3>1. Bytes(d) # <<>> => Bytes(d)[1] = Encode(d.v, d.hdr, 0)[1]
      BY <1>1
    <3> QED
      BY <3>1 DEF Encode
  <2>3. ParseHeader(Bytes(d)) = Unparsed
    BY <1>1, <2>1, <2>2, RefusesOthers DEF HeaderLen
  <2> QED
    BY <2>1, <2>3 DEF Truth
<1> QED
  BY <1>1, <1>2, <1>3, <1>4

-----------------------------------------------------------------------------
(***************************************************************************)
(* The inductive invariant.                                                *)
(***************************************************************************)
Line   == [n : Nat, len : Nat, hdr : {Truth(d) : d \in Sent}]
Logger == [count : Nat, lines : Seq(Line), panicked : BOOLEAN]

LogTypeOK ==
    /\ pkt       \in Sent
    /\ log       \in [Callback -> Logger]
    /\ installed \subseteq Callback
    /\ calls     \in [Callback -> Seq(Sent)]

\* A logger has counted the datagrams its callback was called with.
Counted == \A h \in Callback : log[h].count = Len(calls[h])

\* Has the logger of h printed its n-th packet?
Printed(h, n) == \E k \in DOMAIN log[h].lines : log[h].lines[k].n = n

\* Every sampled packet is printed, or the logger has panicked on it.
SampledOrFatal ==
    \A h \in Callback : \A n \in DOMAIN calls[h] :
        ~Skipped(n) => Printed(h, n) \/ log[h].panicked

\* Only an empty datagram makes a logger panic.
OnlyEmptyIsFatal ==
    \A h \in Callback :
        log[h].panicked => \E n \in DOMAIN calls[h] : Bytes(calls[h][n]) = <<>>

LogInv ==
    /\ BridgeInv
    /\ LogTypeOK
    /\ Counted
    /\ LinesTellTruth
    /\ SampledOrFatal
    /\ OnlyEmptyIsFatal

-----------------------------------------------------------------------------
(***************************************************************************)
(* One call of a logger.                                                   *)
(***************************************************************************)
\* The logger counts the packet; it prints it, or the packet is one it skips, or an
\* empty one, which makes it panic.
LEMMA DebugLogFacts ==
    ASSUME NEW l \in Logger, NEW d \in Sent
    PROVE  /\ DebugLog(l, Bytes(d)) \in Logger
           /\ DebugLog(l, Bytes(d)).count = l.count + 1
           /\ \/ /\ Skipped(l.count + 1)
                 /\ DebugLog(l, Bytes(d)).lines = l.lines
                 /\ DebugLog(l, Bytes(d)).panicked = l.panicked
              \/ /\ Bytes(d) = <<>>
                 /\ DebugLog(l, Bytes(d)).lines = l.lines
                 /\ DebugLog(l, Bytes(d)).panicked = TRUE
              \/ /\ DebugLog(l, Bytes(d)).lines
                        = Append(l.lines, [n |-> l.count + 1, len |-> Len(Bytes(d)), hdr |-> Truth(d)])
                 /\ DebugLog(l, Bytes(d)).panicked = l.panicked
<1>1. d \in Datagram
  BY BridgeLogAssumption
<1>2. Len(Bytes(d)) \in Nat /\ ParseHeader(Bytes(d)) = Truth(d)
  BY <1>1, BytesShape, ParsesTruth, LenProperties
<1>3. PICK p, m, t : p = Bytes(d) /\ m = Len(Bytes(d)) /\ t = Truth(d)
  OBVIOUS
<1> DEFINE line == [n |-> l.count + 1, len |-> m, hdr |-> t]
<1>4. l.count + 1 \in Nat /\ l.lines \in Seq(Line) /\ l.panicked \in BOOLEAN
  BY DEF Logger
<1>5. line \in Line
  BY <1>2, <1>3, <1>4 DEF Line
<1>6. Append(l.lines, line) \in Seq(Line)
  BY <1>4, <1>5
<1>7. DebugLog(l, p) = IF Skipped(l.count + 1) THEN [l EXCEPT !.count = l.count + 1]
                       ELSE IF p = <<>> THEN [l EXCEPT !.count = l.count + 1, !.panicked = TRUE]
                       ELSE [l EXCEPT !.count = l.count + 1, !.lines = Append(l.lines, line)]
  BY <1>2, <1>3 DEF DebugLog
<1> HIDE DEF line
<1>8. CASE Skipped(l.count + 1)
  <2>1. DebugLog(l, p) = [l EXCEPT !.count = l.count + 1]
    BY <1>7, <1>8
  <2>2. /\ [l EXCEPT !.count = l.count + 1] \in Logger
        /\ [l EXCEPT !.count = l.count + 1].count = l.count + 1
        /\ [l EXCEPT !.count = l.count + 1].lines = l.lines
        /\ [l EXCEPT !.count = l.count + 1].panicked = l.panicked
    BY <1>4 DEF Logger
  <2> QED
    BY <1>3, <1>8, <2>1, <2>2
<1>9. CASE ~Skipped(l.count + 1) /\ p = <<>>
  <2> DEFINE r == [l EXCEPT !.count = l.count + 1, !.panicked = TRUE]
  <2>1. DebugLog(l, p) = r
    BY <1>7, <1>9
  <2>2. r \in Logger /\ r.count = l.count + 1 /\ r.lines = l.lines /\ r.panicked = TRUE
    BY <1>4 DEF Logger
  <2> QED
    BY <1>3, <1>9, <2>1, <2>2
<1>10. CASE ~Skipped(l.count + 1) /\ p # <<>>
  <2> DEFINE r == [l EXCEPT !.count = l.count + 1, !.lines = Append(l.lines, line)]
  <2>1. DebugLog(l, p) = r
    BY <1>7, <1>10
  <2>2. /\ r \in Logger /\ r.count = l.count + 1 /\ r.lines = Append(l.lines, line)
        /\ r.panicked = l.panicked
    BY <1>4, <1>6 DEF Logger
  <2> QED
    BY <1>3, <1>10, <2>1, <2>2 DEF line
<1> QED
  BY <1>8, <1>9, <1>10

\* A step of the composition is a step of the bridge.
LEMMA StepIsBridgeStep == [Next]_vars => [BridgeNext]_bridgeVars
BY DEF Next, vars, Quiet, ReceiveDatagram, InstallTelemetryHandler, CallLogs, BridgeNext, Run

-----------------------------------------------------------------------------
(***************************************************************************)
(* The proof that LogInv is inductive.                                     *)
(***************************************************************************)
LEMMA InitLog == Init => LogInv
<1> SUFFICES ASSUME Init PROVE LogInv
  OBVIOUS
<1>1. BridgeInv
  BY ListenInv DEF Init
<1>2. NewDebugLogger \in Logger /\ NewDebugLogger.lines = <<>> /\ NewDebugLogger.count = 0
      /\ NewDebugLogger.panicked = FALSE
  BY DEF NewDebugLogger, Logger
<1>3. pkt \in Sent /\ installed = {}
  BY BridgeLogAssumption DEF Init
<1>4. \A h \in Callback : log[h] = NewDebugLogger /\ calls[h] = <<>>
  BY DEF Init
<1>5. LogTypeOK
  BY <1>2, <1>3 DEF Init, LogTypeOK
<1>6. \A h \in Callback : DOMAIN log[h].lines = {} /\ DOMAIN calls[h] = {}
  BY <1>2, <1>4
<1>7. Counted
  BY <1>2, <1>4 DEF Counted
<1>8. LinesTellTruth /\ SampledOrFatal /\ OnlyEmptyIsFatal
  BY <1>2, <1>4, <1>6 DEF LinesTellTruth, SampledOrFatal, OnlyEmptyIsFatal
<1> QED
  BY <1>1, <1>5, <1>7, <1>8 DEF LogInv

\* What the invariant says of one logger l whose callback was called with c.
OneTrue(l, c) ==
    \A k \in DOMAIN l.lines :
        /\ l.lines[k].n \in DOMAIN c
        /\ l.lines[k].len = Len(Bytes(c[l.lines[k].n])) /\ l.lines[k].hdr = Truth(c[l.lines[k].n])
OneSampled(l, c) ==
    \A n \in DOMAIN c :
        ~Skipped(n) => (\E k \in DOMAIN l.lines : l.lines[k].n = n) \/ l.panicked
OneFatal(l, c) == l.panicked => \E n \in DOMAIN c : Bytes(c[n]) = <<>>
OneInv(l, c) ==
    /\ l \in Logger /\ c \in Seq(Sent) /\ l.count = Len(c)
    /\ OneTrue(l, c) /\ OneSampled(l, c) /\ OneFatal(l, c)

\* It holds of every logger, or of none.
LEMMA OneByOne ==
    ASSUME LogTypeOK
    PROVE  (Counted /\ LinesTellTruth /\ SampledOrFatal /\ OnlyEmptyIsFatal)
           <=> \A h \in Callback : OneInv(log[h], calls[h])
<1>1. \A h \in Callback : log[h] \in Logger /\ calls[h] \in Seq(Sent)
  BY DEF LogTypeOK
<1>2. LinesTellTruth <=> \A h \in Callback : OneTrue(log[h], calls[h])
  BY DEF LinesTellTruth, OneTrue
<1>3. SampledOrFatal <=> \A h \in Callback : OneSampled(log[h], calls[h])
  BY DEF SampledOrFatal, OneSampled, Printed
<1>4. OnlyEmptyIsFatal <=> \A h \in Callback : OneFatal(log[h], calls[h])
  BY DEF OnlyEmptyIsFatal, OneFatal
<1>5. Counted <=> \A h \in Callback : log[h].count = Len(calls[h])
  BY DEF Counted
<1> QED
  BY <1>1, <1>2, <1>3, <1>4, <1>5, Zenon DEF OneInv

\* One call keeps it.
LEMMA CallKeepsOne ==
    ASSUME NEW l, NEW c, NEW d \in Sent, OneInv(l, c)
    PROVE  OneInv(DebugLog(l, Bytes(d)), Append(c, d))
<1>1. /\ l \in Logger /\ c \in Seq(Sent) /\ l.count = Len(c)
      /\ OneTrue(l, c) /\ OneSampled(l, c) /\ OneFatal(l, c)
  BY DEF OneInv
<1>2. PICK r : r = DebugLog(l, Bytes(d))
  OBVIOUS
<1>3. PICK line : line = [n |-> l.count + 1, len |-> Len(Bytes(d)), hdr |-> Truth(d)]
  OBVIOUS
<1>4. /\ r \in Logger /\ r.count = l.count + 1
      /\ \/ Skipped(l.count + 1) /\ r.lines = l.lines /\ r.panicked = l.panicked
         \/ Bytes(d) = <<>> /\ r.lines = l.lines /\ r.panicked = TRUE
         \/ r.lines = Append(l.lines, line) /\ r.panicked = l.panicked
  BY <1>1, <1>2, <1>3, DebugLogFacts
<1>5. PICK b : b = Append(c, d)
  OBVIOUS
<1>6. /\ b \in Seq(Sent) /\ Len(b) = Len(c) + 1 /\ Len(c) \in Nat
      /\ DOMAIN b = DOMAIN c \cup {Len(c) + 1} /\ DOMAIN c = 1 .. Len(c)
      /\ \A k \in DOMAIN c : b[k] = c[k]
      /\ b[Len(c) + 1] = d
  BY <1>1, <1>5
<1>7. l.lines \in Seq(Line)
  BY <1>1 DEF Logger
<1>8. OneTrue(r, b)
  <2>1. CASE r.lines = l.lines
    BY <1>1, <1>6, <2>1 DEF OneTrue
  <2>2. CASE r.lines = Append(l.lines, line)
    <3>1. /\ DOMAIN r.lines = DOMAIN l.lines \cup {Len(l.lines) + 1}
          /\ \A k \in DOMAIN l.lines : r.lines[k] = l.lines[k]
          /\ r.lines[Len(l.lines) + 1] = line
      BY <1>7, <2>2
    <3>2. line.n = Len(c) + 1 /\ line.len = Len(Bytes(d)) /\ line.hdr = Truth(d)
      BY <1>1, <1>3
    <3> QED
      BY <1>1, <1>6, <3>1, <3>2 DEF OneTrue
  <2> QED
    BY <1>4, <2>1, <2>2
<1>9. OneSampled(r, b)
  <2> SUFFICES ASSUME NEW n \in DOMAIN b, ~Skipped(n), ~r.panicked
               PROVE  \E k \in DOMAIN r.lines : r.lines[k].n = n
    BY DEF OneSampled
  <2>1. CASE n \in DOMAIN c
    <3>1. ~l.panicked
      BY <1>4
    <3>2. PICK k \in DOMAIN l.lines : l.lines[k].n = n
      BY <1>1, <2>1, <3>1 DEF OneSampled
    <3>3. k \in DOMAIN r.lines /\ r.lines[k] = l.lines[k]
      BY <1>4, <1>7
    <3> QED
      BY <3>2, <3>3
  <2>2. CASE n = Len(c) + 1
    <3>1. r.lines = Append(l.lines, line)
      BY <1>1, <1>4, <2>2
    <3>2. Len(l.lines) + 1 \in DOMAIN r.lines /\ r.lines[Len(l.lines) + 1] = line
      BY <1>7, <3>1
    <3>3. line.n = n
      BY <1>1, <1>3, <2>2
    <3> QED
      BY <3>2, <3>3
  <2> QED
    BY <1>6, <2>1, <2>2
<1>10. OneFatal(r, b)
  <2>1. CASE l.panicked
    BY <1>1, <1>6, <2>1 DEF OneFatal
  <2>2. CASE ~l.panicked /\ r.panicked
    <3>1. Bytes(d) = <<>>
      BY <1>4, <2>2
    <3> QED
      BY <1>6, <3>1 DEF OneFatal
  <2> QED
    BY <2>1, <2>2 DEF OneFatal
<1> QED
  BY <1>1, <1>2, <1>4, <1>5, <1>6, <1>8, <1>9, <1>10 DEF OneInv

LEMMA CallLogsKeeps ==
    ASSUME LogInv, CallLogs
    PROVE  LogTypeOK' /\ Counted' /\ LinesTellTruth' /\ SampledOrFatal' /\ OnlyEmptyIsFatal'
<1>1. /\ BridgeInv /\ LogTypeOK
      /\ Counted /\ LinesTellTruth /\ SampledOrFatal /\ OnlyEmptyIsFatal
  BY DEF LogInv
<1>2. cb \in Callback
  BY <1>1 DEF BridgeInv, LoadedCallback, CallLogs, Call
<1>3. \A h \in Callback : OneInv(log[h], calls[h])
  BY <1>1, OneByOne
<1>4. PICK r, b : r = DebugLog(log[cb], Bytes(pkt)) /\ b = Append(calls[cb], pkt)
  OBVIOUS
<1>5. /\ log' = [log EXCEPT ![cb] = r] /\ calls' = [calls EXCEPT ![cb] = b]
      /\ pkt' = pkt /\ installed' = installed
  BY <1>4 DEF CallLogs
<1>6. /\ log \in [Callback -> Logger] /\ calls \in [Callback -> Seq(Sent)]
      /\ installed \subseteq Callback /\ pkt \in Sent
  BY <1>1 DEF LogTypeOK
<1>7. OneInv(r, b)
  BY <1>2, <1>3, <1>4, <1>6, CallKeepsOne
<1>8. r \in Logger /\ b \in Seq(Sent)
  BY <1>7 DEF OneInv
<1>9. LogTypeOK'
  BY <1>2, <1>5, <1>6, <1>8 DEF LogTypeOK
<1>10. ASSUME NEW h \in Callback PROVE OneInv(log'[h], calls'[h])
  <2>1. CASE h = cb
    <3>1. log'[h] = r /\ calls'[h] = b
      BY <1>2, <1>5, <1>6, <2>1
    <3> QED
      BY <1>7, <3>1
  <2>2. CASE h # cb
    <3>1. log'[h] = log[h] /\ calls'[h] = calls[h]
      BY <1>4, <1>5, <1>6, <2>2
    <3> QED
      BY <1>3, <3>1
  <2> QED
    BY <2>1, <2>2
<1>11. \A h \in Callback :
          /\ log'[h].count = Len(calls'[h])
          /\ OneTrue(log'[h], calls'[h]) /\ OneSampled(log'[h], calls'[h])
          /\ OneFatal(log'[h], calls'[h])
  BY <1>10 DEF OneInv
<1>12. Counted'
  BY <1>11 DEF Counted
<1>13. LinesTellTruth'
  BY <1>11 DEF LinesTellTruth, OneTrue
<1>14. SampledOrFatal'
  BY <1>11 DEF SampledOrFatal, OneSampled, Printed
<1>15. OnlyEmptyIsFatal'
  BY <1>11 DEF OnlyEmptyIsFatal, OneFatal
<1> QED
  BY <1>9, <1>12, <1>13, <1>14, <1>15

LEMMA LogStep == LogInv /\ [Next]_vars => LogInv'
<1> SUFFICES ASSUME LogInv, [Next]_vars PROVE LogInv'
  OBVIOUS
<1>1. BridgeInv'
  BY StepIsBridgeStep, BridgeStep DEF LogInv
<1> USE DEF LogInv
<1>2. CASE CallLogs
  BY <1>1, <1>2, CallLogsKeeps
<1>3. CASE UNCHANGED <<log, calls>> /\ pkt' \in Sent /\ installed' \subseteq Callback
  BY <1>1, <1>3 DEF LogTypeOK, Counted, LinesTellTruth, SampledOrFatal, OnlyEmptyIsFatal, Printed
<1>4. CASE UNCHANGED logVars
  <2>1. UNCHANGED <<log, calls>> /\ pkt' \in Sent /\ installed' \subseteq Callback
    BY <1>4 DEF logVars, LogTypeOK
  <2> QED
    BY <1>3, <2>1
<1>5. ASSUME NEW a \in Addr, NEW d \in Sent, ReceiveDatagram(a, d) PROVE LogInv'
  <2>1. UNCHANGED <<log, calls>> /\ pkt' \in Sent /\ installed' \subseteq Callback
    BY <1>5 DEF ReceiveDatagram, LogTypeOK
  <2> QED
    BY <1>3, <2>1
<1>6. ASSUME NEW h \in Callback, InstallTelemetryHandler(h) PROVE LogInv'
  <2>1. UNCHANGED <<log, calls>> /\ pkt' \in Sent /\ installed' \subseteq Callback
    BY <1>6 DEF InstallTelemetryHandler, LogTypeOK
  <2> QED
    BY <1>3, <2>1
<1>7. CASE UNCHANGED vars
  BY <1>4, <1>7 DEF vars
<1> QED
  BY <1>2, <1>4, <1>5, <1>6, <1>7 DEF Next

\* The inductive invariant holds of every behaviour of the bridge with its logger.
THEOREM LogInvariance == Spec => []LogInv
BY InitLog, LogStep, PTL DEF Spec

\* parse.go ParseHeader and NewDebugLogger: whatever the autopilot sends, every line
\* shows the header that was sent in the datagram it counts.
THEOREM LinesAreTrue == Spec => []LinesTellTruth
<1>1. LogInv => LinesTellTruth
  BY DEF LogInv
<1> QED
  BY <1>1, LogInvariance, PTL

\* parse.go NewDebugLogger: while the autopilot sends no empty datagram, the first
\* LogFirst frames and every LogEvery-th thereafter are printed.
THEOREM SampledArePrinted ==
    ASSUME \A d \in Sent : Bytes(d) # <<>>
    PROVE  Spec => []SampledFramesPrinted
<1>1. LogInv => SampledFramesPrinted
  <2> SUFFICES ASSUME LogInv, NEW h \in Callback, NEW n \in DOMAIN calls[h],
                      n <= LogFirst \/ n % LogEvery = 0
               PROVE  Printed(h, n)
    BY DEF SampledFramesPrinted, Printed
  <2>1. calls[h] \in Seq(Sent)
    BY DEF LogInv, LogTypeOK
  <2>2. \A m \in DOMAIN calls[h] : calls[h][m] \in Sent
    BY <2>1
  <2>3. ~log[h].panicked
    BY <2>2 DEF LogInv, OnlyEmptyIsFatal
  <2>4. n \in Nat
    BY <2>1
  <2>5. ~Skipped(n)
    BY <2>4, MavFrameAssumption DEF Skipped
  <2> QED
    BY <2>3, <2>5 DEF LogInv, SampledOrFatal
<1> QED
  BY <1>1, LogInvariance, PTL

\* udp.go SetOnPacket and main.go installTelemetryHandler: with a logger in every
\* callback, a replaced callback still gets no datagram received after it was replaced.
THEOREM LoggedDetachIsFinal == Spec => []DetachedGetsNothingNew
<1>1. LogInv => DetachedGetsNothingNew
  BY DEF LogInv, BridgeInv
<1> QED
  BY <1>1, LogInvariance, PTL

\* udp.go Write: with a logger in every callback, a command called after a frame was
\* handed on still goes to where the frame came from, or to where a later one came from.
THEOREM LoggedAnswersReachSender == Spec => []AnswerReachesSender
<1>1. LogInv => AnswerReachesSender
  BY DEF LogInv, BridgeInv
<1> QED
  BY <1>1, LogInvariance, PTL

\* The composition refines the bridge it is built from: each of its steps is a step of
\* the bridge, or leaves the bridge alone.
THEOREM RefinesBridge == Spec => Listen /\ [][BridgeNext]_bridgeVars
<1>1. Init => Listen
  BY DEF Init
<1> QED
  BY <1>1, StepIsBridgeStep, PTL DEF Spec
=============================================================================
