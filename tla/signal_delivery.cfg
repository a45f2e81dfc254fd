SPECIFICATION Spec
CONSTANTS
    PeerID = {p1, p2}
    SessionID = {s1}
    Conn = {c1, c2}
    NoPeer = NoPeer
    NoSid = NoSid
    NoConn = NoConn
    NoSession = NoSession
    NoFrame = NoFrame
    SendQueueSize = 2
    ClientKind = {"session.req", "sdp", "bye"}
    ForeignSids = FALSE
    MaxFrames = 3
    MaxFaults = 1
SYMMETRY AllSymmetry
INVARIANTS
    AckNotLost
    GoneNotLost
    GoneOnce
    AckFirst
