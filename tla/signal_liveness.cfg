SPECIFICATION FairSpec
CONSTANTS
    PeerID = {p1, p2}
    SessionID = {s1}
    Conn = {c1, c2}
    NoPeer = NoPeer
    NoSid = NoSid
    NoConn = NoConn
    NoSession = NoSession
    NoFrame = NoFrame
    SendQueueSize = 1
    ClientKind = {"session.req", "sdp", "ice", "bye", "ping", "bad_json", "malformed", "unknown", "hello"}
    ForeignSids = FALSE
    MaxFrames = 1
    MaxFaults = 1
PROPERTIES
    SilentPeerLeaves
    ClosedPeerEnds
    FrameHandled
    SessionAnnounced
