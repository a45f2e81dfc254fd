SPECIFICATION Spec
CONSTANTS
    PeerID = {p1, p2}
    SessionID = {s1}
    Conn = {c1, c2, c3}
    NoPeer = NoPeer
    NoSid = NoSid
    NoConn = NoConn
    NoSession = NoSession
    NoFrame = NoFrame
    SendQueueSize = 2
    ClientKind = {"session.req", "ice", "bye"}
    ForeignSids = TRUE
    MaxFrames = 2
    MaxFaults = 1
SYMMETRY AllSymmetry
INVARIANTS
    TypeOK
    RegistryExact
    LoopsWithinRegistration
    SessionBoundToConns
    RoutedWithinSession
PROPERTIES
    ImplementsRendezvous
