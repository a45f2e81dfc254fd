SPECIFICATION Spec
CHECK_DEADLOCK FALSE
CONSTANTS
    pilot1 = pilot1
    drone42 = drone42
    PeerID = {pilot1, drone42}
    Pilot = pilot1
    Drone = drone42
    SessionID = {s1, s2}
    Conn = {c1, c2, c3}
    NoPeer = NoPeer
    NoSid = NoSid
    NoConn = NoConn
    NoSession = NoSession
    DroneProg = {"relay"}
    Trickler = {}
    MaxICE = 0
    MaxStarts <- MCStarts
    MaxFaults = 0
PROPERTIES
    GoneEndsItsSession
