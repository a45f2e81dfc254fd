SPECIFICATION Spec
CONSTANTS
    Addr = {a1}
    NoAddr = NoAddr
    Callback = {p1, p2, dbg}
    NoCallback = NoCallback
    Writer = {p1, p2}
    MaxPackets = 0
    PC = {p1, p2}
    NoPC = NoPC
    Sid = {s1, s2}
    NoSid = NoSid
    DebugOnly = dbg
    Debug = FALSE
    HasCamera = TRUE
    MinDelay = 1
    MaxDelay = 1
    MaxBlips = 1
SYMMETRY Symmetry
INVARIANTS
    OnePhone
    CameraOnCurrentPC
