SPECIFICATION Spec
CONSTANTS
    Addr = {a1}
    NoAddr = NoAddr
    Callback = {p1, dbg}
    NoCallback = NoCallback
    Writer = {p1}
    MaxPackets = 0
    PC = {p1}
    NoPC = NoPC
    Sid = {s1}
    NoSid = NoSid
    DebugOnly = dbg
    Debug = FALSE
    HasCamera = FALSE
    MinDelay = 1
    MaxDelay = 1
    MaxBlips = 1
INVARIANTS
    TelemetryFlows
