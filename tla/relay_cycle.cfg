SPECIFICATION FairSpec
CONSTANTS
    Addr = {a1}
    NoAddr = NoAddr
    Callback = {p1, dbg}
    NoCallback = NoCallback
    Writer = {p1}
    MaxPackets = 1
    PC = {p1}
    NoPC = NoPC
    Sid = {s1}
    NoSid = NoSid
    DebugOnly = dbg
    Debug = TRUE
    HasCamera = FALSE
    MinDelay = 1
    MaxDelay = 3
    MaxBlips = 0
INVARIANTS
    DelayBounded
PROPERTIES
    TelemetryStarts
    KeepsTrying
    ShutdownCompletes
