SPECIFICATION Spec
CONSTANTS
    Addr = {a1, a2}
    NoAddr = NoAddr
    Callback = {h1, h2}
    NoCallback = NoCallback
    Writer = {w1}
    MaxPackets = 2
    LogFirst = 1
    LogEvery = 3
    Sent <- MCSentEmpty
INVARIANTS
    SampledFramesPrinted
