SPECIFICATION Spec
CONSTANTS
    Addr = {a1, a2}
    NoAddr = NoAddr
    Callback = {h1, h2}
    NoCallback = NoCallback
    Writer = {w1}
    MaxPackets = 3
    LogFirst = 1
    LogEvery = 3
    Sent <- MCSent
INVARIANTS
    DetachedGetsNothingNew
    AnswerReachesSender
    LinesTellTruth
    SampledFramesPrinted
PROPERTIES
    RunStopsOnCancel
