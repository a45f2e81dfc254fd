SPECIFICATION FairSpec
CONSTANTS
    Source = {v1, v2}
    NoSource = NoSource
    MaxQueue = 2
INVARIANTS
    OwnVideoOnly
    NothingLeftBehind
PROPERTIES
    ClosedSourceEnds
    CancelStopsFfmpeg
