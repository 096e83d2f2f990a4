CONSTANTS
    MaxStreams = 1
    MaxChunks = 1
    MaxPings = 0
    WireCap = 1
    ChanCap = 1
    AcceptCap = 1
    Disturbances = {"reset"}
SPECIFICATION Spec
INVARIANTS
    NoPanic
CHECK_DEADLOCK FALSE
