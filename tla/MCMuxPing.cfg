CONSTANTS
    MaxStreams = 1
    MaxChunks = 2
    MaxPings = 1
    WireCap = 1
    ChanCap = 1
    AcceptCap = 1
    Disturbances = {}
SPECIFICATION FairSpec
PROPERTIES
    PingAnswered
CHECK_DEADLOCK FALSE
