CONSTANTS
    MaxStreams = 1
    MaxChunks = 1
    MaxPings = 0
    WireCap = 1
    ChanCap = 1
    AcceptCap = 1
    Disturbances = {"break", "replace", "reset", "nodial"}
SPECIFICATION FairSpec
PROPERTIES
    Teardown
    
CHECK_DEADLOCK FALSE
