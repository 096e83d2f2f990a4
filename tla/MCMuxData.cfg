CONSTANTS
    MaxStreams = 1
    MaxChunks = 2
    MaxPings = 1
    WireCap = 1
    ChanCap = 1
    AcceptCap = 1
    Disturbances = {"eof", "reset", "nodial"}
SPECIFICATION Spec
INVARIANTS
    TypeOK
    ChannelDiscipline
    InOrderNoLoss
    PrefixDelivered
    EndIsComplete
    NeverWaitsAgain

    
CHECK_DEADLOCK FALSE
