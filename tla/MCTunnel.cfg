CONSTANTS
    c1 = c1  c2 = c2  c3 = c3  c4 = c4
    NoConn = NoConn
    Conns = {c1, c2, c3}
    NumPorts = 1
    TokenLen <- MCTokenLen
    Pads <- MCPads
    Disturbances = {"break", "late", "client", "server", "accept"}
    MaxEvents = 3
SPECIFICATION FairSpec
INVARIANTS
    TypeOK
    OneOpenSession
    NoListenerLeak
    StaleOnlyIfOvertaken
PROPERTIES
    TakeoverCleans
    GenuineAccepted
    EventuallyConnected
    EventuallyForwarded
CHECK_DEADLOCK FALSE
