CONSTANTS
    c1 = c1  c2 = c2  c3 = c3  c4 = c4
    NoConn = NoConn
    Conns = {c1, c2, c3}
    NumPorts = 2
    TokenLen <- MCTokenLen
    Pads <- MCPads
    Disturbances = {"client"}
    MaxEvents = 1
SPECIFICATION Spec
INVARIANTS
    ListenersOfActiveSession
CHECK_DEADLOCK FALSE
