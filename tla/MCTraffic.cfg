CONSTANTS
    t1 = t1  t2 = t2
    Tunnels = {t1, t2}
    CorePort <- MCApartPorts
    FirstCore <- MCOneOfEach
    MaxBytes = 2
    MaxSocket = 1
    MaxEvents = 2
    Disturbances = {"edit", "delete", "exit", "kill", "restart", "timeout", "lose", "panel", "stall"}
SPECIFICATION FairSpec
INVARIANTS
    TrafficTypeOK
    NoOvercount
    ExactBetweenLosses
PROPERTIES
    NeverUndone
    UndoesNoMoreThanItsPass
    CollectorPolls
    EventuallyReported
CHECK_DEADLOCK FALSE
