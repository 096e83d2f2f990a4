CONSTANTS
    t1 = t1  t2 = t2
    Tunnels = {t1, t2}
    CorePort <- MCPrefixPorts
    FirstCore <- MCPaqet
    MaxBytes = 2
    MaxSocket = 0
    MaxEvents = 0
    Disturbances = {}
SPECIFICATION Spec
INVARIANTS
    CounterOfOwnRule
CHECK_DEADLOCK FALSE
