CONSTANTS
    n1 = n1  n2 = n2  ipA = ipA  ipB = ipB  r1 = r1
    NodeIds = {n1, n2}
    InitNodes = {n1}
    MaxTunnels = 2
    CoreTypes = {"hawal", "paqet"}
    CorePorts = {10, 11}
    Rules = {r1}
    Ips = {ipA, ipB}
    MaxNonce = 1
SPECIFICATION PanelSpec
INVARIANTS
    PanelTypeOK
    UniqueUnlessEdited
    EndsAgree
CHECK_DEADLOCK FALSE
