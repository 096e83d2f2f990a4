CONSTANTS
    h1 = h1  h2 = h2  ipA = ipA  ipB = ipB  ipC = ipC  n1 = n1  n2 = n2  r1 = r1
    NoNode = NoNode
    NodeIds = {n1, n2}
    InitNodes = {n1}
    MaxTunnels = 1
    CoreTypes = {"gost"}
    CorePorts = {10}
    Rules = {r1}
    Ips = {ipA}
    MaxNonce = 2
    Hosts = {h1}
    HostIp <- MCHostIp
    Faults = {"disk", "crash", "popen", "term", "reboot"}
    MaxEvents = 5
SPECIFICATION FairSpec
INVARIANTS
    NoRestartLoop
    RestartInv
PROPERTIES
    RestartHonoured
CHECK_DEADLOCK FALSE
