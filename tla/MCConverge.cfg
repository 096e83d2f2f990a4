CONSTANTS
    h1 = h1  h2 = h2  ipA = ipA  ipB = ipB  ipC = ipC  n1 = n1  n2 = n2  r1 = r1
    NoNode = NoNode
    NodeIds = {n1, n2}
    InitNodes = {n1}
    MaxTunnels = 1
    CoreTypes = {"paqet"}
    CorePorts = {10}
    Rules = {r1}
    Ips = {ipA, ipB}
    MaxNonce = 0
    Hosts = {h1, h2}
    HostIp <- MCHostIp
    Faults = {"exit", "unreachable"}
    MaxEvents = 4
SPECIFICATION FairSpec
PROPERTIES
    Convergence
    EndsMeet
CHECK_DEADLOCK FALSE
