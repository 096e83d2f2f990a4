CONSTANTS
    h1 = h1  ipA = ipA  n1 = n1  r1 = r1
    NoNode = NoNode
    NodeIds = {n1}
    InitNodes = {n1}
    MaxTunnels = 2
    CoreTypes = {"hawal", "paqet"}
    CorePorts = {10, 11}
    Rules = {r1}
    Ips = {ipA}
    MaxNonce = 2
    Hosts = {h1}
    HostIp <- MCHostIp
    Faults = {"unreachable", "missing", "disk", "nonet", "iptables", "exit", "term", "reboot"}
    MaxEvents = 5
SPECIFICATION HSpec
INVARIANTS
    CPTypeOK
    NoOrphanRules
    AnswerInForce
PROPERTIES
    RulesLostOnlyBySharing
    UpToDateKeptRunning
CHECK_DEADLOCK FALSE
