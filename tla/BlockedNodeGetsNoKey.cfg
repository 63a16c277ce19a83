SPECIFICATION Spec
CONSTANTS
    Nodes = {n1}
    IPs = {ip1}
    NoIP = NoIP
    Absent = Absent
    LeaseDuration = 3
    HeartbeatTimeout = 1
    MaxTime = 5
    DiskFaults = FALSE
    Handlers = {h1}
    CheckInterval = 2
    MaxStale = 0
PROPERTIES
    BlockedNodeGetsNoKey
