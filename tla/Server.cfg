SPECIFICATION Spec
CONSTANTS
    Nodes = {n1}
    IPs = {ip1}
    NoIP = NoIP
    Absent = Absent
    LeaseDuration = 2
    HeartbeatTimeout = 1
    MaxTime = 7
    DiskFaults = FALSE
    Handlers = {h1, h2}
    CheckInterval = 2
    MaxStale = 1
SYMMETRY Symmetry
INVARIANTS
    TypeOK
    LeaseFollowsHeartbeat
    BlockIsDated
    NoLateBlock
PROPERTIES
    KeyNeedsLease
    KeySoonAfterBlock
    NoEarlyBlock
