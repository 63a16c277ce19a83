SPECIFICATION Spec
CONSTANTS
    Nodes = {n1}
    IPs = {a1}
    NoIP = NoIP
    Absent = Absent
    LeaseDuration = 2
    HeartbeatTimeout = 1
    MaxTime = 8
    DiskFaults = FALSE
    Window = 2
    Drift = 1
    Word = 65536
    CheckInterval = 2
    Skew = 1
INVARIANTS
    TypeOK
    StoppedNodeIsBlocked
PROPERTIES
    KeyOnlySoonAfterStop
