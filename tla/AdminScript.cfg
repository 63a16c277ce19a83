SPECIFICATION Spec
CONSTANTS
    Nodes = {n1, n2}
    IPs = {a1}
    NoIP = NoIP
    Absent = Absent
    LeaseDuration = 1
    HeartbeatTimeout = 0
    MaxTime = 2
    DiskFaults = TRUE
    Hosts = {h1, h2}
    NoName = NoName
    MaxFaults = 1
SYMMETRY Symmetry
INVARIANTS
    TypeOK
    ActsOnABearer
    DoneHolds
    UniqueUnsealIP
    GaugesCountEveryLease

    
