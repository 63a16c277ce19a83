SPECIFICATION Spec
CONSTANTS
    Nodes = {n1}
    IPs = {ip1}
    NoIP = NoIP
    Absent = Absent
    LeaseDuration = 1
    HeartbeatTimeout = 1
    MaxTime = 5
    DiskFaults = TRUE
    Handlers = {h1}
    CheckInterval = 2
    MaxStale = 1
INVARIANTS
    AckedRefreshIsDurable
PROPERTIES
    KeyNeedsLease
    MaintenanceShields
