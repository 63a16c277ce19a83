SPECIFICATION Spec
CONSTANTS
    Nodes = {n1, n2}
    IPs = {a1, a2}
    NoIP = NoIP
    Absent = Absent
    LeaseDuration = 2
    HeartbeatTimeout = 2
    MaxTime = 2
    DiskFaults = FALSE
    Window = 2
    Drift = 2
    Word = 65536
    CheckInterval = 2
    Skew = 0
SYMMETRY Symmetry
INVARIANTS
    SpeaksForItself
