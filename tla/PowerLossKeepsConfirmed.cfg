SPECIFICATION PowerSpec
CONSTANTS
    NoLeases = NoLeases
    Maps = {NoLeases, m1}
PROPERTIES
    RestartFromConfirmed
