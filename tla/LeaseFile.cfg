SPECIFICATION Spec
CONSTANTS
    NoLeases = NoLeases
    Maps = {NoLeases, m1, m2}
INVARIANTS
    TypeOK
    FileDecodes
PROPERTIES
    SavesAreAtomic
    RestartFromConfirmed
