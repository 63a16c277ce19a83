SPECIFICATION FairSpec
CONSTANTS
    MaxDuration = 2
CHECK_DEADLOCK FALSE
INVARIANTS
    TypeOK
    NoPartDiesAlone
    KeysAreGuarded
PROPERTIES
    StopsWhenTold
    GuardedOrGone
