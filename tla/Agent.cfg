SPECIFICATION FairSpec
CONSTANTS
    Interval = 2
    RequestTimeout = 1
    MaxBackoff = 5
    OverflowAt = 5
    MaxSilence = 40
INVARIANTS
    TypeOK
    SilenceBounded
PROPERTIES
    HeardAgain
