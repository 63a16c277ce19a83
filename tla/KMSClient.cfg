SPECIFICATION FairSpec
CONSTANTS
    MaxInterval = 3
    MaxTimeout = 3
    MaxMissed = 6
CHECK_DEADLOCK FALSE
INVARIANTS
    TypeOK
    GapBounded
    EndsWhenDenied
    SurvivesFailures
PROPERTIES
    ClientHeardAgain
