SPECIFICATION AuthSpec
CONSTANTS
    Window = 3
    Drift = 6
    Word = 128
    UUIDs <- SomeUUIDs
    Addresses <- SomeAddresses
INVARIANTS
    DriftBounded
    SkewTolerated
    AcceptedIsRecent
