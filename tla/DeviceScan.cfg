SPECIFICATION FairSpec
CONSTANTS
    Devices <- SomeDevices
    Known <- SomeKnown
    NoPort = 9
    Turns = 9
    MaxChanges = 3
    None = None
INVARIANTS
    TypeOK
    OpenedIsPicked
    FallbackIsLast
PROPERTY
    ScanEnds
