SPECIFICATION FairSpec
CONSTANTS
    MaxCalls = 6
    ReadLen = 3
    WriteLen = 3
    PacketSize = 2
INVARIANTS
    TypeOK
    AtMostOnce
    OwnResponse
    ReadExact
    WriteComplete
    HonestStatus
    NoSpuriousError
PROPERTIES
    CallEnds
    ImplementsPromise
CHECK_DEADLOCK FALSE
