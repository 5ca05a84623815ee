SPECIFICATION FairSpec
CONSTANTS
    MaxCalls = 3
    ReadLen = 3
    WriteLen = 3
    PacketSize = 2
INVARIANTS
    TypeOK
    OwnResponse
    ReadExact
    WriteComplete
    HonestStatus
PROPERTIES
    CallEnds
    ImplementsPromise
CHECK_DEADLOCK FALSE
