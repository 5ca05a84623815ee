SPECIFICATION FairSpec
CONSTANTS
    Responses <- SomeResponses
    Packets <- SomePackets
    MaxChan = 2
INVARIANTS
    TypeOK
    ResponseHonest
PROPERTIES
    WaitEnds
    ImplementsChannel
CHECK_DEADLOCK FALSE
