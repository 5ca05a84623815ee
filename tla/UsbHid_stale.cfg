SPECIFICATION Spec
CONSTANTS
    MaxCalls = 3
    ReadLen = 3
    WriteLen = 3
    PacketSize = 2
CHECK_DEADLOCK FALSE
INVARIANT SpecifiedProperty
