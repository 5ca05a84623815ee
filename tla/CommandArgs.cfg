SPECIFICATION Spec
CONSTANTS
    Words <- SomeWords
    Numbers <- SomeNumbers
    MemoryIds = {"8"}
    Peripherals <- SomePeripherals
    Speeds = {"5000"}
    Origins <- SomeOrigins
    Arity <- SomeArity
    MaxCommands = 2
INVARIANTS
    AsGiven
    AllGiven
CHECK_DEADLOCK FALSE
