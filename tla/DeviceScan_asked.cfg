SPECIFICATION Spec
CONSTANTS
    Devices <- SomeDevices
    Known <- SomeKnown
    NoPort = 9
    Turns = 9
    MaxChanges = 3
    None = None
INVARIANT
    AskedDevice
