SPECIFICATION Spec
CONSTANTS
  Bytes <- MCBytes
  MaxBytes = 3
  BurstBits = 8
INVARIANTS CrcIsRemainder AgreesWithDevice BurstsDetected
CHECK_DEADLOCK FALSE
