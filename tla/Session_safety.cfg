CONSTANTS
  h1 = h1
  h2 = h2
  h3 = h3
  twin = twin
  single = single
  Hid = {h1, h2, h3}
  Uart = {u1}
  Bridge = {b1}
  VidPid <- MCVidPid
  None = None
SPECIFICATION Spec
INVARIANTS TypeOK AskedDevice
PROPERTY ResetByPath
