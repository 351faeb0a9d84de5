SPECIFICATION Spec
CONSTANTS
  r1 = r1
  r2 = r2
  Readers <- MCOneReader
  None = None
  Sticks <- MCSticks
  Timeout = 1
  MaxPackets = 2
  MaxCommands = 1
  OperatorWaits = TRUE
CHECK_DEADLOCK FALSE
PROPERTIES
  AddedOnce
