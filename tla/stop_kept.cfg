SPECIFICATION Spec
CONSTANTS
  r1 = r1
  r2 = r2
  Readers <- MCOneReader
  None = None
  Sticks <- MCSticks
  Timeout = 1
  MaxPackets = 1
  MaxCommands = 2
  OperatorWaits = TRUE
CHECK_DEADLOCK FALSE
INVARIANTS
  EndsOnlyWhenAsked
