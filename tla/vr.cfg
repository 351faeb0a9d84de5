SPECIFICATION FairSpec
CONSTANTS
  r1 = r1
  r2 = r2
  Readers <- MCReaders
  None = None
  Sticks <- MCSticks
  Timeout = 1
  MaxPackets = 2
  MaxCommands = 3
  OperatorWaits = TRUE
CHECK_DEADLOCK FALSE
INVARIANTS
  GripReleased
  MotionBounded
PROPERTIES
  CoastsWhenSilent
  NewestApplied
  StopEndsTeleop
