SPECIFICATION FairSpec
CONSTANTS
  Pos <- MCPos
  Chunks <- MCChunks
  Targets <- MCNoTargets
  None = None
  Home = 0
  Stride = 1
  MaxDelta = 2
  MaxSkips = 1
  MaxSeq = 2
  MaxWaiting = 1
  OperatorWaits = FALSE
PROPERTIES
  StopEndsPlan
