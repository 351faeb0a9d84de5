SPECIFICATION FairSpec
CONSTANTS
  Pos <- MCPos
  Chunks <- MCChunks
  Targets <- MCTargets
  None = None
  Home = 0
  Stride = 1
  MaxDelta = 2
  MaxSkips = 1
  MaxSeq = 3
  MaxWaiting = 1
  OperatorWaits = TRUE
INVARIANTS
  ExecutingIsFront
  LostOnlyFirst
PROPERTIES
  NoJumpAtBegin
  FollowsNewestPlan
  NoFallback
  StopEndsPlan
  QueueDrains
