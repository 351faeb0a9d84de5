SPECIFICATION FairBridgeSpec
CONSTANTS
  Pos <- MCPos
  Chunks <- MCOneChunk
  Targets <- MCNoTargets
  None = None
  Home = 0
  Stride = 2
  MaxDelta = 2
  MaxSkips = 1
  MaxSeq = 3
  MaxWaiting = 1
  OperatorWaits = TRUE
  MaxConn = 2
  Period = 2
  Settle = 3
  MaxSent = 2
  MaxFaults = 1
INVARIANTS
  AnswerMatches
  FreshObservation
  IdleMeansDone
PROPERTIES
  RoundCompletes
