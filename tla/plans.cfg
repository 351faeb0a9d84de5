SPECIFICATION MCSpec
CONSTANTS
  Table <- MCTable
  Misdivided <- MCMisdivided
  Tick = 2
  Window = 2
  Forces <- MCForces
  Gaps <- MCGaps
  CyclesPerSeg = 100
  Segments <- MCSegments
  ArmStep = 10
  GripStep = 30
  MinSteps = {1, 2}
  Poses <- MCPoses
  Inner = 5
  Outer = 10
  Snap = 3
  Accelerations <- MCAccelerations
  Limit = 2
  MaxSpeed = 3
  Origin <- MCBase
  Far = 20
  Plans <- MCGuides
  Pushes <- MCPushes
  StartPushes <- MCStartPushes
  Offsets <- MCOffsets
  Noise = 1
  FilterLength = 2
  Learning = 2
  Lag = 2
  Settled = 12
  MaxRuns = 2
INVARIANTS NoBlindPush ZeroedInTheAir OwnHits EndsOnTarget StopsAtTheFence
           MovesAsPushed RestsWhenReleased
PROPERTIES SettledLongEnough FullSample NoLeap
