SPECIFICATION Spec
CONSTANTS
  Samples = 1
  RotSamples <- MCRotSamples
  BaselineCount = 2
  HardMax = 3
  NoProgress = 2
  SettleCount = 2
  RotHold = 2
  AckTimeout = 4
  MaxCloses = 1
  MaxSlips = 0
CHECK_DEADLOCK FALSE
INVARIANT
  DangerRetreats
