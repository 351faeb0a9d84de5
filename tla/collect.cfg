SPECIFICATION FairSpec
CONSTANTS
  Samples = 3
  RotSamples <- MCRotSamples
  BaselineCount = 2
  HardMax = 3
  NoProgress = 2
  SettleCount = 2
  RotHold = 2
  AckTimeout = 4
  MaxCloses = 1
  MaxSlips = 1
CHECK_DEADLOCK FALSE
INVARIANTS
  GoodRowsHaveFrames
PROPERTIES
  OneRowPerSample
  NextFromBaseline
  StabilizedOrSoft
  Ends
