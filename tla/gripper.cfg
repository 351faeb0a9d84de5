SPECIFICATION MCSpec
CONSTANTS
  Opening = 5
  Step = 2
  ServoStep = 1
  Eps = 3
  IdleReads = 2
  MaxFaults = 1
  MaxRequests = 4
  MaxTimeouts = 2
  Resolution = 25
  Turns <- MCTurns
  Probes <- MCProbes
INVARIANTS
  StaleByFailures
  LateRepliesOnly
  OnTheCurve
  HoldsStill
PROPERTIES
  PushedWay
  ActualCatchesUp
  ClosesFully
