SPECIFICATION FairDispatcherSpec
CONSTANTS
  r1 = r1
  r2 = r2
  r3 = r3
  k1 = k1
  k2 = k2
  Definitions <- ThreeRegions
  Keys = {k1, k2}
  AccountCounts = {0, 2}
  MaxTurns = 3
INVARIANTS
  TipsBalanced
  NothingLeftRunning
PROPERTIES
  FanOutReturns
  ImplementsSubmitOnce
CHECK_DEADLOCK FALSE
