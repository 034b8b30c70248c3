SPECIFICATION FairSpec
CONSTANTS
  NoSignal = NoSignal
  Faults = {"stale", "capital", "journal", "ambiguous", "confirm", "sell", "feed", "crash"}
  Mints = {m1, m2, m3}
  Whales = {w1}
  Epochs = {1}
  MaxPositions = 2
  BreakerThreshold = 2
  MaxSignals = 3
  MaxRestarts = 1
INVARIANTS
  NoDuplicateBuy
  PermitsConserved
  EarlyExitReleasesMint
  HeldWithinCap
  NothingUnwatched
PROPERTIES
  ImplementsBuyOnce
  ConsumerReturns
  TasksEnd
CHECK_DEADLOCK FALSE
