SPECIFICATION Spec
CONSTANTS
  NoSignal = NoSignal
  Faults = {"capital"}
  Mints = {m1, m2}
  Whales = {w1}
  Epochs = {1}
  MaxPositions = 1
  BreakerThreshold = 2
  MaxSignals = 2
  MaxRestarts = 0
INVARIANT DedupeBlocksOnlyCommitted
CHECK_DEADLOCK FALSE
