SPECIFICATION FairSpec
CONSTANTS
  Prices <- MCPrices
  Trails <- MCTrails
  Entry = 100
  Acquired = 4
  MaxStale = 2
  MaxAttempts = 5
  MaxTicks = 3
  NoSale = NoSale
INVARIANTS
  ClosedMeansSold
  RetrySellsOnce
PROPERTY WatcherEnds
CHECK_DEADLOCK FALSE
