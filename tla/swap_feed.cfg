SPECIFICATION FairSpec
CONSTANTS
  Pools = {mine, other}
  Mine = mine
  Filtered = Filtered
  QueueCap = 1
  BroadcastCap = 1
  MailCap = 1
  MaxBatch = 2
  MaxSwaps = 4
  MaxEpoch = 2
INVARIANTS
  EpochMarksGaps
  FeedFaithful
PROPERTY ShutdownCompletes
CHECK_DEADLOCK FALSE
