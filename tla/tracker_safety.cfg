SPECIFICATION FairSpec
CONSTANTS
  r1 = r1
  ack = ack
  Bundles = {1, 2, 3}
  Regions = {r1, ack}
  Clients = {r1}
  BundleRegions = {r1, ack}
  Results = {"accepted"}
  Faults = {"silent", "slow"}
INVARIANTS
  AnswerStands
  SubscriptionsJoined
PROPERTY PollingReturns
CHECK_DEADLOCK FALSE
