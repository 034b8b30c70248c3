SPECIFICATION FairSpec
CONSTANTS
  alice = alice
  bob = bob
  token = token
  Wallets = {alice, bob}
  Payloads <- MCPayloads
  Files <- MCFiles
  Wsol = Wsol
  NoMint = NoMint
  Unreadable = Unreadable
  ChannelCap = 1
  Requests = {1, 2}
INVARIANTS
  TradesAccounted
  ListIsFile
  LiveNeedsBothFlags
PROPERTY EditsPickedUp
CHECK_DEADLOCK FALSE
