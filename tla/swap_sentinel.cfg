SPECIFICATION Spec
CONSTANTS
  RaydiumV4 = "raydium"
  SplToken = "spl"
  Wsol = "wsol"
  NoKey = "11111111"
  OpenBook = "openbook"
  Owner = "owner"
  Sentinel = "sentinel"
  Ata <- MCAta
  MaxTelemetryAge = 1
  MaxProfitShareBps = 2500
  MinimumNetProfit = 4
  Signals <- MCSignals
  Chain <- MCChain
  Lists <- MCLists
  Records <- MCRecords
  Quotes <- MCQuotes
  SourceAccounts <- MCSourceAccounts
  TargetAccounts <- MCTargetAccounts
  Floors <- MCFloors
  Traffic <- MCTraffic
  MaxSlippage = 300
  MaxSignalAge = 1
  MaxNow = 3
INVARIANT SentinelIgnored
CHECK_DEADLOCK FALSE
