SPECIFICATION Spec
CONSTANTS
  NoLine = NoLine
  Executors = {e1}
  Mints = {m1, m2, m3}
  Amounts = {1, 2}
  MaxPendingCapital = 4
  MaxJournalLines = 5
  MaxIncidents = 3
  Faults = {"write", "sync", "lock", "kill", "power"}
SYMMETRY MintSymmetry
INVARIANTS
  ReplayCoversSends
  AtMostOneSend
  CapitalBounded
  RefusalsExplained
  
PROPERTY ImplementsBuyOnce
CHECK_DEADLOCK FALSE
