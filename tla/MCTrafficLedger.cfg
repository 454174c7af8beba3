SPECIFICATION Spec
CONSTANTS
  a = a
  c = c
  Earners = {a}
  ChaosNodes = {c}
  Probe = a
  Faults = {"chaos"}
  CarriedOver = FALSE
  MaxHeight = 3
  MaxTx = 2
  FundingPairs <- MCNoPairs
  Reissuable = {c}
  CoinbaseBlocks = 1
  Rounds = 1
INVARIANTS
  TypeOK
  OnlyConfirmed
  CreditedToHeight
  EarnersAlarmIsOfAbandoned
  PassedMeansTraffic
CHECK_DEADLOCK FALSE
