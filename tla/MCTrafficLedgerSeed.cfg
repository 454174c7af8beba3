SPECIFICATION Spec
CONSTANTS
  a = a
  c = c
  Earners = {a}
  ChaosNodes = {c}
  Probe = a
  Faults = {"chaos"}
  CarriedOver = TRUE
  MaxHeight = 3
  MaxTx = 1
  FundingPairs <- MCNoPairs
  Reissuable <- MCNothing
  CoinbaseBlocks = 1
  Rounds = 1
INVARIANT MismatchIsReal
CHECK_DEADLOCK FALSE
