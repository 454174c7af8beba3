SPECIFICATION Spec
CONSTANTS
  a = a
  b = b
  c = c
  Earners = {a, b}
  ChaosNodes = {c}
  Probe = a
  Faults = {"lag", "reply", "issue"}
  CarriedOver = TRUE
  MaxHeight = 3
  MaxTx = 2
  FundingPairs <- MCNoPairs
  Reissuable = {c}
  CoinbaseBlocks = 1
  Rounds = 1
INVARIANTS
  CreditedOnce
  CoinbasesAreKnown
CHECK_DEADLOCK FALSE
