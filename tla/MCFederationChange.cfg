SPECIFICATION FairSpec
CONSTANTS
  SignersA <- MCSignersA
  SignersB <- MCSignersB
  Nodes = {"core-1a", "core-7"}
  Probe = "core-1a"
  ChaosNodes = {"core-7"}
  Mortal = {"signer-b-2"}
  Threshold = 2
  MaxHeight = 4
  Offset = 2
  StallPolls = 1
CHECK_DEADLOCK FALSE
INVARIANTS TypeOK VerdictSound
PROPERTIES TakesOverAsAnnounced ScriptsEnd NoGap
