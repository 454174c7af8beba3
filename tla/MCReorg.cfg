SPECIFICATION Spec
CONSTANTS
  GroupA <- MCGroupA
  GroupB <- MCGroupB
  Links <- MCLinks
  DefaultHosts <- MCDefaultHosts
  GroupAHost = "core-1a"
  GroupBHost = "core-3a"
  Floor = 1
  ForkLength = 1
  MaxHeight = 5
CHECK_DEADLOCK FALSE
INVARIANTS TypeOK ForksApart ForksPartAtBaseline VerdictSound PausedWhileSplit LeftAsFound
