SPECIFICATION FairSpec
CONSTANTS
  Cores <- MCCores
  ConnectTo <- MCConnectTo
  NotListening = {"core-7"}
  LaterGroup = {"core-1a", "core-1b"}
  GithubActions = TRUE
  MaxRestarts = 2
CHECK_DEADLOCK FALSE
INVARIANTS TypeOK ConvergedMeansConnected
PROPERTIES NoCoreRecreated ComesUp
