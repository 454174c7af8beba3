SPECIFICATION Spec
CONSTANTS
  Cores <- MCCores
  ConnectTo <- MCConnectTo
  NotListening = {"core-7"}
  LaterGroup = {"core-1a", "core-1b"}
  GithubActions = FALSE
  MaxRestarts = 2
CHECK_DEADLOCK FALSE
PROPERTY NoCoreRecreated
