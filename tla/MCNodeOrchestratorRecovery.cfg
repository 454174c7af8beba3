SPECIFICATION FairSpec
CONSTANT ChaosNode = FALSE
PROPERTY CrashRecoveryAlwaysApplies
CHECK_DEADLOCK FALSE
