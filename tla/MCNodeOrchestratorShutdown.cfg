SPECIFICATION FairSpec
CONSTANT ChaosNode = FALSE
PROPERTY ShutdownEnds
CHECK_DEADLOCK FALSE
