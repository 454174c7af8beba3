SPECIFICATION FairSpec
CONSTANT ChaosNode = TRUE
INVARIANTS TypeOK OneTapyrusd DowntimeUndisturbed LockDiscipline
PROPERTIES ShutdownNotUndone GateSpec ExitIsHandled LockIsReleased PauseQuiets CycleCoversAll
CHECK_DEADLOCK FALSE
