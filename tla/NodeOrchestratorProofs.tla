----------------------- MODULE NodeOrchestratorProofs -----------------------
(***************************************************************************)
(* Proofs about NodeOrchestrator, for a chaos node and for a signer's node *)
(* alike.                                                                  *)
(***************************************************************************)
EXTENDS NodeOrchestrator, TLAPS

(***************************************************************************)
(* The inductive invariant.  LockDiscipline says who may touch             *)
(* self._process; what it lacks is why the supervisor may relaunch once it *)
(* has the lock (SupervisorWaitsRightly), that the tasks only exist after  *)
(* the first launch (BootAlone), that a shutdown has a SIGTERM before it   *)
(* (SigtermFirst), and that os._exit() ends everything (DoneIsOver).       *)
(***************************************************************************)
SupervisorWaitsRightly == supervisor = "wantLock" => snapshot = "old" \/ proc \in Exited

BootAlone == main = "boot" => supervisor = "off" /\ shutdown = "none"

SigtermFirst == shutdown # "none" => sigterm

DoneIsOver == shutdown = "done" => container = "exited"

\* Who holds the lock, and what may happen before the first launch is over and
\* after os._exit().
Tasks == LockDiscipline /\ BootAlone /\ SigtermFirst /\ DoneIsOver

\* What the lock protects: self._process is replaced only once its predecessor
\* exited, and nobody replaces it during a downtime.
Slot == OneTapyrusd /\ DowntimeUndisturbed /\ SupervisorWaitsRightly

IInv == TypeOK /\ Tasks /\ Slot

-----------------------------------------------------------------------------
LEMMA InitIInv == Init => IInv
<1> SUFFICES ASSUME Init PROVE IInv
  OBVIOUS
<1>1. TypeOK
  BY DEF Init, TypeOK, ChaosActions, ActionPCs, Alive
<1>2. Tasks
  BY DEF Init, Tasks, LockDiscipline, MainHolds, SupervisorHolds, ShutdownHolds,
         BootAlone, SigtermFirst, DoneIsOver
<1>3. Slot
  BY DEF Init, Slot, OneTapyrusd, DowntimeUndisturbed, SupervisorWaitsRightly
<1> QED
  BY <1>1, <1>2, <1>3 DEF IInv

\* Every step keeps the variables in their types.
LEMMA StepTypeOK == TypeOK /\ [Next]_vars => TypeOK'
<1> SUFFICES ASSUME TypeOK, [Next]_vars PROVE TypeOK'
  OBVIOUS
<1> USE DEF TypeOK, ChaosActions, ActionPCs, RestartPCs, InvalidatePCs, Alive, Exited,
         vars, envVars, procVars, taskVars, cycle
<1>1. CASE UNCHANGED vars
  BY <1>1
<1>2. CASE Next
  <2> container = "up"
    BY <1>2 DEF Next, Up
  <2> USE DEF MainGoes, SupervisorGoes, ShutdownGoes
  <2>1. CASE TapyrusdReady
    BY <2>1 DEF TapyrusdReady
  <2>2. CASE TapyrusdCrashes
    BY <2>2 DEF TapyrusdCrashes
  <2>3. CASE TapyrusdStops
    BY <2>3 DEF TapyrusdStops
  <2>4. CASE TapyrusdExits
    BY <2>4 DEF TapyrusdExits
  <2>5. CASE HostTogglesPause
    BY <2>5 DEF HostTogglesPause
  <2>6. CASE Sigterm
    BY <2>6 DEF Sigterm
  <2>7. CASE DockerKills
    BY <2>7 DEF DockerKills
  <2>8. CASE BootReady
    BY <2>8 DEF BootReady
  <2>9. CASE BootFails
    BY <2>9 DEF BootFails
  <2>10. CASE GateOpen
    BY <2>10 DEF GateOpen, StartAction
  <2>11. CASE GateClosed
    BY <2>11 DEF GateClosed
  <2>12. CASE PollReleased
    BY <2>12 DEF PollReleased
  <2>13. CASE JitterOver
    BY <2>13 DEF JitterOver, StartAction
  <2>14. CASE SleepOver
    BY <2>14 DEF SleepOver
  <2>15. CASE RestartLocks
    BY <2>15 DEF RestartLocks
  <2>16. CASE RestartStopAnswered
    BY <2>16 DEF RestartStopAnswered
  <2>17. CASE RestartKills
    BY <2>17 DEF RestartKills
  <2>18. CASE RestartKillRaises
    BY <2>18 DEF RestartKillRaises, Release
  <2>19. CASE RestartExitTimesOut
    BY <2>19 DEF RestartExitTimesOut
  <2>20. CASE RestartExited
    BY <2>20 DEF RestartExited
  <2>21. CASE RestartLaunches
    BY <2>21 DEF RestartLaunches, Replace
  <2>22. CASE RestartReady
    BY <2>22 DEF RestartReady, Release
  <2>23. CASE RestartLaunchFails
    BY <2>23 DEF RestartLaunchFails, Release
  <2>24. CASE TipRead
    BY <2>24 DEF TipRead
  <2>25. CASE Invalidated
    BY <2>25 DEF Invalidated
  <2>26. CASE InvalidateSkipped
    BY <2>26 DEF InvalidateSkipped
  <2>27. CASE InvalidateWaitOver
    BY <2>27 DEF InvalidateWaitOver
  <2>28. CASE Reconsidered
    BY <2>28 DEF Reconsidered
  <2>29. CASE ReconsiderFails
    BY <2>29 DEF ReconsiderFails
  <2>30. CASE SupervisorSeesExit
    BY <2>30 DEF SupervisorSeesExit
  <2>31. CASE SupervisorSkips
    BY <2>31 DEF SupervisorSkips
  <2>32. CASE SupervisorRelaunches
    BY <2>32 DEF SupervisorRelaunches, Replace
  <2>33. CASE SupervisorReady
    BY <2>33 DEF SupervisorReady, Release
  <2>34. CASE SupervisorDies
    BY <2>34 DEF SupervisorDies, Release
  <2>35. CASE ShutdownLocks
    BY <2>35 DEF ShutdownLocks
  <2>36. CASE ShutdownFindsNone
    BY <2>36 DEF ShutdownFindsNone, ExitContainer
  <2>37. CASE ShutdownStopAnswered
    BY <2>37 DEF ShutdownStopAnswered
  <2>38. CASE ShutdownTerminates
    BY <2>38 DEF ShutdownTerminates
  <2>39. CASE ShutdownTerminateRaises
    BY <2>39 DEF ShutdownTerminateRaises, Release
  <2>40. CASE ShutdownExited
    BY <2>40 DEF ShutdownExited, ExitContainer
  <2>41. CASE ShutdownExitTimesOut
    BY <2>41 DEF ShutdownExitTimesOut, ExitContainer
  <2> QED
    BY <1>2, <2>1, <2>2, <2>3, <2>4, <2>5, <2>6, <2>7, <2>8, <2>9, <2>10, <2>11,
       <2>12, <2>13, <2>14, <2>15, <2>16, <2>17, <2>18, <2>19, <2>20, <2>21,
       <2>22, <2>23, <2>24, <2>25, <2>26, <2>27, <2>28, <2>29, <2>30, <2>31,
       <2>32, <2>33, <2>34, <2>35, <2>36, <2>37, <2>38, <2>39, <2>40, <2>41
       DEF Next, Up, Tapyrusd, Host, Main, Loop, Restart, InvalidateAndReconsider, Supervisor, Shutdown
<1> QED
  BY <1>1, <1>2

\* Every step keeps the lock with the task it belongs to.
LEMMA StepTasks == TypeOK /\ Tasks /\ [Next]_vars => Tasks'
<1> SUFFICES ASSUME TypeOK /\ Tasks, [Next]_vars PROVE Tasks'
  OBVIOUS
<1> USE DEF Tasks, LockDiscipline, BootAlone, SigtermFirst, DoneIsOver, MainHolds,
         SupervisorHolds, ShutdownHolds, vars, envVars, procVars, taskVars, cycle
<1>1. CASE UNCHANGED vars
  BY <1>1
<1>2. CASE Next
  <2> container = "up"
    BY <1>2 DEF Next, Up
  <2> USE DEF MainGoes, SupervisorGoes, ShutdownGoes
  <2>1. CASE TapyrusdReady
    BY <2>1 DEF TapyrusdReady
  <2>2. CASE TapyrusdCrashes
    BY <2>2 DEF TapyrusdCrashes
  <2>3. CASE TapyrusdStops
    BY <2>3 DEF TapyrusdStops
  <2>4. CASE TapyrusdExits
    BY <2>4 DEF TapyrusdExits
  <2>5. CASE HostTogglesPause
    BY <2>5 DEF HostTogglesPause
  <2>6. CASE Sigterm
    BY <2>6 DEF Sigterm
  <2>7. CASE DockerKills
    BY <2>7 DEF DockerKills
  <2>8. CASE BootReady
    BY <2>8 DEF BootReady
  <2>9. CASE BootFails
    BY <2>9 DEF BootFails
  <2>10. CASE GateOpen
    BY <2>10 DEF GateOpen, StartAction
  <2>11. CASE GateClosed
    BY <2>11 DEF GateClosed
  <2>12. CASE PollReleased
    BY <2>12 DEF PollReleased
  <2>13. CASE JitterOver
    BY <2>13 DEF JitterOver, StartAction
  <2>14. CASE SleepOver
    BY <2>14 DEF SleepOver
  <2>15. CASE RestartLocks
    BY <2>15 DEF RestartLocks
  <2>16. CASE RestartStopAnswered
    BY <2>16 DEF RestartStopAnswered
  <2>17. CASE RestartKills
    BY <2>17 DEF RestartKills
  <2>18. CASE RestartKillRaises
    BY <2>18 DEF RestartKillRaises, Release
  <2>19. CASE RestartExitTimesOut
    BY <2>19 DEF RestartExitTimesOut
  <2>20. CASE RestartExited
    BY <2>20 DEF RestartExited
  <2>21. CASE RestartLaunches
    BY <2>21 DEF RestartLaunches, Replace
  <2>22. CASE RestartReady
    BY <2>22 DEF RestartReady, Release
  <2>23. CASE RestartLaunchFails
    BY <2>23 DEF RestartLaunchFails, Release
  <2>24. CASE TipRead
    BY <2>24 DEF TipRead
  <2>25. CASE Invalidated
    BY <2>25 DEF Invalidated
  <2>26. CASE InvalidateSkipped
    BY <2>26 DEF InvalidateSkipped
  <2>27. CASE InvalidateWaitOver
    BY <2>27 DEF InvalidateWaitOver
  <2>28. CASE Reconsidered
    BY <2>28 DEF Reconsidered
  <2>29. CASE ReconsiderFails
    BY <2>29 DEF ReconsiderFails
  <2>30. CASE SupervisorSeesExit
    BY <2>30 DEF SupervisorSeesExit
  <2>31. CASE SupervisorSkips
    BY <2>31 DEF SupervisorSkips
  <2>32. CASE SupervisorRelaunches
    BY <2>32 DEF SupervisorRelaunches, Replace
  <2>33. CASE SupervisorReady
    BY <2>33 DEF SupervisorReady, Release
  <2>34. CASE SupervisorDies
    BY <2>34 DEF SupervisorDies, Release
  <2>35. CASE ShutdownLocks
    BY <2>35 DEF ShutdownLocks
  <2>36. CASE ShutdownFindsNone
    BY <2>36 DEF ShutdownFindsNone, ExitContainer
  <2>37. CASE ShutdownStopAnswered
    BY <2>37 DEF ShutdownStopAnswered
  <2>38. CASE ShutdownTerminates
    BY <2>38 DEF ShutdownTerminates
  <2>39. CASE ShutdownTerminateRaises
    BY <2>39 DEF ShutdownTerminateRaises, Release
  <2>40. CASE ShutdownExited
    BY <2>40 DEF ShutdownExited, ExitContainer
  <2>41. CASE ShutdownExitTimesOut
    BY <2>41 DEF ShutdownExitTimesOut, ExitContainer
  <2> QED
    BY <1>2, <2>1, <2>2, <2>3, <2>4, <2>5, <2>6, <2>7, <2>8, <2>9, <2>10, <2>11,
       <2>12, <2>13, <2>14, <2>15, <2>16, <2>17, <2>18, <2>19, <2>20, <2>21,
       <2>22, <2>23, <2>24, <2>25, <2>26, <2>27, <2>28, <2>29, <2>30, <2>31,
       <2>32, <2>33, <2>34, <2>35, <2>36, <2>37, <2>38, <2>39, <2>40, <2>41
       DEF Next, Up, Tapyrusd, Host, Main, Loop, Restart, InvalidateAndReconsider, Supervisor, Shutdown
<1> QED
  BY <1>1, <1>2

\* Every step replaces only an exited tapyrusd, and none during a downtime.
LEMMA StepSlot == TypeOK /\ Tasks /\ Slot /\ [Next]_vars => Slot'
<1> SUFFICES ASSUME TypeOK /\ Tasks /\ Slot, [Next]_vars PROVE Slot'
  OBVIOUS
<1> USE DEF Tasks, LockDiscipline, MainHolds, SupervisorHolds, ShutdownHolds, Slot,
         OneTapyrusd, DowntimeUndisturbed, SupervisorWaitsRightly, BootAlone, Alive, Exited,
         vars, envVars, procVars, taskVars, cycle
<1>1. CASE UNCHANGED vars
  BY <1>1
<1>2. CASE Next
  <2> container = "up"
    BY <1>2 DEF Next, Up
  <2> USE DEF MainGoes, SupervisorGoes, ShutdownGoes
  <2>1. CASE TapyrusdReady
    BY <2>1 DEF TapyrusdReady
  <2>2. CASE TapyrusdCrashes
    BY <2>2 DEF TapyrusdCrashes
  <2>3. CASE TapyrusdStops
    BY <2>3 DEF TapyrusdStops
  <2>4. CASE TapyrusdExits
    BY <2>4 DEF TapyrusdExits
  <2>5. CASE HostTogglesPause
    BY <2>5 DEF HostTogglesPause
  <2>6. CASE Sigterm
    BY <2>6 DEF Sigterm
  <2>7. CASE DockerKills
    BY <2>7 DEF DockerKills
  <2>8. CASE BootReady
    BY <2>8 DEF BootReady
  <2>9. CASE BootFails
    BY <2>9 DEF BootFails
  <2>10. CASE GateOpen
    BY <2>10 DEF GateOpen, StartAction
  <2>11. CASE GateClosed
    BY <2>11 DEF GateClosed
  <2>12. CASE PollReleased
    BY <2>12 DEF PollReleased
  <2>13. CASE JitterOver
    BY <2>13 DEF JitterOver, StartAction
  <2>14. CASE SleepOver
    BY <2>14 DEF SleepOver
  <2>15. CASE RestartLocks
    BY <2>15 DEF RestartLocks
  <2>16. CASE RestartStopAnswered
    BY <2>16 DEF RestartStopAnswered
  <2>17. CASE RestartKills
    BY <2>17 DEF RestartKills
  <2>18. CASE RestartKillRaises
    BY <2>18 DEF RestartKillRaises, Release
  <2>19. CASE RestartExitTimesOut
    BY <2>19 DEF RestartExitTimesOut
  <2>20. CASE RestartExited
    BY <2>20 DEF RestartExited
  <2>21. CASE RestartLaunches
    BY <2>21 DEF RestartLaunches, Replace
  <2>22. CASE RestartReady
    BY <2>22 DEF RestartReady, Release
  <2>23. CASE RestartLaunchFails
    BY <2>23 DEF RestartLaunchFails, Release
  <2>24. CASE TipRead
    BY <2>24 DEF TipRead
  <2>25. CASE Invalidated
    BY <2>25 DEF Invalidated
  <2>26. CASE InvalidateSkipped
    BY <2>26 DEF InvalidateSkipped
  <2>27. CASE InvalidateWaitOver
    BY <2>27 DEF InvalidateWaitOver
  <2>28. CASE Reconsidered
    BY <2>28 DEF Reconsidered
  <2>29. CASE ReconsiderFails
    BY <2>29 DEF ReconsiderFails
  <2>30. CASE SupervisorSeesExit
    BY <2>30 DEF SupervisorSeesExit
  <2>31. CASE SupervisorSkips
    BY <2>31 DEF SupervisorSkips
  <2>32. CASE SupervisorRelaunches
    BY <2>32 DEF SupervisorRelaunches, Replace
  <2>33. CASE SupervisorReady
    BY <2>33 DEF SupervisorReady, Release
  <2>34. CASE SupervisorDies
    BY <2>34 DEF SupervisorDies, Release
  <2>35. CASE ShutdownLocks
    BY <2>35 DEF ShutdownLocks
  <2>36. CASE ShutdownFindsNone
    BY <2>36 DEF ShutdownFindsNone, ExitContainer
  <2>37. CASE ShutdownStopAnswered
    BY <2>37 DEF ShutdownStopAnswered
  <2>38. CASE ShutdownTerminates
    BY <2>38 DEF ShutdownTerminates
  <2>39. CASE ShutdownTerminateRaises
    BY <2>39 DEF ShutdownTerminateRaises, Release
  <2>40. CASE ShutdownExited
    BY <2>40 DEF ShutdownExited, ExitContainer
  <2>41. CASE ShutdownExitTimesOut
    BY <2>41 DEF ShutdownExitTimesOut, ExitContainer
  <2> QED
    BY <1>2, <2>1, <2>2, <2>3, <2>4, <2>5, <2>6, <2>7, <2>8, <2>9, <2>10, <2>11,
       <2>12, <2>13, <2>14, <2>15, <2>16, <2>17, <2>18, <2>19, <2>20, <2>21,
       <2>22, <2>23, <2>24, <2>25, <2>26, <2>27, <2>28, <2>29, <2>30, <2>31,
       <2>32, <2>33, <2>34, <2>35, <2>36, <2>37, <2>38, <2>39, <2>40, <2>41
       DEF Next, Up, Tapyrusd, Host, Main, Loop, Restart, InvalidateAndReconsider, Supervisor, Shutdown
<1> QED
  BY <1>1, <1>2

\* IInv is inductive, and so holds in every reachable state.
THEOREM Invariance == Spec => []IInv
<1>1. IInv /\ [Next]_vars => IInv'
  BY StepTypeOK, StepTasks, StepSlot DEF IInv
<1> QED
  BY InitIInv, <1>1, PTL DEF Spec

-----------------------------------------------------------------------------
\* The variables keep their types.
THEOREM TypeCorrect == Spec => []TypeOK
<1>1. IInv => TypeOK
  BY DEF IInv
<1> QED
  BY Invariance, <1>1, PTL

\* self._process is never replaced while the process it refers to is alive:
\* a container never runs two tapyrusd.
THEOREM NeverTwoTapyrusd == Spec => []OneTapyrusd
<1>1. IInv => OneTapyrusd
  BY DEF IInv, Slot
<1> QED
  BY Invariance, <1>1, PTL

\* A node a deliberate restart keeps down stays down until that restart
\* relaunches it, however often its supervisor looks at the exited process.
THEOREM DowntimeIsRespected == Spec => []DowntimeUndisturbed
<1>1. IInv => DowntimeUndisturbed
  BY DEF IInv, Slot
<1> QED
  BY Invariance, <1>1, PTL

\* self._lock is held by exactly the task that is inside its `async with`.
THEOREM LockIsExclusive == Spec => []LockDiscipline
<1>1. IInv => LockDiscipline
  BY DEF IInv, Tasks
<1> QED
  BY Invariance, <1>1, PTL

-----------------------------------------------------------------------------
\* A step that brings tapyrusd back is not taken while the shutdown holds the
\* lock.
LEMMA StepShutdownNotUndone == Tasks /\ [Next]_vars => (ShutdownHolds => ~(proc \in Exited /\ proc' \notin Exited))
<1> SUFFICES ASSUME Tasks, [Next]_vars PROVE (ShutdownHolds => ~(proc \in Exited /\ proc' \notin Exited))
  OBVIOUS
<1> USE DEF Tasks, LockDiscipline, MainHolds, SupervisorHolds, ShutdownHolds, Alive, Exited,
         vars, envVars, procVars, taskVars, cycle
<1>1. CASE UNCHANGED vars
  BY <1>1
<1>2. CASE Next
  <2> container = "up"
    BY <1>2 DEF Next, Up
  <2> USE DEF MainGoes, SupervisorGoes, ShutdownGoes
  <2>1. CASE TapyrusdReady
    BY <2>1 DEF TapyrusdReady
  <2>2. CASE TapyrusdCrashes
    BY <2>2 DEF TapyrusdCrashes
  <2>3. CASE TapyrusdStops
    BY <2>3 DEF TapyrusdStops
  <2>4. CASE TapyrusdExits
    BY <2>4 DEF TapyrusdExits
  <2>5. CASE HostTogglesPause
    BY <2>5 DEF HostTogglesPause
  <2>6. CASE Sigterm
    BY <2>6 DEF Sigterm
  <2>7. CASE DockerKills
    BY <2>7 DEF DockerKills
  <2>8. CASE BootReady
    BY <2>8 DEF BootReady
  <2>9. CASE BootFails
    BY <2>9 DEF BootFails
  <2>10. CASE GateOpen
    BY <2>10 DEF GateOpen, StartAction
  <2>11. CASE GateClosed
    BY <2>11 DEF GateClosed
  <2>12. CASE PollReleased
    BY <2>12 DEF PollReleased
  <2>13. CASE JitterOver
    BY <2>13 DEF JitterOver, StartAction
  <2>14. CASE SleepOver
    BY <2>14 DEF SleepOver
  <2>15. CASE RestartLocks
    BY <2>15 DEF RestartLocks
  <2>16. CASE RestartStopAnswered
    BY <2>16 DEF RestartStopAnswered
  <2>17. CASE RestartKills
    BY <2>17 DEF RestartKills
  <2>18. CASE RestartKillRaises
    BY <2>18 DEF RestartKillRaises, Release
  <2>19. CASE RestartExitTimesOut
    BY <2>19 DEF RestartExitTimesOut
  <2>20. CASE RestartExited
    BY <2>20 DEF RestartExited
  <2>21. CASE RestartLaunches
    BY <2>21 DEF RestartLaunches, Replace
  <2>22. CASE RestartReady
    BY <2>22 DEF RestartReady, Release
  <2>23. CASE RestartLaunchFails
    BY <2>23 DEF RestartLaunchFails, Release
  <2>24. CASE TipRead
    BY <2>24 DEF TipRead
  <2>25. CASE Invalidated
    BY <2>25 DEF Invalidated
  <2>26. CASE InvalidateSkipped
    BY <2>26 DEF InvalidateSkipped
  <2>27. CASE InvalidateWaitOver
    BY <2>27 DEF InvalidateWaitOver
  <2>28. CASE Reconsidered
    BY <2>28 DEF Reconsidered
  <2>29. CASE ReconsiderFails
    BY <2>29 DEF ReconsiderFails
  <2>30. CASE SupervisorSeesExit
    BY <2>30 DEF SupervisorSeesExit
  <2>31. CASE SupervisorSkips
    BY <2>31 DEF SupervisorSkips
  <2>32. CASE SupervisorRelaunches
    BY <2>32 DEF SupervisorRelaunches, Replace
  <2>33. CASE SupervisorReady
    BY <2>33 DEF SupervisorReady, Release
  <2>34. CASE SupervisorDies
    BY <2>34 DEF SupervisorDies, Release
  <2>35. CASE ShutdownLocks
    BY <2>35 DEF ShutdownLocks
  <2>36. CASE ShutdownFindsNone
    BY <2>36 DEF ShutdownFindsNone, ExitContainer
  <2>37. CASE ShutdownStopAnswered
    BY <2>37 DEF ShutdownStopAnswered
  <2>38. CASE ShutdownTerminates
    BY <2>38 DEF ShutdownTerminates
  <2>39. CASE ShutdownTerminateRaises
    BY <2>39 DEF ShutdownTerminateRaises, Release
  <2>40. CASE ShutdownExited
    BY <2>40 DEF ShutdownExited, ExitContainer
  <2>41. CASE ShutdownExitTimesOut
    BY <2>41 DEF ShutdownExitTimesOut, ExitContainer
  <2> QED
    BY <1>2, <2>1, <2>2, <2>3, <2>4, <2>5, <2>6, <2>7, <2>8, <2>9, <2>10, <2>11,
       <2>12, <2>13, <2>14, <2>15, <2>16, <2>17, <2>18, <2>19, <2>20, <2>21,
       <2>22, <2>23, <2>24, <2>25, <2>26, <2>27, <2>28, <2>29, <2>30, <2>31,
       <2>32, <2>33, <2>34, <2>35, <2>36, <2>37, <2>38, <2>39, <2>40, <2>41
       DEF Next, Up, Tapyrusd, Host, Main, Loop, Restart, InvalidateAndReconsider, Supervisor, Shutdown
<1> QED
  BY <1>1, <1>2

\* No step starts a new tapyrusd while _shutdown() is stopping the old one.
THEOREM ShutdownStands == Spec => ShutdownNotUndone
<1>1. IInv /\ [Next]_vars
        => [ShutdownHolds => ~(proc \in Exited /\ proc' \notin Exited)]_vars
  BY StepShutdownNotUndone DEF IInv
<1> QED
  BY Invariance, <1>1, PTL DEF Spec, ShutdownNotUndone

-----------------------------------------------------------------------------
\* Every step is a step of the chaos loop as the host sees it, or none.
LEMMA StepGate == [Next]_vars => [Gate!Next]_(Gate!vars)
<1> SUFFICES ASSUME [Next]_vars PROVE [Gate!Next]_(Gate!vars)
  OBVIOUS
<1> USE DEF gatePhase, ActionPCs, RestartPCs, InvalidatePCs, Gate!Next, Gate!vars,
         Gate!HostToggles, Gate!Queue, Gate!Release, Gate!Start, Gate!Finish,
         vars, envVars, procVars, taskVars, cycle
<1>1. CASE UNCHANGED vars
  BY <1>1
<1>2. CASE Next
  <2> container = "up"
    BY <1>2 DEF Next, Up
  <2> USE DEF MainGoes, SupervisorGoes, ShutdownGoes
  <2>1. CASE TapyrusdReady
    BY <2>1 DEF TapyrusdReady
  <2>2. CASE TapyrusdCrashes
    BY <2>2 DEF TapyrusdCrashes
  <2>3. CASE TapyrusdStops
    BY <2>3 DEF TapyrusdStops
  <2>4. CASE TapyrusdExits
    BY <2>4 DEF TapyrusdExits
  <2>5. CASE HostTogglesPause
    BY <2>5 DEF HostTogglesPause
  <2>6. CASE Sigterm
    BY <2>6 DEF Sigterm
  <2>7. CASE DockerKills
    BY <2>7 DEF DockerKills
  <2>8. CASE BootReady
    BY <2>8 DEF BootReady
  <2>9. CASE BootFails
    BY <2>9 DEF BootFails
  <2>10. CASE GateOpen
    BY <2>10 DEF GateOpen, StartAction
  <2>11. CASE GateClosed
    BY <2>11 DEF GateClosed
  <2>12. CASE PollReleased
    BY <2>12 DEF PollReleased
  <2>13. CASE JitterOver
    BY <2>13 DEF JitterOver, StartAction
  <2>14. CASE SleepOver
    BY <2>14 DEF SleepOver
  <2>15. CASE RestartLocks
    BY <2>15 DEF RestartLocks
  <2>16. CASE RestartStopAnswered
    BY <2>16 DEF RestartStopAnswered
  <2>17. CASE RestartKills
    BY <2>17 DEF RestartKills
  <2>18. CASE RestartKillRaises
    BY <2>18 DEF RestartKillRaises, Release
  <2>19. CASE RestartExitTimesOut
    BY <2>19 DEF RestartExitTimesOut
  <2>20. CASE RestartExited
    BY <2>20 DEF RestartExited
  <2>21. CASE RestartLaunches
    BY <2>21 DEF RestartLaunches, Replace
  <2>22. CASE RestartReady
    BY <2>22 DEF RestartReady, Release
  <2>23. CASE RestartLaunchFails
    BY <2>23 DEF RestartLaunchFails, Release
  <2>24. CASE TipRead
    BY <2>24 DEF TipRead
  <2>25. CASE Invalidated
    BY <2>25 DEF Invalidated
  <2>26. CASE InvalidateSkipped
    BY <2>26 DEF InvalidateSkipped
  <2>27. CASE InvalidateWaitOver
    BY <2>27 DEF InvalidateWaitOver
  <2>28. CASE Reconsidered
    BY <2>28 DEF Reconsidered
  <2>29. CASE ReconsiderFails
    BY <2>29 DEF ReconsiderFails
  <2>30. CASE SupervisorSeesExit
    BY <2>30 DEF SupervisorSeesExit
  <2>31. CASE SupervisorSkips
    BY <2>31 DEF SupervisorSkips
  <2>32. CASE SupervisorRelaunches
    BY <2>32 DEF SupervisorRelaunches, Replace
  <2>33. CASE SupervisorReady
    BY <2>33 DEF SupervisorReady, Release
  <2>34. CASE SupervisorDies
    BY <2>34 DEF SupervisorDies, Release
  <2>35. CASE ShutdownLocks
    BY <2>35 DEF ShutdownLocks
  <2>36. CASE ShutdownFindsNone
    BY <2>36 DEF ShutdownFindsNone, ExitContainer
  <2>37. CASE ShutdownStopAnswered
    BY <2>37 DEF ShutdownStopAnswered
  <2>38. CASE ShutdownTerminates
    BY <2>38 DEF ShutdownTerminates
  <2>39. CASE ShutdownTerminateRaises
    BY <2>39 DEF ShutdownTerminateRaises, Release
  <2>40. CASE ShutdownExited
    BY <2>40 DEF ShutdownExited, ExitContainer
  <2>41. CASE ShutdownExitTimesOut
    BY <2>41 DEF ShutdownExitTimesOut, ExitContainer
  <2> QED
    BY <1>2, <2>1, <2>2, <2>3, <2>4, <2>5, <2>6, <2>7, <2>8, <2>9, <2>10, <2>11,
       <2>12, <2>13, <2>14, <2>15, <2>16, <2>17, <2>18, <2>19, <2>20, <2>21,
       <2>22, <2>23, <2>24, <2>25, <2>26, <2>27, <2>28, <2>29, <2>30, <2>31,
       <2>32, <2>33, <2>34, <2>35, <2>36, <2>37, <2>38, <2>39, <2>40, <2>41
       DEF Next, Up, Tapyrusd, Host, Main, Loop, Restart, InvalidateAndReconsider, Supervisor, Shutdown
<1> QED
  BY <1>1, <1>2

\* The orchestrator implements PauseGate: an action begins only after a look at
\* the pause file that did not find it, or after the jitter of a loop that was
\* queued and saw the file gone.
THEOREM ImplementsPauseGate == Spec => GateSpec
<1>1. Init => Gate!Init
  BY DEF Init, Gate!Init, gatePhase, ActionPCs, RestartPCs, InvalidatePCs
<1> QED
  BY <1>1, StepGate, PTL DEF Spec, GateSpec, Gate!Spec
=============================================================================
