-------------------------- MODULE NodeOrchestrator --------------------------
(***************************************************************************)
(* One core-* container under scripts/container/node_orchestrator.py: the  *)
(* tapyrusd child process and the three asyncio tasks that stop, replace   *)
(* and supervise it through self._process and self._lock.                  *)
(*                                                                         *)
(*   main        run() and, on a chaos node, _action_loop() with the       *)
(*               action it is in                                           *)
(*   supervisor  _supervise_crashes()                                      *)
(*   shutdown    _shutdown(), created by the SIGTERM handler               *)
(*                                                                         *)
(* Every await is a point where the other tasks, tapyrusd and the host run *)
(* and is the end of an action of this module.  Durations are abstracted:  *)
(* a sleep, a poll or a time-out ends at an arbitrary later moment.        *)
(***************************************************************************)
EXTENDS Naturals

CONSTANT ChaosNode  \* TRUE iff the node's name is in CHAOS_NODES

ASSUME ChaosNodeAssumption == ChaosNode \in BOOLEAN

VARIABLES
  container,   \* "up" until the orchestrator's process ends
  sigterm,     \* SIGTERM was delivered (docker stop)
  pauseFile,   \* PAUSE_FILE exists
  lock,        \* the task that holds self._lock, or "none"
  proc,        \* the tapyrusd self._process refers to
  strays,      \* tapyrusd processes still alive that self._process dropped
  main,        \* where run() / _action_loop() is
  action,      \* the chaos action started last
  todo,        \* what is left of the current shuffled cycle
  supervisor,  \* where _supervise_crashes() is
  snapshot,    \* its `process`: "current" while that is self._process, else "old"
  shutdown,    \* where _shutdown() is
  tip          \* the node's tip: "best", or "invalidated" by invalidateblock

procVars == <<proc, strays, snapshot>>
cycle    == <<action, todo>>
taskVars == <<main, supervisor, shutdown>>
envVars  == <<container, sigterm, pauseFile>>
vars == <<envVars, lock, procVars, taskVars, cycle, tip>>

-----------------------------------------------------------------------------
(* Values.                                                                 *)

\* A tapyrusd is alive until it exits.  "starting" does not answer RPC yet,
\* "stopping" was asked to stop, "killed" was sent SIGKILL; "stopped" and
\* "crashed" are the two ways `returncode` came to be set: after such a
\* request, or without one.
Exited == {"stopped", "crashed"}
Alive == {"starting", "ready", "stopping", "killed"}

ChaosActions == {"plain_restart", "flavored_restart", "invalidate_and_reconsider"}

\* The main task inside each of the two kinds of action.
RestartPCs == {"wantLock", "stopRpc", "awaitExit", "downtime", "launching"}
InvalidatePCs == {"tipRpc", "invalidateRpc", "invalidateWait", "reconsiderRpc"}
ActionPCs == RestartPCs \cup InvalidatePCs

TypeOK ==
  /\ container \in {"up", "exited"}
  /\ sigterm \in BOOLEAN
  /\ pauseFile \in BOOLEAN
  /\ lock \in {"none", "main", "supervisor", "shutdown"}
  /\ proc \in Alive \cup Exited
  /\ strays \in Nat
  /\ main \in {"boot", "forever", "grace", "gate", "polling", "jitter", "sleep"}
              \cup ActionPCs
  /\ action \in ChaosActions \cup {"none"}
  /\ todo \in SUBSET ChaosActions
  /\ supervisor \in {"off", "watch", "wantLock", "launching", "dead"}
  /\ snapshot \in {"current", "old"}
  /\ shutdown \in {"none", "wantLock", "stopRpc", "awaitExit", "done", "dead"}
  /\ tip \in {"best", "invalidated"}

-----------------------------------------------------------------------------
(* run() has called _launch() for the first time.                          *)
Init ==
  /\ container = "up"
  /\ sigterm = FALSE
  /\ pauseFile \in BOOLEAN
  /\ lock = "none"
  /\ proc = "starting"
  /\ strays = 0
  /\ main = "boot"
  /\ action = "none"
  /\ todo = ChaosActions
  /\ supervisor = "off"
  /\ snapshot = "current"
  /\ shutdown = "none"
  /\ tip = "best"

\* Mutant: self._process is cleared for a relaunch and not set again.
Replace_Cleared ==
  /\ proc' = "none"
  /\ strays' = strays
  /\ snapshot' = "old"

\* _launch() up to the await in _wait_for_rpc_ready(): a new subprocess
\* becomes self._process, so a snapshot taken before is of another one.
Replace ==
  /\ proc' = "starting"
  /\ strays' = IF proc \in Exited THEN strays ELSE strays + 1
  /\ snapshot' = "old"

Release == lock' = "none"

\* One task goes on while the other two stay where they are.
MainGoes(from, to) ==
  /\ main = from
  /\ main' = to
  /\ UNCHANGED <<supervisor, shutdown>>

SupervisorGoes(from, to) ==
  /\ supervisor = from
  /\ supervisor' = to
  /\ UNCHANGED <<main, shutdown>>

ShutdownGoes(from, to) ==
  /\ shutdown = from
  /\ shutdown' = to
  /\ UNCHANGED <<main, supervisor>>

-----------------------------------------------------------------------------
(* The child process and its RPC server.                                   *)

TapyrusdReady ==
  /\ proc = "starting"
  /\ proc' = "ready"
  /\ UNCHANGED <<envVars, lock, strays, snapshot, taskVars, cycle, tip>>

TapyrusdCrashes ==
  /\ proc \in {"starting", "ready"}
  /\ proc' = "crashed"
  /\ UNCHANGED <<envVars, lock, strays, snapshot, taskVars, cycle, tip>>

\* tapyrusd acts on a "stop" call, before the caller has its answer.
TapyrusdStops ==
  /\ main = "stopRpc" \/ shutdown = "stopRpc"
  /\ proc = "ready"
  /\ proc' = "stopping"
  /\ UNCHANGED <<envVars, lock, strays, snapshot, taskVars, cycle, tip>>

TapyrusdExits ==
  /\ proc \in {"stopping", "killed"}
  /\ proc' = "stopped"
  /\ UNCHANGED <<envVars, lock, strays, snapshot, taskVars, cycle, tip>>

-----------------------------------------------------------------------------
(* The host.                                                               *)

HostTogglesPause ==
  /\ pauseFile' = ~pauseFile
  /\ UNCHANGED <<container, sigterm, lock, procVars, taskVars, cycle, tip>>

\* docker stop: run() installs its handlers after the first _launch(), and
\* PID 1 ignores a SIGTERM it has no handler for.
Sigterm ==
  /\ ~sigterm
  /\ sigterm' = TRUE
  /\ shutdown' = IF main = "boot" THEN "none" ELSE "wantLock"
  /\ UNCHANGED <<container, pauseFile, lock, procVars, main, cycle, supervisor, tip>>

\* docker's SIGKILL, once the grace period after the SIGTERM is over.
DockerKills ==
  /\ sigterm
  /\ container' = "exited"
  /\ UNCHANGED <<sigterm, pauseFile, lock, procVars, taskVars, cycle, tip>>

-----------------------------------------------------------------------------
(* run()                                                                   *)

\* The first _wait_for_rpc_ready() returns; the supervisor takes its first
\* snapshot.  A node that is not in CHAOS_NODES waits on an event nobody sets.
BootReady ==
  /\ main = "boot"
  /\ proc = "ready"
  /\ main' = IF ChaosNode THEN "grace" ELSE "forever"
  /\ supervisor' = "watch"
  /\ UNCHANGED <<envVars, lock, procVars, cycle, shutdown, tip>>

\* It raises (TimeoutError, RpcError): asyncio.run() ends, and the container.
BootFails ==
  /\ main = "boot"
  /\ container' = "exited"
  /\ UNCHANGED <<sigterm, pauseFile, lock, procVars, taskVars, cycle, tip>>

-----------------------------------------------------------------------------
(* _action_loop() and _wait_out_pause()                                    *)

\* Mutant: every action is drawn afresh instead of from a shuffled cycle.
StartAction_Independent ==
  \E a \in ChaosActions :
    /\ action' = a
    /\ todo' = ChaosActions
    /\ main' = IF a = "invalidate_and_reconsider" THEN "tipRpc" ELSE "wantLock"

\* The loop takes the next action of the cycle; the cycle is shuffled again
\* when it is used up.
StartAction ==
  \E a \in todo :
    /\ action' = a
    /\ todo' = IF todo = {a} THEN ChaosActions ELSE todo \ {a}
    /\ main' = IF a = "invalidate_and_reconsider" THEN "tipRpc" ELSE "wantLock"

\* PAUSE_FILE.exists() is False at the first look: no jitter.
GateOpen ==
  /\ main = "gate"
  /\ ~pauseFile
  /\ StartAction
  /\ UNCHANGED <<envVars, lock, procVars, supervisor, shutdown, tip>>

GateClosed ==
  /\ MainGoes("gate", "polling")
  /\ pauseFile
  /\ UNCHANGED <<envVars, lock, procVars, cycle, tip>>

\* Mutant: the loop polls once instead of until the file is gone.
PollReleased_OnePoll ==
  /\ MainGoes("polling", "jitter")
  /\ UNCHANGED <<envVars, lock, procVars, cycle, tip>>

PollReleased ==
  /\ MainGoes("polling", "jitter")
  /\ ~pauseFile
  /\ UNCHANGED <<envVars, lock, procVars, cycle, tip>>

\* The jitter sleep ends and the action begins; the file is not looked at.
JitterOver ==
  /\ main = "jitter"
  /\ StartAction
  /\ UNCHANGED <<envVars, lock, procVars, supervisor, shutdown, tip>>

\* The grace period, or the sleep between two actions, ends.
SleepOver ==
  /\ \E from \in {"grace", "sleep"} : MainGoes(from, "gate")
  /\ UNCHANGED <<envVars, lock, procVars, cycle, tip>>

-----------------------------------------------------------------------------
(* _restart(), called by the action loop                                   *)

RestartLocks ==
  /\ MainGoes("wantLock", "stopRpc")
  /\ lock = "none"
  /\ lock' = "main"
  /\ UNCHANGED <<envVars, procVars, cycle, tip>>

RestartStopAnswered ==
  /\ MainGoes("stopRpc", "awaitExit")
  /\ proc \in {"stopping", "stopped"}
  /\ UNCHANGED <<envVars, lock, procVars, cycle, tip>>

\* The stop call raises RpcError or RpcUnreachable, its effect or its answer
\* lost, and kill() finds the process alive.
RestartKills ==
  /\ MainGoes("stopRpc", "awaitExit")
  /\ proc \in Alive
  /\ proc' = "killed"
  /\ UNCHANGED <<envVars, lock, strays, snapshot, cycle, tip>>

\* Mutant: the lock is taken and released by hand, and not released when
\* kill() raises.
RestartKillRaises_LockKept ==
  /\ MainGoes("stopRpc", "sleep")
  /\ proc \in Exited
  /\ UNCHANGED <<envVars, lock, procVars, cycle, tip>>

\* kill() raises ProcessLookupError because the process is gone already: the
\* action fails, the lock is released, _action_loop() logs it and goes on.
RestartKillRaises ==
  /\ MainGoes("stopRpc", "sleep")
  /\ proc \in Exited
  /\ Release
  /\ UNCHANGED <<envVars, procVars, cycle, tip>>

\* Mutant: the exit is awaited without a time-out.
RestartExitTimesOut_Never == FALSE

RestartExitTimesOut ==
  /\ main = "awaitExit"
  /\ proc = "stopping"
  /\ proc' = "killed"
  /\ UNCHANGED <<envVars, lock, strays, snapshot, taskVars, cycle, tip>>

\* Mutant: the lock covers the stop and the exit only, not the downtime.
RestartExited_LockReleased ==
  /\ MainGoes("awaitExit", "downtime")
  /\ proc \in Exited
  /\ Release
  /\ UNCHANGED <<envVars, procVars, cycle, tip>>

RestartExited ==
  /\ MainGoes("awaitExit", "downtime")
  /\ proc \in Exited
  /\ UNCHANGED <<envVars, lock, procVars, cycle, tip>>

\* _wait_out_downtime() returns (enough blocks, the flat sleep, or its
\* deadline) and _launch() starts the next process.
RestartLaunches ==
  /\ MainGoes("downtime", "launching")
  /\ Replace
  /\ UNCHANGED <<envVars, lock, cycle, tip>>

RestartReady ==
  /\ MainGoes("launching", "sleep")
  /\ proc = "ready"
  /\ Release
  /\ UNCHANGED <<envVars, procVars, cycle, tip>>

\* _wait_for_rpc_ready() raises: TimeoutError after 120s without an answer,
\* or the RpcError of an answer that is an error.
RestartLaunchFails ==
  /\ MainGoes("launching", "sleep")
  /\ Release
  /\ UNCHANGED <<envVars, procVars, cycle, tip>>

-----------------------------------------------------------------------------
(* _invalidate_and_reconsider(), which never takes the lock                *)

TipRead ==
  /\ MainGoes("tipRpc", "invalidateRpc")
  /\ proc = "ready"
  /\ UNCHANGED <<envVars, lock, procVars, cycle, tip>>

Invalidated ==
  /\ MainGoes("invalidateRpc", "invalidateWait")
  /\ proc = "ready"
  /\ tip' = "invalidated"
  /\ UNCHANGED <<envVars, lock, procVars, cycle>>

\* Either call raises: the action is skipped.  The invalidateblock whose
\* answer was lost took effect all the same.
InvalidateSkipped ==
  /\ main \in {"tipRpc", "invalidateRpc"}
  /\ main' = "sleep"
  /\ \/ UNCHANGED tip
     \/ main = "invalidateRpc" /\ proc = "ready" /\ tip' = "invalidated"
  /\ UNCHANGED <<envVars, lock, procVars, cycle, supervisor, shutdown>>

InvalidateWaitOver ==
  /\ MainGoes("invalidateWait", "reconsiderRpc")
  /\ UNCHANGED <<envVars, lock, procVars, cycle, tip>>

Reconsidered ==
  /\ MainGoes("reconsiderRpc", "sleep")
  /\ proc = "ready"
  /\ tip' = "best"
  /\ UNCHANGED <<envVars, lock, procVars, cycle>>

\* reconsiderblock raises and is only logged.
ReconsiderFails ==
  /\ MainGoes("reconsiderRpc", "sleep")
  /\ \/ UNCHANGED tip
     \/ proc = "ready" /\ tip' = "best"
  /\ UNCHANGED <<envVars, lock, procVars, cycle>>

-----------------------------------------------------------------------------
(* _supervise_crashes()                                                    *)

\* The snapshot's returncode is set: the process exited, or it was replaced,
\* which only happens to one that exited (OneTapyrusd).
SupervisorSeesExit ==
  /\ SupervisorGoes("watch", "wantLock")
  /\ snapshot = "old" \/ proc \in Exited
  /\ UNCHANGED <<envVars, lock, procVars, cycle, tip>>

\* Mutant: the snapshot is taken once, before the loop.
SupervisorSkips_OldSnapshot ==
  /\ SupervisorGoes("wantLock", "watch")
  /\ lock = "none"
  /\ snapshot = "old"
  /\ UNCHANGED <<envVars, lock, procVars, cycle, tip>>

\* Somebody replaced it first: that exit is handled, take a new snapshot.
SupervisorSkips ==
  /\ SupervisorGoes("wantLock", "watch")
  /\ lock = "none"
  /\ snapshot = "old"
  /\ snapshot' = "current"
  /\ UNCHANGED <<envVars, lock, proc, strays, cycle, tip>>

\* Mutant: the identity check after taking the lock is missing.
SupervisorRelaunches_NoIdentityCheck ==
  /\ SupervisorGoes("wantLock", "launching")
  /\ lock = "none"
  /\ lock' = "supervisor"
  /\ Replace
  /\ UNCHANGED <<envVars, cycle, tip>>

SupervisorRelaunches ==
  /\ SupervisorGoes("wantLock", "launching")
  /\ lock = "none"
  /\ snapshot = "current"
  /\ lock' = "supervisor"
  /\ Replace
  /\ UNCHANGED <<envVars, cycle, tip>>

\* RPC answers; the loop releases the lock and takes its next snapshot.
SupervisorReady ==
  /\ SupervisorGoes("launching", "watch")
  /\ proc = "ready"
  /\ Release
  /\ snapshot' = "current"
  /\ UNCHANGED <<envVars, proc, strays, cycle, tip>>

\* _wait_for_rpc_ready() raises, as in RestartLaunchFails, and nothing around
\* this loop catches it: the task ends.
SupervisorDies ==
  /\ SupervisorGoes("launching", "dead")
  /\ Release
  /\ UNCHANGED <<envVars, procVars, cycle, tip>>

-----------------------------------------------------------------------------
(* _shutdown()                                                             *)

\* os._exit(0)
ExitContainer ==
  /\ container' = "exited"
  /\ shutdown' = "done"
  /\ UNCHANGED <<sigterm, pauseFile, main, supervisor>>

\* Mutant: the shutdown stops tapyrusd without taking the lock.
ShutdownLocks_Unlocked ==
  /\ ShutdownGoes("wantLock", "stopRpc")
  /\ proc \in Alive
  /\ UNCHANGED <<envVars, lock, procVars, cycle, tip>>

ShutdownLocks ==
  /\ ShutdownGoes("wantLock", "stopRpc")
  /\ proc \in Alive
  /\ lock = "none"
  /\ lock' = "shutdown"
  /\ UNCHANGED <<envVars, procVars, cycle, tip>>

\* tapyrusd is not running when the shutdown gets the lock.
ShutdownFindsNone ==
  /\ shutdown = "wantLock"
  /\ proc \in Exited
  /\ lock = "none"
  /\ ExitContainer
  /\ UNCHANGED <<lock, procVars, cycle, tip>>

ShutdownStopAnswered ==
  /\ ShutdownGoes("stopRpc", "awaitExit")
  /\ proc \in {"stopping", "stopped"}
  /\ UNCHANGED <<envVars, lock, procVars, cycle, tip>>

\* The stop call raises or takes 10s: terminate().
ShutdownTerminates ==
  /\ ShutdownGoes("stopRpc", "awaitExit")
  /\ proc \in Alive
  /\ proc' = IF proc = "killed" THEN "killed" ELSE "stopping"
  /\ UNCHANGED <<envVars, lock, strays, snapshot, cycle, tip>>

\* terminate() raises ProcessLookupError, which is not among the exceptions
\* caught: the task ends without reaching os._exit().
ShutdownTerminateRaises ==
  /\ ShutdownGoes("stopRpc", "dead")
  /\ proc \in Exited
  /\ Release
  /\ UNCHANGED <<envVars, procVars, cycle, tip>>

ShutdownExited ==
  /\ shutdown = "awaitExit"
  /\ proc \in Exited
  /\ ExitContainer
  /\ UNCHANGED <<lock, procVars, cycle, tip>>

\* 60s without an exit: kill(), then os._exit() without waiting.
ShutdownExitTimesOut ==
  /\ shutdown = "awaitExit"
  /\ proc \in Alive
  /\ proc' = "killed"
  /\ ExitContainer
  /\ UNCHANGED <<lock, strays, snapshot, cycle, tip>>

-----------------------------------------------------------------------------
Tapyrusd == TapyrusdReady \/ TapyrusdCrashes \/ TapyrusdStops \/ TapyrusdExits

Host == HostTogglesPause \/ Sigterm \/ DockerKills

Restart ==
  \/ RestartLocks \/ RestartStopAnswered \/ RestartKills \/ RestartKillRaises
  \/ RestartExitTimesOut \/ RestartExited \/ RestartLaunches
  \/ RestartReady \/ RestartLaunchFails

InvalidateAndReconsider ==
  \/ TipRead \/ Invalidated \/ InvalidateSkipped \/ InvalidateWaitOver
  \/ Reconsidered \/ ReconsiderFails

Loop == GateOpen \/ GateClosed \/ PollReleased \/ JitterOver \/ SleepOver

Main == BootReady \/ BootFails \/ Loop \/ Restart \/ InvalidateAndReconsider

Supervisor ==
  \/ SupervisorSeesExit \/ SupervisorSkips \/ SupervisorRelaunches
  \/ SupervisorReady \/ SupervisorDies

Shutdown ==
  \/ ShutdownLocks \/ ShutdownFindsNone \/ ShutdownStopAnswered
  \/ ShutdownTerminates \/ ShutdownTerminateRaises
  \/ ShutdownExited \/ ShutdownExitTimesOut

\* Everything in the container, and the container itself, ends with the
\* orchestrator's process.
Up(A) == container = "up" /\ A

Next == Up(Tapyrusd \/ Host \/ Main \/ Supervisor \/ Shutdown)

Spec == Init /\ [][Next]_vars

\* asyncio runs every task that is not waiting, and every sleep, poll and
\* time-out of the code ends; asyncio.Lock wakes its waiters in the order they
\* came, so none is passed over for ever; a process sent SIGKILL exits.
\* Nothing is assumed of the host, of crashes, of RPC answers or of tapyrusd
\* ever becoming ready.
Fairness ==
  /\ WF_vars(Up(proc = "killed" /\ TapyrusdExits))
  /\ WF_vars(Up(Main))
  /\ SF_vars(Up(RestartLocks))
  /\ WF_vars(Up(Supervisor))
  /\ SF_vars(Up(SupervisorSkips \/ SupervisorRelaunches))
  /\ WF_vars(Up(Shutdown))
  /\ SF_vars(Up(ShutdownLocks \/ ShutdownFindsNone))

FairSpec == Spec /\ Fairness

-----------------------------------------------------------------------------
(* Safety.                                                                 *)

\* "both deliberate restarts and the crash supervisor replace it, and must
\* never do so at the same time": self._process is never dropped while it is
\* alive, so two tapyrusd never share the container's data directory.
OneTapyrusd == strays = 0

\* Between the exit that a deliberate restart waited for and its own relaunch
\* nobody else brings tapyrusd back: a node that is to stay down for some
\* blocks does stay down.
DowntimeUndisturbed == main = "downtime" => proc \in Exited

\* At most one task is between taking and releasing self._lock, and it is the
\* one the lock is held by.
MainHolds == main \in {"stopRpc", "awaitExit", "downtime", "launching"}
SupervisorHolds == supervisor = "launching"
ShutdownHolds == shutdown \in {"stopRpc", "awaitExit"}
LockDiscipline ==
  /\ MainHolds <=> lock = "main"
  /\ SupervisorHolds <=> lock = "supervisor"
  /\ shutdown # "done" => (ShutdownHolds <=> lock = "shutdown")

\* While _shutdown() is stopping tapyrusd, no step starts a new one.
ShutdownNotUndone == [][ShutdownHolds => ~(proc \in Exited /\ proc' \notin Exited)]_vars

\* The chaos loop as the host scripts see it: this module implements PauseGate.
gatePhase ==
  IF main \in ActionPCs THEN "acting"
  ELSE IF main = "polling" THEN "queued"
  ELSE IF main = "jitter" THEN "destagger"
  ELSE "between"

Gate == INSTANCE PauseGate WITH phase <- gatePhase

GateSpec == Gate!Spec

-----------------------------------------------------------------------------
(* Liveness, under FairSpec.                                               *)

\* A tapyrusd that exited, by itself or in a restart that then failed, is
\* replaced, unless the supervisor ended, the container is being stopped or it
\* is gone.
ExitIsHandled ==
  proc \in Exited ~> \/ proc \notin Exited
                     \/ supervisor = "dead"
                     \/ sigterm
                     \/ container = "exited"

\* No task keeps self._lock for ever: neither a tapyrusd that ignores its stop
\* call, nor one that never answers after a launch, blocks the others.
LockIsReleased == lock # "none" ~> (lock = "none" \/ container = "exited")

\* Once the host keeps the pause file in place, the action in flight and the
\* one a jitter may still let through are the last ones: the node falls quiet.
PauseQuiets ==
  <>[]pauseFile => <>[](main \notin ActionPCs \/ container = "exited")

\* As long as the loop goes on, every kind of action comes up again and again.
CycleCoversAll ==
  []<>(main = "sleep" /\ container = "up")
    => \A a \in ChaosActions : []<>(action = a)

-----------------------------------------------------------------------------
(* What the repository says and the code does not do (expected to fail).   *)

\* doc/scripts.md: crash recovery "(relaunches plain if it ever exits
\* unexpectedly) always applies, for every node".
CrashRecoveryAlwaysApplies ==
  proc = "crashed" ~> proc # "crashed" \/ sigterm \/ container = "exited"

\* The comment in _shutdown(): "os._exit() terminates the whole process
\* directly", where sys.exit() would leave the loop running for ever.
ShutdownEnds == shutdown = "wantLock" ~> container = "exited"
=============================================================================
