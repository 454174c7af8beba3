------------------------- MODULE OrchestratorControl -------------------------
(***************************************************************************)
(* scripts/lib/orchestrator_control.py: the pause file all core-* nodes    *)
(* share, and the depth counter through which one host-side script nests   *)
(* its pauses.                                                             *)
(*                                                                         *)
(* A block is one `pause_node_orchestrators(); try: ... finally:           *)
(* resume_node_orchestrators()` of a script: nested in another one, in a   *)
(* coroutine gathered with others, or on its own.  Scripts run one after   *)
(* the other; each is a process with a _depth of its own.                  *)
(***************************************************************************)
EXTENDS Naturals, FiniteSets

CONSTANT Blocks  \* the blocks a script may have open at the same time

ASSUME BlocksAssumption == IsFiniteSet(Blocks)

VARIABLES
  pauseFile,  \* runtime/orchestrator-control/pause exists
  depth,      \* _depth of the running script
  open,       \* the blocks between their pause and their resume
  running,    \* a script is running
  leftover    \* the file was left by a script that did not get to resume

controlVars == <<pauseFile, depth, open, running, leftover>>

ControlTypeOK ==
  /\ pauseFile \in BOOLEAN
  /\ depth \in Nat
  /\ open \in SUBSET Blocks
  /\ running \in BOOLEAN
  /\ leftover \in BOOLEAN

ControlInit ==
  /\ pauseFile = FALSE
  /\ depth = 0
  /\ open = {}
  /\ running = FALSE
  /\ leftover = FALSE

-----------------------------------------------------------------------------

\* pause_node_orchestrators()
Pause(b) ==
  /\ running
  /\ b \notin open
  /\ open' = open \cup {b}
  /\ depth' = depth + 1
  /\ pauseFile' = (pauseFile \/ depth' = 1)
  /\ UNCHANGED <<running, leftover>>

\* Mutant: every resume removes the file.
Resume_Always(b) ==
  /\ running
  /\ b \in open
  /\ open' = open \ {b}
  /\ depth' = IF depth = 0 THEN 0 ELSE depth - 1
  /\ pauseFile' = FALSE
  /\ leftover' = FALSE
  /\ UNCHANGED running

\* Mutant: the file is removed one block too late.
Resume_Late(b) ==
  /\ running
  /\ b \in open
  /\ open' = open \ {b}
  /\ depth' = IF depth = 0 THEN 0 ELSE depth - 1
  /\ pauseFile' = (pauseFile /\ depth # 0)
  /\ leftover' = (leftover /\ pauseFile')
  /\ UNCHANGED running

\* resume_node_orchestrators(), in the block's `finally`.
Resume(b) ==
  /\ running
  /\ b \in open
  /\ open' = open \ {b}
  /\ depth' = IF depth = 0 THEN 0 ELSE depth - 1
  /\ pauseFile' = (pauseFile /\ depth' # 0)
  /\ leftover' = (leftover /\ pauseFile')
  /\ UNCHANGED running

\* A script is imported with its own _depth of 0, whatever is on disk.
ScriptStarts ==
  /\ ~running
  /\ running' = TRUE
  /\ UNCHANGED <<pauseFile, depth, open, leftover>>

\* A script returns, or its exception has passed every `finally`.
ScriptEnds ==
  /\ running
  /\ open = {}
  /\ running' = FALSE
  /\ UNCHANGED <<pauseFile, depth, open, leftover>>

\* A script is killed: no `finally` runs, _depth is gone, the file stays.
ScriptKilled ==
  /\ running
  /\ running' = FALSE
  /\ depth' = 0
  /\ open' = {}
  /\ leftover' = pauseFile
  /\ UNCHANGED pauseFile

ControlNext ==
  \/ \E b \in Blocks : Pause(b) \/ Resume(b)
  \/ ScriptStarts \/ ScriptEnds \/ ScriptKilled

ControlSpec == ControlInit /\ [][ControlNext]_controlVars

-----------------------------------------------------------------------------
\* "an inner pause/resume pair doesn't prematurely remove the file while an
\* outer caller still needs it paused": as long as any block is open, the file
\* exists, in whatever order the blocks of gathered coroutines end.
PausedWhileOpen == open # {} => pauseFile

\* Chaos is resumed: a file that no open block holds was left by a killed
\* script.  In particular a script that lets its blocks end, by return or by
\* exception, leaves no file, and the next script that pauses and resumes
\* clears what a killed one left.
HeldOrLeftover == pauseFile => open # {} \/ leftover

\* The counter counts the open blocks: no pair is lost or counted twice.
DepthCountsOpen == depth = Cardinality(open)
=============================================================================
