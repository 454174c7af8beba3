-------------------------- MODULE ChaosWindowProofs --------------------------
(***************************************************************************)
(* Proofs about OrchestratorControl and ChaosWindow, for any number of     *)
(* nodes and blocks.                                                       *)
(***************************************************************************)
EXTENDS ChaosWindow, FiniteSetTheorems, TLAPS

-----------------------------------------------------------------------------
(* The depth counter.                                                      *)

\* What the scripts keep up between them: the counter counts the open blocks,
\* and apart from what a killed script left, the file is there for them.
ControlInv ==
  /\ ControlTypeOK
  /\ DepthCountsOpen
  /\ PausedWhileOpen
  /\ HeldOrLeftover

\* Some block is open iff the counter is not 0.
LEMMA DepthZero ==
  ASSUME ControlTypeOK, DepthCountsOpen
  PROVE  /\ IsFiniteSet(open)
         /\ depth = 0 <=> open = {}
<1>1. IsFiniteSet(open)
  BY FS_Subset, BlocksAssumption DEF ControlTypeOK
<1>2. Cardinality(open) = 0 <=> open = {}
  BY <1>1, FS_EmptySet
<1> QED
  BY <1>1, <1>2 DEF DepthCountsOpen

LEMMA ControlInitial == ControlInit => ControlInv
<1> SUFFICES ASSUME ControlInit PROVE ControlInv
  OBVIOUS
<1>1. ControlTypeOK /\ PausedWhileOpen /\ HeldOrLeftover
  BY DEF ControlInit, ControlTypeOK, PausedWhileOpen, HeldOrLeftover
<1>2. Cardinality({}) = 0
  BY FS_EmptySet
<1>3. DepthCountsOpen
  BY <1>2 DEF ControlInit, DepthCountsOpen
<1> QED
  BY <1>1, <1>3 DEF ControlInv

LEMMA PauseKeeps ==
  ASSUME ControlInv, NEW b \in Blocks, Pause(b)
  PROVE  ControlInv'
<1> USE DEF ControlInv
<1>1. IsFiniteSet(open) /\ (depth = 0 <=> open = {})
  BY DepthZero
<1>2. Cardinality(open') = Cardinality(open) + 1
  BY <1>1, FS_AddElement DEF Pause
<1>3. ControlTypeOK'
  BY DEF ControlTypeOK, Pause
<1>4. DepthCountsOpen'
  BY <1>2 DEF DepthCountsOpen, Pause
<1>5. pauseFile'
  <2>1. CASE open = {}
    <3>1. depth' = 1
      BY <1>1, <2>1 DEF Pause
    <3> QED
      BY <3>1 DEF Pause
  <2>2. CASE open # {}
    BY <2>2 DEF Pause, PausedWhileOpen
  <2> QED
    BY <2>1, <2>2
<1>6. open' # {}
  BY DEF Pause
<1> QED
  BY <1>3, <1>4, <1>5, <1>6 DEF PausedWhileOpen, HeldOrLeftover

LEMMA ResumeKeeps ==
  ASSUME ControlInv, NEW b \in Blocks, Resume(b)
  PROVE  ControlInv'
<1> USE DEF ControlInv
<1>1. IsFiniteSet(open) /\ (depth = 0 <=> open = {})
  BY DepthZero
<1>2. Cardinality(open') = Cardinality(open) - 1
  BY <1>1, FS_RemoveElement DEF Resume
<1>3. depth # 0
  BY <1>1 DEF Resume
<1>4. ControlTypeOK'
  BY <1>3 DEF ControlTypeOK, Resume
<1>5. DepthCountsOpen'
  BY <1>2, <1>3 DEF DepthCountsOpen, Resume
<1>6. depth' = 0 <=> open' = {}
  BY <1>4, <1>5, DepthZero, FS_Subset, FS_EmptySet, BlocksAssumption
     DEF ControlTypeOK, DepthCountsOpen
<1>7. pauseFile /\ open # {}
  BY DEF Resume, PausedWhileOpen
<1>8. PausedWhileOpen'
  BY <1>6, <1>7 DEF PausedWhileOpen, Resume
<1>9. HeldOrLeftover'
  BY <1>6 DEF HeldOrLeftover, Resume
<1> QED
  BY <1>4, <1>5, <1>8, <1>9

LEMMA ControlKeeps == ControlInv /\ [ControlNext]_controlVars => ControlInv'
<1> SUFFICES ASSUME ControlInv, [ControlNext]_controlVars
             PROVE  ControlInv'
  OBVIOUS
<1> USE DEF ControlInv, ControlTypeOK, DepthCountsOpen, PausedWhileOpen, HeldOrLeftover
<1>1. ASSUME NEW b \in Blocks, Pause(b) PROVE ControlInv'
  BY <1>1, PauseKeeps
<1>2. ASSUME NEW b \in Blocks, Resume(b) PROVE ControlInv'
  BY <1>2, ResumeKeeps
<1>3. CASE ScriptStarts
  BY <1>3 DEF ScriptStarts
<1>4. CASE ScriptEnds
  BY <1>4 DEF ScriptEnds
<1>5. CASE ScriptKilled
  BY <1>5, FS_EmptySet DEF ScriptKilled
<1>6. CASE UNCHANGED controlVars
  BY <1>6 DEF controlVars
<1> QED
  BY <1>1, <1>2, <1>3, <1>4, <1>5, <1>6 DEF ControlNext

-----------------------------------------------------------------------------
(* The nodes' loops under the scripts.                                     *)

\* A node that began an action under the present file is past its jitter: it
\* can only be let through again by a look at the file.
SpentJitter ==
  \A n \in Nodes : /\ started[n] \in 0..1
                   /\ pauseFile /\ started[n] = 1 => phase[n] # "destagger"

IInv == TypeOK /\ ControlInv /\ SpentJitter

LEMMA Initial == Init => IInv
BY ControlInitial DEF Init, IInv, TypeOK, SpentJitter, ControlInv, ControlInit

LEMMA NodeKeeps ==
  ASSUME IInv, NEW n \in Nodes, Node(n)
  PROVE  IInv'
<1> USE DEF IInv, TypeOK, SpentJitter
<1>1. UNCHANGED controlVars
  BY DEF Node, Queue, Release, StartUnseen, StartDestaggered, Finish, Moves
<1>2. ControlInv'
  BY <1>1, ControlKeeps
<1>3. CASE Queue(n)
  BY <1>1, <1>2, <1>3 DEF Queue, Moves, ControlInv, controlVars
<1>4. CASE Release(n)
  BY <1>1, <1>2, <1>4 DEF Release, Moves, ControlInv, controlVars
<1>5. CASE StartUnseen(n)
  BY <1>1, <1>2, <1>5 DEF StartUnseen, CountStart, Moves, ControlInv, controlVars
<1>6. CASE StartDestaggered(n)
  BY <1>1, <1>2, <1>6 DEF StartDestaggered, CountStart, Moves, ControlInv, controlVars
<1>7. CASE Finish(n)
  BY <1>1, <1>2, <1>7 DEF Finish, Moves, ControlInv, controlVars
<1> QED
  BY <1>3, <1>4, <1>5, <1>6, <1>7 DEF Node

LEMMA ControlStepKeeps ==
  ASSUME IInv, Control
  PROVE  IInv'
<1> USE DEF IInv, TypeOK
<1>1. ControlInv'
  BY ControlKeeps DEF Control
<1>2. CASE pauseFile' /\ ~pauseFile
  BY <1>1, <1>2 DEF Control, SpentJitter, ControlInv
<1>3. CASE pauseFile' => pauseFile
  BY <1>1, <1>3 DEF Control, SpentJitter, ControlInv
<1> QED
  BY <1>2, <1>3

LEMMA Keeps == IInv /\ [Next]_vars => IInv'
<1> SUFFICES ASSUME IInv, [Next]_vars
             PROVE  IInv'
  OBVIOUS
<1>1. CASE Control
  BY <1>1, ControlStepKeeps
<1>2. ASSUME NEW n \in Nodes, Node(n) PROVE IInv'
  BY <1>2, NodeKeeps
<1>3. CASE UNCHANGED vars
  <2>1. ControlInv'
    BY <1>3, ControlKeeps DEF IInv, vars
  <2> QED
    BY <1>3, <2>1 DEF IInv, TypeOK, SpentJitter, ControlInv, vars, nodeVars, controlVars
<1> QED
  BY <1>1, <1>2, <1>3 DEF Next

-----------------------------------------------------------------------------
\* IInv is an invariant of the composition.
THEOREM Invariance == Spec => []IInv
BY Initial, Keeps, PTL DEF Spec

\* The variables of the scripts and of the loops stay in their ranges.
THEOREM TypeCorrect == Spec => []TypeOK
BY Invariance, PTL DEF IInv

\* An inner or overlapping pair never removes the file an open block needs.
THEOREM InnerPairsKeepPause == Spec => []PausedWhileOpen
BY Invariance, PTL DEF IInv, ControlInv

\* A file nobody holds was left by a killed script.
THEOREM ChaosIsResumed == Spec => []HeldOrLeftover
BY Invariance, PTL DEF IInv, ControlInv

\* The depth counter never loses or gains a block.
THEOREM DepthIsExact == Spec => []DepthCountsOpen
BY Invariance, PTL DEF IInv, ControlInv

\* Under one uninterrupted pause each node begins at most one more action.
THEOREM AtMostOneStraggler == Spec => []OneStragglerPerWindow
<1>1. IInv => OneStragglerPerWindow
  <2> SUFFICES ASSUME IInv, NEW n \in Nodes PROVE started[n] <= 1
    BY DEF OneStragglerPerWindow
  <2> QED BY DEF IInv, TypeOK, SpentJitter
<1> QED
  BY <1>1, Invariance, PTL
=============================================================================
