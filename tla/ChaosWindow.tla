----------------------------- MODULE ChaosWindow -----------------------------
(***************************************************************************)
(* The chaos loops of several nodes (_action_loop, _wait_out_pause of      *)
(* scripts/container/node_orchestrator.py) under the pauses of the host's  *)
(* scripts (OrchestratorControl): what a script may assume while it is     *)
(* inside a block.                                                         *)
(*                                                                         *)
(* Each node makes the moves of PauseGate, which NodeOrchestrator is shown *)
(* to implement.                                                           *)
(***************************************************************************)
EXTENDS OrchestratorControl

CONSTANT Nodes  \* CHAOS_NODES

VARIABLES
  phase,    \* phase[n]: where node n's loop is
  started   \* started[n]: actions n began since the pause file was created; 2: or more

nodeVars == <<phase, started>>
vars == <<controlVars, nodeVars>>

TypeOK ==
  /\ ControlTypeOK
  /\ phase \in [Nodes -> {"between", "queued", "destagger", "acting"}]
  /\ started \in [Nodes -> 0..2]

Init ==
  /\ ControlInit
  /\ phase = [n \in Nodes |-> "between"]
  /\ started = [n \in Nodes |-> 0]

-----------------------------------------------------------------------------
Moves(n, from, to) ==
  /\ phase[n] = from
  /\ phase' = [phase EXCEPT ![n] = to]
  /\ UNCHANGED controlVars

\* The loop sees the pause file before its next action.
Queue(n) ==
  /\ Moves(n, "between", "queued")
  /\ pauseFile
  /\ UNCHANGED started

\* Mutant: a queued loop goes on after one poll.
Release_OnePoll(n) ==
  /\ Moves(n, "queued", "destagger")
  /\ UNCHANGED started

\* A queued loop polls and finds it gone; it waits out its jitter.
Release(n) ==
  /\ Moves(n, "queued", "destagger")
  /\ ~pauseFile
  /\ UNCHANGED started

\* An action begins; started counts those that do so under the file.
CountStart(n) ==
  started' = IF pauseFile /\ started[n] < 2
             THEN [started EXCEPT ![n] = @ + 1] ELSE started

\* Mutant: the action loop does not look at the pause file.
StartUnseen_NoGate(n) ==
  /\ Moves(n, "between", "acting")
  /\ CountStart(n)

\* No file at the first look: no jitter.
StartUnseen(n) ==
  /\ Moves(n, "between", "acting")
  /\ ~pauseFile
  /\ CountStart(n)

\* The jitter is over; the file is not looked at again.
StartDestaggered(n) ==
  /\ Moves(n, "destagger", "acting")
  /\ CountStart(n)

Finish(n) ==
  /\ Moves(n, "acting", "between")
  /\ UNCHANGED started

\* A step of the scripts.  Creating the file opens a new window.
Control ==
  /\ ControlNext
  /\ started' = IF pauseFile' /\ ~pauseFile THEN [n \in Nodes |-> 0] ELSE started
  /\ UNCHANGED phase

Node(n) ==
  Queue(n) \/ Release(n) \/ StartUnseen(n) \/ StartDestaggered(n) \/ Finish(n)

Next == Control \/ \E n \in Nodes : Node(n)

Spec == Init /\ [][Next]_vars

\* The loops' polls and sleeps end and their actions return; the scripts owe
\* nothing.
FairSpec == Spec /\ \A n \in Nodes : WF_vars(Node(n))

-----------------------------------------------------------------------------
\* Under one uninterrupted pause a node begins at most one action: the one it
\* was destaggering when the file came back.  The pause may be any chain of
\* nested and overlapping blocks, of several scripts if one was killed.
OneStragglerPerWindow == \A n \in Nodes : started[n] <= 1

\* A block that stays open long enough has the network to itself: from some
\* moment on no node is inside an action.
HeldBlockQuietsAll ==
  \A b \in Blocks : <>[](b \in open) => <>[](\A n \in Nodes : phase[n] # "acting")
=============================================================================
