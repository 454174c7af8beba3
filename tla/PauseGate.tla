------------------------------ MODULE PauseGate ------------------------------
(***************************************************************************)
(* What a host-side script may rely on about one node's chaos loop: the    *)
(* abstract view of _action_loop and _wait_out_pause of                    *)
(* scripts/container/node_orchestrator.py against the pause file of        *)
(* scripts/lib/orchestrator_control.py.                                    *)
(*                                                                         *)
(* The loop is between two actions, queued at the gate because it saw the  *)
(* pause file, waiting out its jitter after it saw the file gone, or       *)
(* inside an action.  The promise is in what is missing: nothing goes from *)
(* "between" or "queued" to "acting" while the file exists.  A loop that   *)
(* left the queue does not look at the file again, so "destagger" leads to *)
(* "acting" whatever the file does in the meantime.                        *)
(***************************************************************************)
VARIABLES pauseFile, \* the pause file exists
          phase      \* where the node's chaos loop is

vars == <<pauseFile, phase>>

Phases == {"between", "queued", "destagger", "acting"}

TypeOK ==
  /\ pauseFile \in BOOLEAN
  /\ phase \in Phases

Init ==
  /\ pauseFile \in BOOLEAN
  /\ phase = "between"

\* A host-side script creates or removes the file.
HostToggles ==
  /\ pauseFile' = ~pauseFile
  /\ UNCHANGED phase

\* The loop looks at the file before its next action and finds it.
Queue ==
  /\ phase = "between"
  /\ pauseFile
  /\ phase' = "queued"
  /\ UNCHANGED pauseFile

\* A queued loop polls again and finds the file gone.
Release ==
  /\ phase = "queued"
  /\ ~pauseFile
  /\ phase' = "destagger"
  /\ UNCHANGED pauseFile

\* The next action begins: straight away when no file was seen, or after the
\* jitter.
Start ==
  /\ \/ phase = "between" /\ ~pauseFile
     \/ phase = "destagger"
  /\ phase' = "acting"
  /\ UNCHANGED pauseFile

\* The action returns or raises.
Finish ==
  /\ phase = "acting"
  /\ phase' = "between"
  /\ UNCHANGED pauseFile

Next == HostToggles \/ Queue \/ Release \/ Start \/ Finish

Spec == Init /\ [][Next]_vars

=============================================================================
