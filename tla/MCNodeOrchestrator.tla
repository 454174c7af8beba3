------------------------- MODULE MCNodeOrchestrator -------------------------
(***************************************************************************)
(* NodeOrchestrator for TLC.  The state space is finite as it stands: no   *)
(* counter of launches or crashes is needed, so there is nothing to bound. *)
(***************************************************************************)
EXTENDS NodeOrchestrator
=============================================================================
