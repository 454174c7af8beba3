---------------------------- MODULE MCDeployment -----------------------------
(***************************************************************************)
(* Deployment for TLC: one branch of the topology, with a node that has no *)
(* -connect, one that has and listens, and one that does not listen.       *)
(***************************************************************************)
EXTENDS Deployment

MCCores == {"core-1a", "core-1b", "core-7"}
MCConnectTo == [n \in MCCores |->
  CASE n = "core-1b" -> {"core-1a"} [] n = "core-7" -> {"core-1b"} [] OTHER -> {}]
=============================================================================
