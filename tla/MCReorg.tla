------------------------------ MODULE MCReorg --------------------------------
(***************************************************************************)
(* Reorg for TLC.  core-1a and core-2a stand for their pairs in group A,   *)
(* which meet through core-7 only; group B has core-3a and core-7.         *)
(***************************************************************************)
EXTENDS Reorg

MCGroupA == {"core-1a", "core-2a"}
MCGroupB == {"core-3a", "core-7"}
MCLinks == {{"core-1a", "core-7"}, {"core-2a", "core-7"}, {"core-3a", "core-7"}}
MCDefaultHosts == <<"core-1a", "core-2a", "core-3a">>
=============================================================================
