---------------------------- MODULE MCChaosWindow ----------------------------
(***************************************************************************)
(* ChaosWindow for TLC: three chaos nodes under three blocks, which can    *)
(* nest and overlap in every order.  Nodes and blocks are interchangeable, *)
(* but the run checks a liveness property too: no symmetry.                *)
(***************************************************************************)
EXTENDS ChaosWindow
=============================================================================
