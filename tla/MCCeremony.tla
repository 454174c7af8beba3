------------------------------ MODULE MCCeremony -----------------------------
(* The ceremonies with two signers a set, and up to four runs of a script.  *)
EXTENDS Ceremony
=============================================================================
