------------------------ MODULE MCFederationChange ---------------------------
(***************************************************************************)
(* FederationChange for TLC: both signer sets as in the repository, with a *)
(* node of each kind.                                                      *)
(***************************************************************************)
EXTENDS FederationChange

MCSignersA == <<"signer-0", "signer-1", "signer-2">>
MCSignersB == <<"signer-0", "signer-b-1", "signer-b-2">>
=============================================================================
