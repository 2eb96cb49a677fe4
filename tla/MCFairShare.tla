---------------------------- MODULE MCFairShare ----------------------------
(***************************************************************************)
(* FairShare for TLC: images enough for one operator to decide and be      *)
(* served again, twice over, while another waits.                          *)
(***************************************************************************)
EXTENDS FairShare, TLC

Symmetry == Permutations(Session) \cup Permutations(OperatorId)
=============================================================================
