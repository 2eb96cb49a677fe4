--------------------------- MODULE MCImageCustody ---------------------------
(***************************************************************************)
(* ImageServer with its histories, for TLC: see MCImageServer.             *)
(***************************************************************************)
EXTENDS ImageCustody, TLC

Symmetry ==
    Permutations(Session) \cup Permutations(ClientId) \cup Permutations(OperatorId)
=============================================================================
