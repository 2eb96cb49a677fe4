--------------------------- MODULE MCImageServer ---------------------------
(***************************************************************************)
(* ImageServer for TLC. Sessions are used once each, so their number       *)
(* bounds the connections of a behaviour, and Image the images sent.       *)
(***************************************************************************)
EXTENDS ImageServerDispatch, ImageServerPeers, TLC

\* Sessions, clients and operators are each interchangeable: no definition
\* compares two of them otherwise than by equality.
Symmetry ==
    Permutations(Session) \cup Permutations(ClientId) \cup Permutations(OperatorId)
=============================================================================
