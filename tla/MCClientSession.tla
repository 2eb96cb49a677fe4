-------------------------- MODULE MCClientSession --------------------------
(***************************************************************************)
(* Small instances: three images, the second of which may have odd pixels, *)
(* two commands on their way, and 512 bytes that hold a whole image and a  *)
(* part of the next.                                                       *)
(***************************************************************************)
EXTENDS ClientSession
=============================================================================
