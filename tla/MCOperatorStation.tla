------------------------- MODULE MCOperatorStation -------------------------
(***************************************************************************)
(* Small instances. Integers of 7 bits and 8 ticks per millisecond make an *)
(* era of 16 ticks: of the scan times 13, 14 and 17, all of one era, the   *)
(* first has a key that is no date, the second one that is less than a day *)
(* before the epoch, the third one behind it.                              *)
(***************************************************************************)
EXTENDS OperatorStation
=============================================================================
