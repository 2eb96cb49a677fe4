-------------------------- MODULE MCDatabaseInsert --------------------------
(***************************************************************************)
(* DatabaseInsert for TLC: as many threads as images are on their way to   *)
(* the database at a time.                                                 *)
(***************************************************************************)
EXTENDS DatabaseInsert, TLC

Symmetry == Permutations(Thread)
=============================================================================
