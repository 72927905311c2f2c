--------------------------- MODULE MCExecutionDirs ---------------------------
(***************************************************************************)
(* A small instance of ExecutionDirs, with digits 0 and 1: names of two    *)
(* digits are too short from the fifth run on.  Nothing tells one shell    *)
(* from another.                                                           *)
(***************************************************************************)
EXTENDS ExecutionDirs, TLC

Symmetry == Permutations(Shells)
=============================================================================
