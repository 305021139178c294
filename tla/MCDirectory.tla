----------------------------- MODULE MCDirectory -----------------------------
(***************************************************************************)
(* One country's zone list, asked for by two tasks.                        *)
(***************************************************************************)
EXTENDS Directory, TLC

Symmetry == Permutations(Tasks)
=============================================================================
