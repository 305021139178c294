------------------------------ MODULE MCRollup -------------------------------
(* Small instances of Rollup for TLC. *)
EXTENDS Rollup, TLC

\* The packets and the workers are interchangeable.
Symmetry == Permutations(Packets) \cup Permutations(Workers)
==============================================================================
