----------------------------- MODULE MCHearings ------------------------------
(* Small instances of Hearings for TLC. *)
EXTENDS Hearings, TLC

\* The brokers, the paths and the observers are interchangeable.
Symmetry == Permutations(Brokers) \cup Permutations(Paths) \cup Permutations(Observers)
==============================================================================
