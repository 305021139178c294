----------------------------- MODULE MCPresence ------------------------------
(* Small instances of Presence for TLC. *)
EXTENDS Presence, TLC

\* The callers and the IATAs are interchangeable.
Symmetry == Permutations(Callers) \cup Permutations(Iatas)
==============================================================================
