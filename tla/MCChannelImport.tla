--------------------------- MODULE MCChannelImport ---------------------------
(***************************************************************************)
(* One region, listed at one of two sites.                                 *)
(***************************************************************************)
EXTENDS ChannelImport, TLC

Symmetry == Permutations(Sites)
=============================================================================
