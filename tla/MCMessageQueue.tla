--------------------------- MODULE MCMessageQueue ----------------------------
(* Small instances of MessageQueue for TLC. *)
EXTENDS MessageQueue

CONSTANTS o1, o2, o3, l1, l2

\* Two observers hash to one lane, the third has its own.
MCLaneOf == [o \in PublicKeys |-> IF o = o3 THEN l2 ELSE l1]
==============================================================================
