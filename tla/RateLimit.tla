------------------------------ MODULE RateLimit ------------------------------
(***************************************************************************)
(* The terms under which MeshMapper may be asked: successive requests for  *)
(* one country, or for one region, are at least Allowance apart.  Directory*)
(* and ChannelImport implement it, each for the requests it sends.         *)
(***************************************************************************)
EXTENDS Integers

CONSTANTS Allowance, None

VARIABLES
  clock,
  last,               \* when the last request was sent
  asked               \* how many were sent

vars == <<clock, last, asked>>

Allowed == last = None \/ clock >= last + Allowance

Init == clock = 0 /\ last = None /\ asked = 0

Tick == clock' = clock + 1 /\ UNCHANGED <<last, asked>>

Request == Allowed /\ last' = clock /\ asked' = asked + 1 /\ clock' = clock

Next == Tick \/ Request

Spec == Init /\ [][Next]_vars
=============================================================================
