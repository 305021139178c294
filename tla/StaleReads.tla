----------------------------- MODULE StaleReads ------------------------------
(***************************************************************************)
(* What a cached read promises, whatever the cache does inside: the answer *)
(* is a version of its source that was still current at most Bound before  *)
(* the request was made.  ResponseCache implements it.                     *)
(***************************************************************************)
EXTENDS Integers, Sequences

CONSTANTS
  Readers, Sources,
  Bound,              \* source -> how old an answer may be
  None

VARIABLES
  clock,
  replaced,           \* source -> the times its versions were replaced at
  view                \* reader -> its last request and the answer to it

vars == <<clock, replaced, view>>

\* Version v of source s (versions count from 0) was current at t or later.
CurrentSince(s, v, t) ==
  /\ v \in 0..Len(replaced[s])
  /\ v < Len(replaced[s]) => replaced[s][v + 1] >= t

NoRequest == [source |-> None, asked |-> 0, version |-> None]

Init ==
  /\ clock = 0
  /\ replaced = [s \in Sources |-> <<>>]
  /\ view = [r \in Readers |-> NoRequest]

Tick == clock' = clock + 1 /\ UNCHANGED <<replaced, view>>

Commit(s) ==
  /\ replaced' = [replaced EXCEPT ![s] = Append(@, clock)]
  /\ UNCHANGED <<clock, view>>

Ask(r, s) ==
  /\ view' = [view EXCEPT ![r] = [source |-> s, asked |-> clock, version |-> None]]
  /\ UNCHANGED <<clock, replaced>>

\* The requests of R end without an answer.
Fail(R) ==
  /\ view' = [r \in Readers |-> IF r \in R THEN NoRequest ELSE view[r]]
  /\ UNCHANGED <<clock, replaced>>

\* Everyone in R, whose requests are open, is told version v of source s.
Answer(R, s, v) ==
  /\ \A r \in R : /\ view[r].source = s /\ view[r].version = None
                  /\ CurrentSince(s, v, view[r].asked - Bound[s])
  /\ view' = [r \in Readers |-> IF r \in R THEN [view[r] EXCEPT !.version = v] ELSE view[r]]
  /\ UNCHANGED <<clock, replaced>>

Next ==
  \/ Tick
  \/ \E R \in SUBSET Readers : Fail(R)
  \/ \E s \in Sources : Commit(s)
  \/ \E r \in Readers, s \in Sources : Ask(r, s)
  \/ \E R \in SUBSET Readers, s \in Sources : \E v \in 0..Len(replaced[s]) : Answer(R, s, v)

Spec == Init /\ [][Next]_vars
=============================================================================
