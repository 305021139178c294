------------------------------ MODULE MCCache -------------------------------
(***************************************************************************)
(* The response cache on a small instance.  Keys share nothing but the     *)
(* clock, so a behaviour exercises one key of rows, or the stats.          *)
(***************************************************************************)
EXTENDS ResponseCache, TLC

CONSTANT StatsClock    \* the bound on time where the stats are the subject

VARIABLE subject

MCInit == Init /\ subject \in Plain \cup {Stats}

MCNext ==
  /\ Next
  /\ UNCHANGED subject
  /\ subject = Stats => clock' <= StatsClock
  /\ \A r \in Readers :
       IF subject = Stats THEN reader'[r].source # Rows
                          ELSE reader'[r].source # Stats /\ reader'[r].slot \in {None, subject}
  /\ replaced'[IF subject = Stats THEN Rows ELSE Stats] = <<>>

MCSpec == MCInit /\ [][MCNext]_<<vars, subject>>

\* States are one that differ only in what no step looks at again: what an
\* answered request was told, and a revision that is too old to be used.
Awaited(r) == IF reader[r].at = "idle" THEN Idle ELSE reader[r]
CacheView == <<clock, replaced, redis, fill, IF Remembered THEN memo ELSE None, lookup,
               [r \in Readers |-> Awaited(r)], purge, floor, subject>>

Symmetry == Permutations(Readers)
=============================================================================
