----------------------------- MODULE Directory ------------------------------
(***************************************************************************)
(* One country's MeshMapper zone list (internal/meshmapper/directory.go):  *)
(* kept in memory and in a row of the database, shared by the background   *)
(* tasks that import zones, scopes and channels, and fetched by whichever  *)
(* of them needs it first.  Countries share nothing but the mutex.         *)
(*                                                                         *)
(* MeshMapper and the database are the environment.  A list's content is   *)
(* its version, and its ETag is that version too.                          *)
(***************************************************************************)
EXTENDS Integers, Sequences

CONSTANTS
  Tasks,              \* the background tasks that call List
  Fresh,              \* zoneListFresh
  CallLimit,          \* refreshTimeout: how long a task's tick lasts
  Allowance,          \* MeshMapper allows one request per country in this time
  RetryAfter,         \* what a 429 or 503 may ask for
  None,
  MaxVersion, MaxClock   \* the bounds on new lists and on time

ASSUME DirectoryAssumption ==
  /\ Fresh \in Nat /\ CallLimit \in Nat /\ Allowance \in Nat /\ RetryAfter \in Nat
  /\ Allowance + CallLimit <= Fresh
  /\ MaxVersion \in Nat /\ MaxClock \in Nat
  /\ None \notin Int

NoTag == -1           \* an empty ETag, which is not NULL

VARIABLES
  clock,
  replaced,           \* the times MeshMapper replaced the list at
  list,               \* the list in memory
  row,                \* the list's row
  call,               \* task -> its call of List
  last, asked,        \* when the country was last asked for, and how often
  served              \* the last list handed out, and when its task began

vars == <<clock, replaced, list, row, call, last, asked, served>>

Current == Len(replaced)

\* Version v was current at t or later.
CurrentSince(v, t) == v < Current => replaced[v + 1] >= t

NoList == [zones |-> None, etag |-> NoTag, fetched |-> None, next |-> 0, fetching |-> FALSE]
NoRow == [payload |-> None, etag |-> None, fetched |-> None, next |-> 0]
NoCall == [at |-> "idle", now |-> 0, etag |-> NoTag, save |-> NoRow]

Init ==
  /\ clock = 0
  /\ replaced = <<>>
  /\ list = NoList
  /\ row = NoRow
  /\ call = [t \in Tasks |-> NoCall]
  /\ last = None /\ asked = 0
  /\ served = None

Or(a, b) == IF a # None THEN a ELSE b

\* Mutant: an update replaces the whole row.
Replaced(s) == s

\* SaveZoneList: what the update leaves NULL stays.
Saved(s) ==
  [payload |-> Or(s.payload, row.payload), etag |-> Or(s.etag, row.etag),
   fetched |-> Or(s.fetched, row.fetched), next |-> s.next]

Latest(a, b) == IF a > b THEN a ELSE b

(***************************************************************************)
(* The environment.                                                        *)
(***************************************************************************)

\* A tick of a task ends with its context.
Tick ==
  /\ clock < MaxClock
  /\ \A t \in Tasks : call[t].at # "idle" => clock < call[t].now + CallLimit
  /\ clock' = clock + 1
  /\ UNCHANGED <<replaced, list, row, call, last, asked, served>>

Replace ==
  /\ Current < MaxVersion
  /\ replaced' = Append(replaced, clock)
  /\ UNCHANGED <<clock, list, row, call, last, asked, served>>

(***************************************************************************)
(* List.                                                                   *)
(***************************************************************************)

\* A task's tick reads the time once, before it does anything else.
Begin(t) ==
  /\ call[t].at = "idle"
  /\ call' = [call EXCEPT ![t] = [NoCall EXCEPT !.at = "list", !.now = clock]]
  /\ UNCHANGED <<clock, replaced, list, row, last, asked, served>>

StillFresh(now) == list.zones # None /\ now - list.fetched < Fresh

\* The task's tick ends, or asks again, for another zone of the country.
GoesOn(t) == call' \in {call, [call EXCEPT ![t] = NoCall]}

Serve(t) ==
  /\ call[t].at = "list" /\ StillFresh(call[t].now)
  /\ served' = [version |-> list.zones, at |-> call[t].now]
  /\ GoesOn(t)
  /\ UNCHANGED <<clock, replaced, list, row, last, asked>>

MustWait(now) == list.fetching \/ now < list.next

BackOff(t) ==
  /\ call[t].at = "list" /\ ~StillFresh(call[t].now) /\ MustWait(call[t].now)
  /\ GoesOn(t)
  /\ UNCHANGED <<clock, replaced, list, row, last, asked, served>>

\* Mutant: the next attempt is set by the answer only.
ClaimWithoutNext(t) ==
  LET now == call[t].now IN
  /\ call[t].at = "list" /\ ~StillFresh(now) /\ ~MustWait(now)
  /\ list' = [list EXCEPT !.fetching = TRUE]
  /\ call' = [call EXCEPT ![t].at = "attempt", ![t].etag = list.etag,
                          ![t].save = [NoRow EXCEPT !.next = now + Fresh]]
  /\ UNCHANGED <<clock, replaced, row, last, asked, served>>

\* The request is this task's.
Claim(t) ==
  LET now == call[t].now IN
  /\ call[t].at = "list" /\ ~StillFresh(now) /\ ~MustWait(now)
  /\ list' = [list EXCEPT !.fetching = TRUE, !.next = now + Fresh]
  /\ call' = [call EXCEPT ![t].at = "attempt", ![t].etag = list.etag,
                          ![t].save = [NoRow EXCEPT !.next = now + Fresh]]
  /\ UNCHANGED <<clock, replaced, row, last, asked, served>>

(***************************************************************************)
(* fetch.                                                                  *)
(***************************************************************************)

\* The attempt is recorded first.  A save that fails may have been applied.
SaveAttempt(t) ==
  /\ call[t].at = "attempt"
  /\ \/ row' = Saved(call[t].save) /\ call' = [call EXCEPT ![t].at = "request"]
     \/ row' \in {row, Saved(call[t].save)} /\ call' = [call EXCEPT ![t].at = "done"]
  /\ UNCHANGED <<clock, replaced, list, last, asked, served>>

Request(t) ==
  /\ call[t].at = "request"
  /\ last' = clock /\ asked' = asked + 1
  /\ call' = [call EXCEPT ![t].at = "sent"]
  /\ UNCHANGED <<clock, replaced, list, row, served>>

\* Mutant: the return on an ended context skips the reset.
NoAnswerReturns(t) ==
  /\ call[t].at = "sent"
  /\ call' = [call EXCEPT ![t] = NoCall]
  /\ UNCHANGED <<clock, replaced, list, row, last, asked, served>>

\* The context ends before an answer.
NoAnswer(t) ==
  /\ call[t].at = "sent"
  /\ call' = [call EXCEPT ![t].at = "done"]
  /\ UNCHANGED <<clock, replaced, list, row, last, asked, served>>

ToSave(t, s) == call' = [call EXCEPT ![t].at = "save", ![t].save = s]

\* A new list, with an ETag or without; memory has it before the row.
NewList(t) ==
  LET now == call[t].now IN
  /\ call[t].at = "sent"
  /\ \E etag \in {Current, NoTag} :
       /\ list' = [list EXCEPT !.zones = Current, !.etag = etag, !.fetched = now]
       /\ ToSave(t, [payload |-> Current, etag |-> etag, fetched |-> now, next |-> list.next])
  /\ UNCHANGED <<clock, replaced, row, last, asked, served>>

\* A 304 confirms the list whose ETag was sent.
NotModified(t) ==
  LET now == call[t].now IN
  /\ call[t].at = "sent" /\ call[t].etag = Current
  /\ list' = [list EXCEPT !.fetched = now]
  /\ ToSave(t, [payload |-> None, etag |-> list.etag, fetched |-> now, next |-> list.next])
  /\ UNCHANGED <<clock, replaced, row, last, asked, served>>

\* Anything else is a problem; a 429 or 503 may put off the next attempt.
Problem(t) ==
  LET now == call[t].now IN
  /\ call[t].at = "sent"
  /\ \E next \in {list.next, Latest(list.next, now + RetryAfter)} :
       /\ list' = [list EXCEPT !.next = next]
       /\ ToSave(t, [NoRow EXCEPT !.next = next])
  /\ UNCHANGED <<clock, replaced, row, last, asked, served>>

SaveResult(t) ==
  /\ call[t].at = "save"
  /\ row' \in {row, Saved(call[t].save)}
  /\ call' = [call EXCEPT ![t].at = "done"]
  /\ UNCHANGED <<clock, replaced, list, last, asked, served>>

\* List's deferred reset, whichever way fetch returned.
Done(t) ==
  /\ call[t].at = "done"
  /\ list' = [list EXCEPT !.fetching = FALSE]
  /\ call' = [call EXCEPT ![t] = NoCall]
  /\ UNCHANGED <<clock, replaced, row, last, asked, served>>

\* The process dies; Restore loads the row, without a list it cannot decode.
Restart ==
  /\ \/ list' = [NoList EXCEPT !.next = row.next]
     \/ /\ row.payload # None
        /\ list' = [zones |-> row.payload, etag |-> row.etag, fetched |-> row.fetched,
                    next |-> row.next, fetching |-> FALSE]
  /\ call' = [t \in Tasks |-> NoCall]
  /\ UNCHANGED <<clock, replaced, row, last, asked, served>>

Answer(t) == NoAnswer(t) \/ NewList(t) \/ NotModified(t) \/ Problem(t)

Fetch(t) == SaveAttempt(t) \/ Request(t) \/ Answer(t) \/ SaveResult(t) \/ Done(t)

List(t) == Serve(t) \/ BackOff(t) \/ Claim(t)

Next ==
  \/ Tick \/ Replace \/ Restart
  \/ \E t \in Tasks : Begin(t) \/ List(t) \/ Fetch(t)

Spec == Init /\ [][Next]_vars

\* A fetch goes on until its context ends, and then returns.
FairSpec == Spec /\ \A t \in Tasks : WF_vars(Fetch(t))

(***************************************************************************)
(* Properties.                                                             *)
(***************************************************************************)

Terms == INSTANCE RateLimit

\* The country is never asked for twice within MeshMapper's allowance, by
\* whichever task, after failed saves, abandoned requests and restarts (List,
\* fetch, Restore).
KeepsAllowance == Terms!Spec

\* A fetch in flight ends: no way out of fetch leaves the country blocked for
\* every task until the next restart (List's deferred reset).
FlightEnds == list.fetching ~> ~list.fetching

\* Once a list was stored, no failure and no restart leaves the row without
\* one, and memory only loses it to a restart whose decoder refuses it
\* (SaveZoneList keeps what an update leaves NULL).
LastGoodKept ==
  [][/\ row.payload # None => row'.payload # None
     /\ list.zones # None /\ list'.zones = None => ~list'.fetching /\ \A t \in Tasks : call'[t] = NoCall]_vars

\* List hands out fresh lists: one that was current within Fresh of the
\* task's tick (directory.go: "List returns the country's fresh zone list").
ServedFresh == served # None => CurrentSince(served.version, served.at - Fresh)
=============================================================================
