---------------------------- MODULE ResponseCache ----------------------------
(***************************************************************************)
(* The response cache (internal/cache): reads through Redis with one       *)
(* shared fetch per key, invalidated by key and by prefix, and the         *)
(* rollup-backed reads whose keys carry the analytics revision.            *)
(*                                                                         *)
(* Redis and the database are the environment: a command takes effect in   *)
(* one step and may fail.  A source's data is its version, the number of   *)
(* commits so far.                                                         *)
(***************************************************************************)
EXTENDS Integers, Sequences, FiniteSets

CONSTANTS
  Readers,            \* requests in progress, one each
  Named, Prefixed,    \* keys dropped by DEL, and those found by SCAN
  Ttl,                \* how long an entry lives
  RevisionTtl,        \* how long a revision is remembered
  FillLimit,          \* sharedFetchTimeout
  ReadLimit,          \* the longest a revision read takes
  None,
  MaxVersion, MaxClock   \* the bounds on commits and on time

Rows == "rows"
Stats == "stats"
Sources == {Rows, Stats}
Plain == Named \cup Prefixed
Versions == 0..MaxVersion
Slots == Plain \cup Versions      \* a stats key is told apart by its revision

ASSUME CacheAssumption ==
  /\ Ttl \in Nat \ {0} /\ RevisionTtl \in Nat /\ FillLimit \in Nat /\ ReadLimit \in Nat
  /\ MaxVersion \in Nat /\ MaxClock \in Nat
  /\ Plain \cap Int = {} /\ None \notin Int \cup Plain \cup Sources \cup Readers
  /\ Named \cap Prefixed = {}

VARIABLES
  clock,
  replaced,           \* source -> the times its versions were replaced at
  redis,              \* key -> the entry stored under it
  fill,               \* key -> the shared fetch in flight
  memo,               \* the remembered revision and when it was stored
  lookup,             \* the revision read under the memo's mutex
  reader,             \* request -> where it is
  purge,              \* the invalidation under way
  floor               \* history: key -> the version an undisturbed invalidation left

vars == <<clock, replaced, redis, fill, memo, lookup, reader, purge, floor>>

Current(s) == Len(replaced[s])
SourceOf(k) == IF k \in Plain THEN Rows ELSE Stats

Idle == [at |-> "idle", source |-> None, asked |-> 0, slot |-> None, version |-> None]
NoPurge == [at |-> "idle", found |-> {}, quiet |-> {}]

\* The history's half: no fetch that read an older version is on its way to k.
Undisturbed(k) ==
  fill[k] = None \/ fill[k].version = None \/ fill[k].version = Current(Rows)

Init ==
  /\ clock = 0
  /\ replaced = [s \in Sources |-> <<>>]
  /\ redis = [k \in Slots |-> None]
  /\ fill = [k \in Slots |-> None]
  /\ memo = None
  /\ lookup = None
  /\ reader = [r \in Readers |-> Idle]
  /\ purge = NoPurge
  /\ floor = [k \in Plain |-> 0]

Dropped(K) == [k \in Slots |-> IF k \in K THEN None ELSE redis[k]]

(***************************************************************************)
(* Time, and the writers.                                                  *)
(***************************************************************************)

\* A shared fetch ends with its context, a revision read within ReadLimit, and
\* Redis drops an entry when its time is over.
Tick ==
  /\ clock < MaxClock
  /\ \A k \in Slots : fill[k] # None => clock < fill[k].started + FillLimit
  /\ lookup # None => clock < lookup.began + ReadLimit
  /\ clock' = clock + 1
  /\ redis' = Dropped({k \in Slots : redis[k] # None /\ redis[k].expires = clock'})
  /\ UNCHANGED <<replaced, fill, memo, lookup, reader, purge, floor>>

\* An import commits its rows and then invalidates what it replaced: one key
\* by name, the others by their prefix (InvalidateIATAs, InvalidateRegions).
CommitRows ==
  /\ purge.at = "idle" /\ Current(Rows) < MaxVersion
  /\ replaced' = [replaced EXCEPT ![Rows] = Append(@, clock)]
  /\ purge' = [NoPurge EXCEPT !.at = "delete"]
  /\ UNCHANGED <<clock, redis, fill, memo, lookup, reader, floor>>

\* A roll commits an hour's rows and the next revision.
CommitRoll ==
  /\ Current(Stats) < MaxVersion
  /\ replaced' = [replaced EXCEPT ![Stats] = Append(@, clock)]
  /\ UNCHANGED <<clock, redis, fill, memo, lookup, reader, purge, floor>>

Raised(K) == [k \in Plain |-> IF k \in K THEN Current(Rows) ELSE floor[k]]

\* del: an error is ignored.
Delete ==
  /\ purge.at = "delete"
  /\ \/ /\ redis' = Dropped(Named)
        /\ floor' = Raised({k \in Named : Undisturbed(k)})
     \/ UNCHANGED <<redis, floor>>
  /\ purge' = [purge EXCEPT !.at = "scan"]
  /\ UNCHANGED <<clock, replaced, fill, memo, lookup, reader>>

\* delPrefix: the scan; an error ends the invalidation.
Scan ==
  /\ purge.at = "scan"
  /\ \/ purge' = [at |-> "found", found |-> {k \in Prefixed : redis[k] # None},
                  quiet |-> {k \in Prefixed : Undisturbed(k)}]
     \/ purge' = NoPurge
  /\ UNCHANGED <<clock, replaced, redis, fill, memo, lookup, reader, floor>>

\* Mutant: a delPrefix that hands DEL the pattern, which DEL takes for a name.
DeletePattern ==
  /\ purge.at = "found"
  /\ floor' = Raised(purge.quiet) /\ purge' = NoPurge
  /\ UNCHANGED <<clock, replaced, redis, fill, memo, lookup, reader>>

\* delPrefix: the DEL of what the scan returned.
DeleteFound ==
  /\ purge.at = "found"
  /\ \/ redis' = Dropped(purge.found) /\ floor' = Raised(purge.quiet)
     \/ UNCHANGED <<redis, floor>>
  /\ purge' = NoPurge
  /\ UNCHANGED <<clock, replaced, fill, memo, lookup, reader>>

(***************************************************************************)
(* A request.                                                              *)
(***************************************************************************)

Goto(r, l) == reader' = [reader EXCEPT ![r].at = l]
Told(r, v) == [reader[r] EXCEPT !.at = "idle", !.version = v]

\* A read of rows knows its key; a stats read asks for the revision first.
AskRows(r, k) ==
  /\ reader[r].at = "idle"
  /\ reader' = [reader EXCEPT ![r] =
       [at |-> "get", source |-> Rows, asked |-> clock, slot |-> k, version |-> None]]
  /\ UNCHANGED <<clock, replaced, redis, fill, memo, lookup, purge, floor>>

AskStats(r) ==
  /\ reader[r].at = "idle"
  /\ reader' = [reader EXCEPT ![r] =
       [at |-> "key", source |-> Stats, asked |-> clock, slot |-> None, version |-> None]]
  /\ UNCHANGED <<clock, replaced, redis, fill, memo, lookup, purge, floor>>

Remembered == memo # None /\ clock - memo.stored < RevisionTtl

\* revisionMemo.get, with a fresh memo.
UseMemo(r) ==
  /\ reader[r].at = "key" /\ lookup = None /\ Remembered
  /\ reader' = [reader EXCEPT ![r].at = "get", ![r].slot = memo.revision]
  /\ UNCHANGED <<clock, replaced, redis, fill, memo, lookup, purge, floor>>

\* revisionMemo.get reads the revision with the mutex held.
ReadRevision(r) ==
  /\ reader[r].at = "key" /\ lookup = None /\ ~Remembered
  /\ lookup' = [by |-> r, revision |-> Current(Stats), began |-> clock]
  /\ UNCHANGED <<clock, replaced, redis, fill, memo, reader, purge, floor>>

\* ... and remembers it from when the read returned.
KeepRevision(r) ==
  /\ lookup # None /\ lookup.by = r
  /\ memo' = [revision |-> lookup.revision, stored |-> clock]
  /\ reader' = [reader EXCEPT ![r].at = "get", ![r].slot = lookup.revision]
  /\ lookup' = None
  /\ UNCHANGED <<clock, replaced, redis, fill, purge, floor>>

\* Without a revision the read goes through, uncached (cachedRollup).
NoRevision(r) ==
  /\ lookup # None /\ lookup.by = r
  /\ lookup' = None
  /\ Goto(r, "direct")
  /\ UNCHANGED <<clock, replaced, redis, fill, memo, purge, floor>>

\* Mutant: a hit starts the entry's life again.
GetRenewed(r) ==
  LET k == reader[r].slot IN
  /\ reader[r].at = "get"
  /\ \/ /\ redis[k] # None /\ redis' = [redis EXCEPT ![k].expires = clock + Ttl]
        /\ reader' = [reader EXCEPT ![r] = Told(r, redis[k].version)]
     \/ redis[k] = None /\ Goto(r, "miss") /\ UNCHANGED redis
  /\ UNCHANGED <<clock, replaced, fill, memo, lookup, purge, floor>>

\* getOrSet: a hit answers; an entry that cannot be decoded counts as a miss;
\* with Redis failing the fetch is direct.
Get(r) ==
  LET k == reader[r].slot IN
  /\ reader[r].at = "get"
  /\ \/ redis[k] # None /\ reader' = [reader EXCEPT ![r] = Told(r, redis[k].version)]
     \/ Goto(r, "miss")
     \/ Goto(r, "direct")
  /\ UNCHANGED <<clock, replaced, redis, fill, memo, lookup, purge, floor>>

\* fetchShared: join the fetch of this key, or start it.
Join(r) ==
  LET k == reader[r].slot IN
  /\ reader[r].at = "miss"
  /\ Goto(r, "wait")
  /\ fill' = IF fill[k] = None
               THEN [fill EXCEPT ![k] = [started |-> clock, version |-> None]]
               ELSE fill
  /\ UNCHANGED <<clock, replaced, redis, memo, lookup, purge, floor>>

\* The uncached fetch answers with what it reads.
ReadDirect(r) ==
  /\ reader[r].at = "direct"
  /\ reader' = [reader EXCEPT ![r] = Told(r, Current(reader[r].source))]
  /\ UNCHANGED <<clock, replaced, redis, fill, memo, lookup, purge, floor>>

\* The request's own context ends, or its fetch fails: an error, no answer.
GiveUp(r) ==
  /\ reader[r].at \in {"get", "miss", "wait", "direct"}
  /\ reader' = [reader EXCEPT ![r] = Idle]
  /\ UNCHANGED <<clock, replaced, redis, fill, memo, lookup, purge, floor>>

(***************************************************************************)
(* The shared fetch, on a context of its own.                              *)
(***************************************************************************)

Waiting(k) == {r \in Readers : reader[r].at = "wait" /\ reader[r].slot = k}
Closed(r, v) == IF v = None THEN Idle ELSE Told(r, v)
Release(k, v) ==
  [r \in Readers |-> IF r \in Waiting(k) THEN Closed(r, v) ELSE reader[r]]

FillRead(k) ==
  /\ fill[k] # None /\ fill[k].version = None
  /\ fill' = [fill EXCEPT ![k].version = Current(SourceOf(k))]
  /\ UNCHANGED <<clock, replaced, redis, memo, lookup, reader, purge, floor>>

\* SET, its error ignored, and the value for every caller still waiting.
FillStore(k) ==
  /\ fill[k] # None /\ fill[k].version # None
  /\ \/ redis' = [redis EXCEPT ![k] = [version |-> fill[k].version, expires |-> clock + Ttl]]
     \/ UNCHANGED redis
  /\ fill' = [fill EXCEPT ![k] = None]
  /\ reader' = Release(k, fill[k].version)
  /\ UNCHANGED <<clock, replaced, memo, lookup, purge, floor>>

\* The read fails or times out, and with it every caller's request.
FillFail(k) ==
  /\ fill[k] # None /\ fill[k].version = None
  /\ fill' = [fill EXCEPT ![k] = None]
  /\ reader' = Release(k, None)
  /\ UNCHANGED <<clock, replaced, redis, memo, lookup, purge, floor>>

\* The process dies and starts again: Redis and the database stay.
Restart ==
  /\ fill' = [k \in Slots |-> None]
  /\ memo' = None
  /\ lookup' = None
  /\ reader' = [r \in Readers |-> Idle]
  /\ purge' = NoPurge
  /\ UNCHANGED <<clock, replaced, redis, floor>>

Request(r) ==
  \/ \E k \in Plain : AskRows(r, k)
  \/ AskStats(r)
  \/ UseMemo(r) \/ ReadRevision(r) \/ KeepRevision(r) \/ NoRevision(r)
  \/ Get(r) \/ Join(r) \/ ReadDirect(r) \/ GiveUp(r)

Fetch(k) == FillRead(k) \/ FillStore(k) \/ FillFail(k)

Next ==
  \/ Tick \/ CommitRows \/ CommitRoll
  \/ Delete \/ Scan \/ DeleteFound
  \/ \E k \in Slots : Fetch(k)
  \/ \E r \in Readers : Request(r)
  \/ Restart

Spec == Init /\ [][Next]_vars

(***************************************************************************)
(* Properties.                                                             *)
(***************************************************************************)

Age(s) == IF s = Rows THEN Ttl + FillLimit ELSE RevisionTtl + ReadLimit
ViewOf(q) == [source |-> q.source, asked |-> q.asked, version |-> q.version]

Promise == INSTANCE StaleReads WITH
  Bound <- [s \in Sources |-> Age(s)],
  view <- [r \in Readers |-> ViewOf(reader[r])]

\* An answer is no older than the code's own limits allow, through failed
\* deletes, fetches that raced a commit, joined fetches and restarts: an
\* answer about rows was current within an entry's life and one shared fetch of the
\* request, a stats answer within the revision's memory and one revision read
\* (getOrSet, fetchShared, revisionMemo.get).
KeepsPromise == Promise!Spec

\* After an invalidation that reached Redis, and that no fetch was racing with
\* an older version, no older version is stored again (InvalidateIATAs).
InvalidationHolds ==
  \A k \in Plain : redis[k] # None => redis[k].version >= floor[k]

=============================================================================
