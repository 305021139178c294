---------------------------- MODULE CacheProofs -----------------------------
(***************************************************************************)
(* The response cache keeps the promise of StaleReads, for any number of   *)
(* requests and keys and any limits: Spec implements Promise!Spec under    *)
(* the mapping of ResponseCache.                                           *)
(***************************************************************************)
EXTENDS ResponseCache, TLAPS

Entries == [version : Versions, expires : Nat]
Fills == [started : Nat, version : Versions \cup {None}]
Memos == [revision : Versions, stored : Nat]
Lookups == [by : Readers, revision : Versions, began : Nat]
Requests == [at : {"idle", "key", "get", "miss", "wait", "direct"},
             source : Sources \cup {None}, asked : Nat,
             slot : Slots \cup {None}, version : Versions \cup {None}]
Purges == [at : {"idle", "delete", "scan", "found"},
           found : SUBSET Plain, quiet : SUBSET Plain]
Times == Seq(Nat)

\* The types of all variables; no source has more versions than the bound.
CacheTypeOK ==
  /\ clock \in Nat
  /\ replaced \in [Sources -> Times]
  /\ \A s \in Sources : Current(s) \in Versions
  /\ redis \in [Slots -> Entries \cup {None}]
  /\ fill \in [Slots -> Fills \cup {None}]
  /\ memo \in Memos \cup {None}
  /\ lookup \in Lookups \cup {None}
  /\ reader \in [Readers -> Requests]
  /\ purge \in Purges
  /\ floor \in [Plain -> Nat]

\* Versions were replaced one after the other, and not in the future.
Sorted ==
  \A s \in Sources : \A i, j \in 1..Len(replaced[s]) :
    i <= j => replaced[s][i] <= replaced[s][j] /\ replaced[s][j] <= clock

\* Version v of s was current at t or later.
Since(s, v, t) ==
  /\ v \in 0..Len(replaced[s])
  /\ v < Len(replaced[s]) => replaced[s][v + 1] >= t

\* What lies under a key was read late enough: for rows, within one fetch of
\* the store; for stats, after the key's revision was committed.
EntryOK(k, e) ==
  e # None =>
    /\ clock < e.expires /\ e.expires <= clock + Ttl
    /\ e.version <= Current(SourceOf(k))
    /\ k \in Plain => Since(Rows, e.version, e.expires - Ttl - FillLimit)
    /\ k \notin Plain => k <= e.version

FillOK(k, f) ==
  f # None =>
    /\ f.started <= clock /\ clock <= f.started + FillLimit
    /\ k \notin Plain => k <= Current(Stats)
    /\ f.version # None =>
         /\ f.version <= Current(SourceOf(k))
         /\ k \in Plain => Since(Rows, f.version, f.started)
         /\ k \notin Plain => k <= f.version

MemoOK(m) ==
  m # None => m.stored <= clock /\ Since(Stats, m.revision, m.stored - ReadLimit)

LookupOK(l) ==
  l # None => /\ l.began <= clock /\ clock <= l.began + ReadLimit
              /\ Since(Stats, l.revision, l.began)

\* An open request has no answer yet, and its key is of its source; a revision
\* in the key was current within the bound of the request.
RequestOK(q) ==
  /\ q.at # "idle" => q.source \in Sources /\ q.version = None /\ q.asked <= clock
  /\ q.at = "key" => q.source = Stats
  /\ q.at \in {"get", "miss", "wait"} =>
       /\ q.source = Rows => q.slot \in Plain
       /\ q.source = Stats =>
            q.slot \in Versions /\ Since(Stats, q.slot, q.asked - Age(Stats))

LookupBy == lookup # None => reader[lookup.by].at = "key"

CacheInv ==
  /\ CacheTypeOK
  /\ Sorted
  /\ \A k \in Slots : EntryOK(k, redis[k])
  /\ \A k \in Slots : FillOK(k, fill[k])
  /\ MemoOK(memo)
  /\ LookupOK(lookup)
  /\ \A r \in Readers : RequestOK(reader[r])
  /\ LookupBy

-----------------------------------------------------------------------------
(* Facts about versions and times. *)

LEMMA SourceNames == Rows \in Sources /\ Stats \in Sources /\ Rows # Stats
BY DEF Rows, Stats, Sources

LEMMA SinceEarlier ==
  ASSUME CacheTypeOK, NEW s \in Sources, NEW v, NEW t \in Int, NEW u \in Int,
         u <= t, Since(s, v, t)
  PROVE  Since(s, v, u)
<1>1. replaced[s] \in Seq(Nat)
  BY DEF CacheTypeOK, Times
<1>2. Len(replaced[s]) \in Nat
  BY <1>1
<1>3. ASSUME v < Len(replaced[s]) PROVE replaced[s][v + 1] \in Nat
  BY <1>1, <1>2, <1>3 DEF Since
<1> QED
  BY <1>1, <1>2, <1>3 DEF Since

LEMMA SinceNow ==
  ASSUME CacheTypeOK, NEW s \in Sources, NEW t
  PROVE  Since(s, Current(s), t)
<1>1. Len(replaced[s]) \in Nat
  BY DEF CacheTypeOK, Times
<1> QED
  BY <1>1 DEF Since, Current

LEMMA SinceNewer ==
  ASSUME CacheTypeOK, Sorted, NEW s \in Sources, NEW v, NEW w \in Int, NEW t \in Int,
         v <= w, w <= Current(s), Since(s, v, t)
  PROVE  Since(s, w, t)
<1>1. replaced[s] \in Seq(Nat) /\ Len(replaced[s]) \in Nat /\ v \in Int /\ 0 <= v
  BY DEF CacheTypeOK, Times, Since
<1>2. CASE w < Len(replaced[s])
  <2>1. v + 1 \in 1..Len(replaced[s]) /\ w + 1 \in 1..Len(replaced[s]) /\ v + 1 <= w + 1
    BY <1>1, <1>2
  <2>2. replaced[s][v + 1] <= replaced[s][w + 1] /\ replaced[s][v + 1] >= t
    BY <2>1, <1>1, <1>2 DEF Sorted, Since
  <2>3. replaced[s][v + 1] \in Nat /\ replaced[s][w + 1] \in Nat
    BY <1>1, <2>1
  <2> QED
    BY <1>1, <1>2, <2>2, <2>3 DEF Since, Current
<1>3. CASE ~(w < Len(replaced[s]))
  BY <1>1, <1>3 DEF Since, Current
<1> QED
  BY <1>2, <1>3

\* A commit leaves what was current until now.
LEMMA SinceCommit ==
  ASSUME CacheTypeOK, NEW c \in Sources, replaced' = [replaced EXCEPT ![c] = Append(@, clock)],
         NEW s \in Sources, NEW v, NEW t \in Int, t <= clock, Since(s, v, t)
  PROVE  Since(s, v, t)'
<1>1. replaced[s] \in Seq(Nat) /\ clock \in Nat /\ v \in 0..Len(replaced[s])
  BY DEF CacheTypeOK, Times, Since
<1>2. CASE s = c
  <2>1. replaced'[s] = Append(replaced[s], clock)
    BY <1>2 DEF CacheTypeOK
  <2>2. Len(replaced'[s]) = Len(replaced[s]) + 1
    BY <1>1, <2>1
  <2>3. CASE v = Len(replaced[s])
    <3>1. replaced'[s][v + 1] = clock
      BY <1>1, <2>1, <2>3
    <3> QED
      BY <1>1, <2>2, <2>3, <3>1 DEF Since
  <2>4. CASE v < Len(replaced[s])
    <3>1. replaced'[s][v + 1] = replaced[s][v + 1]
      BY <1>1, <2>1, <2>4
    <3> QED
      BY <1>1, <2>2, <2>4, <3>1 DEF Since
  <2> QED
    BY <1>1, <2>3, <2>4
<1>3. CASE s # c
  <2>1. replaced'[s] = replaced[s]
    BY <1>3 DEF CacheTypeOK
  <2> QED
    BY <2>1 DEF Since
<1> QED
  BY <1>2, <1>3

-----------------------------------------------------------------------------
(* The invariant. *)

SameTime == clock' = clock /\ replaced' = replaced

\* While no time passes and nothing is committed, the new values need only be
\* as good as the old ones were.
LEMMA StillStep ==
  ASSUME CacheInv, SameTime,
         redis' \in [Slots -> Entries \cup {None}],
         fill' \in [Slots -> Fills \cup {None}],
         memo' \in Memos \cup {None},
         lookup' \in Lookups \cup {None},
         reader' \in [Readers -> Requests],
         purge' \in Purges,
         floor' \in [Plain -> Nat],
         \A k \in Slots : EntryOK(k, redis'[k]),
         \A k \in Slots : FillOK(k, fill'[k]),
         MemoOK(memo'),
         LookupOK(lookup'),
         \A r \in Readers : RequestOK(reader'[r]),
         LookupBy'
  PROVE  CacheInv'
<1>1. CacheTypeOK'
  BY DEF CacheInv, CacheTypeOK, SameTime, Current
<1>2. Sorted'
  BY DEF CacheInv, Sorted, SameTime
<1>3. \A k \in Slots : EntryOK(k, redis[k])'
  BY DEF EntryOK, Since, Current, SameTime
<1>4. \A k \in Slots : FillOK(k, fill[k])'
  BY DEF FillOK, Since, Current, SameTime
<1>5. MemoOK(memo)' /\ LookupOK(lookup)'
  BY DEF MemoOK, LookupOK, Since, SameTime
<1>6. \A r \in Readers : RequestOK(reader[r])'
  BY DEF RequestOK, Since, SameTime
<1> QED
  BY <1>1, <1>2, <1>3, <1>4, <1>5, <1>6 DEF CacheInv

LEMMA IdleFine == Idle \in Requests /\ RequestOK(Idle)
BY CacheAssumption DEF Idle, Requests, RequestOK

LEMMA InitInv == Init => CacheInv
<1> SUFFICES ASSUME Init PROVE CacheInv
  OBVIOUS
<1>1. CacheTypeOK
  BY CacheAssumption, IdleFine DEF Init, CacheTypeOK, Current, Versions, Times, NoPurge, Purges
<1>2. Sorted
  BY DEF Init, Sorted
<1> QED
  BY <1>1, <1>2, IdleFine DEF Init, CacheInv, EntryOK, FillOK, MemoOK, LookupOK, LookupBy

\* One request moves, the mutex of the memo staying as it is.
LEMMA RequestStep ==
  ASSUME CacheInv, SameTime, UNCHANGED <<redis, fill, memo, lookup, purge, floor>>,
         NEW r \in Readers, reader[r].at # "key", NEW q \in Requests, RequestOK(q),
         reader' = [reader EXCEPT ![r] = q]
  PROVE  CacheInv'
<1>1. reader' \in [Readers -> Requests] /\ \A i \in Readers : RequestOK(reader'[i])
  BY DEF CacheInv, CacheTypeOK
<1>2. LookupBy'
  BY DEF CacheInv, CacheTypeOK, LookupBy, Lookups
<1> QED
  BY <1>1, <1>2, StillStep DEF CacheInv, CacheTypeOK

LEMMA AskInv ==
  ASSUME CacheInv, NEW r \in Readers
  PROVE  /\ AskStats(r) => CacheInv'
         /\ \A k \in Plain : AskRows(r, k) => CacheInv'
<1>1. ASSUME AskStats(r) PROVE CacheInv'
  <2> DEFINE q == [at |-> "key", source |-> Stats, asked |-> clock, slot |-> None, version |-> None]
  <2>1. q \in Requests /\ RequestOK(q)
    BY SourceNames DEF CacheInv, CacheTypeOK, Requests, RequestOK
  <2> QED
    BY <1>1, <2>1, RequestStep DEF AskStats, SameTime
<1>2. ASSUME NEW k \in Plain, AskRows(r, k) PROVE CacheInv'
  <2> DEFINE q == [at |-> "get", source |-> Rows, asked |-> clock, slot |-> k, version |-> None]
  <2>1. q \in Requests /\ RequestOK(q)
    BY SourceNames DEF CacheInv, CacheTypeOK, Requests, RequestOK, Slots
  <2> QED
    BY <1>2, <2>1, RequestStep DEF AskRows, SameTime
<1> QED
  BY <1>1, <1>2

LEMMA GetInv ==
  ASSUME CacheInv, NEW r \in Readers, Get(r)
  PROVE  CacheInv'
<1> DEFINE q == reader[r]
<1>1. q \in Requests /\ RequestOK(q) /\ q.at = "get"
  BY DEF CacheInv, CacheTypeOK, Get
<1>2. q.slot \in Slots
  BY <1>1 DEF RequestOK, Sources, Slots
<1>3. CASE redis[q.slot] # None /\ reader' = [reader EXCEPT ![r] = Told(r, redis[q.slot].version)]
  <2>1. redis[q.slot] \in Entries
    BY <1>2, <1>3 DEF CacheInv, CacheTypeOK
  <2>2. Told(r, redis[q.slot].version) \in Requests /\ RequestOK(Told(r, redis[q.slot].version))
    BY <1>1, <2>1 DEF Told, Requests, RequestOK, Entries
  <2> QED
    BY <1>1, <1>3, <2>2, RequestStep DEF Get, SameTime
<1>4. ASSUME NEW l \in {"miss", "direct"}, Goto(r, l) PROVE CacheInv'
  <2>1. [q EXCEPT !.at = l] \in Requests /\ RequestOK([q EXCEPT !.at = l])
    BY <1>1 DEF Requests, RequestOK
  <2> QED
    BY <1>1, <1>4, <2>1, RequestStep DEF Get, Goto, SameTime
<1> QED
  BY <1>3, <1>4 DEF Get

LEMMA DirectInv ==
  ASSUME CacheInv, NEW r \in Readers
  PROVE  (ReadDirect(r) => CacheInv') /\ (GiveUp(r) => CacheInv')
<1> DEFINE q == reader[r]
<1>1. q \in Requests /\ RequestOK(q)
  BY DEF CacheInv, CacheTypeOK
<1>2. ASSUME ReadDirect(r) PROVE CacheInv'
  <2>1. Current(q.source) \in Versions
    BY <1>1, <1>2 DEF CacheInv, CacheTypeOK, RequestOK, ReadDirect
  <2>2. Told(r, Current(q.source)) \in Requests /\ RequestOK(Told(r, Current(q.source)))
    BY <1>1, <2>1 DEF Told, Requests, RequestOK
  <2> QED
    BY <1>2, <2>2, RequestStep DEF ReadDirect, SameTime
<1>3. ASSUME GiveUp(r) PROVE CacheInv'
  BY <1>3, IdleFine, RequestStep DEF GiveUp, SameTime
<1> QED
  BY <1>2, <1>3

LEMMA JoinInv ==
  ASSUME CacheInv, NEW r \in Readers, Join(r)
  PROVE  CacheInv'
<1> DEFINE q == reader[r]
<1> DEFINE k == q.slot
<1>1. q \in Requests /\ RequestOK(q) /\ q.at = "miss"
  BY DEF CacheInv, CacheTypeOK, Join
<1>2. k \in Slots /\ q.source \in Sources
  BY <1>1 DEF RequestOK, Sources, Slots
<1>3. reader' \in [Readers -> Requests] /\ \A i \in Readers : RequestOK(reader'[i])
  <2>1. [q EXCEPT !.at = "wait"] \in Requests /\ RequestOK([q EXCEPT !.at = "wait"])
    BY <1>1 DEF Requests, RequestOK
  <2> QED
    BY <2>1 DEF CacheInv, CacheTypeOK, Join, Goto
<1>4. LookupBy'
  BY <1>1 DEF CacheInv, CacheTypeOK, LookupBy, Lookups, Join, Goto
<1>5. fill' \in [Slots -> Fills \cup {None}] /\ \A i \in Slots : FillOK(i, fill'[i])
  <2> DEFINE f == [started |-> clock, version |-> None]
  <2>1. f \in Fills
    BY DEF CacheInv, CacheTypeOK, Fills
  <2>2. k \notin Plain => k <= Current(Stats)
    BY <1>1, <1>2 DEF RequestOK, Since, Sources, Current
  <2>3. FillOK(k, f)
    BY <2>2, CacheAssumption DEF CacheInv, CacheTypeOK, FillOK
  <2> QED
    BY <2>1, <2>3, <1>2 DEF CacheInv, CacheTypeOK, Join
<1> QED
  BY <1>3, <1>4, <1>5, StillStep DEF CacheInv, CacheTypeOK, Join, SameTime

LEMMA MemoInv ==
  ASSUME CacheInv, NEW r \in Readers
  PROVE  /\ UseMemo(r) => CacheInv'
         /\ ReadRevision(r) => CacheInv'
         /\ KeepRevision(r) => CacheInv'
         /\ NoRevision(r) => CacheInv'
<1> DEFINE q == reader[r]
<1>1. q \in Requests /\ RequestOK(q)
  BY DEF CacheInv, CacheTypeOK
<1>2. clock \in Nat /\ CacheTypeOK /\ q.asked \in Nat /\ Age(Stats) \in Nat
  BY <1>1, CacheAssumption DEF CacheInv, CacheTypeOK, Requests, Age, Rows, Stats
<1>3. ASSUME NEW v \in Versions, NEW t \in Int, Since(Stats, v, t), q.asked - Age(Stats) <= t,
             q.at = "key"
      PROVE  /\ [q EXCEPT !.at = "get", !.slot = v] \in Requests
             /\ RequestOK([q EXCEPT !.at = "get", !.slot = v])
  <2>1. Since(Stats, v, q.asked - Age(Stats))
    BY <1>2, <1>3, SinceEarlier, SourceNames
  <2> QED
    BY <1>1, <1>3, <2>1, SourceNames DEF Requests, RequestOK, Slots
<1>4. ASSUME UseMemo(r) PROVE CacheInv'
  <2>1. memo \in Memos /\ MemoOK(memo) /\ memo # None /\ clock - memo.stored < RevisionTtl
    BY <1>4 DEF CacheInv, CacheTypeOK, UseMemo, Remembered
  <2>2. q.asked <= clock /\ q.at = "key"
    BY <1>1, <1>4 DEF RequestOK, UseMemo
  <2>3. q.asked - Age(Stats) <= memo.stored - ReadLimit
    BY <1>2, <2>1, <2>2, CacheAssumption, SourceNames DEF Memos, Age
  <2>4. /\ [q EXCEPT !.at = "get", !.slot = memo.revision] \in Requests
        /\ RequestOK([q EXCEPT !.at = "get", !.slot = memo.revision])
    <3>1. memo.revision \in Versions /\ memo.stored - ReadLimit \in Int
      BY <2>1, CacheAssumption DEF Memos
    <3>2. Since(Stats, memo.revision, memo.stored - ReadLimit)
      BY <2>1 DEF MemoOK
    <3> QED
      BY <1>3, <2>2, <2>3, <3>1, <3>2
  <2>5. reader' = [reader EXCEPT ![r] = [q EXCEPT !.at = "get", !.slot = memo.revision]]
    BY <1>4 DEF UseMemo, CacheInv, CacheTypeOK
  <2>6. reader' \in [Readers -> Requests] /\ \A i \in Readers : RequestOK(reader'[i])
    BY <2>4, <2>5 DEF CacheInv, CacheTypeOK
  <2>7. LookupBy'
    BY <1>4 DEF UseMemo, LookupBy
  <2> QED
    BY <1>4, <2>6, <2>7, StillStep DEF CacheInv, CacheTypeOK, UseMemo, SameTime
<1>5. ASSUME ReadRevision(r) PROVE CacheInv'
  <2> DEFINE l == [by |-> r, revision |-> Current(Stats), began |-> clock]
  <2>1. l \in Lookups
    BY <1>2, SourceNames DEF CacheTypeOK, Lookups
  <2>2. LookupOK(l)
    BY <1>2, SinceNow, SourceNames, CacheAssumption DEF LookupOK
  <2>3. LookupBy'
    BY <1>5 DEF ReadRevision, LookupBy
  <2> QED
    BY <1>5, <2>1, <2>2, <2>3, StillStep DEF CacheInv, CacheTypeOK, ReadRevision, SameTime
<1>6. ASSUME KeepRevision(r) PROVE CacheInv'
  <2>1. lookup \in Lookups /\ LookupOK(lookup) /\ lookup # None /\ q.at = "key"
    BY <1>6 DEF CacheInv, CacheTypeOK, KeepRevision, LookupBy
  <2>2. q.asked <= clock
    BY <1>1, <2>1 DEF RequestOK
  <2>3. q.asked - Age(Stats) <= lookup.began /\ clock - ReadLimit <= lookup.began
    BY <1>2, <2>1, <2>2, CacheAssumption, SourceNames DEF Lookups, LookupOK, Age
  <2>4. /\ [q EXCEPT !.at = "get", !.slot = lookup.revision] \in Requests
        /\ RequestOK([q EXCEPT !.at = "get", !.slot = lookup.revision])
    <3>1. lookup.revision \in Versions /\ lookup.began \in Int
      BY <2>1 DEF Lookups
    <3>2. Since(Stats, lookup.revision, lookup.began)
      BY <2>1 DEF LookupOK
    <3> QED
      BY <1>3, <2>1, <2>3, <3>1, <3>2
  <2>5. reader' = [reader EXCEPT ![r] = [q EXCEPT !.at = "get", !.slot = lookup.revision]]
    BY <1>6 DEF KeepRevision, CacheInv, CacheTypeOK
  <2>6. reader' \in [Readers -> Requests] /\ \A i \in Readers : RequestOK(reader'[i])
    BY <2>4, <2>5 DEF CacheInv, CacheTypeOK
  <2> DEFINE m == [revision |-> lookup.revision, stored |-> clock]
  <2>7. m \in Memos
    BY <1>2, <2>1 DEF Memos, Lookups
  <2>8. Since(Stats, lookup.revision, clock - ReadLimit)
    BY <1>2, <2>1, <2>3, SinceEarlier, SourceNames, CacheAssumption DEF LookupOK, Lookups
  <2>9. MemoOK(m)
    BY <1>2, <2>8 DEF MemoOK
  <2>10. LookupBy' /\ LookupOK(lookup') /\ lookup' \in Lookups \cup {None}
    BY <1>6 DEF KeepRevision, LookupBy, LookupOK
  <2> QED
    BY <1>6, <2>6, <2>7, <2>9, <2>10, StillStep DEF CacheInv, CacheTypeOK, KeepRevision, SameTime
<1>7. ASSUME NoRevision(r) PROVE CacheInv'
  <2>1. [q EXCEPT !.at = "direct"] \in Requests /\ RequestOK([q EXCEPT !.at = "direct"])
    <3>1. q.at = "key"
      BY <1>7 DEF CacheInv, LookupBy, NoRevision
    <3> QED
      BY <1>1, <3>1 DEF Requests, RequestOK
  <2>2. reader' \in [Readers -> Requests] /\ \A i \in Readers : RequestOK(reader'[i])
    BY <1>7, <2>1 DEF CacheInv, CacheTypeOK, NoRevision, Goto
  <2>3. LookupBy' /\ LookupOK(lookup') /\ lookup' \in Lookups \cup {None}
    BY <1>7 DEF NoRevision, LookupBy, LookupOK
  <2> QED
    BY <1>7, <2>2, <2>3, StillStep DEF CacheInv, CacheTypeOK, NoRevision, SameTime
<1> QED
  BY <1>4, <1>5, <1>6, <1>7

\* Invalidations and a restart only take entries, fetches and requests away.
LEMMA PurgeInv ==
  ASSUME CacheInv, Delete \/ Scan \/ DeleteFound \/ Restart
  PROVE  CacheInv'
<1>1. ASSUME NEW K PROVE /\ Dropped(K) \in [Slots -> Entries \cup {None}]
                         /\ \A k \in Slots : EntryOK(k, Dropped(K)[k])
  BY DEF CacheInv, CacheTypeOK, Dropped, EntryOK
<1>2. ASSUME NEW K PROVE Raised(K) \in [Plain -> Nat]
  BY SourceNames DEF CacheInv, CacheTypeOK, Raised, Versions
<1>3. CASE Delete
  <2>1. purge' \in Purges
    BY <1>3 DEF Delete, CacheInv, CacheTypeOK, Purges
  <2>2. redis' \in [Slots -> Entries \cup {None}] /\ floor' \in [Plain -> Nat]
        /\ \A k \in Slots : EntryOK(k, redis'[k])
    BY <1>1, <1>2, <1>3 DEF Delete, CacheInv, CacheTypeOK
  <2>3. LookupBy'
    BY <1>3 DEF Delete, CacheInv, LookupBy
  <2> QED
    BY <1>3, <2>1, <2>2, <2>3, StillStep DEF Delete, CacheInv, CacheTypeOK, SameTime
<1>4. CASE Scan
  <2>1. purge' \in Purges
    BY <1>4 DEF Scan, NoPurge, Purges, Plain
  <2>2. LookupBy'
    BY <1>4 DEF Scan, CacheInv, LookupBy
  <2> QED
    BY <1>4, <2>1, <2>2, StillStep DEF Scan, CacheInv, CacheTypeOK, SameTime
<1>5. CASE DeleteFound
  <2>1. purge' \in Purges
    BY <1>5 DEF DeleteFound, NoPurge, Purges
  <2>2. redis' \in [Slots -> Entries \cup {None}] /\ floor' \in [Plain -> Nat]
        /\ \A k \in Slots : EntryOK(k, redis'[k])
    BY <1>1, <1>2, <1>5 DEF DeleteFound, CacheInv, CacheTypeOK
  <2>3. LookupBy'
    BY <1>5 DEF DeleteFound, CacheInv, LookupBy
  <2> QED
    BY <1>5, <2>1, <2>2, <2>3, StillStep DEF DeleteFound, CacheInv, CacheTypeOK, SameTime
<1>6. CASE Restart
  <2>1. purge' \in Purges
    BY <1>6 DEF Restart, NoPurge, Purges
  <2>2. /\ fill' \in [Slots -> Fills \cup {None}] /\ \A k \in Slots : FillOK(k, fill'[k])
        /\ memo' \in Memos \cup {None} /\ MemoOK(memo')
        /\ lookup' \in Lookups \cup {None} /\ LookupOK(lookup') /\ LookupBy'
    BY <1>6 DEF Restart, FillOK, MemoOK, LookupOK, LookupBy
  <2>3. reader' \in [Readers -> Requests] /\ \A r \in Readers : RequestOK(reader'[r])
    BY <1>6, IdleFine DEF Restart
  <2> QED
    BY <1>6, <2>1, <2>2, <2>3, StillStep DEF Restart, CacheInv, CacheTypeOK, SameTime
<1> QED
  BY <1>3, <1>4, <1>5, <1>6

\* The callers of a fetch get its value, or an error.
LEMMA ReleaseOK ==
  ASSUME CacheInv, NEW k \in Slots, NEW v \in Versions \cup {None}
  PROVE  /\ Release(k, v) \in [Readers -> Requests]
         /\ \A r \in Readers : RequestOK(Release(k, v)[r])
         /\ lookup # None => Release(k, v)[lookup.by].at = "key"
<1>1. ASSUME NEW r \in Readers, r \in Waiting(k)
      PROVE  Closed(r, v) \in Requests /\ RequestOK(Closed(r, v))
  <2>1. reader[r] \in Requests /\ RequestOK(reader[r]) /\ reader[r].at = "wait"
    BY <1>1 DEF CacheInv, CacheTypeOK, Waiting
  <2>2. Told(r, v) \in Requests /\ RequestOK(Told(r, v))
    BY <2>1 DEF Told, Requests, RequestOK
  <2> QED
    BY <2>2, IdleFine DEF Closed
<1>2. lookup # None => lookup.by \in Readers /\ lookup.by \notin Waiting(k)
  BY DEF CacheInv, CacheTypeOK, LookupBy, Lookups, Waiting
<1> QED
  BY <1>1, <1>2 DEF Release, CacheInv, CacheTypeOK, LookupBy

LEMMA FetchInv ==
  ASSUME CacheInv, NEW k \in Slots
  PROVE  /\ FillRead(k) => CacheInv'
         /\ FillStore(k) => CacheInv'
         /\ FillFail(k) => CacheInv'
<1> DEFINE f == fill[k]
<1>1. (f # None => f \in Fills) /\ FillOK(k, f) /\ clock \in Nat /\ CacheTypeOK
  BY DEF CacheInv, CacheTypeOK
<1>2. SourceOf(k) \in Sources /\ (k \notin Plain => SourceOf(k) = Stats)
      /\ (k \in Plain => SourceOf(k) = Rows)
  BY SourceNames DEF SourceOf
<1>3. ASSUME FillRead(k) PROVE CacheInv'
  <2> DEFINE v == Current(SourceOf(k))
  <2> DEFINE g == [f EXCEPT !.version = v]
  <2>1. v \in Versions /\ f \in Fills
    BY <1>1, <1>2, <1>3 DEF CacheTypeOK, FillRead
  <2>2. g \in Fills
    BY <2>1 DEF Fills
  <2>3. Since(SourceOf(k), v, f.started)
    BY <1>1, <1>2, SinceNow
  <2>4. FillOK(k, g)
    <3>1. g.started = f.started /\ g.version = v /\ v \in Int
      BY <2>1 DEF Fills, Versions
    <3> QED
      BY <1>1, <1>2, <1>3, <2>3, <3>1 DEF FillOK, FillRead
  <2>5. fill' \in [Slots -> Fills \cup {None}] /\ \A i \in Slots : FillOK(i, fill'[i])
    BY <1>3, <2>2, <2>4 DEF CacheInv, CacheTypeOK, FillRead
  <2>6. LookupBy'
    BY <1>3 DEF FillRead, CacheInv, LookupBy
  <2> QED
    BY <1>3, <2>5, <2>6, StillStep DEF CacheInv, CacheTypeOK, FillRead, SameTime
<1>4. ASSUME fill' = [fill EXCEPT ![k] = None]
      PROVE  fill' \in [Slots -> Fills \cup {None}] /\ \A i \in Slots : FillOK(i, fill'[i])
  BY <1>4 DEF CacheInv, CacheTypeOK, FillOK
<1>5. ASSUME FillFail(k) PROVE CacheInv'
  <2>1. /\ reader' \in [Readers -> Requests] /\ \A r \in Readers : RequestOK(reader'[r])
        /\ LookupBy'
    BY <1>5, ReleaseOK DEF FillFail, LookupBy
  <2> QED
    BY <1>4, <1>5, <2>1, StillStep DEF CacheInv, CacheTypeOK, FillFail, SameTime
<1>6. ASSUME FillStore(k) PROVE CacheInv'
  <2>1. f \in Fills /\ f.version \in Versions
    BY <1>1, <1>6 DEF FillStore, Fills
  <2>2. /\ reader' \in [Readers -> Requests] /\ \A r \in Readers : RequestOK(reader'[r])
        /\ LookupBy'
    BY <1>6, <2>1, ReleaseOK DEF FillStore, LookupBy
  <2> DEFINE e == [version |-> f.version, expires |-> clock + Ttl]
  <2>3. e \in Entries
    BY <1>1, <2>1, CacheAssumption DEF Entries
  <2>4. EntryOK(k, e)
    <3>1. k \in Plain => Since(Rows, f.version, f.started)
      BY <1>1, <1>6 DEF FillOK, FillStore
    <3>2. f.started \in Nat /\ clock - FillLimit <= f.started
      BY <1>1, <2>1, <1>6, CacheAssumption DEF FillOK, FillStore, Fills
    <3>3. k \in Plain => Since(Rows, f.version, (clock + Ttl) - Ttl - FillLimit)
      <4>1. (clock + Ttl) - Ttl - FillLimit \in Int /\ (clock + Ttl) - Ttl - FillLimit <= f.started
        BY <1>1, <3>2, CacheAssumption
      <4> QED
        BY <1>1, <3>1, <3>2, <4>1, SinceEarlier, SourceNames
    <3> QED
      BY <1>1, <1>6, <3>3, CacheAssumption DEF EntryOK, FillOK, FillStore
  <2>5. redis' \in [Slots -> Entries \cup {None}] /\ \A i \in Slots : EntryOK(i, redis'[i])
    BY <1>6, <2>3, <2>4 DEF FillStore, CacheInv, CacheTypeOK
  <2> QED
    BY <1>4, <1>6, <2>2, <2>5, StillStep DEF CacheInv, CacheTypeOK, FillStore, SameTime
<1> QED
  BY <1>3, <1>5, <1>6

LEMMA TickInv ==
  ASSUME CacheInv, Tick
  PROVE  CacheInv'
<1>1. clock \in Nat /\ clock' = clock + 1 /\ replaced' = replaced
  BY DEF CacheInv, CacheTypeOK, Tick
<1>2. CacheTypeOK'
  BY <1>1 DEF CacheInv, CacheTypeOK, Tick, Dropped, Current
<1>3. Sorted'
  <2> SUFFICES ASSUME NEW s \in Sources, NEW i \in 1..Len(replaced[s]), NEW j \in 1..Len(replaced[s]),
                      i <= j
               PROVE  replaced[s][i] <= replaced[s][j] /\ replaced[s][j] <= clock + 1
    BY <1>1 DEF Sorted
  <2>1. replaced[s][i] <= replaced[s][j] /\ replaced[s][j] <= clock
    BY DEF CacheInv, Sorted
  <2>2. replaced[s][j] \in Nat
    BY DEF CacheInv, CacheTypeOK, Times
  <2> QED
    BY <1>1, <2>1, <2>2
<1>4. ASSUME NEW k \in Slots PROVE EntryOK(k, redis[k])'
  <2>1. CASE redis'[k] = None
    BY <2>1 DEF EntryOK
  <2>2. CASE redis'[k] # None
    <3>1. redis'[k] = redis[k] /\ redis[k] # None /\ redis[k].expires # clock + 1
      BY <1>1, <2>2 DEF Tick, Dropped
    <3>2. redis[k] \in Entries /\ EntryOK(k, redis[k])
      BY <3>1 DEF CacheInv, CacheTypeOK
    <3> QED
      BY <1>1, <3>1, <3>2, CacheAssumption DEF EntryOK, Entries, Current, Since
  <2> QED
    BY <2>1, <2>2
<1>5. ASSUME NEW k \in Slots PROVE FillOK(k, fill[k])'
  <2>1. (fill[k] # None => fill[k] \in Fills /\ clock < fill[k].started + FillLimit)
        /\ FillOK(k, fill[k]) /\ fill'[k] = fill[k]
    BY DEF CacheInv, CacheTypeOK, Tick
  <2> QED
    BY <1>1, <2>1, CacheAssumption DEF FillOK, Fills, Current, Since
<1>6. MemoOK(memo)'
  BY <1>1 DEF CacheInv, CacheTypeOK, MemoOK, Memos, Tick, Since
<1>7. LookupOK(lookup)'
  <2>1. (lookup # None => lookup \in Lookups /\ clock < lookup.began + ReadLimit)
        /\ LookupOK(lookup) /\ lookup' = lookup
    BY DEF CacheInv, CacheTypeOK, Tick
  <2> QED
    BY <1>1, <2>1, CacheAssumption DEF LookupOK, Lookups, Since
<1>8. ASSUME NEW r \in Readers PROVE RequestOK(reader[r])'
  <2>1. reader[r] \in Requests /\ RequestOK(reader[r]) /\ reader'[r] = reader[r]
    BY DEF CacheInv, CacheTypeOK, Tick
  <2> QED
    BY <1>1, <2>1 DEF RequestOK, Requests, Since
<1>9. LookupBy'
  BY DEF CacheInv, LookupBy, Tick
<1> QED
  BY <1>2, <1>3, <1>4, <1>5, <1>6, <1>7, <1>8, <1>9 DEF CacheInv

LEMMA CommitInv ==
  ASSUME CacheInv, CommitRows \/ CommitRoll
  PROVE  CacheInv'
<1> PICK c \in Sources : /\ Current(c) < MaxVersion
                         /\ replaced' = [replaced EXCEPT ![c] = Append(@, clock)]
  BY SourceNames DEF CommitRows, CommitRoll
<1>0. /\ UNCHANGED <<clock, redis, fill, memo, lookup, reader, floor>>
      /\ purge' \in Purges
  BY DEF CommitRows, CommitRoll, CacheInv, CacheTypeOK, NoPurge, Purges
<1>1. CacheTypeOK /\ clock \in Nat /\ replaced \in [Sources -> Times]
  BY DEF CacheInv, CacheTypeOK
<1>2. ASSUME NEW s \in Sources
      PROVE  /\ s # c => replaced'[s] = replaced[s]
             /\ s = c => replaced'[s] = Append(replaced[s], clock)
             /\ replaced[s] \in Seq(Nat) /\ replaced'[s] \in Seq(Nat)
             /\ Len(replaced[s]) <= Len(replaced'[s]) /\ Len(replaced'[s]) \in Versions
  <2>1. replaced[s] \in Seq(Nat) /\ Len(replaced[s]) \in Versions
    BY <1>1 DEF Times, CacheTypeOK, Current
  <2>2. CASE s = c
    <3>1. replaced'[s] = Append(replaced[s], clock)
      BY <1>1, <2>2
    <3>2. replaced'[s] \in Seq(Nat) /\ Len(replaced'[s]) = Len(replaced[s]) + 1
      BY <1>1, <2>1, <3>1
    <3> QED
      BY <2>1, <2>2, <3>1, <3>2, CacheAssumption DEF Current, Versions
  <2>3. CASE s # c
    BY <1>1, <2>1, <2>3 DEF Versions
  <2> QED
    BY <2>2, <2>3
<1>3. CacheTypeOK'
  <2>1. replaced' \in [Sources -> Times]
    BY <1>1, <1>2 DEF Times
  <2>2. \A s \in Sources : Current(s)' \in Versions
    BY <1>2 DEF Current
  <2> QED
    BY <1>0, <2>1, <2>2 DEF CacheInv, CacheTypeOK
<1>4. Sorted'
  <2> SUFFICES ASSUME NEW s \in Sources,
                      NEW i \in 1..Len(replaced'[s]), NEW j \in 1..Len(replaced'[s]), i <= j
               PROVE  replaced'[s][i] <= replaced'[s][j] /\ replaced'[s][j] <= clock
    BY <1>0 DEF Sorted
  <2>1. \A m, n \in 1..Len(replaced[s]) :
          m <= n => replaced[s][m] <= replaced[s][n] /\ replaced[s][n] <= clock
    BY DEF CacheInv, Sorted
  <2>2. CASE s # c
    BY <1>2, <2>1, <2>2
  <2>3. CASE s = c
    <3>1. replaced[s] \in Seq(Nat) /\ replaced'[s] = Append(replaced[s], clock) /\ Len(replaced[s]) \in Nat
      BY <1>2, <2>3
    <3>2. Len(replaced'[s]) = Len(replaced[s]) + 1
      BY <1>1, <3>1
    <3>3. CASE j <= Len(replaced[s])
      <4>1. i \in 1..Len(replaced[s]) /\ j \in 1..Len(replaced[s])
        BY <3>1, <3>2, <3>3
      <4>2. replaced'[s][i] = replaced[s][i] /\ replaced'[s][j] = replaced[s][j]
        BY <1>1, <3>1, <4>1
      <4> QED
        BY <2>1, <4>1, <4>2
    <3>4. CASE j = Len(replaced[s]) + 1
      <4>1. replaced'[s][j] = clock
        BY <1>1, <3>1, <3>4
      <4>2. CASE i = j
        BY <1>1, <4>1, <4>2
      <4>3. CASE i # j
        <5>1. i \in 1..Len(replaced[s])
          BY <3>1, <3>2, <3>4, <4>3
        <5>2. replaced'[s][i] = replaced[s][i] /\ i <= i
          BY <1>1, <3>1, <5>1
        <5> QED
          BY <1>1, <2>1, <4>1, <5>1, <5>2
      <4> QED
        BY <4>2, <4>3
    <3> QED
      BY <3>1, <3>2, <3>3, <3>4
  <2> QED
    BY <2>2, <2>3
<1>5. ASSUME NEW s \in Sources, NEW v, NEW t \in Int, t <= clock, Since(s, v, t)
      PROVE  Since(s, v, t)'
  BY <1>1, <1>5, SinceCommit
<1>6. ASSUME NEW s \in Sources, NEW v \in Int, v <= Current(s) PROVE v <= Current(s)'
  BY <1>2, <1>6 DEF Current, Versions
<1>7. ASSUME NEW k \in Slots, NEW e \in Entries, EntryOK(k, e), e # None PROVE EntryOK(k, e)'
  <2>1. e.version \in Int /\ e.expires - Ttl - FillLimit \in Int /\ e.expires - Ttl - FillLimit <= clock
    BY <1>1, <1>7, CacheAssumption DEF Entries, Versions, EntryOK
  <2>2. (e.version <= Current(SourceOf(k)))'
    BY <1>6, <1>7, <2>1, SourceNames DEF EntryOK, SourceOf
  <2>3. k \in Plain => Since(Rows, e.version, e.expires - Ttl - FillLimit)'
    BY <1>5, <1>7, <2>1, SourceNames DEF EntryOK
  <2> QED
    BY <1>0, <1>7, <2>2, <2>3 DEF EntryOK
<1>8. ASSUME NEW k \in Slots, NEW f \in Fills, FillOK(k, f), f # None PROVE FillOK(k, f)'
  <2>1. f.started \in Int /\ f.started <= clock /\ (f.version # None => f.version \in Int)
    BY <1>8 DEF Fills, Versions, FillOK
  <2>2. k \notin Plain => (k <= Current(Stats))'
    BY <1>6, <1>8, SourceNames DEF FillOK, Slots, Versions
  <2>3. f.version # None => (f.version <= Current(SourceOf(k)))'
    BY <1>6, <1>8, <2>1, SourceNames DEF FillOK, SourceOf
  <2>4. f.version # None /\ k \in Plain => Since(Rows, f.version, f.started)'
    BY <1>5, <1>8, <2>1, SourceNames DEF FillOK
  <2> QED
    BY <1>0, <1>8, <2>2, <2>3, <2>4 DEF FillOK
<1>9. ASSUME NEW m \in Memos, MemoOK(m), m # None PROVE MemoOK(m)'
  <2>1. m.stored - ReadLimit \in Int /\ m.stored - ReadLimit <= clock
    BY <1>1, <1>9, CacheAssumption DEF Memos, MemoOK
  <2>2. Since(Stats, m.revision, m.stored - ReadLimit)'
    BY <1>5, <1>9, <2>1, SourceNames DEF MemoOK
  <2> QED
    BY <1>0, <1>9, <2>2 DEF MemoOK
<1>10. ASSUME NEW l \in Lookups, LookupOK(l), l # None PROVE LookupOK(l)'
  <2>1. l.began \in Int /\ l.began <= clock
    BY <1>10 DEF Lookups, LookupOK
  <2>2. Since(Stats, l.revision, l.began)'
    BY <1>5, <1>10, <2>1, SourceNames DEF LookupOK
  <2> QED
    BY <1>0, <1>10, <2>2 DEF LookupOK
<1>11. ASSUME NEW q \in Requests, RequestOK(q) PROVE RequestOK(q)'
  <2>1. ASSUME q.at \in {"get", "miss", "wait"}, q.source = Stats
        PROVE  Since(Stats, q.slot, q.asked - Age(Stats))'
    <3>1. q.asked - Age(Stats) \in Int /\ q.asked - Age(Stats) <= clock
      BY <1>1, <1>11, <2>1, CacheAssumption DEF Requests, RequestOK, Age, Rows, Stats
    <3> QED
      BY <1>5, <1>11, <2>1, <3>1, SourceNames DEF RequestOK
  <2> QED
    BY <1>0, <1>11, <2>1 DEF RequestOK, Age
<1>13. \A k \in Slots : EntryOK(k, redis[k])'
  <2> SUFFICES ASSUME NEW k \in Slots, redis[k] # None PROVE EntryOK(k, redis[k])'
    BY <1>0 DEF EntryOK
  <2>1. redis[k] \in Entries /\ EntryOK(k, redis[k])
    BY DEF CacheInv, CacheTypeOK
  <2> QED
    BY <1>0, <1>7, <2>1 DEF EntryOK, Since, Current
<1>14. \A k \in Slots : FillOK(k, fill[k])'
  <2> SUFFICES ASSUME NEW k \in Slots, fill[k] # None PROVE FillOK(k, fill[k])'
    BY <1>0 DEF FillOK
  <2>1. fill[k] \in Fills /\ FillOK(k, fill[k])
    BY DEF CacheInv, CacheTypeOK
  <2> QED
    BY <1>0, <1>8, <2>1 DEF FillOK, Since, Current
<1>15. MemoOK(memo)' /\ LookupOK(lookup)'
  <2>1. (memo # None => memo \in Memos) /\ MemoOK(memo)
        /\ (lookup # None => lookup \in Lookups) /\ LookupOK(lookup)
    BY DEF CacheInv, CacheTypeOK
  <2>2. MemoOK(memo)'
    BY <1>0, <1>9, <2>1 DEF MemoOK, Since
  <2>3. LookupOK(lookup)'
    BY <1>0, <1>10, <2>1 DEF LookupOK, Since
  <2> QED
    BY <2>2, <2>3
<1>16. \A r \in Readers : RequestOK(reader[r])'
  <2> SUFFICES ASSUME NEW r \in Readers PROVE RequestOK(reader[r])'
    OBVIOUS
  <2>1. reader[r] \in Requests /\ RequestOK(reader[r])
    BY DEF CacheInv, CacheTypeOK
  <2> QED
    BY <1>0, <1>11, <2>1 DEF RequestOK, Since
<1>12. LookupBy'
  BY <1>0 DEF CacheInv, LookupBy
<1> QED
  BY <1>3, <1>4, <1>12, <1>13, <1>14, <1>15, <1>16 DEF CacheInv

LEMMA NextInv ==
  ASSUME CacheInv, [Next]_vars
  PROVE  CacheInv'
<1>1. CASE UNCHANGED vars
  BY <1>1, StillStep DEF CacheInv, CacheTypeOK, vars, SameTime, LookupBy
<1>2. CASE Tick
  BY <1>2, TickInv
<1>3. CASE CommitRows \/ CommitRoll
  BY <1>3, CommitInv
<1>4. CASE Delete \/ Scan \/ DeleteFound \/ Restart
  BY <1>4, PurgeInv
<1>5. CASE \E k \in Slots : Fetch(k)
  BY <1>5, FetchInv DEF Fetch
<1>6. CASE \E r \in Readers : Request(r)
  <2> PICK r \in Readers : Request(r)
    BY <1>6
  <2>1. CASE AskStats(r) \/ (\E k \in Plain : AskRows(r, k))
    BY <2>1, AskInv
  <2>2. CASE UseMemo(r) \/ ReadRevision(r) \/ KeepRevision(r) \/ NoRevision(r)
    BY <2>2, MemoInv
  <2>3. CASE Get(r) \/ Join(r) \/ ReadDirect(r) \/ GiveUp(r)
    BY <2>3, GetInv, JoinInv, DirectInv
  <2> QED
    BY <2>1, <2>2, <2>3 DEF Request
<1> QED
  BY <1>1, <1>2, <1>3, <1>4, <1>5, <1>6 DEF Next

-----------------------------------------------------------------------------
(* The refinement. *)

\* An answer to the requests of R, all of source s, is one that StaleReads allows.
LEMMA AnswerStep ==
  ASSUME CacheInv, SameTime, NEW R \in SUBSET Readers, NEW s \in Sources, NEW v \in Versions,
         v <= Current(s),
         \A r \in R : /\ reader[r].source = s /\ reader[r].version = None
                      /\ Since(s, v, reader[r].asked - Age(s)),
         reader' = [r \in Readers |-> IF r \in R THEN Told(r, v) ELSE reader[r]]
  PROVE  Promise!Next
<1>1. v \in 0..Len(replaced[s])
  BY DEF CacheInv, CacheTypeOK, Current, Versions
<1>2. [r \in Readers |-> ViewOf(reader[r])]' =
      [r \in Readers |-> IF r \in R THEN [ViewOf(reader[r]) EXCEPT !.version = v] ELSE ViewOf(reader[r])]
  <2>1. ASSUME NEW r \in Readers, r \in R
        PROVE  ViewOf(Told(r, v)) = [ViewOf(reader[r]) EXCEPT !.version = v]
    <3>1. reader[r] \in Requests
      BY DEF CacheInv, CacheTypeOK
    <3>2. /\ Told(r, v).source = reader[r].source /\ Told(r, v).asked = reader[r].asked
          /\ Told(r, v).version = v
      BY <3>1 DEF Told, Requests
    <3> QED
      BY <3>2 DEF ViewOf
  <2>2. \A r \in Readers : ViewOf(reader[r])' = IF r \in R THEN ViewOf(Told(r, v)) ELSE ViewOf(reader[r])
    BY DEF ViewOf
  <2> QED
    BY <2>1, <2>2
<1>3. \A r \in R : [i \in Readers |-> ViewOf(reader[i])][r] = ViewOf(reader[r])
  OBVIOUS
<1>4. Promise!Answer(R, s, v)
  BY <1>1, <1>2, <1>3 DEF Promise!Answer, Promise!CurrentSince, Since, SameTime, ViewOf, CacheInv, CacheTypeOK
<1> QED
  BY <1>1, <1>4 DEF Promise!Next

LEMMA FailStep ==
  ASSUME SameTime, NEW R \in SUBSET Readers,
         reader' = [r \in Readers |-> IF r \in R THEN Idle ELSE reader[r]]
  PROVE  Promise!Next
<1>1. [r \in Readers |-> ViewOf(reader[r])]' =
      [r \in Readers |-> IF r \in R THEN Promise!NoRequest ELSE ViewOf(reader[r])]
  BY DEF ViewOf, Idle, Promise!NoRequest
<1>2. Promise!Fail(R)
  BY <1>1 DEF Promise!Fail, SameTime
<1> QED
  BY <1>2 DEF Promise!Next

\* Any other step shows nothing.
LEMMA HiddenStep ==
  ASSUME SameTime, \A r \in Readers : ViewOf(reader'[r]) = ViewOf(reader[r])
  PROVE  UNCHANGED Promise!vars
BY DEF SameTime, Promise!vars, ViewOf

\* What waits on a shared fetch may be told what the fetch read.
LEMMA WaitingStep ==
  ASSUME CacheInv, NEW k \in Slots, FillStore(k)
  PROVE  Promise!Next
<1> DEFINE f == fill[k]
<1> DEFINE s == SourceOf(k)
<1>1. /\ f \in Fills /\ FillOK(k, f) /\ f # None /\ f.version \in Versions /\ f.version # None
      /\ clock \in Nat /\ CacheTypeOK
  BY DEF FillStore, CacheInv, CacheTypeOK, Fills
<1>2. s \in Sources /\ f.version <= Current(s)
  BY <1>1, SourceNames DEF FillOK, SourceOf
<1>3. ASSUME NEW r \in Waiting(k)
      PROVE  /\ reader[r].source = s /\ reader[r].version = None
             /\ Since(s, f.version, reader[r].asked - Age(s))
  <2> DEFINE q == reader[r]
  <2>1. q \in Requests /\ RequestOK(q) /\ q.at = "wait" /\ q.slot = k
    BY DEF Waiting, CacheInv, CacheTypeOK
  <2>2. q.source \in Sources /\ q.version = None /\ q.asked \in Nat /\ q.asked <= clock
    BY <2>1 DEF RequestOK, Requests
  <2>3. CASE q.source = Rows
    <3>1. k \in Plain /\ s = Rows
      BY <2>1, <2>3 DEF RequestOK, SourceOf
    <3>2. Since(Rows, f.version, f.started) /\ f.started \in Nat /\ clock <= f.started + FillLimit
      BY <1>1, <3>1 DEF FillOK, Fills
    <3>3. q.asked - Age(Rows) \in Int /\ q.asked - Age(Rows) <= f.started
      BY <1>1, <2>2, <3>2, CacheAssumption DEF Age
    <3> QED
      BY <1>1, <2>2, <2>3, <3>1, <3>2, <3>3, SinceEarlier, SourceNames
  <2>4. CASE q.source = Stats
    <3>1. k \in Versions /\ Since(Stats, k, q.asked - Age(Stats))
      BY <2>1, <2>4 DEF RequestOK
    <3>2. k \notin Plain /\ s = Stats
      BY <3>1, CacheAssumption DEF SourceOf, Versions
    <3>3. k <= f.version /\ f.version \in Int
      BY <1>1, <3>2 DEF FillOK, Versions
    <3>4. q.asked - Age(Stats) \in Int
      BY <2>2, CacheAssumption DEF Age
    <3>5. Sorted
      BY DEF CacheInv
    <3> QED
      BY <1>1, <1>2, <2>2, <2>4, <3>1, <3>2, <3>3, <3>4, <3>5, SinceNewer, SourceNames
  <2> QED
    BY <2>2, <2>3, <2>4 DEF Sources
<1>4. reader' = [r \in Readers |-> IF r \in Waiting(k) THEN Told(r, f.version) ELSE reader[r]]
  BY <1>1, CacheAssumption DEF FillStore, Release, Closed, Versions
<1>5. Waiting(k) \in SUBSET Readers /\ SameTime
  BY DEF Waiting, FillStore, SameTime
<1> QED
  BY <1>1, <1>2, <1>3, <1>4, <1>5, AnswerStep

\* A request alone answered or given up.
LEMMA OneAnswer ==
  ASSUME CacheInv, NEW r \in Readers
  PROVE  /\ Get(r) => Promise!Next \/ UNCHANGED Promise!vars
         /\ ReadDirect(r) => Promise!Next
         /\ GiveUp(r) => Promise!Next
<1> DEFINE q == reader[r]
<1>1. q \in Requests /\ RequestOK(q) /\ clock \in Nat /\ CacheTypeOK /\ Sorted
  BY DEF CacheInv, CacheTypeOK
<1>2. ASSUME NEW v, reader' = [reader EXCEPT ![r] = Told(r, v)]
      PROVE  reader' = [i \in Readers |-> IF i \in {r} THEN Told(i, v) ELSE reader[i]]
  BY <1>1, <1>2 DEF CacheTypeOK
<1>3. ASSUME Get(r) PROVE Promise!Next \/ UNCHANGED Promise!vars
  <2> DEFINE e == redis[q.slot]
  <2>1. q.at = "get" /\ q.source \in Sources /\ q.version = None /\ q.asked \in Nat /\ q.asked <= clock
    BY <1>1, <1>3 DEF Get, RequestOK, Requests
  <2>2. CASE e # None /\ reader' = [reader EXCEPT ![r] = Told(r, e.version)]
    <3>1. q.slot \in Slots /\ (q.source = Rows => q.slot \in Plain)
          /\ (q.source = Stats => q.slot \in Versions /\ q.slot \notin Plain)
      BY <1>1, <2>1, CacheAssumption DEF RequestOK, Sources, Slots, Versions
    <3>2. e \in Entries /\ EntryOK(q.slot, e)
      BY <1>1, <2>2, <3>1 DEF CacheInv, CacheTypeOK
    <3>3. SourceOf(q.slot) = q.source
      BY <2>1, <3>1 DEF SourceOf, Sources
    <3>4. e.version \in Versions /\ e.version \in Int /\ e.version <= Current(q.source)
      BY <2>2, <3>2, <3>3 DEF Entries, EntryOK, Versions
    <3>5. Since(q.source, e.version, q.asked - Age(q.source))
      <4>1. CASE q.source = Rows
        <5>1. Since(Rows, e.version, e.expires - Ttl - FillLimit)
          BY <2>2, <3>1, <3>2, <4>1 DEF EntryOK
        <5>2. e.expires \in Nat /\ clock < e.expires
          BY <2>2, <3>2 DEF EntryOK, Entries
        <5>3. /\ e.expires - Ttl - FillLimit \in Int /\ q.asked - Age(Rows) \in Int
              /\ q.asked - Age(Rows) <= e.expires - Ttl - FillLimit
          BY <1>1, <2>1, <5>2, CacheAssumption DEF Age
        <5> QED
          BY <1>1, <4>1, <5>1, <5>3, SinceEarlier, SourceNames
      <4>2. CASE q.source = Stats
        <5>1. q.slot <= e.version
          BY <2>2, <3>1, <3>2, <4>2 DEF EntryOK
        <5>2. Since(Stats, q.slot, q.asked - Age(Stats))
          BY <1>1, <2>1, <4>2 DEF RequestOK
        <5>3. q.asked - Age(Stats) \in Int
          BY <2>1, CacheAssumption DEF Age
        <5> QED
          BY <1>1, <3>4, <4>2, <5>1, <5>2, <5>3, SinceNewer, SourceNames
      <4> QED
        BY <2>1, <4>1, <4>2 DEF Sources
    <3>6. SameTime /\ {r} \in SUBSET Readers
      BY <1>3 DEF Get, SameTime
    <3>7. reader' = [i \in Readers |-> IF i \in {r} THEN Told(i, e.version) ELSE reader[i]]
      BY <1>2, <2>2
    <3>8. \A i \in {r} : /\ reader[i].source = q.source /\ reader[i].version = None
                         /\ Since(q.source, e.version, reader[i].asked - Age(q.source))
      BY <2>1, <3>5
    <3> HIDE DEF q, e
    <3> QED
      BY <2>1, <3>4, <3>6, <3>7, <3>8, AnswerStep
  <2>3. CASE Goto(r, "miss") \/ Goto(r, "direct")
    BY <1>1, <1>3, <2>3, HiddenStep DEF Get, Goto, ViewOf, SameTime, CacheTypeOK, Requests
  <2> QED
    BY <1>3, <2>2, <2>3 DEF Get
<1>4. ASSUME ReadDirect(r) PROVE Promise!Next
  <2>1. q.source \in Sources /\ q.version = None
    BY <1>1, <1>4 DEF ReadDirect, RequestOK
  <2> DEFINE v == Current(q.source)
  <2>2. v \in Versions /\ v <= Current(q.source)
    BY <1>1, <2>1 DEF CacheTypeOK, Versions
  <2>3. Since(q.source, v, q.asked - Age(q.source))
    BY <1>1, <2>1, SinceNow
  <2>4. reader' = [i \in Readers |-> IF i \in {r} THEN Told(i, v) ELSE reader[i]]
    BY <1>2, <1>4 DEF ReadDirect
  <2>5. SameTime /\ {r} \in SUBSET Readers
    BY <1>4 DEF ReadDirect, SameTime
  <2>6. \A i \in {r} : /\ reader[i].source = q.source /\ reader[i].version = None
                       /\ Since(q.source, v, reader[i].asked - Age(q.source))
    BY <2>1, <2>3
  <2> HIDE DEF q, v
  <2> QED
    BY <2>1, <2>2, <2>4, <2>5, <2>6, AnswerStep
<1>5. ASSUME GiveUp(r) PROVE Promise!Next
  <2>1. reader' = [i \in Readers |-> IF i \in {r} THEN Idle ELSE reader[i]] /\ SameTime
    BY <1>1, <1>5 DEF GiveUp, SameTime, CacheTypeOK
  <2> QED
    BY <2>1, FailStep, {r} \in SUBSET Readers
<1> QED
  BY <1>3, <1>4, <1>5

LEMMA RequestPromise ==
  ASSUME CacheInv, NEW r \in Readers, Request(r)
  PROVE  Promise!Next \/ UNCHANGED Promise!vars
<1>1. reader[r] \in Requests /\ RequestOK(reader[r]) /\ reader \in [Readers -> Requests]
  BY DEF CacheInv, CacheTypeOK
<1>2. ASSUME NEW s \in Sources, reader[r].at = "idle",
             reader' = [reader EXCEPT ![r] = [at |-> reader'[r].at, source |-> s, asked |-> clock,
                                              slot |-> reader'[r].slot, version |-> None]],
             SameTime
      PROVE  Promise!Next
  <2>1. [i \in Readers |-> ViewOf(reader[i])]' =
        [[i \in Readers |-> ViewOf(reader[i])] EXCEPT
           ![r] = [source |-> s, asked |-> clock, version |-> None]]
    <3>1. ViewOf(reader'[r]) = [source |-> s, asked |-> clock, version |-> None]
      <4>1. /\ reader'[r].source = s /\ reader'[r].asked = clock /\ reader'[r].version = None
        BY <1>1, <1>2
      <4> QED
        BY <4>1 DEF ViewOf
    <3>2. \A i \in Readers : i # r => reader'[i] = reader[i]
      BY <1>1, <1>2
    <3> QED
      BY <3>1, <3>2 DEF ViewOf
  <2>2. Promise!Ask(r, s)
    BY <1>2, <2>1 DEF Promise!Ask, SameTime
  <2> QED
    BY <2>2 DEF Promise!Next
<1>3. CASE AskStats(r) \/ (\E k \in Plain : AskRows(r, k))
  <2>1. CASE AskStats(r)
    BY <1>1, <1>2, <2>1, SourceNames DEF AskStats, SameTime
  <2>2. ASSUME NEW k \in Plain, AskRows(r, k) PROVE Promise!Next
    BY <1>1, <1>2, <2>2, SourceNames DEF AskRows, SameTime
  <2> QED
    BY <1>3, <2>1, <2>2
<1>4. CASE UseMemo(r) \/ ReadRevision(r) \/ KeepRevision(r) \/ NoRevision(r) \/ Join(r)
  <2>1. SameTime /\ \A i \in Readers : ViewOf(reader'[i]) = ViewOf(reader[i])
    <3>1. CASE UseMemo(r)
      BY <1>1, <3>1 DEF UseMemo, SameTime, ViewOf, Requests
    <3>2. CASE ReadRevision(r)
      BY <3>2 DEF ReadRevision, SameTime
    <3>3. CASE KeepRevision(r)
      BY <1>1, <3>3 DEF KeepRevision, SameTime, ViewOf, Requests
    <3>4. CASE NoRevision(r)
      BY <1>1, <3>4 DEF NoRevision, Goto, SameTime, ViewOf, Requests
    <3>5. CASE Join(r)
      BY <1>1, <3>5 DEF Join, Goto, SameTime, ViewOf, Requests
    <3> QED
      BY <1>4, <3>1, <3>2, <3>3, <3>4, <3>5
  <2> QED
    BY <2>1, HiddenStep
<1>5. CASE Get(r) \/ ReadDirect(r) \/ GiveUp(r)
  BY <1>5, OneAnswer
<1> QED
  BY <1>3, <1>4, <1>5 DEF Request

LEMMA NextPromise ==
  ASSUME CacheInv, [Next]_vars
  PROVE  Promise!Next \/ UNCHANGED Promise!vars
<1>1. CASE UNCHANGED vars
  BY <1>1, HiddenStep DEF vars, SameTime
<1>2. CASE Tick
  BY <1>2 DEF Tick, Promise!Next, Promise!Tick
<1>3. CASE CommitRows \/ CommitRoll
  <2> PICK s \in Sources : replaced' = [replaced EXCEPT ![s] = Append(@, clock)]
    BY <1>3, SourceNames DEF CommitRows, CommitRoll
  <2>1. Promise!Commit(s)
    BY <1>3 DEF CommitRows, CommitRoll, Promise!Commit
  <2> QED
    BY <2>1 DEF Promise!Next
<1>4. CASE Delete \/ Scan \/ DeleteFound
  BY <1>4, HiddenStep DEF Delete, Scan, DeleteFound, SameTime
<1>5. CASE Restart
  BY <1>5, FailStep, Readers \in SUBSET Readers DEF Restart, SameTime
<1>6. CASE \E k \in Slots : Fetch(k)
  <2> PICK k \in Slots : Fetch(k)
    BY <1>6
  <2>1. CASE FillRead(k)
    BY <2>1, HiddenStep DEF FillRead, SameTime
  <2>2. CASE FillStore(k)
    BY <2>2, WaitingStep
  <2>3. CASE FillFail(k)
    <3>1. /\ SameTime /\ Waiting(k) \in SUBSET Readers
          /\ reader' = [r \in Readers |-> IF r \in Waiting(k) THEN Idle ELSE reader[r]]
      BY <2>3 DEF FillFail, SameTime, Waiting, Release, Closed
    <3> QED
      BY <3>1, FailStep
  <2> QED
    BY <2>1, <2>2, <2>3 DEF Fetch
<1>7. CASE \E r \in Readers : Request(r)
  BY <1>7, RequestPromise
<1> QED
  BY <1>1, <1>2, <1>3, <1>4, <1>5, <1>6, <1>7 DEF Next

LEMMA InitPromise == Init => Promise!Init
BY DEF Init, Promise!Init, ViewOf, Idle, Promise!NoRequest

\* All variables keep their types.
THEOREM CacheTypes == Spec => []CacheTypeOK
<1>1. CacheInv => CacheTypeOK
  BY DEF CacheInv
<1> QED
  BY <1>1, InitInv, NextInv, PTL DEF Spec

\* The cache implements the promise: an answer is never older than an entry's
\* life and one fetch (rows), or the revision's memory and one read of it (stats).
THEOREM Promised == Spec => KeepsPromise
<1>1. CacheInv /\ [Next]_vars => CacheInv' /\ [Promise!Next]_Promise!vars
  BY NextInv, NextPromise
<1> QED
  BY <1>1, InitInv, InitPromise, PTL DEF Spec, KeepsPromise, Promise!Spec

-----------------------------------------------------------------------------
(* Invalidation. *)

\* Nothing read before the version an invalidation left is stored or on its
\* way; and between the scan and its delete, what the scan called quiet and did
\* not find can only be the current version.
FloorInv ==
  /\ \A k \in Plain :
       /\ floor[k] <= Current(Rows)
       /\ redis[k] # None => redis[k].version >= floor[k]
       /\ fill[k] # None /\ fill[k].version # None => fill[k].version >= floor[k]
  /\ purge.at = "found" =>
       \A k \in purge.quiet :
         /\ Undisturbed(k)
         /\ k \notin purge.found /\ redis[k] # None => redis[k].version = Current(Rows)

LEMMA FloorStep ==
  ASSUME CacheInv, FloorInv, [Next]_vars
  PROVE  FloorInv'
<1>1. /\ Current(Rows) \in Int /\ Current(Rows)' \in Int /\ floor \in [Plain -> Nat]
      /\ redis \in [Slots -> Entries \cup {None}] /\ fill \in [Slots -> Fills \cup {None}]
      /\ Plain \subseteq Slots /\ purge \in Purges
  <2>1. CacheInv'
    BY NextInv
  <2> QED
    BY <2>1, SourceNames DEF CacheInv, CacheTypeOK, Versions, Slots
<1>2. \A k \in Plain : SourceOf(k) = Rows
  BY DEF SourceOf
<1>3. \A k \in Plain : /\ redis[k] # None => redis[k].version \in Int
                       /\ fill[k] # None /\ fill[k].version # None =>
                            fill[k].version \in Int /\ fill[k].version <= Current(Rows)
  BY <1>1, <1>2 DEF CacheInv, FillOK, Entries, Fills, Versions
<1>4. CASE UNCHANGED <<replaced, redis, fill, floor, purge>>
  BY <1>4 DEF FloorInv, Undisturbed, Current
<1>5. CASE Tick
  BY <1>1, <1>5 DEF Tick, Dropped, FloorInv, Undisturbed, Current, Purges
<1>6. CASE CommitRows \/ CommitRoll
  <2>1. Current(Rows) <= Current(Rows)'
    BY <1>6, SourceNames DEF CacheInv, CacheTypeOK, CommitRows, CommitRoll, Current, Times
  <2>2. \A k \in Plain : floor[k] <= Current(Rows)'
    BY <1>1, <2>1 DEF FloorInv
  <2>3. purge'.at = "found" => purge' = purge /\ Current(Rows)' = Current(Rows)
    BY <1>6, SourceNames DEF CacheInv, CacheTypeOK, CommitRows, CommitRoll, Current, NoPurge
  <2> QED
    BY <1>6, <2>2, <2>3 DEF FloorInv, CommitRows, CommitRoll, Undisturbed
<1>7. CASE Delete
  <2>1. purge'.at = "scan" /\ Current(Rows)' = Current(Rows) /\ fill' = fill
    BY <1>1, <1>7 DEF Delete, Current, Purges
  <2>2. CASE UNCHANGED <<redis, floor>>
    BY <2>1, <2>2 DEF FloorInv
  <2>3. CASE redis' = Dropped(Named) /\ floor' = Raised({k \in Named : Undisturbed(k)})
    <3>1. ASSUME NEW k \in Plain
          PROVE  /\ floor'[k] <= Current(Rows)
                 /\ redis'[k] # None => redis'[k].version >= floor'[k]
                 /\ fill[k] # None /\ fill[k].version # None => fill[k].version >= floor'[k]
      <4>1. CASE k \in Named /\ Undisturbed(k)
        BY <1>1, <2>3, <4>1 DEF Dropped, Raised, Undisturbed
      <4>2. CASE ~(k \in Named /\ Undisturbed(k))
        BY <1>1, <2>3, <4>2 DEF Dropped, Raised, FloorInv
      <4> QED
        BY <4>1, <4>2
    <3> QED
      BY <2>1, <3>1 DEF FloorInv
  <2> QED
    BY <1>7, <2>2, <2>3 DEF Delete
<1>8. CASE Scan
  BY <1>8 DEF Scan, FloorInv, NoPurge, Undisturbed, Current
<1>9. CASE DeleteFound
  <2>1. purge'.at = "idle" /\ Current(Rows)' = Current(Rows) /\ fill' = fill /\ purge.at = "found"
    BY <1>9 DEF DeleteFound, Current, NoPurge
  <2>2. CASE UNCHANGED <<redis, floor>>
    BY <2>1, <2>2 DEF FloorInv
  <2>3. CASE redis' = Dropped(purge.found) /\ floor' = Raised(purge.quiet)
    <3>1. ASSUME NEW k \in Plain
          PROVE  /\ floor'[k] <= Current(Rows)
                 /\ redis'[k] # None => redis'[k].version >= floor'[k]
                 /\ fill[k] # None /\ fill[k].version # None => fill[k].version >= floor'[k]
      <4>1. CASE k \in purge.quiet
        BY <1>1, <2>1, <2>3, <4>1 DEF Dropped, Raised, Undisturbed, FloorInv
      <4>2. CASE k \notin purge.quiet
        BY <1>1, <2>3, <4>2 DEF Dropped, Raised, FloorInv
      <4> QED
        BY <4>1, <4>2
    <3> QED
      BY <2>1, <3>1 DEF FloorInv
  <2> QED
    BY <1>9, <2>2, <2>3 DEF DeleteFound
<1>10. CASE Restart
  BY <1>1, <1>10 DEF Restart, FloorInv, NoPurge, Current
<1>11. ASSUME NEW k \in Slots, FillRead(k) PROVE FloorInv'
  <2>1. /\ UNCHANGED <<replaced, redis, purge, floor>> /\ Current(Rows)' = Current(Rows)
        /\ fill' = [fill EXCEPT ![k].version = Current(SourceOf(k))]
    BY <1>11 DEF FillRead, Current
  <2>2. ASSUME NEW i \in Plain, fill'[i] # None, fill'[i].version # None
        PROVE  fill'[i] = fill[i] \/ fill'[i].version = Current(Rows)
    BY <1>1, <1>2, <1>11, <2>1, <2>2 DEF FillRead, Fills
  <2>3. ASSUME NEW i \in Plain, Undisturbed(i) PROVE Undisturbed(i)'
    BY <2>1, <2>2, <2>3 DEF Undisturbed
  <2> QED
    BY <1>1, <2>1, <2>2, <2>3 DEF FloorInv, Purges
<1>12. ASSUME NEW k \in Slots, FillStore(k) PROVE FloorInv'
  <2> DEFINE e == [version |-> fill[k].version, expires |-> clock + Ttl]
  <2>1. /\ UNCHANGED <<replaced, purge, floor>> /\ Current(Rows)' = Current(Rows)
        /\ fill' = [fill EXCEPT ![k] = None] /\ fill[k] # None /\ fill[k].version # None
    BY <1>12 DEF FillStore, Current
  <2>2. \A i \in Plain : redis'[i] = redis[i] \/ (i = k /\ redis'[i] = e)
    <3>1. CASE redis' = redis
      BY <3>1
    <3>2. CASE redis' = [redis EXCEPT ![k] = e]
      BY <1>1, <3>2
    <3> QED
      BY <1>12, <3>1, <3>2 DEF FillStore
  <2>3. \A i \in Plain : fill'[i] = None \/ fill'[i] = fill[i]
    BY <1>1, <2>1
  <2>4. ASSUME NEW i \in Plain, redis'[i] # None PROVE redis'[i].version >= floor[i]
    BY <2>1, <2>2, <2>4 DEF FloorInv
  <2>5. ASSUME NEW i \in Plain, Undisturbed(i)
        PROVE  /\ Undisturbed(i)'
               /\ redis'[i] # redis[i] => redis'[i].version = Current(Rows)
    BY <2>1, <2>2, <2>3, <2>5 DEF Undisturbed
  <2> QED
    BY <1>1, <2>1, <2>3, <2>4, <2>5 DEF FloorInv, Purges
<1>13. ASSUME NEW k \in Slots, FillFail(k) PROVE FloorInv'
  BY <1>1, <1>13 DEF FillFail, FloorInv, Undisturbed, Current, Purges
<1>14. ASSUME NEW r \in Readers, Request(r) PROVE FloorInv'
  <2>1. CASE Join(r)
    <3>1. \A i \in Plain : \/ fill'[i] = fill[i]
                           \/ fill'[i] # None /\ fill'[i].version = None
      BY <1>1, <2>1 DEF Join
    <3>2. UNCHANGED <<replaced, redis, purge, floor>>
      BY <2>1 DEF Join
    <3> QED
      BY <1>1, <3>1, <3>2 DEF FloorInv, Undisturbed, Current, Purges
  <2>2. CASE ~Join(r)
    BY <1>4, <1>14, <2>2
    DEF Request, AskRows, AskStats, UseMemo, ReadRevision, KeepRevision, NoRevision, Get, ReadDirect, GiveUp
  <2> QED
    BY <2>1, <2>2
<1> QED
  BY <1>4, <1>5, <1>6, <1>7, <1>8, <1>9, <1>10, <1>11, <1>12, <1>13, <1>14 DEF Next, Fetch, vars

\* An invalidation that reached Redis and raced with no older fetch is final.
THEOREM Invalidated == Spec => []InvalidationHolds
<1>1. Init => FloorInv
  BY SourceNames DEF Init, FloorInv, NoPurge, Current, Slots
<1>2. FloorInv => InvalidationHolds
  BY DEF FloorInv, InvalidationHolds
<1> QED
  BY <1>1, <1>2, InitInv, NextInv, FloorStep, PTL DEF Spec
=============================================================================
