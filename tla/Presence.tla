------------------------------ MODULE Presence -------------------------------
(***************************************************************************)
(* The presence coalescer's observers (internal/presence/coalescer.go),    *)
(* the statements behind it (db/queries/queries.sql), the retention task   *)
(* that prunes observers through it (internal/background/tasks.go) and     *)
(* main's shutdown (cmd/beacon/main.go).                                   *)
(*                                                                         *)
(* A known observer's hearings are bumps in memory, flushed in batches; an *)
(* unknown one is written through and then remembered.  The workers, the   *)
(* flush loop, the prune task and main interleave between the critical     *)
(* sections and the statements.                                            *)
(***************************************************************************)
EXTENDS Integers, FiniteSets

CONSTANTS
  Callers,       \* broker workers, each handling one message of a key at a time
  Keys,          \* observers' public keys
  Iatas, Names,
  NoIata, NoName,
  DeleteAfter,   \* ObserverDeleteAfter
  CallMax,       \* the 30 s timeout of a message's handling
  DBMayFail,     \* whether a statement may fail or time out
  MaxIds,        \* the bound on observer rows ever inserted
  MaxHeard,      \* the bound on hearings and status messages
  MaxClock       \* the bound on time

ASSUME PresenceAssumption ==
  /\ NoIata \notin Iatas /\ NoName \notin Names
  /\ CallMax \in Nat \ {0} /\ DeleteAfter \in Nat /\ CallMax < DeleteAfter
  /\ DBMayFail \in BOOLEAN
  /\ MaxIds \in Nat

Ids == 1..MaxIds
Flushers == {"run", "prune", "main"}

VARIABLES
  clock,
  row,           \* observers table: key -> row
  nextId,
  identities,    \* key -> cached id, name and time
  dirty,         \* id -> bump not yet flushed
  batch,         \* flusher -> bumps it took
  flusher,       \* flusher -> where it is
  cutoff,        \* of the prune under way
  call,          \* caller -> the call under way
  stage,         \* of the process: running, cancelled, drained, exited
  heard,         \* messages so far
  hits,          \* history: id -> hearings in the row or in a bump
  latest,        \* history: id -> time of the last of them
  newest,        \* history: id -> last time an IATA was heard, and which
  lost           \* history: ids with bumps dropped by a failed flush

db == <<row, nextId>>
memory == <<identities, dirty>>
flushing == <<batch, flusher, cutoff>>
history == <<hits, latest, newest, lost>>
vars == <<clock, db, memory, flushing, call, stage, heard, history>>

NoRow == [id |-> 0]
Unknown == [id |-> 0]
Idle == [pc |-> "idle"]
NoBump == [seen |-> 0, count |-> 0, iata |-> NoIata, at |-> 0]
NoBumps == [i \in Ids |-> NoBump]

Init ==
  /\ clock = 1
  /\ row = [k \in Keys |-> NoRow] /\ nextId = 1
  /\ identities = [k \in Keys |-> Unknown] /\ dirty = NoBumps
  /\ batch = [f \in Flushers |-> NoBumps]
  /\ flusher = [f \in Flushers |-> "idle"] /\ cutoff = 0
  /\ call = [c \in Callers |-> Idle]
  /\ stage = "running" /\ heard = 0
  /\ hits = [i \in Ids |-> 0] /\ latest = [i \in Ids |-> 0]
  /\ newest = [i \in Ids |-> [at |-> 0, iatas |-> {NoIata}]] /\ lost = {}

Later(a, b) == IF a >= b THEN a ELSE b

\* A handler's statements are cancelled 30 s after its message was taken.
Tick ==
  /\ clock < MaxClock
  /\ \A c \in Callers : call[c] # Idle => clock < call[c].since + CallMax
  /\ clock' = clock + 1
  /\ UNCHANGED <<db, memory, flushing, call, stage, heard, history>>

-----------------------------------------------------------------------------
(* UpsertObserver.  Status and neighbour messages bring no IATA.           *)

Hearing(c) ==
  /\ stage \in {"running", "cancelled"}
  /\ call[c] = Idle
  /\ heard < MaxHeard /\ heard' = heard + 1

HeardIata(i, iata, at) ==
  IF iata = NoIata \/ at < newest[i].at THEN newest
  ELSE [newest EXCEPT ![i] =
         [at |-> at, iatas |-> {iata} \cup IF at = @.at THEN @.iatas ELSE {}]]

Counted(i, iata, at) ==
  /\ hits' = [hits EXCEPT ![i] = @ + 1]
  /\ latest' = [latest EXCEPT ![i] = clock]
  /\ newest' = HeardIata(i, iata, at)
  /\ UNCHANGED lost

Bumped(b, iata) ==
  [seen |-> clock, count |-> b.count + 1,
   iata |-> IF iata = NoIata THEN b.iata ELSE iata, at |-> IF iata = NoIata THEN b.at ELSE clock]

Hit(c, k, iata) ==
  LET i == identities[k].id IN
  /\ Hearing(c)
  /\ identities[k] # Unknown
  /\ dirty' = [dirty EXCEPT ![i] = Bumped(@, iata)]
  /\ identities' = [identities EXCEPT ![k].seen = clock]
  /\ Counted(i, iata, clock)
  /\ UNCHANGED <<clock, db, flushing, call, stage>>

Miss(c, k, iata) ==
  /\ Hearing(c)
  /\ identities[k] = Unknown
  /\ call' = [call EXCEPT ![c] =
       [pc |-> "missed", key |-> k, iata |-> iata, at |-> clock, since |-> clock]]
  /\ UNCHANGED <<clock, db, memory, flushing, stage, history>>

NewRow(i, iata, at) ==
  [id |-> i, seen |-> clock, count |-> 0, name |-> NoName, iata |-> iata,
   at |-> IF iata = NoIata THEN 0 ELSE at]

IataStale(r, iata, at) == iata # NoIata /\ at > r.at
Upserted(r, iata, at) ==
  [r EXCEPT !.seen = clock, !.count = @ + 1,
            !.iata = IF IataStale(r, iata, at) THEN iata ELSE @,
            !.at = IF iata = NoIata THEN @ ELSE Later(@, at)]

Upsert(k, iata, at) ==
  IF row[k] = NoRow
  THEN /\ nextId \in Ids /\ nextId' = nextId + 1
       /\ row' = [row EXCEPT ![k] = NewRow(nextId, iata, at)]
  ELSE /\ row' = [row EXCEPT ![k] = Upserted(@, iata, at)]
       /\ UNCHANGED nextId

WriteThrough(c) ==
  LET k == call[c].key IN
  /\ call[c].pc = "missed"
  /\ Upsert(k, call[c].iata, call[c].at)
  /\ Counted(row'[k].id, call[c].iata, call[c].at)
  /\ call' = [call EXCEPT ![c] =
       [pc |-> "written", key |-> k, since |-> @.since, id |-> row'[k].id, name |-> row'[k].name]]
  /\ UNCHANGED <<clock, memory, flushing, stage, heard>>

\* A statement that fails has no effect, one that times out may have.
WriteFails(c) ==
  /\ DBMayFail
  /\ call[c].pc = "missed"
  /\ \/ UNCHANGED <<db, history>>
     \/ /\ Upsert(call[c].key, call[c].iata, call[c].at)
        /\ Counted(row'[call[c].key].id, call[c].iata, call[c].at)
  /\ call' = [call EXCEPT ![c] = Idle]
  /\ UNCHANGED <<clock, memory, flushing, stage, heard>>

Remember(c) ==
  /\ call[c].pc = "written"
  /\ identities' = [identities EXCEPT ![call[c].key] =
       [id |-> call[c].id, name |-> call[c].name, seen |-> clock]]
  /\ call' = [call EXCEPT ![c] = Idle]
  /\ UNCHANGED <<clock, db, dirty, flushing, stage, heard, history>>

-----------------------------------------------------------------------------
(* UpdateObserverStatus: the row first, then the cached identity.          *)

\* A statement that timed out may have changed the row: the identity stays.
Status(c, k, name) ==
  /\ Hearing(c)
  /\ row[k] # NoRow
  /\ row' = [row EXCEPT ![k].name = name, ![k].seen = clock]
  /\ \/ call' = [call EXCEPT ![c] = [pc |-> "status", key |-> k, since |-> clock]]
     \/ DBMayFail /\ UNCHANGED call
  /\ UNCHANGED <<clock, nextId, memory, flushing, stage, history>>

DropIdentity(c) ==
  /\ call[c].pc = "status"
  /\ identities' = [identities EXCEPT ![call[c].key] = Unknown]
  /\ call' = [call EXCEPT ![c] = Idle]
  /\ UNCHANGED <<clock, db, dirty, flushing, stage, heard, history>>

-----------------------------------------------------------------------------
(* Flushes: take the bumps under the mutex, write them in one statement.   *)

TakeDirtyKept(f) ==
  /\ batch' = [batch EXCEPT ![f] = dirty]
  /\ UNCHANGED dirty
TakeDirty(f) ==
  /\ batch' = [batch EXCEPT ![f] = dirty]
  /\ dirty' = NoBumps

TouchedLast(r, b) ==
  [r EXCEPT !.seen = b.seen, !.count = @ + b.count,
            !.iata = IF IataStale(r, b.iata, b.at) THEN b.iata ELSE @,
            !.at = Later(@, b.at)]
Touched(r, b) ==
  [r EXCEPT !.seen = Later(@, b.seen), !.count = @ + b.count,
            !.iata = IF IataStale(r, b.iata, b.at) THEN b.iata ELSE @,
            !.at = Later(@, b.at)]

TouchObservers(f) ==
  row' = [k \in Keys |->
    IF row[k] # NoRow /\ batch[f][row[k].id] # NoBump
    THEN Touched(row[k], batch[f][row[k].id]) ELSE row[k]]

Flushed(f, next) ==
  /\ batch' = [batch EXCEPT ![f] = NoBumps]
  /\ flusher' = [flusher EXCEPT ![f] = next]

Written(f, next) ==
  /\ TouchObservers(f) /\ Flushed(f, next)
  /\ UNCHANGED lost

\* A failed batch is dropped; if it timed out the rows may have it.
Dropped(f, next) ==
  /\ Flushed(f, next)
  /\ lost' = lost \cup {i \in Ids : batch[f][i] # NoBump}
  /\ UNCHANGED row \/ TouchObservers(f)

Unlogged == UNCHANGED <<clock, nextId, memory, cutoff, call, stage, heard, hits, latest, newest>>

\* A tick of the loop, even one select prefers to the cancelled context.
RunTake ==
  /\ stage # "exited" /\ flusher["run"] = "idle"
  /\ TakeDirty("run")
  /\ flusher' = [flusher EXCEPT !["run"] = "flushing"]
  /\ UNCHANGED <<clock, db, identities, cutoff, call, stage, heard, history>>

RunFinalTake ==
  /\ stage \in {"cancelled", "drained"} /\ flusher["run"] = "idle"
  /\ TakeDirty("run")
  /\ flusher' = [flusher EXCEPT !["run"] = "final"]
  /\ UNCHANGED <<clock, db, identities, cutoff, call, stage, heard, history>>

\* The loop's flushes use the process's context, the final one its own;
\* nothing runs on after main has returned.
RunWrites ==
  \/ flusher["run"] = "flushing" /\ Written("run", "idle") /\ Unlogged
  \/ flusher["run"] = "final" /\ Written("run", "returned") /\ Unlogged
RunFails ==
  \/ /\ flusher["run"] = "flushing" /\ (DBMayFail \/ stage # "running")
     /\ Dropped("run", "idle") /\ Unlogged
  \/ /\ flusher["run"] = "final" /\ (DBMayFail \/ stage = "exited")
     /\ Dropped("run", "returned") /\ Unlogged

-----------------------------------------------------------------------------
(* DeleteOldObservers: the cached activity joins the bumps, the caches are *)
(* cleared, and the rows are deleted once the batch is written.            *)

CachedSeen(i) ==
  LET keys == {k \in Keys : identities[k] # Unknown /\ identities[k].id = i}
  IN IF keys = {} THEN 0 ELSE identities[CHOOSE k \in keys : TRUE].seen

DirtyOnly(i) == dirty[i]
Merged(i) == [dirty[i] EXCEPT !.seen = Later(@, CachedSeen(i))]

PruneKeepsIdentities ==
  /\ stage = "running" /\ flusher["prune"] = "idle"
  /\ cutoff' = clock - DeleteAfter
  /\ batch' = [batch EXCEPT !["prune"] = [i \in Ids |-> Merged(i)]]
  /\ flusher' = [flusher EXCEPT !["prune"] = "flushing"]
  /\ dirty' = NoBumps
  /\ UNCHANGED <<clock, db, identities, call, stage, heard, history>>

Prune ==
  /\ stage = "running" /\ flusher["prune"] = "idle"
  /\ cutoff' = clock - DeleteAfter
  /\ batch' = [batch EXCEPT !["prune"] = [i \in Ids |-> Merged(i)]]
  /\ flusher' = [flusher EXCEPT !["prune"] = "flushing"]
  /\ dirty' = NoBumps
  /\ identities' = [k \in Keys |-> Unknown]
  /\ UNCHANGED <<clock, db, call, stage, heard, history>>

PruneWrites == flusher["prune"] = "flushing" /\ Written("prune", "deleting") /\ Unlogged

PruneFails ==
  /\ flusher["prune"] = "flushing" /\ (DBMayFail \/ stage # "running")
  /\ Dropped("prune", "idle") /\ Unlogged

\* Rows with retained history or an owner, and locked ones, stay.
PruneDeletes ==
  /\ flusher["prune"] = "deleting"
  /\ \E victims \in SUBSET {k \in Keys : row[k] # NoRow} :
       /\ \A k \in victims : row[k].seen < cutoff
       /\ row' = [k \in Keys |-> IF k \in victims THEN NoRow ELSE row[k]]
  /\ flusher' = [flusher EXCEPT !["prune"] = "idle"]
  /\ UNCHANGED <<clock, nextId, memory, batch, cutoff, call, stage, heard, history>>

-----------------------------------------------------------------------------
(* Shutdown: cancel, wait for the workers, flush, return.                  *)

Cancel ==
  /\ stage = "running" /\ stage' = "cancelled"
  /\ UNCHANGED <<clock, db, memory, flushing, call, heard, history>>

MainTakeUnwaited ==
  /\ stage = "cancelled" /\ flusher["main"] = "idle"
  /\ TakeDirty("main")
  /\ flusher' = [flusher EXCEPT !["main"] = "flushing"]
  /\ UNCHANGED <<clock, db, identities, cutoff, call, stage, heard, history>>

\* ingestWorkers.Wait: the queues are closed and no message is under way.
Drain ==
  /\ stage = "cancelled" /\ stage' = "drained"
  /\ \A c \in Callers : call[c] = Idle
  /\ UNCHANGED <<clock, db, memory, flushing, call, heard, history>>

MainTake ==
  /\ stage = "drained" /\ flusher["main"] = "idle"
  /\ TakeDirty("main")
  /\ flusher' = [flusher EXCEPT !["main"] = "flushing"]
  /\ UNCHANGED <<clock, db, identities, cutoff, call, stage, heard, history>>

MainFlushes ==
  /\ flusher["main"] = "flushing"
  /\ \/ Written("main", "returned")
     \/ DBMayFail /\ Dropped("main", "returned")
  /\ stage' = "exited"
  /\ UNCHANGED <<clock, nextId, memory, cutoff, call, heard, hits, latest, newest>>

-----------------------------------------------------------------------------
Observer(c) ==
  \/ \E k \in Keys, iata \in Iatas \cup {NoIata} : Hit(c, k, iata) \/ Miss(c, k, iata)
  \/ WriteThrough(c) \/ WriteFails(c) \/ Remember(c)
  \/ \E k \in Keys, name \in Names : Status(c, k, name)
  \/ DropIdentity(c)

Next ==
  \/ Tick
  \/ \E c \in Callers : Observer(c)
  \/ RunTake \/ RunFinalTake \/ RunWrites \/ RunFails
  \/ Prune \/ PruneWrites \/ PruneFails \/ PruneDeletes
  \/ Cancel \/ Drain \/ MainTake \/ MainFlushes

Spec == Init /\ [][Next]_vars

-----------------------------------------------------------------------------
(* Properties.                                                             *)

Stored(i) == \E k \in Keys : row[k].id = i
KeyOf(i) == CHOOSE k \in Keys : row[k].id = i
Pending(i) == dirty[i] # NoBump \/ \E f \in Flushers : batch[f][i] # NoBump

\* observation_count counts every hearing after the one that inserted the
\* row, once: in the row, in memory or in the batch of one flusher, unless a
\* failed flush dropped it.
Unflushed(i) ==
  dirty[i].count + batch["run"][i].count + batch["prune"][i].count + batch["main"][i].count
CountConserved ==
  \A i \in Ids : Stored(i) /\ i \notin lost =>
    row[KeyOf(i)].count + Unflushed(i) = hits[i] - 1

\* "GREATEST keeps a late flush from regressing a newer write-through" and "an
\* IATA only replaces one heard earlier": no order of flushes, write-throughs
\* and status updates loses the time of an observer's last hearing, and with
\* nothing pending the row holds an IATA of its newest hearing, unless a
\* failed flush dropped it.
NewestHearingKept ==
  \A i \in Ids : Stored(i) /\ i \notin lost =>
    LET r == row[KeyOf(i)] IN
    /\ \/ r.seen >= latest[i] \/ dirty[i].seen >= latest[i]
       \/ \E f \in Flushers : batch[f][i].seen >= latest[i]
    /\ ~Pending(i) => r.at = newest[i].at /\ r.iata \in newest[i].iatas

\* The identity cache never holds the id of a deleted row, which would make
\* every later insert of that observer's packets fail.
CachedIdLives ==
  \A k \in Keys : identities[k] # Unknown => identities[k].id = row[k].id

\* The prune deletes no observer heard since its cutoff, whatever is still
\* in memory or in flight, give or take the time a status update takes: the
\* update's own time is all that is left of a hearing it overlapped.  (A
\* failed flush excepted: a failed prune forgets the cached times.)
ActiveObserverKept ==
  [][\A k \in Keys :
       row[k] # NoRow /\ row[k].id \notin lost /\ row'[k] = NoRow
         => latest[row[k].id] < cutoff + CallMax]_vars

\* "drops the cached identity, since a status message can set the display
\* name": outside a status update the cached name is the stored one.
CachedNameCurrent ==
  \A k \in Keys :
    identities[k] # Unknown /\ (\A c \in Callers : call[c] # Idle => call[c].pc # "status")
      => identities[k].name = row[k].name

\* Main's flush comes after the last bump: nothing stays behind in memory.
NothingLeftBehind == stage = "exited" => dirty = NoBumps

\* "a clean shutdown loses nothing": where no statement fails of itself,
\* every bump is in its row when the process has ended.
CleanShutdownLosesNothing == stage = "exited" => lost = {}
==============================================================================
