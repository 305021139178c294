--------------------------- MODULE PresenceProofs ----------------------------
(* What holds of the coalescer's observers for every number of workers,    *)
(* observers and IATAs, every retention and handling time, and however     *)
(* statements fail.                                                        *)
EXTENDS Presence, TLAPS

-----------------------------------------------------------------------------
(* The inductive invariant.                                                *)

SomeIata == Iatas \cup {NoIata}
SomeName == Names \cup {NoName}
Bumps == [seen : Nat, count : Nat, iata : SomeIata, at : Nat]
Rows == [id : Ids, seen : Nat, count : Nat, name : SomeName, iata : SomeIata, at : Nat]
Identities == [id : Ids, name : SomeName, seen : Nat]
MissedCalls == [pc : {"missed"}, key : Keys, iata : SomeIata, at : Nat, since : Nat]
WrittenCalls == [pc : {"written"}, key : Keys, since : Nat, id : Ids, name : SomeName]
StatusCalls == [pc : {"status"}, key : Keys, since : Nat]
Calls == {Idle} \cup MissedCalls \cup WrittenCalls \cup StatusCalls

TablesOK ==
  /\ row \in [Keys -> Rows \cup {NoRow}] /\ nextId \in Nat
  /\ identities \in [Keys -> Identities \cup {Unknown}]
BumpsOK ==
  /\ dirty \in [Ids -> Bumps]
  /\ batch \in [Flushers -> [Ids -> Bumps]]
ControlOK ==
  /\ clock \in Nat \ {0} /\ cutoff \in Int
  /\ stage \in {"running", "cancelled", "drained", "exited"}
  /\ flusher \in [Flushers -> {"idle", "flushing", "final", "deleting", "returned"}]
  /\ call \in [Callers -> Calls]
HistoryOK ==
  /\ hits \in [Ids -> Nat] /\ latest \in [Ids -> Nat] /\ lost \in SUBSET Ids
  /\ newest \in [Ids -> [at : Nat, iatas : SUBSET SomeIata]]
TypeOK == TablesOK /\ BumpsOK /\ ControlOK /\ HistoryOK

\* Ids are given out once, and one that was not has no history.
Fresh(i) ==
  /\ dirty[i] = NoBump /\ \A f \in Flushers : batch[f][i] = NoBump
  /\ hits[i] = 0 /\ latest[i] = 0 /\ newest[i] = [at |-> 0, iatas |-> {NoIata}]
IdsGivenOnce ==
  /\ \A k \in Keys : row[k] # NoRow => row[k].id < nextId
  /\ \A j, k \in Keys : row[j] # NoRow /\ row[j].id = row[k].id => j = k
  /\ \A i \in Ids : nextId <= i => Fresh(i)

\* A flusher that is not writing holds no bumps.
NothingHeld ==
  \A f \in Flushers : flusher[f] \in {"idle", "deleting", "returned"} => batch[f] = NoBumps

\* No time lies ahead, a call lasts no longer than its timeout, and a prune's
\* cutoff stays as far back as it was set.
OnTime ==
  /\ \A i \in Ids : latest[i] <= clock /\ newest[i].at <= clock
  /\ \A c \in Callers : call[c] # Idle =>
       call[c].since <= clock /\ clock <= call[c].since + CallMax
  /\ \A c \in Callers : call[c].pc = "missed" => call[c].at = call[c].since
  /\ flusher["prune"] # "idle" => cutoff + DeleteAfter <= clock

\* Whoever holds the id of a row, or is about to, has made the row too young
\* for the prune under way.
RowsHeld ==
  /\ \A k \in Keys : identities[k] # Unknown =>
       /\ row[k] # NoRow /\ identities[k].id = row[k].id
       /\ flusher["prune"] # "idle" => row[k].seen >= cutoff
  /\ \A c \in Callers : call[c].pc \in {"written", "status"} =>
       row[call[c].key] # NoRow /\ row[call[c].key].seen >= call[c].since
  /\ \A c \in Callers : call[c].pc = "written" => row[call[c].key].id = call[c].id

\* Main's flush follows the end of the workers.
MainIsLast ==
  /\ stage = "drained" \/ stage = "exited" => \A c \in Callers : call[c] = Idle
  /\ flusher["main"] # "idle" => stage \in {"drained", "exited"} /\ dirty = NoBumps
  /\ stage = "exited" => flusher["main"] # "idle"

Intact(k) == row[k] # NoRow /\ row[k].id \notin lost

CountKept(k) == row[k].count + Unflushed(row[k].id) = hits[row[k].id] - 1

\* The time of the last hearing is in the row, in memory or in a batch.
SeenKept(k) ==
  LET i == row[k].id IN
  \/ row[k].seen >= latest[i]
  \/ dirty[i].seen >= latest[i]
  \/ \E f \in Flushers : batch[f][i].seen >= latest[i]

\* What a prune would miss of it is no more than a status update's time.
SeenInReach(k) ==
  LET i == row[k].id IN
  \/ row[k].seen + CallMax >= latest[i]
  \/ identities[k] # Unknown /\ identities[k].seen >= latest[i]
  \/ flusher["prune"] = "flushing" /\ batch["prune"][i].seen >= latest[i]

\* The newest IATA, likewise, and nothing that would replace it.
BumpFits(b, n) ==
  /\ b.at <= n.at
  /\ b.at = n.at /\ b.at > 0 => b.iata \in n.iatas
IataKept(k) ==
  LET i == row[k].id
      n == newest[i]
  IN /\ row[k].at <= n.at
     /\ row[k].at = n.at => row[k].iata \in n.iatas
     /\ BumpFits(dirty[i], n) /\ \A f \in Flushers : BumpFits(batch[f][i], n)
     /\ \/ row[k].at = n.at \/ dirty[i].at = n.at
        \/ \E f \in Flushers : batch[f][i].at = n.at
IatasTimed ==
  /\ \A i \in Ids : dirty[i].iata = NoIata => dirty[i].at = 0
  /\ \A f \in Flushers, i \in Ids : batch[f][i].iata = NoIata => batch[f][i].at = 0

KeptAt(k) == CountKept(k) /\ SeenKept(k) /\ SeenInReach(k) /\ IataKept(k)
Kept == \A k \in Keys : Intact(k) => KeptAt(k)

Control == IdsGivenOnce /\ NothingHeld /\ OnTime /\ RowsHeld /\ MainIsLast /\ IatasTimed
Inv == TypeOK /\ Control /\ Kept

-----------------------------------------------------------------------------
(* What the operators of the model return.                                 *)

LEMMA IdsPositive == \A i \in Ids : i \in Nat \ {0} /\ i <= MaxIds
BY PresenceAssumption DEF Ids

LEMMA RowTyped ==
  ASSUME NEW r \in Rows \cup {NoRow}
  PROVE  /\ r # NoRow => r \in Rows
         /\ r # NoRow <=> r.id # 0
         /\ r # NoRow <=> r.id \in Ids
BY IdsPositive DEF Rows, NoRow

LEMMA IdentityTyped ==
  ASSUME NEW r \in Identities \cup {Unknown}
  PROVE  /\ r # Unknown => r \in Identities
         /\ r # Unknown <=> r.id \in Ids
BY IdsPositive DEF Identities, Unknown

LEMMA CallTyped ==
  ASSUME NEW x \in Calls
  PROVE  /\ x.pc = "missed" => x \in MissedCalls
         /\ x.pc = "written" => x \in WrittenCalls
         /\ x.pc = "status" => x \in StatusCalls
         /\ x # Idle <=> x.pc # "idle"
         /\ x # Idle => x.since \in Nat /\ x.key \in Keys /\ x.pc \in {"missed", "written", "status"}
BY DEF Calls, MissedCalls, WrittenCalls, StatusCalls, Idle

LEMMA NoBumpTyped == NoBump \in Bumps /\ NoBumps \in [Ids -> Bumps]
BY DEF NoBump, NoBumps, Bumps, SomeIata

LEMMA BumpedTyped ==
  ASSUME NEW b \in Bumps, NEW iata \in SomeIata, clock \in Nat
  PROVE  Bumped(b, iata) \in Bumps
BY DEF Bumped, Bumps

LEMMA NewRowTyped ==
  ASSUME NEW i \in Ids, NEW iata \in SomeIata, NEW at \in Nat, clock \in Nat
  PROVE  NewRow(i, iata, at) \in Rows
BY DEF NewRow, Rows, SomeName, SomeIata

LEMMA UpsertedTyped ==
  ASSUME NEW r \in Rows, NEW iata \in SomeIata, NEW at \in Nat, clock \in Nat
  PROVE  /\ Upserted(r, iata, at) \in Rows
         /\ Upserted(r, iata, at).id = r.id
         /\ Upserted(r, iata, at).seen = clock
         /\ Upserted(r, iata, at).count = r.count + 1
         /\ Upserted(r, iata, at).name = r.name
         /\ Upserted(r, iata, at).iata = IF iata # NoIata /\ at > r.at THEN iata ELSE r.iata
         /\ Upserted(r, iata, at).at = IF iata # NoIata /\ at > r.at THEN at ELSE r.at
<1> DEFINE i == IF IataStale(r, iata, at) THEN iata ELSE r.iata
           a == IF iata = NoIata THEN r.at ELSE Later(r.at, at)
<1>1. r.count + 1 \in Nat /\ r.at \in Nat /\ r.iata \in SomeIata
  BY DEF Rows
<1>2. /\ i = IF iata # NoIata /\ at > r.at THEN iata ELSE r.iata
      /\ a = IF iata # NoIata /\ at > r.at THEN at ELSE r.at
  BY <1>1 DEF IataStale, Later
<1>3. i \in SomeIata /\ a \in Nat
  BY <1>1, <1>2
<1>4. Upserted(r, iata, at) = [r EXCEPT !.seen = clock, !.count = r.count + 1, !.iata = i, !.at = a]
  BY DEF Upserted
<1> DEFINE w == Upserted(r, iata, at)
<1>0. w = [r EXCEPT !.seen = clock, !.count = r.count + 1, !.iata = i, !.at = a]
  BY <1>4
<1> HIDE DEF i, a, w
<1>5. /\ w \in Rows /\ w.id = r.id /\ w.seen = clock /\ w.count = r.count + 1 /\ w.name = r.name
      /\ w.iata = i /\ w.at = a
  BY <1>0, <1>1, <1>3 DEF Rows
<1> QED
  BY <1>2, <1>5 DEF w

LEMMA TouchedTyped ==
  ASSUME NEW r \in Rows, NEW b \in Bumps
  PROVE  /\ Touched(r, b) \in Rows
         /\ Touched(r, b).id = r.id
         /\ Touched(r, b).seen = IF r.seen >= b.seen THEN r.seen ELSE b.seen
         /\ Touched(r, b).count = r.count + b.count
         /\ Touched(r, b).iata = IF b.iata # NoIata /\ b.at > r.at THEN b.iata ELSE r.iata
         /\ Touched(r, b).at = IF r.at >= b.at THEN r.at ELSE b.at
<1> DEFINE i == IF IataStale(r, b.iata, b.at) THEN b.iata ELSE r.iata
           a == Later(r.at, b.at)
           z == Later(r.seen, b.seen)
<1>1. r.count + b.count \in Nat /\ r.at \in Nat /\ r.iata \in SomeIata /\ b.at \in Nat
      /\ b.iata \in SomeIata /\ r.seen \in Nat /\ b.seen \in Nat
  BY DEF Rows, Bumps
<1>2. /\ i = IF b.iata # NoIata /\ b.at > r.at THEN b.iata ELSE r.iata
      /\ a = IF r.at >= b.at THEN r.at ELSE b.at
      /\ z = IF r.seen >= b.seen THEN r.seen ELSE b.seen
  BY <1>1 DEF IataStale, Later
<1>3. i \in SomeIata /\ a \in Nat /\ z \in Nat
  BY <1>1, <1>2
<1>4. Touched(r, b) = [r EXCEPT !.seen = z, !.count = r.count + b.count, !.iata = i, !.at = a]
  BY DEF Touched
<1> DEFINE w == Touched(r, b)
<1>0. w = [r EXCEPT !.seen = z, !.count = r.count + b.count, !.iata = i, !.at = a]
  BY <1>4
<1> HIDE DEF i, a, z, w
<1>5. /\ w \in Rows /\ w.id = r.id /\ w.seen = z /\ w.count = r.count + b.count /\ w.name = r.name
      /\ w.iata = i /\ w.at = a
  BY <1>0, <1>1, <1>3 DEF Rows
<1> QED
  BY <1>2, <1>5 DEF w

LEMMA MergedTyped ==
  ASSUME NEW i \in Ids, dirty \in [Ids -> Bumps], identities \in [Keys -> Identities \cup {Unknown}]
  PROVE  /\ Merged(i) \in Bumps
         /\ Merged(i).seen = IF dirty[i].seen >= CachedSeen(i) THEN dirty[i].seen ELSE CachedSeen(i)
         /\ Merged(i).count = dirty[i].count
         /\ Merged(i).iata = dirty[i].iata /\ Merged(i).at = dirty[i].at
         /\ CachedSeen(i) \in Nat
         /\ \A k \in Keys : /\ identities[k] # Unknown /\ identities[k].id = i
                            /\ \A j \in Keys : identities[j] # Unknown /\ identities[j].id = i => j = k
                            => CachedSeen(i) = identities[k].seen
<1> DEFINE keys == {k \in Keys : identities[k] # Unknown /\ identities[k].id = i}
<1>1. CASE keys = {}
  <2>1. CachedSeen(i) = 0
    BY <1>1 DEF CachedSeen
  <2> QED
    BY <1>1, <2>1 DEF Merged, Later, Bumps
<1>2. CASE keys # {}
  <2> DEFINE j == CHOOSE k \in keys : TRUE
  <2>1. j \in keys /\ CachedSeen(i) = identities[j].seen
    BY <1>2 DEF CachedSeen
  <2>2. identities[j].seen \in Nat
    BY <2>1, IdentityTyped DEF Identities
  <2>3. \A k \in Keys : /\ identities[k] # Unknown /\ identities[k].id = i
                        /\ \A m \in Keys : identities[m] # Unknown /\ identities[m].id = i => m = k
                        => k = j
    BY <2>1
  <2> HIDE DEF j
  <2> QED
    BY <2>1, <2>2, <2>3 DEF Merged, Later, Bumps
<1> QED
  BY <1>1, <1>2

LEMMA HeardIataTyped ==
  ASSUME HistoryOK, NEW i \in Ids, NEW iata \in SomeIata, NEW at \in Nat
  PROVE  /\ HeardIata(i, iata, at) \in [Ids -> [at : Nat, iatas : SUBSET SomeIata]]
         /\ \A j \in Ids : j # i => HeardIata(i, iata, at)[j] = newest[j]
         /\ iata = NoIata \/ at < newest[i].at => HeardIata(i, iata, at)[i] = newest[i]
         /\ iata # NoIata /\ at >= newest[i].at =>
              /\ HeardIata(i, iata, at)[i].at = at
              /\ iata \in HeardIata(i, iata, at)[i].iatas
              /\ at = newest[i].at => newest[i].iatas \subseteq HeardIata(i, iata, at)[i].iatas
BY DEF HistoryOK, HeardIata

-----------------------------------------------------------------------------
(* Each part of the invariant reads a few variables only.                  *)

LEMMA Untouched ==
  ASSUME Inv
  PROVE  /\ UNCHANGED <<row, nextId, identities>> => TablesOK'
         /\ UNCHANGED <<dirty, batch>> => BumpsOK' /\ IatasTimed'
         /\ UNCHANGED <<hits, latest, lost, newest>> => HistoryOK'
         /\ UNCHANGED <<row, nextId, dirty, batch, hits, latest, newest>> => IdsGivenOnce'
         /\ UNCHANGED <<flusher, batch>> => NothingHeld'
         /\ UNCHANGED <<clock, latest, newest, call, flusher, cutoff>> => OnTime'
         /\ UNCHANGED <<row, identities, flusher, cutoff, call>> => RowsHeld'
         /\ UNCHANGED <<stage, call, flusher, dirty>> => MainIsLast'
         /\ UNCHANGED <<row, identities, dirty, batch, flusher, hits, latest, newest, lost>> => Kept'
<1> USE DEF Inv, TypeOK, Control
<1>1. /\ UNCHANGED <<row, nextId, identities>> => TablesOK'
      /\ UNCHANGED <<dirty, batch>> => BumpsOK' /\ IatasTimed'
      /\ UNCHANGED <<hits, latest, lost, newest>> => HistoryOK'
  BY DEF TablesOK, BumpsOK, IatasTimed, HistoryOK
<1>2. UNCHANGED <<row, nextId, dirty, batch, hits, latest, newest>> => IdsGivenOnce'
  BY DEF IdsGivenOnce, Fresh
<1>3. UNCHANGED <<flusher, batch>> => NothingHeld'
  BY DEF NothingHeld
<1>4. UNCHANGED <<clock, latest, newest, call, flusher, cutoff>> => OnTime'
  BY DEF OnTime
<1>5. UNCHANGED <<row, identities, flusher, cutoff, call>> => RowsHeld'
  BY DEF RowsHeld
<1>6. UNCHANGED <<stage, call, flusher, dirty>> => MainIsLast'
  BY DEF MainIsLast
<1>7. ASSUME UNCHANGED <<row, identities, dirty, batch, flusher, hits, latest, newest, lost>>
      PROVE  Kept'
  BY <1>7 DEF Kept, KeptAt, Intact, CountKept, Unflushed, SeenKept, SeenInReach, IataKept, BumpFits
<1> QED
  BY <1>1, <1>2, <1>3, <1>4, <1>5, <1>6, <1>7

-----------------------------------------------------------------------------
(* Steps that change neither tables nor memory.                            *)

LEMMA TickInv ==
  ASSUME Inv, Tick
  PROVE  Inv'
<1> USE DEF Inv, TypeOK, Control
<1>1. /\ clock' = clock + 1
      /\ \A c \in Callers : call[c] # Idle => clock < call[c].since + CallMax
      /\ UNCHANGED <<row, nextId, identities, dirty, batch, flusher, cutoff, call, stage,
                     hits, latest, newest, lost>>
  BY DEF Tick, db, memory, flushing, history
<1>2. ControlOK'
  BY <1>1 DEF ControlOK
<1>3. OnTime'
  <2>1. \A c \in Callers : call[c] # Idle => call[c].since \in Nat
    BY CallTyped DEF ControlOK
  <2>2. /\ clock \in Nat /\ cutoff \in Int /\ CallMax \in Nat /\ DeleteAfter \in Nat
        /\ \A i \in Ids : latest[i] \in Nat /\ newest[i].at \in Nat
    BY PresenceAssumption DEF ControlOK, HistoryOK
  <2>3. \A c \in Callers : call[c] # Idle => clock + 1 <= call[c].since + CallMax
    BY <1>1, <2>1, <2>2
  <2>4. \A c \in Callers : call[c] # Idle => call[c].since <= clock + 1
    BY <2>1, <2>2 DEF OnTime
  <2>5. \A i \in Ids : latest[i] <= clock + 1 /\ newest[i].at <= clock + 1
    BY <2>2 DEF OnTime
  <2>6. flusher["prune"] # "idle" => cutoff + DeleteAfter <= clock + 1
    BY <2>2 DEF OnTime
  <2> QED
    BY <1>1, <2>3, <2>4, <2>5, <2>6 DEF OnTime
<1> QED
  BY <1>1, <1>2, <1>3, Untouched

LEMMA MissInv ==
  ASSUME Inv, NEW c \in Callers, NEW k \in Keys, NEW iata \in SomeIata, Miss(c, k, iata)
  PROVE  Inv'
<1> USE DEF Inv, TypeOK, Control
<1> DEFINE m == [pc |-> "missed", key |-> k, iata |-> iata, at |-> clock, since |-> clock]
<1>1. /\ stage \in {"running", "cancelled"} /\ call' = [call EXCEPT ![c] = m]
      /\ UNCHANGED <<clock, row, nextId, identities, dirty, batch, flusher, cutoff, stage,
                     hits, latest, newest, lost>>
  BY DEF Miss, Hearing, db, memory, flushing, history
<1>2. m \in MissedCalls /\ m.pc = "missed" /\ m.at = m.since /\ m.since = clock
  BY DEF MissedCalls, ControlOK
<1> HIDE DEF m
<1>3. /\ \A d \in Callers : call'[d] = IF d = c THEN m ELSE call[d]
      /\ ControlOK'
  BY <1>1, <1>2 DEF ControlOK, Calls
<1>4. OnTime'
  <2>1. clock <= clock + CallMax /\ clock <= clock
    BY PresenceAssumption DEF ControlOK
  <2> QED
    BY <1>1, <1>2, <1>3, <2>1 DEF OnTime
<1>5. RowsHeld'
  BY <1>1, <1>2, <1>3 DEF RowsHeld
<1>6. MainIsLast'
  BY <1>1 DEF MainIsLast
<1> QED
  BY <1>1, <1>3, <1>4, <1>5, <1>6, Untouched

\* A call that ends holds nothing any more.
LEMMA EndedCall ==
  ASSUME Inv, NEW c \in Callers, call' = [call EXCEPT ![c] = Idle], stage' = stage,
         clock' = clock, flusher' = flusher, cutoff' = cutoff
  PROVE  /\ ControlOK'
         /\ UNCHANGED <<latest, newest>> => OnTime'
         /\ UNCHANGED <<row, identities>> => RowsHeld'
         /\ UNCHANGED dirty => MainIsLast'
         /\ \A d \in Callers : call'[d] = IF d = c THEN Idle ELSE call[d]
<1> USE DEF Inv, TypeOK, Control
<1>1. \A d \in Callers : call'[d] = IF d = c THEN Idle ELSE call[d]
  BY DEF ControlOK
<1>2. Idle.pc = "idle"
  BY DEF Idle
<1>3. ControlOK'
  BY DEF ControlOK, Calls
<1>4. UNCHANGED <<latest, newest>> => OnTime'
  BY <1>1, <1>2 DEF OnTime
<1>5. UNCHANGED <<row, identities>> => RowsHeld'
  BY <1>1, <1>2 DEF RowsHeld
<1>6. UNCHANGED dirty => MainIsLast'
  BY <1>1 DEF MainIsLast
<1> QED
  BY <1>1, <1>3, <1>4, <1>5, <1>6

LEMMA ShutdownInv ==
  ASSUME Inv, Cancel \/ Drain
  PROVE  Inv'
<1> USE DEF Inv, TypeOK, Control
<1>1. /\ \/ stage = "running" /\ stage' = "cancelled"
         \/ stage = "cancelled" /\ stage' = "drained" /\ \A c \in Callers : call[c] = Idle
      /\ UNCHANGED <<clock, row, nextId, identities, dirty, batch, flusher, cutoff, call,
                     hits, latest, newest, lost>>
  BY DEF Cancel, Drain, db, memory, flushing, history
<1>2. ControlOK'
  BY <1>1 DEF ControlOK
<1>3. MainIsLast'
  BY <1>1 DEF MainIsLast
<1> QED
  BY <1>1, <1>2, <1>3, Untouched

-----------------------------------------------------------------------------
(* Steps of the workers.                                                   *)

\* What is kept of an observer depends on its own row, identity and history.
LEMMA Elsewhere ==
  ASSUME Inv, NEW k \in Keys, row'[k] = row[k], row[k] # NoRow, lost' = lost,
         identities'[k] = identities[k], batch' = batch, flusher' = flusher,
         dirty'[row[k].id] = dirty[row[k].id], hits'[row[k].id] = hits[row[k].id],
         latest'[row[k].id] = latest[row[k].id], newest'[row[k].id] = newest[row[k].id]
  PROVE  (Intact(k) => KeptAt(k))'
<1>1. Intact(k)' => Intact(k)
  BY DEF Intact
<1>2. Intact(k) => KeptAt(k)
  BY DEF Inv, Kept
<1>3. KeptAt(k) => KeptAt(k)'
  BY DEF KeptAt, CountKept, Unflushed, SeenKept, SeenInReach, IataKept, BumpFits
<1> QED
  BY <1>1, <1>2, <1>3

LEMMA HeldRow ==
  ASSUME Inv, NEW k \in Keys, row[k] # NoRow
  PROVE  /\ row[k] \in Rows /\ row[k].id \in Ids /\ row[k].id < nextId
         /\ \A j \in Keys : j # k => row[j].id # row[k].id
<1> USE DEF Inv, TypeOK, Control
<1>1. row[k] \in Rows /\ row[k].id \in Ids
  BY RowTyped DEF TablesOK
<1>2. \A j \in Keys : row[j].id = row[k].id => row[j] # NoRow
  BY <1>1, RowTyped DEF TablesOK
<1> QED
  BY <1>1, <1>2 DEF IdsGivenOnce

LEMMA HitInv ==
  ASSUME Inv, NEW c \in Callers, NEW k \in Keys, NEW iata \in SomeIata, Hit(c, k, iata)
  PROVE  Inv'
<1> USE DEF Inv, TypeOK, Control
<1> DEFINE i == identities[k].id
           b == Bumped(dirty[i], iata)
           x == [identities[k] EXCEPT !.seen = clock]
           N == HeardIata(i, iata, clock)
<1>1. /\ stage \in {"running", "cancelled"} /\ identities[k] # Unknown
      /\ dirty' = [dirty EXCEPT ![i] = b]
      /\ identities' = [identities EXCEPT ![k] = x]
      /\ hits' = [hits EXCEPT ![i] = @ + 1] /\ latest' = [latest EXCEPT ![i] = clock]
      /\ newest' = N
      /\ UNCHANGED <<clock, row, nextId, batch, flusher, cutoff, call, stage, lost>>
  BY DEF Hit, Hearing, Counted, db, flushing
<1>2. row[k] # NoRow /\ i = row[k].id /\ i \in Ids /\ i < nextId
      /\ row[k] \in Rows /\ \A j \in Keys : j # k => row[j].id # i
  BY <1>1, HeldRow DEF RowsHeld
<1>3. /\ clock \in Nat \ {0} /\ dirty[i] \in Bumps /\ b \in Bumps
      /\ hits[i] \in Nat /\ latest[i] \in Nat /\ newest[i].at \in Nat
      /\ newest[i].at <= clock /\ latest[i] <= clock
  BY <1>2, BumpedTyped DEF ControlOK, BumpsOK, HistoryOK, OnTime
<1>4. /\ b.seen = clock /\ b.count = dirty[i].count + 1
      /\ b.iata = (IF iata = NoIata THEN dirty[i].iata ELSE iata)
      /\ b.at = (IF iata = NoIata THEN dirty[i].at ELSE clock)
  BY DEF Bumped
<1>5. x \in Identities /\ x # Unknown /\ x.id = i /\ x.seen = clock
  <2>1. identities[k] \in Identities
    BY <1>1, IdentityTyped DEF TablesOK
  <2>2. x \in Identities /\ x.id = i /\ x.seen = clock
    BY <1>3, <2>1 DEF Identities
  <2> HIDE DEF x
  <2>3. x # Unknown
    BY <1>2, <2>2, IdsPositive DEF Unknown
  <2> QED
    BY <2>2, <2>3
<1>6. /\ N \in [Ids -> [at : Nat, iatas : SUBSET SomeIata]]
      /\ \A j \in Ids : j # i => N[j] = newest[j]
      /\ iata = NoIata => N[i] = newest[i]
      /\ iata # NoIata => /\ N[i].at = clock /\ iata \in N[i].iatas
                          /\ clock = newest[i].at => newest[i].iatas \subseteq N[i].iatas
  BY <1>2, <1>3, HeardIataTyped
<1> HIDE DEF i, b, x, N
<1>7. TypeOK'
  <2>1. TablesOK'
    BY <1>1, <1>5 DEF TablesOK
  <2>2. BumpsOK'
    BY <1>1, <1>3 DEF BumpsOK
  <2>3. ControlOK'
    BY <1>1 DEF ControlOK
  <2>4. HistoryOK'
    <3>1. hits' \in [Ids -> Nat] /\ latest' \in [Ids -> Nat]
      BY <1>1, <1>2, <1>3 DEF HistoryOK
    <3> QED
      BY <1>1, <1>6, <3>1 DEF HistoryOK
  <2> QED
    BY <2>1, <2>2, <2>3, <2>4
<1>8. IdsGivenOnce'
  <2>1. \A j \in Ids : nextId <= j => j # i
    BY <1>2, IdsPositive DEF TablesOK
  <2>2. \A j \in Ids : nextId <= j => Fresh(j)'
    BY <1>1, <1>6, <2>1 DEF IdsGivenOnce, Fresh, BumpsOK, HistoryOK
  <2> QED
    BY <1>1, <2>2 DEF IdsGivenOnce
<1>9. OnTime'
  <2>1. \A j \in Ids : latest'[j] <= clock /\ newest'[j].at <= clock
    BY <1>1, <1>3, <1>6 DEF OnTime, HistoryOK
  <2> QED
    BY <1>1, <2>1 DEF OnTime
<1>10. RowsHeld'
  BY <1>1, <1>2, <1>5 DEF RowsHeld, TablesOK
<1>11. MainIsLast'
  BY <1>1 DEF MainIsLast
<1>12. IatasTimed'
  BY <1>1, <1>2, <1>3, <1>4 DEF IatasTimed, BumpsOK
<1>13. ASSUME NEW j \in Keys, j # k
       PROVE  (Intact(j) => KeptAt(j))'
  <2>1. CASE row[j] = NoRow
    BY <1>1, <2>1 DEF Intact
  <2>2. CASE row[j] # NoRow
    <3>1. row[j].id \in Ids /\ row[j].id # i
      BY <1>2, <1>13, <2>2, HeldRow
    <3> QED
      BY <1>1, <1>2, <1>6, <1>13, <2>2, <3>1, Elsewhere DEF BumpsOK, HistoryOK, TablesOK
  <2> QED
    BY <2>1, <2>2
<1>14. ASSUME Intact(k)' PROVE KeptAt(k)'
  <2>1. KeptAt(k)
    BY <1>1, <1>14 DEF Intact, Kept
  <2>2. /\ row'[k] = row[k] /\ row[k].id = i /\ dirty'[i] = b /\ hits'[i] = hits[i] + 1
        /\ latest'[i] = clock /\ newest'[i] = N[i] /\ batch' = batch /\ identities'[k] = x
    BY <1>1, <1>2 DEF BumpsOK, HistoryOK, TablesOK
  <2>3. \A f \in Flushers : batch[f][i] \in Bumps
    BY <1>2 DEF BumpsOK
  <2>4. CountKept(k)'
    <3>1. /\ row[k].count \in Nat /\ dirty[i].count \in Nat
          /\ batch["run"][i].count \in Nat /\ batch["prune"][i].count \in Nat
          /\ batch["main"][i].count \in Nat
      BY <1>2, <1>3, <2>3 DEF Rows, Bumps, Flushers
    <3>2. Unflushed(row[k].id)' = Unflushed(i) + 1
      BY <1>3, <1>4, <2>2, <3>1 DEF Unflushed
    <3>3. Unflushed(i) \in Nat /\ row[k].count + Unflushed(i) = hits[i] - 1
      BY <1>2, <2>1, <3>1 DEF KeptAt, CountKept, Unflushed
    <3> QED
      BY <1>3, <2>2, <3>1, <3>2, <3>3 DEF CountKept
  <2>5. SeenKept(k)'
    BY <1>3, <1>4, <2>2 DEF SeenKept
  <2>6. SeenInReach(k)'
    BY <1>3, <1>5, <2>2 DEF SeenInReach
  <2>7. IataKept(k)'
    <3>1. /\ row[k].at \in Nat /\ dirty[i].at \in Nat
          /\ \A f \in Flushers : batch[f][i].at \in Nat
      BY <1>2, <1>3, <2>3 DEF Rows, Bumps
    <3>2. CASE iata = NoIata
      BY <1>4, <1>6, <2>1, <2>2, <3>2 DEF KeptAt, IataKept, BumpFits
    <3>3. CASE iata # NoIata
      BY <1>3, <1>4, <1>6, <2>1, <2>2, <3>1, <3>3 DEF KeptAt, IataKept, BumpFits
    <3> QED
      BY <3>2, <3>3
  <2> QED
    BY <2>4, <2>5, <2>6, <2>7 DEF KeptAt
<1>15. Kept'
  BY <1>13, <1>14 DEF Kept
<1> QED
  BY <1>1, <1>7, <1>8, <1>9, <1>10, <1>11, <1>12, <1>15, Untouched

\* What an upsert of a key's row leaves there.
LEMMA UpsertEffect ==
  ASSUME Inv, NEW k \in Keys, NEW iata \in SomeIata, NEW at \in Nat, Upsert(k, iata, at)
  PROVE  LET r == row'[k]
             i == r.id
         IN  /\ r \in Rows /\ i \in Ids /\ r # NoRow /\ r.seen = clock
             /\ row' = [row EXCEPT ![k] = r] /\ \A j \in Keys : j # k => row'[j] = row[j]
             /\ \/ /\ row[k] = NoRow /\ i = nextId /\ nextId' = nextId + 1
                   /\ r.count = 0 /\ r.iata = iata /\ r.at = IF iata = NoIata THEN 0 ELSE at
                \/ /\ row[k] # NoRow /\ row[k] \in Rows /\ i = row[k].id /\ nextId' = nextId
                   /\ r.count = row[k].count + 1
                   /\ r.iata = IF iata # NoIata /\ at > row[k].at THEN iata ELSE row[k].iata
                   /\ r.at = IF iata # NoIata /\ at > row[k].at THEN at ELSE row[k].at
<1> USE DEF Inv, TypeOK, Control
<1>0. clock \in Nat
  BY DEF ControlOK
<1>1. CASE row[k] = NoRow
  <2> DEFINE r == NewRow(nextId, iata, at)
  <2>1. nextId \in Ids /\ nextId' = nextId + 1 /\ row' = [row EXCEPT ![k] = r]
    BY <1>1 DEF Upsert
  <2>2. r \in Rows
    BY <1>0, <2>1, NewRowTyped
  <2>3. /\ r.id = nextId /\ r.seen = clock /\ r.count = 0 /\ r.iata = iata
        /\ r.at = IF iata = NoIata THEN 0 ELSE at
    BY DEF NewRow
  <2> HIDE DEF r
  <2>4. row'[k] = r /\ \A j \in Keys : j # k => row'[j] = row[j]
    BY <2>1 DEF TablesOK
  <2>5. r # NoRow
    BY <2>2, RowTyped DEF Rows
  <2> QED
    BY <1>1, <2>1, <2>2, <2>3, <2>4, <2>5
<1>2. CASE row[k] # NoRow
  <2> DEFINE r == Upserted(row[k], iata, at)
  <2>1. nextId' = nextId /\ row' = [row EXCEPT ![k] = r]
    BY <1>2 DEF Upsert
  <2>2. row[k] \in Rows
    BY <1>2, HeldRow
  <2>3. /\ r \in Rows /\ r.id = row[k].id /\ r.seen = clock /\ r.count = row[k].count + 1
        /\ r.iata = (IF iata # NoIata /\ at > row[k].at THEN iata ELSE row[k].iata)
        /\ r.at = (IF iata # NoIata /\ at > row[k].at THEN at ELSE row[k].at)
    BY <1>0, <2>2, UpsertedTyped
  <2> HIDE DEF r
  <2>4. row'[k] = r /\ \A j \in Keys : j # k => row'[j] = row[j]
    BY <2>1 DEF TablesOK
  <2>5. r # NoRow /\ r.id \in Ids
    BY <2>3, RowTyped DEF Rows
  <2> QED
    BY <1>2, <2>1, <2>2, <2>3, <2>4, <2>5
<1> QED
  BY <1>1, <1>2

\* A statement that wrote a row, whether its caller goes on or not.
WritesRow(c, k, iata, at, y) ==
  /\ call[c].pc = "missed" /\ k = call[c].key /\ iata = call[c].iata /\ at = call[c].at
  /\ Upsert(k, iata, at) /\ Counted(row'[k].id, iata, at)
  /\ call' = [call EXCEPT ![c] = y]
  /\ \/ y = Idle
     \/ y = [pc |-> "written", key |-> k, since |-> call[c].since,
             id |-> row'[k].id, name |-> row'[k].name]
  /\ UNCHANGED <<clock, identities, dirty, batch, flusher, cutoff, stage>>

LEMMA UpsertInv ==
  ASSUME Inv, NEW c \in Callers, NEW k \in Keys, NEW iata \in SomeIata, NEW at \in Nat,
         NEW y, WritesRow(c, k, iata, at, y)
  PROVE  Inv'
<1> USE DEF Inv, TypeOK, Control
<1>0. /\ call' = [call EXCEPT ![c] = y]
      /\ UNCHANGED <<clock, identities, dirty, batch, flusher, cutoff, stage>>
  BY DEF WritesRow
<1>1. /\ call[c] # Idle /\ call[c].since \in Nat /\ call[c].since <= clock /\ at <= clock
      /\ clock <= call[c].since + CallMax /\ clock \in Nat \ {0}
  BY CallTyped DEF MissedCalls, ControlOK, OnTime, WritesRow
<1>a. PICK r : r = row'[k]
  OBVIOUS
<1>b. PICK i : i = r.id
  OBVIOUS
<1>2. /\ r \in Rows /\ i \in Ids /\ r # NoRow /\ r.seen = clock
      /\ row' = [row EXCEPT ![k] = r] /\ \A j \in Keys : j # k => row'[j] = row[j]
      /\ row'[k] = r /\ r.id = i
  BY <1>a, <1>b, UpsertEffect DEF WritesRow
<1>3. \/ /\ row[k] = NoRow /\ i = nextId /\ nextId' = nextId + 1
         /\ r.count = 0 /\ r.iata = iata /\ r.at = IF iata = NoIata THEN 0 ELSE at
      \/ /\ row[k] # NoRow /\ row[k] \in Rows /\ i = row[k].id /\ nextId' = nextId
         /\ r.count = row[k].count + 1
         /\ r.iata = IF iata # NoIata /\ at > row[k].at THEN iata ELSE row[k].iata
         /\ r.at = IF iata # NoIata /\ at > row[k].at THEN at ELSE row[k].at
  BY <1>a, <1>b, UpsertEffect DEF WritesRow
<1>c. PICK N : N = HeardIata(i, iata, at)
  OBVIOUS
<1>4. /\ hits' = [hits EXCEPT ![i] = @ + 1] /\ latest' = [latest EXCEPT ![i] = clock]
      /\ newest' = N /\ lost' = lost
  BY <1>a, <1>b, <1>c DEF Counted, WritesRow
<1>5. /\ N \in [Ids -> [at : Nat, iatas : SUBSET SomeIata]]
      /\ \A j \in Ids : j # i => N[j] = newest[j]
      /\ iata = NoIata \/ at < newest[i].at => N[i] = newest[i]
      /\ iata # NoIata /\ at >= newest[i].at =>
           /\ N[i].at = at /\ iata \in N[i].iatas
           /\ at = newest[i].at => newest[i].iatas \subseteq N[i].iatas
  BY <1>2, <1>c, HeardIataTyped
<1>6. /\ hits[i] \in Nat /\ newest[i].at \in Nat /\ newest[i].at <= clock /\ nextId \in Nat
      /\ \A f \in Flushers : batch[f][i] \in Bumps
      /\ dirty[i] \in Bumps
  BY <1>2 DEF HistoryOK, OnTime, TablesOK, BumpsOK
<1>7. /\ y \in Calls
      /\ y # Idle => y.pc = "written" /\ y.key = k /\ y.id = i /\ y.since = call[c].since
      /\ y = Idle => y.pc = "idle"
  BY <1>1, <1>2, CallTyped DEF Calls, WrittenCalls, Idle, Rows, WritesRow
<1>8. \A d \in Callers : call'[d] = IF d = c THEN y ELSE call[d]
  BY <1>0 DEF ControlOK
<1>9. \A j \in Keys : j # k => row[j].id # i
  <2>1. CASE row[k] = NoRow
    <3>1. i = nextId
      BY <1>3, <2>1
    <3>2. \A j \in Keys : row[j].id = i => row[j] # NoRow
      BY <1>2, RowTyped DEF TablesOK
    <3>3. \A j \in Keys : row[j] # NoRow => row[j].id < nextId /\ row[j].id \in Nat
      BY HeldRow, IdsPositive
    <3> QED
      BY <1>6, <3>1, <3>2, <3>3
  <2>2. CASE row[k] # NoRow
    BY <1>1, <1>3, <2>2, HeldRow
  <2> QED
    BY <2>1, <2>2
<1>10. row[k] = NoRow => Fresh(i)
  BY <1>2, <1>3, <1>6 DEF IdsGivenOnce
<1>11. TypeOK'
  <2>1. TablesOK'
    BY <1>0, <1>1, <1>2, <1>3, <1>6 DEF TablesOK
  <2>2. ControlOK'
    BY <1>0, <1>7 DEF ControlOK
  <2>3. HistoryOK'
    <3>1. hits' \in [Ids -> Nat] /\ latest' \in [Ids -> Nat]
      BY <1>1, <1>2, <1>4, <1>6 DEF HistoryOK
    <3> QED
      BY <1>4, <1>5, <3>1 DEF HistoryOK
  <2> QED
    BY <1>0, <2>1, <2>2, <2>3, Untouched
<1>12. IdsGivenOnce'
  <2>1. i < nextId' /\ nextId <= nextId' /\ nextId' \in Nat
    BY <1>1, <1>3, <1>6, HeldRow, IdsPositive
  <2>2. \A j \in Keys : row'[j] # NoRow => row'[j].id < nextId'
    <3>1. \A j \in Keys : row[j] # NoRow => row[j].id < nextId /\ row[j].id \in Nat
      BY HeldRow, IdsPositive
    <3> QED
      BY <1>2, <1>6, <2>1, <3>1
  <2>3. \A j, m \in Keys : row'[j] # NoRow /\ row'[j].id = row'[m].id => j = m
    BY <1>2, <1>9 DEF IdsGivenOnce
  <2>4. \A j \in Ids : nextId' <= j => Fresh(j)'
    <3>1. \A j \in Ids : nextId' <= j => j # i /\ nextId <= j
      BY <1>2, <1>6, <2>1, IdsPositive
    <3> QED
      BY <1>0, <1>4, <1>5, <3>1 DEF IdsGivenOnce, Fresh, HistoryOK
  <2> QED
    BY <2>2, <2>3, <2>4 DEF IdsGivenOnce
<1>13. OnTime'
  <2>1. \A j \in Ids : latest'[j] <= clock /\ newest'[j].at <= clock
    BY <1>1, <1>2, <1>4, <1>5, <1>6 DEF OnTime, HistoryOK
  <2> QED
    BY <1>0, <1>1, <1>7, <1>8, <2>1 DEF OnTime
<1>14. RowsHeld'
  <2>1. flusher["prune"] # "idle" => clock >= cutoff
    BY <1>1, PresenceAssumption DEF OnTime, ControlOK
  <2>2. \A d \in Callers : call[d] # Idle => call[d].since <= clock /\ call[d].key \in Keys
    BY CallTyped DEF OnTime, ControlOK
  <2>3. /\ row[k] = NoRow => identities[k] = Unknown
        /\ \A d \in Callers : /\ row[k] = NoRow /\ call[d].pc \in {"written", "status"}
                              => call[d].key # k
    BY <1>1 DEF RowsHeld
  <2>4. \A j \in Keys : identities[j] # Unknown =>
          /\ row'[j] # NoRow /\ identities[j].id = row'[j].id
          /\ flusher["prune"] # "idle" => row'[j].seen >= cutoff
    BY <1>2, <1>3, <2>1, <2>3 DEF RowsHeld
  <2>5. \A d \in Callers : call[d].pc \in {"written", "status"} =>
          /\ row'[call[d].key] # NoRow /\ row'[call[d].key].seen >= call[d].since
          /\ call[d].pc = "written" => row'[call[d].key].id = call[d].id
    <3>1. \A d \in Callers : call[d].pc \in {"written", "status"} => call[d] # Idle
      BY DEF Idle
    <3> QED
      BY <1>2, <1>3, <2>2, <2>3, <3>1 DEF RowsHeld
  <2> QED
    BY <1>0, <1>1, <1>2, <1>7, <1>8, <2>4, <2>5 DEF RowsHeld
<1>15. MainIsLast'
  BY <1>0, <1>1 DEF MainIsLast
<1>16. ASSUME NEW j \in Keys, j # k
       PROVE  (Intact(j) => KeptAt(j))'
  <2>1. CASE row[j] = NoRow
    BY <1>2, <1>4, <1>16, <2>1 DEF Intact
  <2>2. CASE row[j] # NoRow
    <3>1. row[j].id \in Ids /\ row[j].id # i
      BY <1>9, <1>16, <2>2, HeldRow
    <3> QED
      BY <1>0, <1>2, <1>4, <1>5, <1>16, <2>2, <3>1, Elsewhere DEF HistoryOK
  <2> QED
    BY <2>1, <2>2
<1>17. ASSUME Intact(k)' PROVE KeptAt(k)'
  <2>1. row[k] # NoRow => KeptAt(k)
    BY <1>2, <1>3, <1>4, <1>17 DEF Intact, Kept
  <2>2. /\ row'[k] = r /\ r.id = i /\ hits'[i] = hits[i] + 1
        /\ latest'[i] = clock /\ newest'[i] = N[i]
    BY <1>2, <1>4 DEF HistoryOK
  <2>3. /\ dirty[i].count \in Nat /\ batch["run"][i].count \in Nat
        /\ batch["prune"][i].count \in Nat /\ batch["main"][i].count \in Nat
        /\ dirty[i].at \in Nat /\ \A f \in Flushers : batch[f][i].at \in Nat
    BY <1>6 DEF Bumps, Flushers
  <2>4. CountKept(k)'
    <3>1. Unflushed(row[k].id)' = Unflushed(i) /\ Unflushed(i) \in Nat
      BY <1>0, <1>2, <2>3 DEF Unflushed
    <3>2. CASE row[k] = NoRow
      <4>1. dirty[i].count = 0 /\ \A f \in Flushers : batch[f][i].count = 0
        BY <1>10, <3>2 DEF Fresh, NoBump
      <4>2. Unflushed(i) = 0
        BY <4>1 DEF Unflushed, Flushers
      <4> QED
        BY <1>3, <1>10, <2>2, <3>1, <3>2, <4>2 DEF CountKept, Fresh
    <3>3. CASE row[k] # NoRow
      <4>1. row[k].count + Unflushed(i) = hits[i] - 1 /\ row[k].count \in Nat
        BY <1>3, <2>1, <3>3 DEF KeptAt, CountKept, Rows
      <4> QED
        BY <1>3, <1>6, <2>2, <3>1, <3>3, <4>1 DEF CountKept
    <3> QED
      BY <3>2, <3>3
  <2>5. SeenKept(k)' /\ SeenInReach(k)'
    BY <1>0, <1>1, <1>2, <2>2, PresenceAssumption DEF SeenKept, SeenInReach
  <2>6. IataKept(k)'
    <3>1. CASE row[k] = NoRow
      <4>1. /\ dirty[i].at = 0 /\ \A f \in Flushers : batch[f][i].at = 0
            /\ newest[i].at = 0 /\ newest[i].iatas = {NoIata}
        BY <1>10, <3>1 DEF Fresh, NoBump
      <4> QED
        BY <1>0, <1>1, <1>2, <1>3, <1>5, <2>2, <3>1, <4>1 DEF IataKept, BumpFits
    <3>2. CASE row[k] # NoRow
      <4>1. IataKept(k) /\ row[k].at \in Nat /\ row[k].id = i
        BY <1>3, <2>1, <3>2 DEF KeptAt, Rows
      <4>2. CASE iata = NoIata \/ at < newest[i].at
        BY <1>0, <1>1, <1>2, <1>3, <1>5, <1>6, <2>2, <2>3, <3>2, <4>1, <4>2 DEF IataKept, BumpFits
      <4>3. CASE iata # NoIata /\ at >= newest[i].at
        BY <1>0, <1>1, <1>2, <1>3, <1>5, <1>6, <2>2, <2>3, <3>2, <4>1, <4>3 DEF IataKept, BumpFits
      <4> QED
        BY <1>1, <1>6, <4>2, <4>3
    <3> QED
      BY <3>1, <3>2
  <2> QED
    BY <2>4, <2>5, <2>6 DEF KeptAt
<1>18. Kept'
  BY <1>16, <1>17 DEF Kept
<1> QED
  BY <1>11, <1>12, <1>13, <1>14, <1>15, <1>18, <1>0, Untouched

LEMMA WriteThroughInv ==
  ASSUME Inv, NEW c \in Callers, WriteThrough(c)
  PROVE  Inv'
<1> USE DEF Inv, TypeOK, Control
<1>1. call[c].pc = "missed" /\ call[c] \in MissedCalls
  BY CallTyped DEF WriteThrough, ControlOK
<1>2. PICK k \in Keys, iata \in SomeIata, at \in Nat :
        k = call[c].key /\ iata = call[c].iata /\ at = call[c].at
  BY <1>1 DEF MissedCalls
<1>3. PICK y : y = [pc |-> "written", key |-> k, since |-> call[c].since,
                    id |-> row'[k].id, name |-> row'[k].name]
  OBVIOUS
<1>4. WritesRow(c, k, iata, at, y)
  BY <1>1, <1>2, <1>3 DEF WriteThrough, WritesRow, memory, flushing, Upsert, Counted
<1> QED
  BY <1>4, UpsertInv

LEMMA WriteFailsInv ==
  ASSUME Inv, NEW c \in Callers, WriteFails(c)
  PROVE  Inv'
<1> USE DEF Inv, TypeOK, Control
<1>1. /\ call[c].pc = "missed" /\ call[c] \in MissedCalls
      /\ call' = [call EXCEPT ![c] = Idle]
      /\ UNCHANGED <<clock, identities, dirty, batch, flusher, cutoff, stage>>
  BY CallTyped DEF WriteFails, ControlOK, memory, flushing
<1>2. CASE UNCHANGED <<db, history>>
  BY <1>1, <1>2, EndedCall, Untouched DEF db, history
<1>3. CASE /\ Upsert(call[c].key, call[c].iata, call[c].at)
           /\ Counted(row'[call[c].key].id, call[c].iata, call[c].at)
  <2>1. PICK k \in Keys, iata \in SomeIata, at \in Nat :
          k = call[c].key /\ iata = call[c].iata /\ at = call[c].at
    BY <1>1 DEF MissedCalls
  <2>2. WritesRow(c, k, iata, at, Idle)
    BY <1>1, <1>3, <2>1 DEF WritesRow, Upsert, Counted
  <2> QED
    BY <2>2, UpsertInv
<1> QED
  BY <1>2, <1>3 DEF WriteFails

LEMMA RememberInv ==
  ASSUME Inv, NEW c \in Callers, Remember(c)
  PROVE  Inv'
<1> USE DEF Inv, TypeOK, Control
<1>1. /\ call[c].pc = "written" /\ call[c] \in WrittenCalls /\ call[c] # Idle
      /\ call' = [call EXCEPT ![c] = Idle]
      /\ UNCHANGED <<clock, row, nextId, dirty, batch, flusher, cutoff, stage,
                     hits, latest, newest, lost>>
  BY CallTyped DEF Remember, ControlOK, db, flushing, history
<1>2. PICK k \in Keys : k = call[c].key
  BY <1>1 DEF WrittenCalls
<1>3. PICK x : x = [id |-> call[c].id, name |-> call[c].name, seen |-> clock]
  OBVIOUS
<1>4. clock \in Nat /\ cutoff \in Int /\ CallMax \in Nat /\ DeleteAfter \in Nat /\ CallMax < DeleteAfter
  BY PresenceAssumption DEF ControlOK
<1>5. x \in Identities /\ x # Unknown /\ x.id = call[c].id /\ x.seen = clock
  <2>1. x \in Identities /\ x.id = call[c].id /\ x.seen = clock
    BY <1>1, <1>3, <1>4 DEF WrittenCalls, Identities
  <2> QED
    BY <2>1, IdentityTyped DEF Identities
<1>6. /\ identities' = [identities EXCEPT ![k] = x] /\ identities'[k] = x
      /\ \A j \in Keys : j # k => identities'[j] = identities[j]
  BY <1>2, <1>3 DEF Remember, TablesOK
<1>7. row[k] # NoRow /\ row[k].seen >= call[c].since /\ row[k].id = call[c].id
  BY <1>1, <1>2 DEF RowsHeld
<1>8. TablesOK'
  BY <1>1, <1>5, <1>6 DEF TablesOK
<1>9. RowsHeld'
  <2>1. call[c].since \in Nat /\ clock <= call[c].since + CallMax
    BY <1>1 DEF WrittenCalls, OnTime
  <2>2. row[k].seen \in Nat
    BY <1>7, HeldRow DEF Rows
  <2>3. flusher["prune"] # "idle" => row[k].seen >= cutoff
    BY <1>4, <1>7, <2>1, <2>2 DEF OnTime
  <2>4. \A j \in Keys : identities'[j] # Unknown =>
          /\ row[j] # NoRow /\ identities'[j].id = row[j].id
          /\ flusher["prune"] # "idle" => row[j].seen >= cutoff
    BY <1>5, <1>6, <1>7, <2>3 DEF RowsHeld
  <2>5. \A d \in Callers : call'[d] = call[d] \/ call'[d] = Idle
    BY <1>1 DEF ControlOK
  <2> QED
    BY <1>1, <2>4, <2>5 DEF RowsHeld, Idle
<1>10. ASSUME NEW j \in Keys, j # k
       PROVE  (Intact(j) => KeptAt(j))'
  <2>1. CASE row[j] = NoRow
    BY <1>1, <2>1 DEF Intact
  <2>2. CASE row[j] # NoRow
    BY <1>1, <1>6, <1>10, <2>2, Elsewhere
  <2> QED
    BY <2>1, <2>2
<1>11. ASSUME Intact(k)' PROVE KeptAt(k)'
  <2>1. KeptAt(k) /\ row[k].id \in Ids
    BY <1>1, <1>11, HeldRow DEF Intact, Kept
  <2>2. CountKept(k)' /\ SeenKept(k)' /\ IataKept(k)'
    BY <1>1, <2>1 DEF KeptAt, CountKept, Unflushed, SeenKept, IataKept, BumpFits
  <2>3. SeenInReach(k)'
    BY <1>1, <1>4, <1>5, <1>6, <2>1 DEF SeenInReach, OnTime, HistoryOK
  <2> QED
    BY <2>2, <2>3 DEF KeptAt
<1>12. Kept'
  BY <1>10, <1>11 DEF Kept
<1> QED
  BY <1>1, <1>8, <1>9, <1>12, EndedCall, Untouched

-----------------------------------------------------------------------------
(* Status updates.                                                         *)

LEMMA StatusInv ==
  ASSUME Inv, NEW c \in Callers, NEW k \in Keys, NEW name \in Names, Status(c, k, name)
  PROVE  Inv'
<1> USE DEF Inv, TypeOK, Control
<1>1. /\ stage \in {"running", "cancelled"} /\ call[c] = Idle /\ row[k] # NoRow
      /\ UNCHANGED <<clock, nextId, identities, dirty, batch, flusher, cutoff, stage,
                     hits, latest, newest, lost>>
  BY DEF Status, Hearing, memory, flushing, history
<1>2. PICK y : y = IF call' = call THEN Idle ELSE [pc |-> "status", key |-> k, since |-> clock]
  OBVIOUS
<1>3. PICK r : r = [row[k] EXCEPT !.name = name, !.seen = clock]
  OBVIOUS
<1>4. clock \in Nat \ {0} /\ cutoff \in Int /\ CallMax \in Nat /\ DeleteAfter \in Nat
  BY PresenceAssumption DEF ControlOK
<1>5. row[k] \in Rows /\ row[k].id \in Ids
  BY <1>1, HeldRow
<1>6. /\ r \in Rows /\ r.id = row[k].id /\ r.seen = clock /\ r.count = row[k].count
      /\ r.iata = row[k].iata /\ r.at = row[k].at /\ r # NoRow
  <2>1. /\ r \in Rows /\ r.id = row[k].id /\ r.seen = clock /\ r.count = row[k].count
        /\ r.iata = row[k].iata /\ r.at = row[k].at
    BY <1>3, <1>4, <1>5 DEF Rows, SomeName
  <2> QED
    BY <1>5, <2>1, RowTyped
<1>7. /\ row' = [row EXCEPT ![k] = r] /\ row'[k] = r
      /\ \A j \in Keys : j # k => row'[j] = row[j]
  BY <1>3 DEF Status, TablesOK
<1>8. /\ y \in Calls /\ y.pc \in {"idle", "status"}
      /\ y # Idle => y.pc = "status" /\ y.key = k /\ y.since = clock
  BY <1>2, <1>4 DEF Calls, StatusCalls, Idle
<1>9. /\ call' = [call EXCEPT ![c] = y]
      /\ \A d \in Callers : call'[d] = IF d = c THEN y ELSE call[d]
  <2>1. call \in [Callers -> Calls]
    BY DEF ControlOK
  <2>2. CASE call' = call
    BY <1>1, <1>2, <2>1, <2>2
  <2>3. CASE call' # call
    BY <1>2, <2>1, <2>3 DEF Status
  <2> QED
    BY <2>2, <2>3
<1>10. TablesOK' /\ ControlOK'
  BY <1>1, <1>6, <1>7, <1>8, <1>9 DEF TablesOK, ControlOK
<1>11. IdsGivenOnce'
  <2>1. \A j \in Keys : row'[j].id = row[j].id /\ (row'[j] # NoRow <=> row[j] # NoRow)
    BY <1>1, <1>6, <1>7
  <2>2. \A i \in Ids : Fresh(i)' = Fresh(i)
    BY <1>1 DEF Fresh
  <2> QED
    BY <1>1, <2>1, <2>2 DEF IdsGivenOnce
<1>12. OnTime'
  BY <1>1, <1>4, <1>8, <1>9 DEF OnTime
<1>13. RowsHeld'
  <2>1. flusher["prune"] # "idle" => clock >= cutoff
    BY <1>4 DEF OnTime
  <2>2. \A d \in Callers : call[d].pc \in {"written", "status"} => call[d].since <= clock
    BY DEF OnTime, Idle
  <2>3. \A j \in Keys : identities[j] # Unknown =>
          /\ row'[j] # NoRow /\ identities[j].id = row'[j].id
          /\ flusher["prune"] # "idle" => row'[j].seen >= cutoff
    BY <1>6, <1>7, <2>1 DEF RowsHeld
  <2>4. \A d \in Callers : call[d].pc \in {"written", "status"} => call[d].key \in Keys
    BY CallTyped DEF ControlOK, WrittenCalls, StatusCalls
  <2>5. \A d \in Callers : call[d].pc \in {"written", "status"} =>
          /\ row'[call[d].key] # NoRow /\ row'[call[d].key].seen >= call[d].since
          /\ call[d].pc = "written" => row'[call[d].key].id = call[d].id
    BY <1>6, <1>7, <2>2, <2>4 DEF RowsHeld
  <2> QED
    BY <1>1, <1>4, <1>6, <1>7, <1>8, <1>9, <2>3, <2>5 DEF RowsHeld
<1>14. MainIsLast'
  BY <1>1 DEF MainIsLast
<1>15. ASSUME NEW j \in Keys, j # k
       PROVE  (Intact(j) => KeptAt(j))'
  <2>1. CASE row[j] = NoRow
    BY <1>1, <1>7, <1>15, <2>1 DEF Intact
  <2>2. CASE row[j] # NoRow
    BY <1>1, <1>7, <1>15, <2>2, Elsewhere
  <2> QED
    BY <2>1, <2>2
<1>16. ASSUME Intact(k)' PROVE KeptAt(k)'
  <2>1. KeptAt(k)
    BY <1>1, <1>6, <1>7, <1>16 DEF Intact, Kept
  <2>2. CountKept(k)' /\ IataKept(k)'
    BY <1>1, <1>6, <1>7, <2>1 DEF KeptAt, CountKept, Unflushed, IataKept, BumpFits
  <2>3. SeenKept(k)' /\ SeenInReach(k)'
    BY <1>1, <1>4, <1>5, <1>6, <1>7 DEF SeenKept, SeenInReach, OnTime, HistoryOK
  <2> QED
    BY <2>2, <2>3 DEF KeptAt
<1>17. Kept'
  BY <1>15, <1>16 DEF Kept
<1> QED
  BY <1>1, <1>10, <1>11, <1>12, <1>13, <1>14, <1>17, Untouched

LEMMA DropIdentityInv ==
  ASSUME Inv, NEW c \in Callers, DropIdentity(c)
  PROVE  Inv'
<1> USE DEF Inv, TypeOK, Control
<1>1. /\ call[c].pc = "status" /\ call[c] \in StatusCalls /\ call[c] # Idle
      /\ call' = [call EXCEPT ![c] = Idle]
      /\ UNCHANGED <<clock, row, nextId, dirty, batch, flusher, cutoff, stage,
                     hits, latest, newest, lost>>
  BY CallTyped DEF DropIdentity, ControlOK, db, flushing, history
<1>2. PICK k \in Keys : k = call[c].key
  BY <1>1 DEF StatusCalls
<1>3. /\ identities' = [identities EXCEPT ![k] = Unknown] /\ identities'[k] = Unknown
      /\ \A j \in Keys : j # k => identities'[j] = identities[j]
  BY <1>2 DEF DropIdentity, TablesOK
<1>4. /\ row[k] # NoRow /\ row[k].seen >= call[c].since /\ row[k].seen \in Nat
      /\ row[k].id \in Ids /\ call[c].since \in Nat /\ clock <= call[c].since + CallMax
  BY <1>1, <1>2, HeldRow DEF RowsHeld, Rows, StatusCalls, OnTime
<1>5. TablesOK'
  BY <1>1, <1>3 DEF TablesOK
<1>6. RowsHeld'
  <2>1. \A d \in Callers : call'[d] = call[d] \/ call'[d] = Idle
    BY <1>1 DEF ControlOK
  <2> QED
    BY <1>1, <1>3, <2>1 DEF RowsHeld, Idle
<1>7. ASSUME NEW j \in Keys, j # k
      PROVE  (Intact(j) => KeptAt(j))'
  <2>1. CASE row[j] = NoRow
    BY <1>1, <2>1 DEF Intact
  <2>2. CASE row[j] # NoRow
    BY <1>1, <1>3, <1>7, <2>2, Elsewhere
  <2> QED
    BY <2>1, <2>2
<1>8. ASSUME Intact(k)' PROVE KeptAt(k)'
  <2>1. KeptAt(k)
    BY <1>1, <1>8 DEF Intact, Kept
  <2>2. CountKept(k)' /\ SeenKept(k)' /\ IataKept(k)'
    BY <1>1, <2>1 DEF KeptAt, CountKept, Unflushed, SeenKept, IataKept, BumpFits
  <2>3. /\ latest[row[k].id] \in Nat /\ latest[row[k].id] <= clock
        /\ clock \in Nat /\ CallMax \in Nat
    BY <1>4, PresenceAssumption DEF OnTime, HistoryOK, ControlOK
  <2>4. SeenInReach(k)'
    BY <1>1, <1>4, <2>3 DEF SeenInReach
  <2> QED
    BY <2>2, <2>4 DEF KeptAt
<1>9. Kept'
  BY <1>7, <1>8 DEF Kept
<1> QED
  BY <1>1, <1>5, <1>6, <1>9, EndedCall, Untouched

-----------------------------------------------------------------------------
(* Taking the bumps.                                                       *)

\* What a flusher takes is what was in memory, its times perhaps later.
Takes(f, B, next) ==
  /\ flusher[f] = "idle" /\ next \in {"flushing", "final"}
  /\ batch' = [batch EXCEPT ![f] = B] /\ dirty' = NoBumps
  /\ flusher' = [flusher EXCEPT ![f] = next]
  /\ \A i \in Ids : /\ B[i].count = dirty[i].count /\ B[i].iata = dirty[i].iata
                    /\ B[i].at = dirty[i].at /\ B[i].seen >= dirty[i].seen
                    /\ nextId <= i => B[i] = NoBump
  /\ f = "main" => stage = "drained"
  /\ cutoff' \in Int
  /\ UNCHANGED <<clock, row, nextId, call, stage, hits, latest, newest, lost>>

LEMMA TakesEffect ==
  ASSUME Inv, NEW f \in Flushers, NEW B \in [Ids -> Bumps], NEW next, Takes(f, B, next)
  PROVE  /\ BumpsOK' /\ ControlOK' /\ IdsGivenOnce' /\ NothingHeld' /\ MainIsLast' /\ IatasTimed'
         /\ \A k \in Keys : Intact(k) => CountKept(k)' /\ SeenKept(k)' /\ IataKept(k)'
         /\ \A g \in Flushers : /\ flusher'[g] = IF g = f THEN next ELSE flusher[g]
                                /\ batch'[g] = IF g = f THEN B ELSE batch[g]
<1> USE DEF Inv, TypeOK, Control
<1>1. /\ flusher[f] = "idle" /\ next \in {"flushing", "final"}
      /\ batch' = [batch EXCEPT ![f] = B] /\ dirty' = NoBumps
      /\ flusher' = [flusher EXCEPT ![f] = next]
      /\ (f = "main" => stage = "drained") /\ cutoff' \in Int
      /\ UNCHANGED <<clock, row, nextId, call, stage, hits, latest, newest, lost>>
  BY DEF Takes
<1>2. \A i \in Ids : /\ B[i].count = dirty[i].count /\ B[i].iata = dirty[i].iata
                     /\ B[i].at = dirty[i].at /\ B[i].seen >= dirty[i].seen
                     /\ nextId <= i => B[i] = NoBump
  BY DEF Takes
<1>3. \A g \in Flushers : /\ flusher'[g] = IF g = f THEN next ELSE flusher[g]
                          /\ batch'[g] = IF g = f THEN B ELSE batch[g]
  BY <1>1 DEF ControlOK, BumpsOK
<1>4. batch[f] = NoBumps
  BY <1>1 DEF NothingHeld
<1>5. \A i \in Ids : NoBumps[i] = NoBump
  BY DEF NoBumps
<1>6. BumpsOK' /\ IatasTimed'
  <2>1. BumpsOK'
    BY <1>1, NoBumpTyped DEF BumpsOK
  <2>2. IatasTimed'
    BY <1>1, <1>2, <1>3, <1>5 DEF IatasTimed, NoBump
  <2> QED
    BY <2>1, <2>2
<1>7. ControlOK'
  <2>1. next \in {"idle", "flushing", "final", "deleting", "returned"} 
    BY <1>1
  <2> QED
    BY <1>1, <2>1 DEF ControlOK
<1>8. IdsGivenOnce'
  <2>1. ASSUME NEW i \in Ids, nextId <= i PROVE Fresh(i)'
    <3>1. B[i] = NoBump /\ dirty'[i] = NoBump
      BY <1>1, <1>2, <1>5, <2>1
    <3>2. Fresh(i)
      BY <2>1 DEF IdsGivenOnce
    <3> QED
      BY <1>1, <1>3, <3>1, <3>2 DEF Fresh
  <2> QED
    BY <1>1, <2>1 DEF IdsGivenOnce
<1>9. NothingHeld'
  BY <1>1, <1>3 DEF NothingHeld
<1>10. MainIsLast'
  BY <1>1, <1>3 DEF MainIsLast
<1>11. ASSUME NEW k \in Keys, Intact(k)
       PROVE  CountKept(k)' /\ SeenKept(k)' /\ IataKept(k)'
  <2>1. KeptAt(k)
    BY <1>11 DEF Kept
  <2>2. PICK i \in Ids : i = row[k].id
    BY <1>11, HeldRow DEF Intact
  <2>3. /\ row' = row /\ hits'[i] = hits[i] /\ latest'[i] = latest[i] /\ newest'[i] = newest[i]
        /\ dirty'[i] = NoBump /\ batch[f][i] = NoBump /\ batch'[f][i] = B[i]
        /\ \A g \in Flushers : g # f => batch'[g][i] = batch[g][i]
    BY <1>1, <1>3, <1>4, <1>5
  <2>4. /\ dirty[i] \in Bumps /\ \A g \in Flushers : batch[g][i] \in Bumps
        /\ B[i] \in Bumps /\ latest[i] \in Nat /\ newest[i].at \in Nat
    BY DEF BumpsOK, HistoryOK
  <2>5. CountKept(k)'
    <3>1. /\ dirty[i].count \in Nat /\ batch["run"][i].count \in Nat
          /\ batch["prune"][i].count \in Nat /\ batch["main"][i].count \in Nat
      BY <2>4 DEF Bumps, Flushers
    <3>2. f \in {"run", "prune", "main"} /\ "run" \in Flushers /\ "prune" \in Flushers /\ "main" \in Flushers
      BY DEF Flushers
    <3>3. Unflushed(i)' = Unflushed(i)
      BY <1>2, <2>3, <3>1, <3>2 DEF Unflushed, NoBump
    <3> QED
      BY <2>1, <2>2, <2>3, <3>3 DEF KeptAt, CountKept, Unflushed
  <2>6. SeenKept(k)'
    <3>1. /\ dirty[i].seen \in Nat /\ B[i].seen \in Nat /\ B[i].seen >= dirty[i].seen
          /\ latest[i] \in Nat /\ NoBump.seen = 0
      BY <1>2, <2>4 DEF Bumps, NoBump
    <3> QED
      BY <2>1, <2>2, <2>3, <3>1 DEF KeptAt, SeenKept
  <2>7. IataKept(k)'
    <3>1. /\ B[i].at = dirty[i].at /\ B[i].iata = dirty[i].iata /\ dirty[i].at \in Nat
          /\ newest[i].at \in Nat /\ NoBump.at = 0
      BY <1>2, <2>4 DEF Bumps, NoBump
    <3>2. PICK n : n = newest[i]
      OBVIOUS
    <3>3. /\ row[k].at <= n.at /\ (row[k].at = n.at => row[k].iata \in n.iatas)
          /\ BumpFits(dirty[i], n) /\ \A g \in Flushers : BumpFits(batch[g][i], n)
          /\ \/ row[k].at = n.at \/ dirty[i].at = n.at
             \/ \E g \in Flushers : batch[g][i].at = n.at
      BY <2>1, <2>2, <3>2 DEF KeptAt, IataKept
    <3>4. /\ BumpFits(NoBump, n) /\ BumpFits(B[i], n)
      BY <3>1, <3>2, <3>3 DEF BumpFits
    <3>5. \A g \in Flushers : BumpFits(batch'[g][i], n)
      BY <2>3, <3>3, <3>4
    <3>6. \/ row[k].at = n.at \/ NoBump.at = n.at
          \/ \E g \in Flushers : batch'[g][i].at = n.at
      BY <2>3, <3>1, <3>3
    <3>7. row'[k] = row[k] /\ row'[k].id = i /\ newest'[i] = n /\ dirty'[i] = NoBump
      BY <2>2, <2>3, <3>2
    <3>8. /\ row'[k].at <= newest'[i].at /\ (row'[k].at = newest'[i].at => row'[k].iata \in newest'[i].iatas)
          /\ \/ row'[k].at = newest'[i].at \/ dirty'[i].at = newest'[i].at
             \/ \E g \in Flushers : batch'[g][i].at = newest'[i].at
      BY <3>3, <3>6, <3>7
    <3>9. BumpFits(dirty[i], newest[i])' /\ \A g \in Flushers : BumpFits(batch[g][i], newest[i])'
      BY <3>4, <3>5, <3>7 DEF BumpFits
    <3> QED
      BY <3>7, <3>8, <3>9 DEF IataKept, BumpFits
  <2> QED
    BY <2>5, <2>6, <2>7
<1> QED
  BY <1>3, <1>6, <1>7, <1>8, <1>9, <1>10, <1>11

LEMMA TakeInv ==
  ASSUME Inv, NEW f \in Flushers, f # "prune", NEW next, Takes(f, dirty, next),
         UNCHANGED <<identities, cutoff>>
  PROVE  Inv'
<1> USE DEF Inv, TypeOK, Control
<1>1. dirty \in [Ids -> Bumps]
  BY DEF BumpsOK
<1>2. PICK B \in [Ids -> Bumps] : B = dirty
  BY <1>1
<1>3. Takes(f, B, next)
  BY <1>2 DEF Takes
<1>4. UNCHANGED <<clock, row, nextId, call, stage, hits, latest, newest, lost>>
  BY DEF Takes
<1>5. flusher'["prune"] = flusher["prune"] /\ batch'["prune"] = batch["prune"]
  BY <1>3, TakesEffect DEF Flushers
<1>6. TablesOK' /\ HistoryOK'
  BY <1>4, Untouched
<1>7. OnTime' /\ RowsHeld'
  BY <1>4, <1>5 DEF OnTime, RowsHeld
<1>8. ASSUME NEW k \in Keys, Intact(k)' PROVE KeptAt(k)'
  <2>1. Intact(k)
    BY <1>4, <1>8 DEF Intact
  <2>2. KeptAt(k)
    BY <2>1 DEF Kept
  <2>3. SeenInReach(k)'
    BY <1>4, <1>5, <2>2 DEF KeptAt, SeenInReach
  <2> QED
    BY <1>3, <2>1, <2>3, TakesEffect DEF KeptAt
<1>9. Kept'
  BY <1>8 DEF Kept
<1> QED
  BY <1>3, <1>6, <1>7, <1>9, TakesEffect

LEMMA TakesInv ==
  ASSUME Inv, RunTake \/ RunFinalTake \/ MainTake
  PROVE  Inv'
<1> USE DEF Inv, TypeOK, Control
<1>0. cutoff \in Int
  BY DEF ControlOK
<1>1. \A i \in Ids : dirty[i].seen >= dirty[i].seen /\ (nextId <= i => dirty[i] = NoBump)
  BY DEF BumpsOK, Bumps, IdsGivenOnce, Fresh
<1>2. CASE RunTake
  BY <1>0, <1>1, <1>2, TakeInv DEF RunTake, TakeDirty, Takes, db, history, Flushers
<1>3. CASE RunFinalTake
  BY <1>0, <1>1, <1>3, TakeInv DEF RunFinalTake, TakeDirty, Takes, db, history, Flushers
<1>4. CASE MainTake
  BY <1>0, <1>1, <1>4, TakeInv DEF MainTake, TakeDirty, Takes, db, history, Flushers
<1> QED
  BY <1>2, <1>3, <1>4

LEMMA PruneInv ==
  ASSUME Inv, Prune
  PROVE  Inv'
<1> USE DEF Inv, TypeOK, Control
<1> PICK B : B = [i \in Ids |-> Merged(i)]
  OBVIOUS
<1>1. /\ flusher["prune"] = "idle" /\ cutoff' = clock - DeleteAfter
      /\ identities' = [k \in Keys |-> Unknown]
      /\ UNCHANGED <<clock, row, nextId, call, stage, hits, latest, newest, lost>>
  BY DEF Prune, db, history
<1>2. /\ batch' = [batch EXCEPT !["prune"] = B] /\ dirty' = NoBumps
      /\ flusher' = [flusher EXCEPT !["prune"] = "flushing"]
  BY DEF Prune
<1>3. \A i \in Ids : /\ B[i] \in Bumps
                     /\ B[i].seen = IF dirty[i].seen >= CachedSeen(i) THEN dirty[i].seen ELSE CachedSeen(i)
                     /\ B[i].count = dirty[i].count
                     /\ B[i].iata = dirty[i].iata /\ B[i].at = dirty[i].at
                     /\ CachedSeen(i) \in Nat /\ dirty[i].seen \in Nat
  BY MergedTyped DEF BumpsOK, TablesOK, Bumps
<1>4. B \in [Ids -> Bumps]
  BY <1>3
<1>5. ASSUME NEW i \in Ids, nextId <= i PROVE B[i] = NoBump
  <2>1. \A k \in Keys : identities[k] # Unknown => identities[k].id # i
    BY <1>5, HeldRow, IdsPositive DEF RowsHeld, TablesOK
  <2>2. CachedSeen(i) = 0
    BY <2>1 DEF CachedSeen
  <2>3. dirty[i] = NoBump
    BY <1>5 DEF IdsGivenOnce, Fresh
  <2> QED
    BY <2>2, <2>3 DEF Merged, Later, NoBump
<1>6. Takes("prune", B, "flushing")
  BY <1>1, <1>2, <1>3, <1>5 DEF Takes
<1>7. /\ flusher'["prune"] = "flushing" /\ batch'["prune"] = B
      /\ BumpsOK' /\ ControlOK' /\ IdsGivenOnce' /\ NothingHeld' /\ MainIsLast' /\ IatasTimed'
      /\ \A k \in Keys : Intact(k) => CountKept(k)' /\ SeenKept(k)' /\ IataKept(k)'
  BY <1>4, <1>6, TakesEffect DEF Flushers
<1>8. TablesOK' /\ HistoryOK'
  BY <1>1, Untouched DEF TablesOK
<1>9. OnTime'
  BY <1>1, PresenceAssumption DEF OnTime, ControlOK
<1>10. RowsHeld'
  BY <1>1 DEF RowsHeld
<1>11. ASSUME NEW k \in Keys, Intact(k)' PROVE KeptAt(k)'
  <2>1. Intact(k)
    BY <1>1, <1>11 DEF Intact
  <2>2. SeenInReach(k)
    BY <2>1 DEF Kept, KeptAt
  <2>3. PICK i \in Ids : i = row[k].id
    BY <2>1, HeldRow DEF Intact
  <2>4. /\ latest[i] \in Nat /\ row' = row /\ latest' = latest
        /\ flusher'["prune"] = "flushing" /\ batch'["prune"] = B /\ row'[k].id = i
    BY <1>1, <1>7, <2>3 DEF HistoryOK
  <2>5. ASSUME identities[k] # Unknown /\ identities[k].seen >= latest[i] PROVE SeenInReach(k)'
    <3>1. \A j \in Keys : identities[j] # Unknown /\ identities[j].id = i => j = k
      BY <2>1, <2>3, HeldRow DEF RowsHeld, Intact
    <3>2. identities[k].id = i
      BY <2>3, <2>5 DEF RowsHeld
    <3>3. CachedSeen(i) = identities[k].seen
      BY <2>5, <3>1, <3>2, MergedTyped DEF BumpsOK, TablesOK
    <3>4. B[i].seen >= latest[i]
      BY <1>3, <2>4, <2>5, <3>3
    <3> QED
      BY <2>3, <2>4, <3>4 DEF SeenInReach
  <2>6. ASSUME row[k].seen + CallMax >= latest[i] PROVE SeenInReach(k)'
    BY <2>3, <2>4, <2>6 DEF SeenInReach
  <2>7. SeenInReach(k)'
    BY <1>1, <2>2, <2>3, <2>5, <2>6 DEF SeenInReach
  <2> QED
    BY <1>7, <2>1, <2>7 DEF KeptAt
<1>12. Kept'
  BY <1>11 DEF Kept
<1> QED
  BY <1>7, <1>8, <1>9, <1>10, <1>12

-----------------------------------------------------------------------------
(* Writing or dropping what was taken.                                     *)

Lands(f, next) == Written(f, next) \/ Dropped(f, next)

\* The batch's bump is in the row, unless it is given up for lost.
LEMMA LandedRow ==
  ASSUME Inv, NEW f \in Flushers, NEW next, Lands(f, next), NEW k \in Keys, row[k] # NoRow,
         NEW i \in Ids, i = row[k].id
  PROVE  /\ row'[k] \in Rows /\ row'[k] # NoRow /\ row'[k].id = i
         /\ row'[k].seen >= row[k].seen
         /\ i \notin lost' =>
              /\ row'[k].seen = IF row[k].seen >= batch[f][i].seen THEN row[k].seen ELSE batch[f][i].seen
              /\ row'[k].count = row[k].count + batch[f][i].count
              /\ row'[k].at = IF row[k].at >= batch[f][i].at THEN row[k].at ELSE batch[f][i].at
              /\ row'[k].iata = IF batch[f][i].iata # NoIata /\ batch[f][i].at > row[k].at
                                THEN batch[f][i].iata ELSE row[k].iata
<1> USE DEF Inv, TypeOK, Control
<1>1. row[k] \in Rows /\ batch[f][i] \in Bumps
  BY HeldRow DEF BumpsOK
<1> PICK b \in Bumps : b = batch[f][i]
  BY <1>1
<1> PICK r \in Rows : r = row[k]
  BY <1>1
<1>2. /\ r.seen \in Nat /\ r.count \in Nat /\ r.at \in Nat /\ r.id \in Ids
      /\ b.seen \in Nat /\ b.count \in Nat /\ b.at \in Nat
  BY <1>1 DEF Rows, Bumps
<1>3. CASE row'[k] = Touched(r, b)
  <2>1. /\ row'[k] \in Rows /\ row'[k].id = r.id
        /\ row'[k].seen = IF r.seen >= b.seen THEN r.seen ELSE b.seen
        /\ row'[k].count = r.count + b.count
        /\ row'[k].iata = IF b.iata # NoIata /\ b.at > r.at THEN b.iata ELSE r.iata
        /\ row'[k].at = IF r.at >= b.at THEN r.at ELSE b.at
    BY <1>3, TouchedTyped
  <2>2. row'[k] # NoRow
    BY <2>1, <1>2, RowTyped
  <2> QED
    BY <1>2, <2>1, <2>2
<1>4. CASE row'[k] = row[k] /\ (b = NoBump \/ i \in lost')
  BY <1>2, <1>4 DEF NoBump
<1>5. \/ row'[k] = Touched(r, b)
      \/ row'[k] = row[k] /\ (b = NoBump \/ i \in lost')
  <2>1. CASE TouchObservers(f)
    BY <2>1 DEF TouchObservers
  <2>2. CASE UNCHANGED row /\ Dropped(f, next)
    BY <2>2 DEF Dropped
  <2> QED
    BY <2>1, <2>2 DEF Lands, Written, Dropped
<1> QED
  BY <1>3, <1>4, <1>5

LEMMA LandsEffect ==
  ASSUME Inv, NEW f \in Flushers, NEW next, Lands(f, next)
  PROVE  /\ batch' = [batch EXCEPT ![f] = NoBumps]
         /\ flusher' = [flusher EXCEPT ![f] = next]
         /\ lost \subseteq lost' /\ lost' \subseteq Ids
         /\ \A k \in Keys : row[k] = NoRow => row'[k] = NoRow
         /\ row' = [k \in Keys |-> row'[k]]
<1> USE DEF Inv, TypeOK, Control
<1>1. batch' = [batch EXCEPT ![f] = NoBumps] /\ flusher' = [flusher EXCEPT ![f] = next]
  BY DEF Lands, Written, Dropped, Flushed
<1>2. lost \subseteq lost' /\ lost' \subseteq Ids
  BY DEF Lands, Written, Dropped, HistoryOK
<1>3. TouchObservers(f) \/ UNCHANGED row
  BY DEF Lands, Written, Dropped
<1>4. /\ \A k \in Keys : row[k] = NoRow => row'[k] = NoRow
      /\ row' = [k \in Keys |-> row'[k]]
  <2>1. CASE TouchObservers(f)
    BY <2>1 DEF TouchObservers
  <2>2. CASE UNCHANGED row
    BY <2>2 DEF TablesOK
  <2> QED
    BY <1>3, <2>1, <2>2
<1> QED
  BY <1>1, <1>2, <1>4

LEMMA FlushInv ==
  ASSUME Inv, NEW f \in Flushers, NEW next \in {"idle", "deleting", "returned"},
         flusher[f] \in {"flushing", "final"}, Lands(f, next),
         UNCHANGED <<clock, nextId, identities, dirty, cutoff, call, hits, latest, newest>>,
         f = "main" => next = "returned",
         stage' = stage \/ (f = "main" /\ stage' = "exited")
  PROVE  Inv'
<1> USE DEF Inv, TypeOK, Control
<1>1. /\ batch' = [batch EXCEPT ![f] = NoBumps]
      /\ flusher' = [flusher EXCEPT ![f] = next]
      /\ lost \subseteq lost' /\ lost' \subseteq Ids
      /\ \A k \in Keys : row[k] = NoRow => row'[k] = NoRow
      /\ row' = [k \in Keys |-> row'[k]]
  BY LandsEffect
<1>2. \A g \in Flushers : /\ flusher'[g] = IF g = f THEN next ELSE flusher[g]
                          /\ batch'[g] = IF g = f THEN NoBumps ELSE batch[g]
  BY <1>1 DEF ControlOK, BumpsOK
<1>3. \A i \in Ids : NoBumps[i] = NoBump
  BY DEF NoBumps
<1>4. \A k \in Keys : row[k] # NoRow =>
        /\ row'[k] \in Rows /\ row'[k] # NoRow /\ row'[k].id = row[k].id
        /\ row'[k].seen >= row[k].seen /\ row[k].seen \in Nat /\ row'[k].seen \in Nat
  <2> SUFFICES ASSUME NEW k \in Keys, row[k] # NoRow
               PROVE  /\ row'[k] \in Rows /\ row'[k] # NoRow /\ row'[k].id = row[k].id
                      /\ row'[k].seen >= row[k].seen /\ row[k].seen \in Nat /\ row'[k].seen \in Nat
    OBVIOUS
  <2>1. row[k] \in Rows /\ row[k].id \in Ids
    BY HeldRow
  <2>2. row'[k] \in Rows /\ row'[k] # NoRow /\ row'[k].id = row[k].id /\ row'[k].seen >= row[k].seen
    BY <2>1, LandedRow
  <2> QED
    BY <2>1, <2>2 DEF Rows
<1>5. flusher'["prune"] # "idle" => flusher["prune"] # "idle"
  BY <1>2 DEF Flushers
<1>6. TablesOK'
  <2>1. \A k \in Keys : row'[k] \in Rows \cup {NoRow}
    BY <1>1, <1>4
  <2> QED
    BY <1>1, <2>1 DEF TablesOK
<1>7. BumpsOK' /\ IatasTimed'
  <2>1. BumpsOK'
    BY <1>1, NoBumpTyped DEF BumpsOK
  <2>2. IatasTimed'
    BY <1>2, <1>3 DEF IatasTimed, NoBump
  <2> QED
    BY <2>1, <2>2
<1>8. ControlOK'
  BY <1>1 DEF ControlOK
<1>9. HistoryOK'
  BY <1>1 DEF HistoryOK
<1>10. IdsGivenOnce'
  <2>1. \A i \in Ids : nextId <= i => Fresh(i)'
    BY <1>2, <1>3 DEF IdsGivenOnce, Fresh
  <2>2. \A j, k \in Keys : row'[j] # NoRow /\ row'[j].id = row'[k].id => row'[k] # NoRow
    BY <1>6, RowTyped DEF TablesOK
  <2>3. \A k \in Keys : row'[k] # NoRow => row[k] # NoRow /\ row'[k].id = row[k].id
    BY <1>1, <1>4
  <2> QED
    BY <2>1, <2>2, <2>3 DEF IdsGivenOnce
<1>11. NothingHeld'
  BY <1>2 DEF NothingHeld
<1>12. OnTime'
  BY <1>5 DEF OnTime
<1>13. RowsHeld'
  <2>1. cutoff \in Int
    BY DEF ControlOK
  <2>2. \A k \in Keys : identities[k] # Unknown =>
          /\ row'[k] # NoRow /\ identities[k].id = row'[k].id
          /\ flusher'["prune"] # "idle" => row'[k].seen >= cutoff
    BY <1>4, <1>5, <2>1 DEF RowsHeld
  <2>3. \A c \in Callers : call[c].pc \in {"written", "status"} => call[c].key \in Keys /\ call[c].since \in Nat
    BY CallTyped DEF ControlOK, WrittenCalls, StatusCalls
  <2>4. \A c \in Callers : call[c].pc \in {"written", "status"} =>
          /\ row'[call[c].key] # NoRow /\ row'[call[c].key].seen >= call[c].since
          /\ call[c].pc = "written" => row'[call[c].key].id = call[c].id
    BY <1>4, <2>3 DEF RowsHeld
  <2> QED
    BY <2>2, <2>4 DEF RowsHeld
<1>14. MainIsLast'
  <2>1. flusher'["main"] # "idle" => flusher["main"] # "idle"
    BY <1>2 DEF Flushers
  <2>2. stage' # stage => stage' = "exited" /\ flusher["main"] # "idle" /\ flusher'["main"] # "idle"
    BY <1>2
  <2>3. stage' = stage /\ stage = "exited" => flusher'["main"] # "idle"
    BY <1>2 DEF MainIsLast, Flushers
  <2> QED
    BY <2>1, <2>2, <2>3 DEF MainIsLast
<1>15. ASSUME NEW k \in Keys, Intact(k)' PROVE KeptAt(k)'
  <2>1. Intact(k) /\ row[k] # NoRow
    BY <1>1, <1>4, <1>15 DEF Intact
  <2>2. KeptAt(k) /\ row[k] \in Rows
    BY <2>1, HeldRow DEF Kept
  <2>3. PICK i \in Ids : i = row[k].id
    BY <2>1, HeldRow
  <2>4. PICK b \in Bumps : b = batch[f][i]
    BY DEF BumpsOK
  <2>5. PICK r \in Rows : r = row'[k]
    BY <1>4, <2>1
  <2>6. /\ r.id = i /\ i \notin lost'
        /\ r.seen = IF row[k].seen >= b.seen THEN row[k].seen ELSE b.seen
        /\ r.count = row[k].count + b.count
        /\ r.at = IF row[k].at >= b.at THEN row[k].at ELSE b.at
        /\ r.iata = IF b.iata # NoIata /\ b.at > row[k].at THEN b.iata ELSE row[k].iata
    <3>1. i \notin lost' /\ row'[k].id = i
      BY <1>4, <1>15, <2>1, <2>3 DEF Intact
    <3> QED
      BY <2>1, <2>3, <2>4, <2>5, <3>1, LandedRow
  <2>7. /\ hits'[i] = hits[i] /\ latest'[i] = latest[i] /\ newest'[i] = newest[i]
        /\ dirty'[i] = dirty[i] /\ batch'[f][i] = NoBump
        /\ \A g \in Flushers : g # f => batch'[g][i] = batch[g][i]
    BY <1>2, <1>3
  <2>8. /\ row[k].seen \in Nat /\ row[k].count \in Nat /\ row[k].at \in Nat
        /\ b.seen \in Nat /\ b.count \in Nat /\ b.at \in Nat
        /\ latest[i] \in Nat /\ newest[i].at \in Nat /\ CallMax \in Nat
        /\ dirty[i].count \in Nat /\ \A g \in Flushers : batch[g][i].count \in Nat
    BY <2>2, PresenceAssumption DEF Rows, Bumps, HistoryOK, BumpsOK
  <2>9. CountKept(k)'
    <3>1. row[k].count + Unflushed(i) = hits[i] - 1
      BY <2>2, <2>3 DEF KeptAt, CountKept
    <3>2. Unflushed(i)' + b.count = Unflushed(i) /\ Unflushed(i)' \in Nat
      <4>1. f \in {"run", "prune", "main"} /\ "run" \in Flushers /\ "prune" \in Flushers /\ "main" \in Flushers
        BY DEF Flushers
      <4>2. NoBump.count = 0
        BY DEF NoBump
      <4> QED
        BY <2>4, <2>7, <2>8, <4>1, <4>2 DEF Unflushed
    <3>3. hits[i] \in Nat /\ hits' = hits
      BY DEF HistoryOK
    <3>4. r.count + Unflushed(i)' = hits[i] - 1
      BY <2>6, <2>8, <3>1, <3>2, <3>3
    <3> QED
      BY <2>5, <2>6, <3>3, <3>4 DEF CountKept, Unflushed
  <2>10. SeenKept(k)'
    <3>1. \/ row[k].seen >= latest[i] \/ dirty[i].seen >= latest[i]
          \/ \E g \in Flushers : batch[g][i].seen >= latest[i]
      BY <2>2, <2>3 DEF KeptAt, SeenKept
    <3>2. \/ r.seen >= latest[i] \/ dirty[i].seen >= latest[i]
          \/ \E g \in Flushers : batch'[g][i].seen >= latest[i]
      BY <2>4, <2>6, <2>7, <2>8, <3>1
    <3> QED
      BY <2>5, <2>6, <2>7, <3>2 DEF SeenKept
  <2>11. SeenInReach(k)'
    <3>1. \/ row[k].seen + CallMax >= latest[i]
          \/ identities[k] # Unknown /\ identities[k].seen >= latest[i]
          \/ flusher["prune"] = "flushing" /\ batch["prune"][i].seen >= latest[i]
      BY <2>2, <2>3 DEF KeptAt, SeenInReach
    <3>2. f # "prune" => flusher'["prune"] = flusher["prune"] /\ batch'["prune"] = batch["prune"]
      BY <1>2 DEF Flushers
    <3>3. \/ r.seen + CallMax >= latest[i]
          \/ identities[k] # Unknown /\ identities[k].seen >= latest[i]
          \/ flusher'["prune"] = "flushing" /\ batch'["prune"][i].seen >= latest[i]
      BY <2>4, <2>6, <2>8, <3>1, <3>2
    <3> QED
      BY <2>5, <2>6, <2>7, <3>3 DEF SeenInReach
  <2>12. IataKept(k)'
    <3>1. PICK n : n = newest[i]
      OBVIOUS
    <3>2. /\ row[k].at <= n.at /\ (row[k].at = n.at => row[k].iata \in n.iatas)
          /\ BumpFits(dirty[i], n) /\ \A g \in Flushers : BumpFits(batch[g][i], n)
          /\ \/ row[k].at = n.at \/ dirty[i].at = n.at
             \/ \E g \in Flushers : batch[g][i].at = n.at
      BY <2>2, <2>3, <3>1 DEF KeptAt, IataKept
    <3>3. /\ b.at <= n.at /\ (b.at = n.at /\ b.at > 0 => b.iata \in n.iatas)
          /\ b.iata = NoIata => b.at = 0
      BY <2>4, <3>2 DEF BumpFits, IatasTimed
    <3>4. NoBump.at = 0 /\ n.at \in Nat
      BY <2>8, <3>1 DEF NoBump
    <3>5. r.at <= n.at /\ (r.at = n.at => r.iata \in n.iatas)
      BY <2>6, <2>8, <3>2, <3>3, <3>4
    <3>6. \/ r.at = n.at \/ dirty[i].at = n.at
          \/ \E g \in Flushers : batch'[g][i].at = n.at
      BY <2>4, <2>6, <2>7, <2>8, <3>2, <3>3, <3>4
    <3>7. BumpFits(dirty[i], newest[i])' /\ \A g \in Flushers : BumpFits(batch[g][i], newest[i])'
      BY <2>7, <3>1, <3>2, <3>4 DEF BumpFits
    <3>8. row'[k].id = i /\ newest'[i] = n /\ row'[k] = r /\ dirty'[i] = dirty[i]
      BY <2>5, <2>6, <2>7, <3>1
    <3>9. /\ row'[k].at <= newest'[i].at /\ (row'[k].at = newest'[i].at => row'[k].iata \in newest'[i].iatas)
          /\ \/ row'[k].at = newest'[i].at \/ dirty'[i].at = newest'[i].at
             \/ \E g \in Flushers : batch'[g][i].at = newest'[i].at
      BY <3>5, <3>6, <3>8
    <3> QED
      BY <3>7, <3>8, <3>9 DEF IataKept, BumpFits
  <2> QED
    BY <2>9, <2>10, <2>11, <2>12 DEF KeptAt
<1>16. Kept'
  BY <1>15 DEF Kept
<1> QED
  BY <1>6, <1>7, <1>8, <1>9, <1>10, <1>11, <1>12, <1>13, <1>14, <1>16

LEMMA FlushesInv ==
  ASSUME Inv, RunWrites \/ RunFails \/ PruneWrites \/ PruneFails \/ MainFlushes
  PROVE  Inv'
<1> "run" \in Flushers /\ "prune" \in Flushers /\ "main" \in Flushers
  BY DEF Flushers
<1>1. CASE RunWrites \/ RunFails
  BY <1>1, FlushInv DEF RunWrites, RunFails, Lands, Unlogged, memory
<1>2. CASE PruneWrites \/ PruneFails
  BY <1>2, FlushInv DEF PruneWrites, PruneFails, Lands, Unlogged, memory
<1>3. CASE MainFlushes
  BY <1>3, FlushInv DEF MainFlushes, Lands, memory
<1> QED
  BY <1>1, <1>2, <1>3

LEMMA PruneDeletesInv ==
  ASSUME Inv, PruneDeletes
  PROVE  Inv'
<1> USE DEF Inv, TypeOK, Control
<1>1. /\ flusher["prune"] = "deleting" /\ flusher' = [flusher EXCEPT !["prune"] = "idle"]
      /\ UNCHANGED <<clock, nextId, identities, dirty, batch, cutoff, call, stage,
                     hits, latest, newest, lost>>
  BY DEF PruneDeletes, memory, history
<1>2. PICK victims \in SUBSET {k \in Keys : row[k] # NoRow} :
        /\ \A k \in victims : row[k].seen < cutoff
        /\ row' = [k \in Keys |-> IF k \in victims THEN NoRow ELSE row[k]]
  BY DEF PruneDeletes
<1>3. \A k \in Keys : row'[k] = row[k] \/ (row'[k] = NoRow /\ row[k] # NoRow /\ row[k].seen < cutoff)
  BY <1>2
<1>4. /\ clock \in Nat /\ cutoff \in Int /\ CallMax \in Nat /\ DeleteAfter \in Nat /\ CallMax < DeleteAfter
      /\ cutoff + DeleteAfter <= clock
  BY <1>1, PresenceAssumption DEF ControlOK, OnTime
<1>5. \A k \in Keys : row[k] # NoRow => row[k].seen \in Nat
  BY HeldRow DEF Rows
<1>6. flusher'["prune"] = "idle" /\ \A f \in Flushers : f # "prune" => flusher'[f] = flusher[f]
  BY <1>1 DEF ControlOK, Flushers
<1>7. TablesOK' /\ ControlOK'
  BY <1>1, <1>2 DEF TablesOK, ControlOK
<1>8. IdsGivenOnce'
  <2>1. \A i \in Ids : Fresh(i)' = Fresh(i)
    BY <1>1 DEF Fresh
  <2>2. \A j, k \in Keys : row'[j] # NoRow /\ row'[j].id = row'[k].id => row'[k] # NoRow
    BY <1>7, RowTyped DEF TablesOK
  <2> QED
    BY <1>1, <1>3, <2>1, <2>2 DEF IdsGivenOnce
<1>9. NothingHeld' /\ MainIsLast'
  <2>1. NothingHeld'
    BY <1>1, <1>6 DEF NothingHeld
  <2>2. "main" \in Flushers /\ "main" # "prune"
    BY DEF Flushers
  <2> QED
    BY <1>1, <1>6, <2>1, <2>2 DEF MainIsLast
<1>10. OnTime'
  BY <1>1, <1>6 DEF OnTime
<1>11. RowsHeld'
  <2>1. \A k \in Keys : identities[k] # Unknown => row'[k] = row[k]
    BY <1>1, <1>3, <1>4, <1>5 DEF RowsHeld
  <2>2. \A c \in Callers : call[c].pc \in {"written", "status"} => row'[call[c].key] = row[call[c].key]
    <3> SUFFICES ASSUME NEW c \in Callers, call[c].pc \in {"written", "status"}
                 PROVE  row'[call[c].key] = row[call[c].key]
      OBVIOUS
    <3>1. call[c].key \in Keys /\ call[c].since \in Nat /\ call[c] # Idle
      BY CallTyped DEF ControlOK, WrittenCalls, StatusCalls
    <3>2. row[call[c].key] # NoRow /\ row[call[c].key].seen >= call[c].since
      BY DEF RowsHeld
    <3>3. clock <= call[c].since + CallMax
      BY <3>1 DEF OnTime
    <3> QED
      BY <1>3, <1>4, <1>5, <3>1, <3>2, <3>3
  <2> QED
    BY <1>1, <1>6, <2>1, <2>2 DEF RowsHeld
<1>12. ASSUME NEW k \in Keys, Intact(k)' PROVE KeptAt(k)'
  <2>1. row'[k] = row[k] /\ Intact(k)
    BY <1>1, <1>3, <1>12 DEF Intact
  <2>2. KeptAt(k)
    BY <2>1 DEF Kept
  <2>3. CountKept(k)' /\ SeenKept(k)' /\ IataKept(k)'
    BY <1>1, <2>1, <2>2 DEF KeptAt, CountKept, Unflushed, SeenKept, IataKept, BumpFits
  <2>4. SeenInReach(k)'
    BY <1>1, <2>1, <2>2 DEF KeptAt, SeenInReach
  <2> QED
    BY <2>3, <2>4 DEF KeptAt
<1>13. Kept'
  BY <1>12 DEF Kept
<1> QED
  BY <1>1, <1>7, <1>8, <1>9, <1>10, <1>11, <1>13, Untouched

-----------------------------------------------------------------------------
LEMMA InitInv ==
  ASSUME Init
  PROVE  Inv
<1> USE DEF Init
<1>1. \A f \in Flushers, i \in Ids : batch[f][i] = NoBump
  BY DEF NoBumps
<1>2. \A i \in Ids : dirty[i] = NoBump
  BY DEF NoBumps
<1>3. TypeOK
  <2>1. TablesOK /\ BumpsOK
    BY NoBumpTyped DEF TablesOK, BumpsOK
  <2>2. ControlOK
    BY DEF ControlOK, Calls, Flushers
  <2>3. HistoryOK
    BY DEF HistoryOK, SomeIata
  <2> QED
    BY <2>1, <2>2, <2>3 DEF TypeOK
<1>4. IdsGivenOnce
  BY <1>1, <1>2 DEF IdsGivenOnce, Fresh
<1>5. NothingHeld /\ MainIsLast
  BY DEF NothingHeld, MainIsLast, Flushers
<1>6. OnTime
  BY DEF OnTime, Idle, Flushers
<1>7. RowsHeld
  BY DEF RowsHeld, Idle
<1>8. IatasTimed
  BY <1>1, <1>2 DEF IatasTimed, NoBump
<1>9. Kept
  BY DEF Kept, Intact
<1> QED
  BY <1>3, <1>4, <1>5, <1>6, <1>7, <1>8, <1>9 DEF Inv, Control

LEMMA StutterInv ==
  ASSUME Inv, UNCHANGED vars
  PROVE  Inv'
<1> UNCHANGED <<clock, row, nextId, identities, dirty, batch, flusher, cutoff, call, stage,
               hits, latest, newest, lost>>
  BY DEF vars, db, memory, flushing, history
<1>1. ControlOK'
  BY DEF Inv, TypeOK, ControlOK
<1> QED
  BY <1>1, Untouched DEF Inv, TypeOK, Control

LEMMA NextInv ==
  ASSUME Inv, [Next]_vars
  PROVE  Inv'
<1>1. ASSUME NEW c \in Callers, Observer(c) PROVE Inv'
  <2>1. ASSUME NEW k \in Keys, NEW iata \in Iatas \cup {NoIata}, Hit(c, k, iata) \/ Miss(c, k, iata)
        PROVE  Inv'
    BY <2>1, HitInv, MissInv DEF SomeIata
  <2>2. ASSUME NEW k \in Keys, NEW name \in Names, Status(c, k, name)
        PROVE  Inv'
    BY <2>2, StatusInv
  <2> QED
    BY <1>1, <2>1, <2>2, WriteThroughInv, WriteFailsInv, RememberInv, DropIdentityInv DEF Observer
<1>2. CASE RunTake \/ RunFinalTake \/ MainTake
  BY <1>2, TakesInv
<1>3. CASE RunWrites \/ RunFails \/ PruneWrites \/ PruneFails \/ MainFlushes
  BY <1>3, FlushesInv
<1>4. CASE Cancel \/ Drain
  BY <1>4, ShutdownInv
<1> QED
  BY <1>1, <1>2, <1>3, <1>4, TickInv, PruneInv, PruneDeletesInv, StutterInv DEF Next

\* The coalescer's invariant holds in every state.
THEOREM Invariant == Spec => []Inv
<1>1. Init => Inv
  BY InitInv
<1>2. Inv /\ [Next]_vars => Inv'
  BY NextInv
<1> QED
  BY <1>1, <1>2, PTL DEF Spec

-----------------------------------------------------------------------------
(* What the runs check.                                                    *)

LEMMA StoredRow ==
  ASSUME Inv, NEW i \in Ids, Stored(i)
  PROVE  KeyOf(i) \in Keys /\ row[KeyOf(i)].id = i /\ row[KeyOf(i)] # NoRow
BY RowTyped DEF Stored, KeyOf, Inv, TypeOK, TablesOK

\* observation_count is exact: no hearing is counted twice or not at all, by
\* whatever mix of bumps, write-throughs and flushes, unless a flush failed.
THEOREM Counts == Spec => []CountConserved
<1>1. Inv => CountConserved
  <2> SUFFICES ASSUME Inv, NEW i \in Ids, Stored(i), i \notin lost
               PROVE  row[KeyOf(i)].count + Unflushed(i) = hits[i] - 1
    BY DEF CountConserved
  <2>1. KeyOf(i) \in Keys /\ row[KeyOf(i)].id = i /\ Intact(KeyOf(i))
    BY StoredRow DEF Intact
  <2>2. CountKept(KeyOf(i))
    BY <2>1 DEF Inv, Kept, KeptAt
  <2> QED
    BY <2>1, <2>2 DEF CountKept
<1> QED
  BY <1>1, Invariant, PTL

\* The row of an observer whose bumps were all written has the time and an
\* IATA of its newest hearing, in whatever order the statements ended.
THEOREM Newest == Spec => []NewestHearingKept
<1>1. Inv => NewestHearingKept
  <2> SUFFICES ASSUME Inv, NEW i \in Ids, Stored(i), i \notin lost
               PROVE  /\ \/ row[KeyOf(i)].seen >= latest[i] \/ dirty[i].seen >= latest[i]
                         \/ \E f \in Flushers : batch[f][i].seen >= latest[i]
                      /\ ~Pending(i) => /\ row[KeyOf(i)].at = newest[i].at
                                        /\ row[KeyOf(i)].iata \in newest[i].iatas
    BY DEF NewestHearingKept
  <2> PICK k \in Keys : k = KeyOf(i)
    BY StoredRow
  <2>1. row[k].id = i /\ Intact(k)
    BY StoredRow DEF Intact
  <2>2. SeenKept(k) /\ IataKept(k)
    BY <2>1 DEF Inv, Kept, KeptAt
  <2>3. ASSUME ~Pending(i) PROVE row[k].at = newest[i].at
    <3>1. dirty[i].at = 0 /\ \A f \in Flushers : batch[f][i].at = 0
      BY <2>3 DEF Pending, NoBump
    <3>2. row[k].at \in Nat /\ newest[i].at \in Nat
      BY <2>1, HeldRow DEF Intact, Rows, Inv, TypeOK, HistoryOK
    <3>3. row[k].at <= newest[i].at
      BY <2>1, <2>2 DEF IataKept
    <3>4. row[k].at = newest[i].at \/ newest[i].at = 0
      BY <2>1, <2>2, <3>1 DEF IataKept
    <3> QED
      BY <3>2, <3>3, <3>4
  <2> QED
    BY <2>1, <2>2, <2>3 DEF SeenKept, IataKept
<1> QED
  BY <1>1, Invariant, PTL

\* A cached id is the id of its observer's row.
THEOREM CachedIds == Spec => []CachedIdLives
<1>1. Inv => CachedIdLives
  BY DEF Inv, Control, RowsHeld, CachedIdLives
<1> QED
  BY <1>1, Invariant, PTL

\* Main's flush leaves nothing in memory.
THEOREM NoneBehind == Spec => []NothingLeftBehind
<1>1. Inv => NothingLeftBehind
  BY DEF Inv, Control, MainIsLast, NothingLeftBehind
<1> QED
  BY <1>1, Invariant, PTL

\* A row goes only when its observer's last hearing lies before the cutoff,
\* or was missed by no more than the time of a status update.
THEOREM ActiveKept == Spec => ActiveObserverKept
<1>1. ASSUME Inv, [Next]_vars, NEW k \in Keys, row[k] # NoRow, row[k].id \notin lost, row'[k] = NoRow
      PROVE  latest[row[k].id] < cutoff + CallMax
  <2>1. PruneDeletes
    <3>1. row[k] \in Rows /\ row[k].id \in Ids
      BY <1>1, HeldRow
    <3>2. ASSUME UNCHANGED row PROVE FALSE
      BY <1>1, <3>2
    <3>3. ASSUME NEW c \in Callers, Observer(c) PROVE FALSE
      <4>1. ASSUME NEW j \in Keys, NEW iata \in SomeIata, NEW at \in Nat, Upsert(j, iata, at) PROVE FALSE
        BY <1>1, <4>1, UpsertEffect
      <4>2. call[c].pc = "missed" => call[c].key \in Keys /\ call[c].iata \in SomeIata /\ call[c].at \in Nat
        BY <1>1, CallTyped DEF Inv, TypeOK, ControlOK, MissedCalls
      <4>3. ASSUME WriteThrough(c) \/ WriteFails(c) PROVE FALSE
        BY <3>2, <4>1, <4>2, <4>3 DEF WriteThrough, WriteFails, db
      <4>4. ASSUME NEW j \in Keys, NEW name \in Names, Status(c, j, name) PROVE FALSE
        <5> PICK r : r = [row[j] EXCEPT !.name = name, !.seen = clock]
          OBVIOUS
        <5>1. row'[j] = r /\ \A m \in Keys : m # j => row'[m] = row[m]
          BY <1>1, <4>4 DEF Status, Inv, TypeOK, TablesOK
        <5>2. row[j] \in Rows => r.id = row[j].id
          BY DEF Rows
        <5>3. row[k].id # 0 /\ row'[k].id = row[k].id
          BY <1>1, <3>1, <5>1, <5>2, RowTyped
        <5> QED
          BY <1>1, <5>3 DEF NoRow
      <4> QED
        BY <3>2, <3>3, <4>3, <4>4 DEF Observer, Hit, Miss, Remember, DropIdentity, db
    <3>4. ASSUME NEW f \in Flushers, NEW next, Lands(f, next) PROVE FALSE
      BY <1>1, <3>1, <3>4, LandedRow
    <3>5. ASSUME RunWrites \/ RunFails \/ PruneWrites \/ PruneFails \/ MainFlushes PROVE FALSE
      <4> "run" \in Flushers /\ "prune" \in Flushers /\ "main" \in Flushers
        BY DEF Flushers
      <4> QED
        BY <3>4, <3>5 DEF RunWrites, RunFails, PruneWrites, PruneFails, MainFlushes, Lands
    <3> QED
      BY <1>1, <3>2, <3>3, <3>5
      DEF Next, Tick, RunTake, RunFinalTake, MainTake, Prune, Cancel, Drain, db, vars
  <2>2. flusher["prune"] = "deleting" /\ row[k].seen < cutoff
    BY <1>1, <2>1 DEF PruneDeletes
  <2>3. SeenInReach(k)
    BY <1>1 DEF Inv, Kept, Intact, KeptAt
  <2>4. identities[k] = Unknown
    <3>1. row[k].seen \in Nat /\ cutoff \in Int
      BY <1>1, HeldRow DEF Inv, TypeOK, ControlOK, Rows
    <3> QED
      BY <1>1, <2>2, <3>1 DEF Inv, Control, RowsHeld
  <2>5. row[k].seen \in Nat /\ cutoff \in Int /\ CallMax \in Nat /\ latest[row[k].id] \in Nat
    BY <1>1, HeldRow, PresenceAssumption DEF Inv, TypeOK, ControlOK, HistoryOK, Rows
  <2> QED
    BY <2>2, <2>3, <2>4, <2>5 DEF SeenInReach
<1>2. Inv /\ [Next]_vars =>
        [\A k \in Keys :
           row[k] # NoRow /\ row[k].id \notin lost /\ row'[k] = NoRow
             => latest[row[k].id] < cutoff + CallMax]_vars
  BY <1>1
<1> QED
  BY <1>2, Invariant, PTL DEF Spec, ActiveObserverKept
=============================================================================
