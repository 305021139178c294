------------------------------- MODULE Rollup --------------------------------
(***************************************************************************)
(* Hourly analytics: the rollup pass (internal/background/rollup.go,       *)
(* db/rollup.go, db/queries/rollup.sql) and the packet cleanup             *)
(* (internal/background/tasks.go) over one database, fed by ingest         *)
(* (internal/ingest/packet.go) and by the channel backfill                 *)
(* (internal/ingest/backfill.go).                                          *)
(*                                                                         *)
(* A statement is a step; a roll and the deletion of old rollups, which    *)
(* meet over the same rows, are a snapshot and, later, a commit.  The pass *)
(* holds the advisory lock, so there is one.  An observation is kept as    *)
(* the hour it was heard in.                                               *)
(***************************************************************************)
EXTENDS Integers, FiniteSets

CONSTANTS
  Packets,          \* group texts on one channel
  Workers,          \* broker workers, each handling one message at a time
  HourLen, Clamp,   \* an hour, and how far heard_at may be off: 30 min
  Lag,              \* the 30 s timeout of a message's handling
  Delay,            \* rollupDelay, 95 min
  Margin, Cap,      \* rawHoldbackMargin, 35 min, and rawHoldbackCap, 24 h
  Retention, RollupRetention,
  MissingBudget, DirtyBatch, DirtyBudget, DeleteBatch,
  NoTime,
  MaxHeard, MaxHeardAt, MaxClock  \* the bounds on messages, their times and time

ASSUME RollupAssumption ==
  /\ HourLen \in Nat \ {0} /\ Clamp \in Nat /\ Lag \in Nat /\ Delay \in Nat
  /\ Delay >= HourLen + Clamp + Lag
  /\ Margin \in Nat /\ Margin >= Clamp + Lag /\ Cap \in Nat
  /\ Retention \in Nat /\ RollupRetention \in Nat
  /\ MaxHeard \in Nat /\ MaxClock \in Nat /\ NoTime \notin Int

Hours == {h \in 0..MaxClock : h % HourLen = 0}

VARIABLES
  clock,
  packet,     \* packets: packet -> last_heard_at, NoTime without a row
  obs,        \* packet_observations: packet -> hours it was heard in
  message,    \* channel_messages: packet -> how its message was stored
  known,      \* whether the channel's key is in the keystore
  backfill,   \* packets the backfill listed and has not done
  call,       \* worker -> the message it handles
  status,     \* analytics_rollup_hours: hour -> status
  content,    \* the hour's rollup rows and their hash
  dirty,      \* analytics_dirty_hours
  deleted,    \* raw_deleted_before
  revision, coverage,
  pass,       \* where the pass is, and its locals
  roll,       \* the transaction of RollHour
  cleanup,    \* where the cleanup is, and its locals
  messages,   \* messages so far
  heard,      \* history: hour -> packets ever observed in it
  untold,     \* history: hours that lost a row raw_deleted_before leaves out
  waited      \* history: hours a cleanup saw missing and whole

raw == <<packet, obs, message>>
rolled == <<status, content, revision>>
feed == <<known, backfill, call, messages>>
tasks == <<pass, roll, cleanup>>
history == <<heard, untold, waited>>
vars == <<clock, raw, rolled, feed, tasks, dirty, deleted, coverage, history>>

Statuses == {"none", "missing", "complete", "partial"}
NoContent == [packets |-> {}, texts |-> {}, rolled |-> FALSE]
NoCall == [pc |-> "idle"]
NoPass == [pc |-> "idle", todo |-> {}, tried |-> {}]
NoRoll == [pc |-> "none"]
NoCleanup == [pc |-> "idle", now |-> 0, cutoff |-> 0, queued |-> {}, rewritten |-> {}]

Init ==
  /\ clock = 0
  /\ packet = [p \in Packets |-> NoTime] /\ obs = [p \in Packets |-> {}]
  /\ message = [p \in Packets |-> "none"]
  /\ known = FALSE /\ backfill = {} /\ call = [w \in Workers |-> NoCall]
  /\ status = [h \in Hours |-> "none"] /\ content = [h \in Hours |-> NoContent]
  /\ dirty = {} /\ deleted = NoTime /\ revision = 0 /\ coverage = 0
  /\ pass = NoPass /\ roll = NoRoll /\ cleanup = NoCleanup
  /\ messages = 0 /\ heard = [h \in Hours |-> {}] /\ untold = {} /\ waited = {}

\* A message's statements are cancelled Lag after its handling began.
Tick ==
  /\ clock < MaxClock
  /\ \A w \in Workers : call[w].pc # "idle" => clock < call[w].since + Lag
  /\ clock' = clock + 1
  /\ UNCHANGED <<raw, rolled, feed, tasks, dirty, deleted, coverage, history>>

-----------------------------------------------------------------------------
(* Ingest: UpsertPacket, then InsertObservation, then the group text.      *)

UpsertPacket(w, p) ==
  /\ call[w].pc = "idle"
  /\ clock <= MaxHeardAt /\ messages < MaxHeard /\ messages' = messages + 1
  /\ packet' = [packet EXCEPT ![p] = clock]
  /\ call' = [call EXCEPT ![w] = [pc |-> "packet", packet |-> p, since |-> clock]]
  /\ UNCHANGED <<clock, obs, message, rolled, known, backfill, tasks, dirty, deleted,
                 coverage, history>>

Finish(w) == call' = [call EXCEPT ![w] = NoCall]

\* heard_at is clamped to the server's time, read at c, after UpsertPacket.
HeardIn(h, c) == h <= c + Clamp /\ c - Clamp < h + HourLen

InsertObservation(w) ==
  LET p == call[w].packet IN
  /\ call[w].pc = "packet"
  /\ packet[p] # NoTime
  /\ \E c \in call[w].since..clock, h \in Hours \ obs[p] :
       /\ HeardIn(h, c)
       /\ obs' = [obs EXCEPT ![p] = @ \cup {h}]
       /\ heard' = [heard EXCEPT ![h] = @ \cup {p}]
  /\ call' = [call EXCEPT ![w].pc = "text"]
  /\ UNCHANGED <<clock, packet, message, rolled, known, backfill, messages, tasks, dirty,
                 deleted, coverage, untold, waited>>

\* InsertChannelMessage with historical = false queues nothing.
LiveText(w) ==
  LET p == call[w].packet IN
  /\ call[w].pc = "text"
  /\ message' = IF known /\ message[p] = "none" /\ packet[p] # NoTime
                THEN [message EXCEPT ![p] = "live"] ELSE message
  /\ Finish(w)
  /\ UNCHANGED <<clock, packet, obs, rolled, known, backfill, messages, tasks, dirty,
                 deleted, coverage, history>>

\* A duplicate, an error, or the timeout.
Abandon(w) ==
  /\ call[w].pc # "idle"
  /\ Finish(w)
  /\ UNCHANGED <<clock, raw, rolled, known, backfill, messages, tasks, dirty, deleted,
                 coverage, history>>

Ingest == \E w \in Workers :
  (\E p \in Packets : UpsertPacket(w, p)) \/ InsertObservation(w) \/ LiveText(w) \/ Abandon(w)

-----------------------------------------------------------------------------
(* The backfill.                                                           *)

ImportKey ==
  /\ ~known /\ known' = TRUE
  /\ UNCHANGED <<clock, raw, rolled, backfill, call, messages, tasks, dirty, deleted,
                 coverage, history>>

ListUndecrypted ==
  /\ known /\ backfill = {}
  /\ backfill' = {p \in Packets : packet[p] # NoTime /\ message[p] = "none"}
  /\ UNCHANGED <<clock, raw, rolled, known, call, messages, tasks, dirty, deleted,
                 coverage, history>>

\* A row the roll's snapshot shows and that changes under it fails the roll.
Requeues(p) == IF roll.pc = "open" /\ roll.hour \in obs[p]
               THEN [roll EXCEPT !.requeued = TRUE] ELSE roll

\* InsertChannelMessage with historical = true: the message and the hours to
\* re-roll, in one statement.
BackfillText(p) ==
  /\ p \in backfill /\ backfill' = backfill \ {p}
  /\ IF packet[p] # NoTime /\ message[p] = "none"
     THEN /\ message' = [message EXCEPT ![p] = "backfilled"]
          /\ dirty' = dirty \cup obs[p]
          /\ roll' = Requeues(p)
     ELSE UNCHANGED <<message, dirty, roll>>
  /\ UNCHANGED <<clock, packet, obs, rolled, known, call, messages, pass, cleanup, deleted,
                 coverage, history>>

\* A failed insert is skipped; the deadline or a restart ends the scan.
BackfillFails(P) ==
  /\ P # {} /\ P \subseteq backfill /\ backfill' = backfill \ P
  /\ UNCHANGED <<clock, raw, rolled, known, call, messages, tasks, dirty, deleted,
                 coverage, history>>

Backfill == ImportKey \/ ListUndecrypted \/ (\E p \in backfill : BackfillText(p))
            \/ BackfillFails(backfill) \/ (\E p \in backfill : BackfillFails({p}))

-----------------------------------------------------------------------------
(* The pass.                                                               *)

Later(a, b) == IF a >= b THEN a ELSE b
Least(a, b) == IF a <= b THEN a ELSE b
IsFirst(h, S) == h \in S /\ \A g \in S : h <= g
\* The first n hours of a set.
Oldest(S, n) == {h \in S : Cardinality({g \in S : g < h}) < n}

\* Raw deletion has reached the hour (raw_deleted_before + 30 min).
Reached(h) == deleted # NoTime /\ h <= deleted + Clamp
Missing == {h \in Hours : status[h] = "missing"}

\* registerSince: hours raw rows still exist for and cleanup keeps.
Since == Later(clock - Retention, clock - RollupRetention)

\* Closed hours, empty ones included, from the earliest observation on.
Eligible(h) ==
  /\ h + Delay <= clock /\ Since <= h
  /\ \E p \in Packets : \E g \in obs[p] : g <= h

RegisterHours ==
  /\ pass.pc = "idle"
  /\ status' = [h \in Hours |-> IF status[h] = "none" /\ Eligible(h) THEN "missing" ELSE status[h]]
  /\ pass' = [pass EXCEPT !.pc = "mark"]
  /\ UNCHANGED <<clock, raw, content, revision, feed, roll, cleanup, dirty, deleted, coverage,
                 history>>

Bump(changed) == revision' = IF changed THEN revision + 1 ELSE revision

MarkPartial ==
  /\ pass.pc = "mark"
  /\ LET marked == {h \in Missing : Reached(h)} IN
     /\ status' = [h \in Hours |-> IF h \in marked THEN "partial" ELSE status[h]]
     /\ Bump(marked # {})
  /\ pass' = [pass EXCEPT !.pc = "list"]
  /\ UNCHANGED <<clock, raw, content, feed, roll, cleanup, dirty, deleted, coverage, history>>

ListMissing ==
  /\ pass.pc = "list"
  /\ pass' = [pass EXCEPT !.pc = "roll", !.todo = Oldest(Missing, MissingBudget)]
  /\ UNCHANGED <<clock, raw, rolled, feed, roll, cleanup, dirty, deleted, coverage, history>>

\* While the deletion of old rollups is under way: entries its snapshot shows
\* are gone, and a roll writes rows its snapshot does not show.
Overtake(gone, written) ==
  cleanup' = IF cleanup.pc = "deleting"
             THEN [cleanup EXCEPT !.queued = @ \ gone, !.rewritten = @ \cup written]
             ELSE cleanup

\* DirtyHours: first drop the entries that can no longer be re-rolled...
Hopeless(h) == status[h] = "partial" \/ Reached(h)

DeleteStaleDirty ==
  /\ pass.pc = "roll" /\ pass.todo = {} /\ roll = NoRoll
  /\ IF Cardinality(pass.tried) < DirtyBudget
     THEN /\ dirty' = {h \in dirty : ~Hopeless(h)}
          /\ Overtake({h \in dirty : Hopeless(h)}, {})
          /\ pass' = [pass EXCEPT !.pc = "dirty"]
     ELSE pass' = NoPass /\ UNCHANGED <<dirty, cleanup>>
  /\ UNCHANGED <<clock, raw, rolled, feed, roll, deleted, coverage, history>>

\* ... then list the complete hours among the rest.  None is tried twice.
Rerollable == {h \in dirty : status[h] = "complete" /\ ~Reached(h)}

ListDirty ==
  /\ pass.pc = "dirty"
  /\ LET limit == Least(DirtyBatch, DirtyBudget - Cardinality(pass.tried))
         fresh == Oldest(Rerollable, limit) \ pass.tried IN
     pass' = IF fresh = {} THEN NoPass
             ELSE [pass EXCEPT !.pc = "roll", !.todo = fresh, !.tried = @ \cup fresh]
  /\ UNCHANGED <<clock, raw, rolled, feed, roll, cleanup, dirty, deleted, coverage, history>>

\* The context ends, or a statement outside RollHour fails.
PassFails ==
  /\ pass.pc # "idle"
  /\ pass' = NoPass /\ roll' = NoRoll
  /\ UNCHANGED <<clock, raw, rolled, feed, cleanup, dirty, deleted, coverage, history>>

-----------------------------------------------------------------------------
(* RollHour: REPEATABLE READ, the snapshot taken by LockRollupHour.        *)

Ready(h) == pass.pc = "roll" /\ roll = NoRoll /\ IsFirst(h, pass.todo)
HourDone(h) == pass' = [pass EXCEPT !.todo = @ \ {h}]

\* Mutant: raw deletion since the listing is not seen.
StaleStatus(h) == status[h]

\* LockRollupHour
LockedStatus(h) == IF Reached(h) THEN "partial" ELSE status[h]

\* What the families are rolled from.
Raw(h) ==
  LET ps == {p \in Packets : h \in obs[p]} IN
  [packets |-> ps, texts |-> {p \in ps : message[p] # "none"}, rolled |-> TRUE]

\* The hour's row is gone, or the roll fails before its snapshot.
RollSkipped(h) ==
  /\ Ready(h)
  /\ HourDone(h)
  /\ UNCHANGED <<clock, raw, rolled, feed, roll, cleanup, dirty, deleted, coverage, history>>

RollPartial(h) ==
  /\ Ready(h) /\ status[h] # "none" /\ LockedStatus(h) = "partial"
  /\ status' = IF status[h] = "missing" THEN [status EXCEPT ![h] = "partial"] ELSE status
  /\ Bump(status[h] = "missing")
  /\ HourDone(h)
  /\ UNCHANGED <<clock, raw, content, feed, roll, cleanup, dirty, deleted, coverage, history>>

RollBegins(h) ==
  /\ Ready(h) /\ status[h] # "none" /\ LockedStatus(h) # "partial"
  /\ roll' = [pc |-> "open", hour |-> h, content |-> Raw(h),
              queued |-> h \in dirty, requeued |-> FALSE]
  /\ UNCHANGED <<clock, raw, rolled, feed, pass, cleanup, dirty, deleted, coverage, history>>

\* Mutant: an entry written after the snapshot goes too.
UndirtiedAll == dirty \ {roll.hour}

\* The entry FinishRollupHour deletes is the one its snapshot shows.
Undirtied == IF roll.queued THEN dirty \ {roll.hour} ELSE dirty
Conflict == roll.queued /\ roll.requeued

RollCommits ==
  LET h == roll.hour IN
  /\ roll.pc = "open" /\ ~Conflict
  /\ status' = [status EXCEPT ![h] = "complete"]
  /\ content' = [content EXCEPT ![h] = roll.content]
  /\ Bump(content[h] # roll.content)
  /\ dirty' = Undirtied
  /\ Overtake(dirty \ Undirtied, {h})
  /\ roll' = NoRoll /\ HourDone(roll.hour)
  /\ UNCHANGED <<clock, raw, feed, deleted, coverage, history>>

\* A serialization failure or an error: the hour stays as it was.
RollFails ==
  /\ roll.pc = "open"
  /\ roll' = NoRoll /\ HourDone(roll.hour)
  /\ UNCHANGED <<clock, raw, rolled, feed, cleanup, dirty, deleted, coverage, history>>

Pass == RegisterHours \/ MarkPartial \/ ListMissing \/ DeleteStaleDirty \/ ListDirty
        \/ PassFails
Rolls == (\E h \in Hours : RollSkipped(h) \/ RollPartial(h) \/ RollBegins(h))
         \/ RollCommits \/ RollFails

-----------------------------------------------------------------------------
(* The cleanup.                                                            *)

\* Mutant: no margin for what is heard ahead of time.
CutoffAtHour(oldest, cutoff) == IF oldest >= cutoff THEN cutoff ELSE Later(oldest, cutoff - Cap)

\* rawCutoff: behind the oldest missing hour, but by no more than Cap.
RawCutoff(oldest, cutoff) ==
  LET held == oldest - Margin IN
  IF held >= cutoff THEN cutoff ELSE Later(held, cutoff - Cap)

CleanFrom(cutoff) ==
  /\ cleanup' = [NoCleanup EXCEPT !.pc = "packets", !.now = clock, !.cutoff = cutoff]
  /\ waited' = waited \cup {h \in Missing : ~Reached(h)}

HoldBack ==
  /\ cleanup.pc = "idle"
  /\ IF Missing = {} THEN CleanFrom(clock - Retention)
     ELSE \E h \in Hours : IsFirst(h, Missing) /\ CleanFrom(RawCutoff(h, clock - Retention))
  /\ UNCHANGED <<clock, raw, rolled, feed, pass, roll, dirty, deleted, coverage, heard, untold>>

\* Rows an insert under way may hold a lock on.
Handled(p) == \E w \in Workers : call[w].pc # "idle" /\ call[w].packet = p
Locked == backfill \cup {p \in Packets : Handled(p)}

\* One batch, oldest first, without the rows skipped because they are locked.
Old(skipped) == {p \in Packets \ skipped : packet[p] # NoTime /\ packet[p] < cleanup.cutoff}
Victims(old) == {V \in SUBSET old :
  /\ Cardinality(V) = Least(DeleteBatch, Cardinality(old))
  /\ \A p \in V, q \in old \ V : packet[p] <= packet[q]}
IsNewest(t, V) == (\E p \in V : packet[p] = t) /\ \A p \in V : packet[p] <= t

DeleteOldPackets(V) ==
  /\ packet' = [p \in Packets |-> IF p \in V THEN NoTime ELSE packet[p]]
  /\ obs' = [p \in Packets |-> IF p \in V THEN {} ELSE obs[p]]
  /\ message' = [p \in Packets |-> IF p \in V THEN "none" ELSE message[p]]
  /\ IF V = {} THEN UNCHANGED deleted
     ELSE \E t \in 0..MaxClock : IsNewest(t, V)
            /\ deleted' = IF deleted = NoTime THEN t ELSE Later(deleted, t)
  /\ untold' = untold \cup {h \in Hours : \E p \in V : h \in obs[p] /\ h > packet[p] + Clamp}

DeleteBatchOf(skipped) ==
  /\ cleanup.pc = "packets"
  /\ \E V \in Victims(Old(skipped)) :
       /\ DeleteOldPackets(V)
       /\ cleanup' = [cleanup EXCEPT !.pc = IF Cardinality(V) < DeleteBatch THEN "rollups" ELSE @]
  /\ UNCHANGED <<clock, rolled, feed, pass, roll, dirty, coverage, heard, waited>>

\* Mutant: deleted hours leave the cache key as it was.
CoverNothing(old) == coverage' = coverage /\ old \subseteq Hours

Cover(old) ==
  coverage' = IF \E h \in old : status[h] # "none" THEN coverage + 1 ELSE coverage

OldHours == {h \in Hours : h < cleanup.now - RollupRetention}

\* DeleteOldRollups is one READ COMMITTED statement.  Its snapshot shows the
\* rows it will delete, ...
SnapshotOldRollups ==
  /\ cleanup.pc = "rollups"
  /\ cleanup' = [cleanup EXCEPT !.pc = "deleting", !.queued = dirty \cap OldHours]
  /\ UNCHANGED <<clock, raw, rolled, feed, pass, roll, dirty, deleted, coverage, history>>

\* ... and it waits for the roll that holds an hour's row, deletes the row in
\* the version the roll left, and misses the rollup rows the roll inserted.
DeleteOldRollups ==
  /\ cleanup.pc = "deleting"
  /\ roll.pc = "open" => roll.hour \notin OldHours
  /\ status' = [h \in Hours |-> IF h \in OldHours THEN "none" ELSE status[h]]
  /\ content' = [h \in Hours |-> IF h \in OldHours \ cleanup.rewritten THEN NoContent
                                 ELSE content[h]]
  /\ dirty' = dirty \ cleanup.queued
  /\ Cover(OldHours)
  /\ cleanup' = NoCleanup
  /\ waited' = waited \ OldHours
  /\ UNCHANGED <<clock, raw, revision, feed, pass, roll, deleted, heard, untold>>

CleanupFails ==
  /\ cleanup.pc # "idle" /\ cleanup' = NoCleanup
  /\ UNCHANGED <<clock, raw, rolled, feed, pass, roll, dirty, deleted, coverage, history>>

Cleanup == HoldBack \/ (\E S \in SUBSET Locked : DeleteBatchOf(S))
           \/ SnapshotOldRollups \/ DeleteOldRollups \/ CleanupFails

-----------------------------------------------------------------------------
Next == Tick \/ Ingest \/ Backfill \/ Pass \/ Rolls \/ Cleanup
Spec == Init /\ [][Next]_vars

-----------------------------------------------------------------------------
(* Properties.                                                             *)

Times == 0..MaxClock
Contents == [packets : SUBSET Packets, texts : SUBSET Packets, rolled : BOOLEAN]
Calls == {NoCall} \cup [pc : {"packet", "text"}, packet : Packets, since : Times]
Passes == [pc : {"idle", "mark", "list", "roll", "dirty"},
           todo : SUBSET Hours, tried : SUBSET Hours]
OpenRolls == [pc : {"open"}, hour : Hours, content : Contents, queued : BOOLEAN, requeued : BOOLEAN]
Cleanups == [pc : {"idle", "packets", "rollups", "deleting"}, now : Times, cutoff : Int,
             queued : SUBSET Hours, rewritten : SUBSET Hours]

RawOK ==
  /\ packet \in [Packets -> Times \cup {NoTime}]
  /\ obs \in [Packets -> SUBSET Hours]
  /\ message \in [Packets -> {"none", "live", "backfilled"}]
  /\ deleted \in Times \cup {NoTime}

RolledOK ==
  /\ status \in [Hours -> Statuses] /\ content \in [Hours -> Contents]
  /\ \A h \in Hours : status[h] = "complete" => content[h].rolled
  /\ \A h \in Hours : content[h].rolled /\ status[h] # "complete" =>
       status[h] = "none" /\ h + RollupRetention < clock
  /\ dirty \subseteq Hours /\ revision \in Nat /\ coverage \in Nat

FeedOK ==
  /\ clock \in Times /\ messages \in 0..MaxHeard /\ known \in BOOLEAN
  /\ call \in [Workers -> Calls] /\ backfill \subseteq Packets

TasksOK ==
  pass \in Passes /\ roll \in {NoRoll} \cup OpenRolls /\ cleanup \in Cleanups

HistoryOK ==
  heard \in [Hours -> SUBSET Packets] /\ untold \subseteq Hours /\ waited \subseteq Hours

\* Every variable has its type, a complete hour has its rollup rows (rollHour
\* writes both in one transaction), and rollup rows that are not a complete
\* hour's are past their retention, with no row of the hour: a roll wrote them
\* while DeleteOldRollups deleted it.
RollupTypeOK == RawOK /\ RolledOK /\ FeedOK /\ TasksOK /\ HistoryOK

\* A complete hour counts every observation ever made in it: it was rolled
\* neither before the last one (rollupDelay) nor after the first was deleted
\* (raw_deleted_before).  Excepted are hours that lost a row heard more than
\* the clamp after its packet's last_heard_at, which raw_deleted_before leaves
\* out.
WholeHours ==
  \A h \in Hours \ untold : status[h] = "complete" => content[h].packets = heard[h]

\* While its raw rows remain, a complete hour counts every backfilled message
\* whose packet was heard in it, or its re-roll is still queued, whatever roll
\* was under way when the message came (InsertChannelMessage, FinishRollupHour).
BackfilledCounted ==
  \A h \in Hours : status[h] = "complete" /\ h \notin dirty /\ ~Reached(h) =>
    \A p \in Packets : h \in obs[p] /\ message[p] = "backfilled" => p \in content[h].texts

\* An hour that a cleanup saw missing, with its raw rows, turns partial only
\* when those were held back for all of Cap (rawCutoff).
PartialOnlyAfterCap ==
  [][\A h \in waited : status[h] = "missing" /\ status'[h] = "partial" =>
       clock > h - Clamp + Retention + Cap]_vars

\* What readers that join the hours' rows are told of one: the rollup rows of a
\* complete hour; without a row it is missing.
Told(h) ==
  [status  |-> IF status[h] = "none" THEN "missing" ELSE status[h],
   content |-> IF status[h] = "complete" THEN content[h] ELSE NoContent]

\* The cache key of rollup-backed responses, revision plus coverage, moves
\* with every change of what these readers are told (GetAnalyticsRevision).
RevisionMoves ==
  [][(\E h \in Hours : Told(h)' # Told(h)) => revision' + coverage' > revision + coverage]_vars

\* GetAnalyticsRevision, rollup.sql:274: the sum "changes whenever rolled content
\* or coverage does".  GetScopeByName sums rollup rows without joining the
\* hours, and what it answers is cached under that key.
SummedMoves ==
  [][content' # content => revision' + coverage' > revision + coverage]_vars
==============================================================================
