---------------------------- MODULE RollupProofs -----------------------------
(***************************************************************************)
(* Theorems of Rollup, for all packets, workers, budgets and times that    *)
(* satisfy RollupAssumption.                                               *)
(***************************************************************************)
EXTENDS Rollup, TLAPS

-----------------------------------------------------------------------------
(* Types, and what each task may rely on.                                  *)

\* An hour without rows has the one empty content.
Rows == \A h \in Hours : ~content[h].rolled => content[h] = NoContent

\* A cleanup began in the past, and its last statement saw entries of old hours.
CleanupOK == cleanup.now <= clock /\ cleanup.queued \subseteq OldHours

\* An open roll belongs to a pass and to a registered hour.
RollOK ==
  roll.pc = "open" => status[roll.hour] # "none" /\ roll.content.rolled /\ pass.pc = "roll"

\* A registered hour was closed for Delay.
Closed == \A h \in Hours : status[h] # "none" => h + Delay <= clock

\* A message is handled for at most Lag.
InTime == \A w \in Workers : call[w].pc # "idle" =>
            call[w].since <= clock /\ clock <= call[w].since + Lag

TypeInv == RollupTypeOK /\ Rows /\ RollOK /\ Closed /\ InTime /\ CleanupOK

LEMMA HoursAreTimes == Hours \subseteq Int /\ Hours \subseteq Times
  BY RollupAssumption DEF Hours, Times

LEMMA RollTyped ==
  ASSUME RollupTypeOK
  PROVE /\ roll.pc = "open" => roll \in OpenRolls /\ roll.hour \in Hours /\ roll.content \in Contents
        /\ roll # NoRoll => roll.pc = "open"
  BY DEF RollupTypeOK, TasksOK, OpenRolls, NoRoll

LEMMA TypeStart == Init => TypeInv
<1> SUFFICES ASSUME Init PROVE TypeInv
  OBVIOUS
<1> USE RollupAssumption, HoursAreTimes
<1>1. RawOK
  BY DEF Init, RawOK
<1>2. RolledOK
  BY DEF Init, RolledOK, Statuses, Contents, NoContent
<1>3. FeedOK
  <2>1. clock \in Times /\ messages \in 0..MaxHeard
    BY DEF Init, Times
  <2> QED
    BY <2>1 DEF Init, FeedOK, Calls, NoCall
<1>4. TasksOK
  BY DEF Init, TasksOK, NoPass, Passes, NoRoll, NoCleanup, Cleanups, Times
<1>5. HistoryOK
  BY DEF Init, HistoryOK
<1>6. Rows /\ RollOK /\ Closed /\ InTime /\ CleanupOK
  BY DEF Init, Rows, RollOK, Closed, InTime, CleanupOK, NoRoll, NoCall, NoCleanup
<1> QED
  BY <1>1, <1>2, <1>3, <1>4, <1>5, <1>6 DEF TypeInv, RollupTypeOK

LEMMA Untouched ==
  /\ RawOK /\ UNCHANGED <<raw, deleted>> => RawOK'
  /\ RolledOK /\ UNCHANGED <<clock, rolled, dirty, coverage>> => RolledOK'
  /\ FeedOK /\ UNCHANGED <<clock, feed>> => FeedOK'
  /\ TasksOK /\ UNCHANGED tasks => TasksOK'
  /\ HistoryOK /\ UNCHANGED history => HistoryOK'
  /\ Rows /\ UNCHANGED rolled => Rows'
  /\ RollOK /\ UNCHANGED <<pass, roll, rolled>> => RollOK'
  /\ Closed /\ UNCHANGED <<clock, rolled>> => Closed'
  /\ InTime /\ UNCHANGED <<clock, call>> => InTime'
  /\ CleanupOK /\ UNCHANGED <<clock, cleanup>> => CleanupOK'
  BY DEF raw, rolled, feed, tasks, history, RawOK, RolledOK, FeedOK, TasksOK, HistoryOK, Rows,
         RollOK, Closed, InTime, CleanupOK, OldHours

LEMMA Overtaken ==
  ASSUME cleanup \in Cleanups, NEW gone \in SUBSET Hours, NEW written \in SUBSET Hours,
         Overtake(gone, written)
  PROVE  /\ cleanup' \in Cleanups
         /\ cleanup'.now = cleanup.now /\ cleanup'.pc = cleanup.pc
         /\ cleanup'.cutoff = cleanup.cutoff /\ cleanup'.queued \subseteq cleanup.queued
  BY DEF Overtake, Cleanups

LEMMA TypeStep == TypeInv /\ [Next]_vars => TypeInv'
<1> SUFFICES ASSUME TypeInv, [Next]_vars PROVE TypeInv'
  OBVIOUS
<1> USE RollupAssumption, HoursAreTimes, RollTyped DEF TypeInv, RollupTypeOK, raw, rolled, feed, tasks, history
<1>1. ASSUME Tick PROVE TypeInv'
  <2>1. FeedOK'
    BY <1>1 DEF FeedOK, Tick, Times
  <2>2. Closed'
    BY <1>1 DEF Closed, Tick, FeedOK, Times
  <2>3. InTime'
    BY <1>1 DEF InTime, Tick, FeedOK, Times, Calls, NoCall
  <2>4. RolledOK' /\ CleanupOK'
    BY <1>1 DEF RolledOK, CleanupOK, OldHours, Tick, FeedOK, TasksOK, Cleanups, Times
  <2> QED
    BY <1>1, <2>1, <2>2, <2>3, <2>4, Untouched DEF Tick
<1>2. ASSUME NEW w \in Workers, NEW p \in Packets, UpsertPacket(w, p) PROVE TypeInv'
  <2>1. RawOK'
    BY <1>2 DEF RawOK, UpsertPacket, FeedOK
  <2>2. FeedOK'
    BY <1>2 DEF FeedOK, UpsertPacket, Calls, NoCall, Times
  <2>3. InTime'
    BY <1>2 DEF InTime, UpsertPacket, FeedOK, Times
  <2> QED
    BY <1>2, <2>1, <2>2, <2>3, Untouched DEF UpsertPacket
<1>3. ASSUME NEW w \in Workers, InsertObservation(w) PROVE TypeInv'
  <2>1. RawOK'
    BY <1>3 DEF RawOK, InsertObservation, FeedOK, Calls, NoCall
  <2>2. FeedOK'
    BY <1>3 DEF FeedOK, InsertObservation, Calls, NoCall, Times
  <2>3. HistoryOK'
    BY <1>3 DEF HistoryOK, InsertObservation, FeedOK, Calls, NoCall
  <2>4. InTime'
    BY <1>3 DEF InTime, InsertObservation, FeedOK, Calls, NoCall
  <2> QED
    BY <1>3, <2>1, <2>2, <2>3, <2>4, Untouched DEF InsertObservation
<1>4. ASSUME NEW w \in Workers, LiveText(w) PROVE TypeInv'
  <2>1. RawOK'
    BY <1>4 DEF RawOK, LiveText
  <2>2. FeedOK'
    BY <1>4 DEF FeedOK, LiveText, Finish, Calls
  <2>3. InTime'
    BY <1>4 DEF InTime, LiveText, Finish, FeedOK, NoCall
  <2> QED
    BY <1>4, <2>1, <2>2, <2>3, Untouched DEF LiveText
<1>5. ASSUME NEW w \in Workers, Abandon(w) PROVE TypeInv'
  <2>1. FeedOK'
    BY <1>5 DEF FeedOK, Abandon, Finish, Calls
  <2>2. InTime'
    BY <1>5 DEF InTime, Abandon, Finish, FeedOK, NoCall
  <2> QED
    BY <1>5, <2>1, <2>2, Untouched DEF Abandon
<1>6. ASSUME ImportKey PROVE TypeInv'
  <2>1. FeedOK'
    BY <1>6 DEF FeedOK, ImportKey
  <2> QED
    BY <1>6, <2>1, Untouched DEF ImportKey
<1>7. ASSUME ListUndecrypted PROVE TypeInv'
  <2>1. FeedOK'
    BY <1>7 DEF FeedOK, ListUndecrypted
  <2> QED
    BY <1>7, <2>1, Untouched DEF ListUndecrypted
<1>8. ASSUME NEW p \in Packets, BackfillText(p) PROVE TypeInv'
  <2>1. RawOK'
    BY <1>8 DEF RawOK, BackfillText
  <2>2. RolledOK'
    BY <1>8 DEF RolledOK, BackfillText, RawOK
  <2>3. FeedOK'
    BY <1>8 DEF FeedOK, BackfillText
  <2>4. TasksOK'
    BY <1>8 DEF TasksOK, BackfillText, Requeues, OpenRolls, NoRoll
  <2>5. RollOK'
    BY <1>8 DEF RollOK, BackfillText, Requeues, TasksOK, OpenRolls, NoRoll
  <2> QED
    BY <1>8, <2>1, <2>2, <2>3, <2>4, <2>5, Untouched DEF BackfillText
<1>9. ASSUME NEW P, BackfillFails(P) PROVE TypeInv'
  <2>1. FeedOK'
    BY <1>9 DEF FeedOK, BackfillFails
  <2> QED
    BY <1>9, <2>1, Untouched DEF BackfillFails
<1>10. ASSUME RegisterHours PROVE TypeInv'
  <2>1. RolledOK'
    <3>1. \A h \in Hours : Eligible(h) => ~(h + RollupRetention < clock)
      BY DEF Eligible, Since, Later, FeedOK, Times
    <3> QED
      BY <3>1, <1>10 DEF RolledOK, RegisterHours, Statuses
  <2>2. TasksOK'
    BY <1>10 DEF TasksOK, RegisterHours, Passes
  <2>3. Rows'
    BY <1>10 DEF Rows, RegisterHours, RolledOK
  <2>4. RollOK'
    BY <1>10 DEF RollOK, RegisterHours, TasksOK, Passes, OpenRolls, NoRoll
  <2>5. Closed'
    BY <1>10 DEF Closed, RegisterHours, Eligible, FeedOK
  <2> QED
    BY <1>10, <2>1, <2>2, <2>3, <2>4, <2>5, Untouched DEF RegisterHours
<1>11. ASSUME MarkPartial PROVE TypeInv'
  <2>1. RolledOK'
    BY <1>11 DEF RolledOK, MarkPartial, Statuses, Missing, Bump
  <2>2. TasksOK'
    BY <1>11 DEF TasksOK, MarkPartial, Passes
  <2>3. Rows'
    BY <1>11 DEF Rows, MarkPartial, RolledOK, Missing
  <2>4. RollOK'
    BY <1>11 DEF RollOK, MarkPartial
  <2>5. Closed'
    BY <1>11 DEF Closed, MarkPartial, Missing
  <2> QED
    BY <1>11, <2>1, <2>2, <2>3, <2>4, <2>5, Untouched DEF MarkPartial
<1>12. ASSUME ListMissing PROVE TypeInv'
  <2>1. TasksOK'
    BY <1>12 DEF TasksOK, ListMissing, Passes, Oldest, Missing
  <2>2. RollOK'
    BY <1>12 DEF RollOK, ListMissing
  <2> QED
    BY <1>12, <2>1, <2>2, Untouched DEF ListMissing
<1>13. ASSUME DeleteStaleDirty PROVE TypeInv'
  <2>1. RolledOK'
    BY <1>13 DEF RolledOK, DeleteStaleDirty
  <2>2. cleanup' \in Cleanups /\ cleanup'.now = cleanup.now /\ cleanup'.queued \subseteq cleanup.queued
    BY <1>13, Overtaken DEF TasksOK, DeleteStaleDirty, RolledOK
  <2>3. TasksOK' /\ CleanupOK'
    BY <2>2, <1>13 DEF TasksOK, CleanupOK, OldHours, DeleteStaleDirty, Passes, NoPass
  <2>4. RollOK'
    BY <1>13 DEF RollOK, DeleteStaleDirty, NoRoll
  <2> QED
    BY <1>13, <2>1, <2>3, <2>4, Untouched DEF DeleteStaleDirty
<1>14. ASSUME ListDirty PROVE TypeInv'
  <2>1. TasksOK'
    BY <1>14 DEF TasksOK, ListDirty, Passes, NoPass, Oldest, Rerollable, RolledOK
  <2>2. RollOK'
    BY <1>14 DEF RollOK, ListDirty
  <2> QED
    BY <1>14, <2>1, <2>2, Untouched DEF ListDirty
<1>15. ASSUME PassFails PROVE TypeInv'
  <2>1. TasksOK'
    BY <1>15 DEF TasksOK, PassFails, Passes, NoPass
  <2>2. RollOK'
    BY <1>15 DEF RollOK, PassFails, NoRoll
  <2> QED
    BY <1>15, <2>1, <2>2, Untouched DEF PassFails
<1>16. ASSUME NEW h \in Hours, RollSkipped(h) PROVE TypeInv'
  <2>1. TasksOK'
    BY <1>16 DEF TasksOK, RollSkipped, HourDone, Passes
  <2>2. RollOK'
    BY <1>16 DEF RollOK, RollSkipped, Ready, NoRoll
  <2> QED
    BY <1>16, <2>1, <2>2, Untouched DEF RollSkipped
<1>17. ASSUME NEW h \in Hours, RollPartial(h) PROVE TypeInv'
  <2>1. RolledOK'
    BY <1>17 DEF RolledOK, RollPartial, Statuses, Bump
  <2>2. TasksOK'
    BY <1>17 DEF TasksOK, RollPartial, HourDone, Passes
  <2>3. Rows'
    BY <1>17 DEF Rows, RollPartial, RolledOK
  <2>4. RollOK'
    BY <1>17 DEF RollOK, RollPartial, Ready, NoRoll
  <2>5. Closed'
    BY <1>17 DEF Closed, RollPartial
  <2> QED
    BY <1>17, <2>1, <2>2, <2>3, <2>4, <2>5, Untouched DEF RollPartial
<1>18. ASSUME NEW h \in Hours, RollBegins(h) PROVE TypeInv'
  <2>1. TasksOK'
    BY <1>18 DEF TasksOK, RollBegins, OpenRolls, Contents, Raw
  <2>2. RollOK'
    BY <1>18 DEF RollOK, RollBegins, Ready, Raw
  <2> QED
    BY <1>18, <2>1, <2>2, Untouched DEF RollBegins
<1>19. ASSUME RollCommits PROVE TypeInv'
  <2>0. /\ roll.pc = "open" /\ roll.hour \in Hours /\ roll.content \in Contents /\ roll.content.rolled
        /\ dirty' \subseteq Hours /\ revision' \in Nat
    <3>1. roll.pc = "open" /\ roll.hour \in Hours /\ roll.content \in Contents /\ roll.content.rolled
      BY <1>19 DEF RollCommits, RollOK
    <3>2. dirty' \subseteq Hours
      BY <1>19 DEF RollCommits, RolledOK, Undirtied
    <3>3. revision' = revision + 1 \/ revision' = revision
      BY <1>19 DEF RollCommits, Bump
    <3> QED
      BY <3>1, <3>2, <3>3 DEF RolledOK
  <2>1. RolledOK'
    BY <2>0, <1>19 DEF RolledOK, RollCommits, Statuses
  <2>2. TasksOK' /\ CleanupOK'
    <3>1. cleanup' \in Cleanups /\ cleanup'.now = cleanup.now /\ cleanup'.queued \subseteq cleanup.queued
      <4>1. Overtake(dirty \ Undirtied, {roll.hour})
        BY <1>19 DEF RollCommits
      <4>2. dirty \ Undirtied \in SUBSET Hours /\ {roll.hour} \in SUBSET Hours
        BY <2>0 DEF RolledOK
      <4> QED
        BY <4>1, <4>2, Overtaken DEF TasksOK
    <3>2. pass' \in Passes /\ roll' = NoRoll /\ clock' = clock
      BY <2>0, <1>19 DEF TasksOK, RollCommits, HourDone, Passes
    <3> QED
      BY <3>1, <3>2 DEF TasksOK, CleanupOK, OldHours
  <2>3. Rows'
    BY <2>0, <1>19 DEF Rows, RollCommits, RolledOK
  <2>4. RollOK'
    BY <2>0, <1>19 DEF RollOK, RollCommits, NoRoll
  <2>5. Closed'
    BY <2>0, <1>19 DEF Closed, RollCommits, RollOK, RolledOK
  <2> QED
    BY <1>19, <2>1, <2>2, <2>3, <2>4, <2>5, Untouched DEF RollCommits
<1>20. ASSUME RollFails PROVE TypeInv'
  <2>1. TasksOK'
    BY <1>20 DEF TasksOK, RollFails, HourDone, Passes
  <2>2. RollOK'
    BY <1>20 DEF RollOK, RollFails, NoRoll
  <2> QED
    BY <1>20, <2>1, <2>2, Untouched DEF RollFails
<1>21. ASSUME HoldBack PROVE TypeInv'
  <2>1. TasksOK' /\ CleanupOK'
    <3>1. PICK c \in Int : CleanFrom(c)
      BY <1>21 DEF HoldBack, RawCutoff, Later, FeedOK, Times
    <3>2. cleanup' = [NoCleanup EXCEPT !.pc = "packets", !.now = clock, !.cutoff = c]
      BY <3>1 DEF CleanFrom
    <3>3. cleanup' \in Cleanups /\ cleanup'.now = clock /\ cleanup'.queued = {}
      BY <3>2 DEF NoCleanup, Cleanups, FeedOK
    <3> QED
      BY <3>3, <1>21 DEF TasksOK, CleanupOK, HoldBack, FeedOK, Times
  <2>2. HistoryOK'
    BY <1>21 DEF HistoryOK, HoldBack, CleanFrom, Missing
  <2> QED
    BY <1>21, <2>1, <2>2, Untouched DEF HoldBack
<1>22. ASSUME NEW S, DeleteBatchOf(S) PROVE TypeInv'
  <2>1. RawOK'
    BY <1>22 DEF RawOK, DeleteBatchOf, DeleteOldPackets, Later, Times
  <2>2. TasksOK' /\ CleanupOK'
    BY <1>22 DEF TasksOK, CleanupOK, OldHours, DeleteBatchOf, Cleanups
  <2>3. HistoryOK'
    BY <1>22 DEF HistoryOK, DeleteBatchOf, DeleteOldPackets
  <2> QED
    BY <1>22, <2>1, <2>2, <2>3, Untouched DEF DeleteBatchOf
<1>23. ASSUME DeleteOldRollups PROVE TypeInv'
  <2>0. coverage' \in Nat /\ NoContent \in Contents /\ ~NoContent.rolled
    BY <1>23 DEF DeleteOldRollups, Cover, RolledOK, NoContent, Contents
  <2>1. RolledOK'
    <3>1. \A h \in OldHours : h + RollupRetention < clock
      BY DEF OldHours, CleanupOK, TasksOK, Cleanups, FeedOK, Times
    <3>2. OldHours \subseteq Hours /\ status' \in [Hours -> Statuses]
      BY <1>23 DEF RolledOK, DeleteOldRollups, OldHours, Statuses
    <3>3. content' \in [Hours -> Contents] /\ dirty' \subseteq Hours /\ revision' \in Nat
      BY <2>0, <1>23 DEF RolledOK, DeleteOldRollups
    <3>4. ASSUME NEW h \in Hours, status'[h] = "complete" PROVE content'[h].rolled
      BY <1>23, <3>4 DEF RolledOK, DeleteOldRollups
    <3>5. ASSUME NEW h \in Hours, content'[h].rolled, status'[h] # "complete"
          PROVE  status'[h] = "none" /\ h + RollupRetention < clock'
      BY <1>23, <2>0, <3>1, <3>5 DEF RolledOK, DeleteOldRollups
    <3> QED
      BY <2>0, <3>2, <3>3, <3>4, <3>5 DEF RolledOK
  <2>2. TasksOK' /\ CleanupOK'
    BY <2>0, <1>23 DEF TasksOK, CleanupOK, OldHours, DeleteOldRollups, Cleanups, NoCleanup, FeedOK, Times
  <2>3. HistoryOK'
    BY <2>0, <1>23 DEF HistoryOK, DeleteOldRollups
  <2>4. Rows'
    BY <2>0, <1>23 DEF Rows, DeleteOldRollups, RolledOK
  <2>5. RollOK'
    BY <2>0, <1>23 DEF RollOK, DeleteOldRollups
  <2>6. Closed'
    BY <2>0, <1>23 DEF Closed, DeleteOldRollups, RolledOK
  <2> QED
    BY <1>23, <2>1, <2>2, <2>3, <2>4, <2>5, <2>6, Untouched DEF DeleteOldRollups
<1>24. ASSUME CleanupFails PROVE TypeInv'
  <2>1. TasksOK' /\ CleanupOK'
    BY <1>24 DEF TasksOK, CleanupOK, OldHours, CleanupFails, Cleanups, NoCleanup, FeedOK, Times
  <2> QED
    BY <1>24, <2>1, Untouched DEF CleanupFails
<1>25. CASE UNCHANGED vars
  BY <1>25, Untouched DEF vars
<1>27. ASSUME SnapshotOldRollups PROVE TypeInv'
  <2>1. TasksOK' /\ CleanupOK'
    BY <1>27 DEF TasksOK, CleanupOK, OldHours, SnapshotOldRollups, Cleanups
  <2> QED
    BY <1>27, <2>1, Untouched DEF SnapshotOldRollups
<1>26. backfill \subseteq Packets
  BY DEF FeedOK
<1> HIDE DEF TypeInv, RollupTypeOK
<1> QED
  BY <1>1, <1>2, <1>3, <1>4, <1>5, <1>6, <1>7, <1>8, <1>9, <1>10, <1>11, <1>12, <1>13, <1>14, <1>15, <1>16, <1>17, <1>18, <1>19, <1>20, <1>21, <1>22, <1>23, <1>24, <1>25, <1>26, <1>27
  DEF Next, Ingest, Backfill, Pass, Rolls, Cleanup

\* Every variable keeps its type; a complete hour has its rollup rows, and rows
\* of another hour are past their retention and without the hour's row.
THEOREM TypeCorrect == Spec => []RollupTypeOK
<1>1. TypeInv => RollupTypeOK
  BY DEF TypeInv
<1> QED
  BY TypeStart, TypeStep, <1>1, PTL DEF Spec

LEMMA TypeAlways == Spec => []TypeInv
  BY TypeStart, TypeStep, PTL DEF Spec

-----------------------------------------------------------------------------
(* Complete hours are whole.                                               *)

Observed == \A h \in Hours, p \in Packets : h \in obs[p] => p \in heard[h]

\* What is gone from an hour is told by raw_deleted_before, or untold.
Accounted == \A h \in Hours \ untold : ~Reached(h) => \A p \in heard[h] : h \in obs[p]

SnapshotWhole ==
  roll.pc = "open" /\ roll.hour \notin untold => roll.content.packets = heard[roll.hour]

WholeInv == Observed /\ Accounted /\ SnapshotWhole /\ WholeHours

\* An observation cannot land in a registered hour: the clamp and the timeout
\* leave it less than Delay behind.
LEMMA NeverLate ==
  ASSUME TypeInv, NEW w \in Workers, InsertObservation(w)
  PROVE  \E p \in Packets, h \in Hours :
           /\ status[h] = "none"
           /\ obs' = [obs EXCEPT ![p] = @ \cup {h}]
           /\ heard' = [heard EXCEPT ![h] = @ \cup {p}]
<1> USE RollupAssumption, HoursAreTimes
<1>1. call[w].packet \in Packets /\ call[w].since \in Int /\ clock \in Int
      /\ call[w].since <= clock /\ clock <= call[w].since + Lag
  BY DEF TypeInv, RollupTypeOK, FeedOK, Calls, NoCall, Times, InTime, InsertObservation
<1>2. PICK c \in call[w].since..clock, h \in Hours \ obs[call[w].packet] :
        /\ HeardIn(h, c)
        /\ obs' = [obs EXCEPT ![call[w].packet] = @ \cup {h}]
        /\ heard' = [heard EXCEPT ![h] = @ \cup {call[w].packet}]
  BY DEF InsertObservation
<1>3. c \in Int /\ c >= call[w].since /\ h \in Int
  <2>1. \A a \in Int, b \in Int : \A d \in a..b : d \in Int /\ d >= a
    OBVIOUS
  <2> QED
    BY <1>1, <1>2, <2>1
<1>4. h + Delay > clock
  BY <1>1, <1>2, <1>3 DEF HeardIn
<1>5. status[h] = "none"
  BY <1>1, <1>2, <1>3, <1>4 DEF TypeInv, Closed
<1> QED
  BY <1>1, <1>2, <1>5

LEMMA ReachesOn ==
  ASSUME NEW h \in Int, NEW a \in Int, NEW b \in Int, NEW c \in Int, h <= a + c, a <= b
  PROVE  h <= b + c
  OBVIOUS

\* What a deletion takes, raw_deleted_before reaches or untold records.
LEMMA DeletionTold ==
  ASSUME TypeInv, NEW V \in SUBSET Packets, DeleteOldPackets(V),
         \A p \in V : packet[p] # NoTime
  PROVE  /\ \A h \in Hours : Reached(h) => Reached(h)'
         /\ \A p \in V, h \in Hours : h \in obs[p] => Reached(h)' \/ h \in untold'
<1> USE RollupAssumption, HoursAreTimes
<1>1. /\ \A p \in V : packet[p] \in Int
      /\ deleted = NoTime \/ deleted \in Int
  BY DEF TypeInv, RollupTypeOK, RawOK, Times
<1>2. CASE V = {}
  BY <1>2 DEF DeleteOldPackets, Reached
<1>3. CASE V # {}
  <2>1. PICK t \in Times : IsNewest(t, V) /\ deleted' = IF deleted = NoTime THEN t ELSE Later(deleted, t)
    BY <1>3 DEF DeleteOldPackets, Times
  <2>2. t \in Int /\ deleted' \in Int /\ deleted' >= t /\ (deleted \in Int => deleted' >= deleted)
    BY <1>1, <2>1 DEF Later, Times
  <2>3. deleted' # NoTime
    BY <2>2
  <2>0. Clamp \in Int /\ \A h \in Hours : h \in Int
    OBVIOUS
  <2>4. ASSUME NEW h \in Hours, Reached(h) PROVE Reached(h)'
    <3>1. deleted \in Int /\ h <= deleted + Clamp
      BY <1>1, <2>4 DEF Reached
    <3>2. h <= deleted' + Clamp
      BY <2>0, <2>2, <3>1, ReachesOn
    <3> QED
      BY <2>3, <3>2 DEF Reached
  <2>5. ASSUME NEW p \in V, NEW h \in Hours, h \in obs[p] PROVE Reached(h)' \/ h \in untold'
    <3>1. packet[p] <= t
      BY <2>1 DEF IsNewest
    <3>2. CASE h > packet[p] + Clamp
      BY <2>5, <3>2 DEF DeleteOldPackets
    <3>3. CASE ~(h > packet[p] + Clamp)
      <4>1. h <= deleted' + Clamp
        <5>1. h \in Int /\ packet[p] \in Int /\ h <= packet[p] + Clamp
          BY <1>1, <2>0, <3>3
        <5>2. packet[p] <= deleted'
          BY <1>1, <2>2, <3>1
        <5> QED
          BY <2>0, <2>2, <5>1, <5>2, ReachesOn
      <4> QED
        BY <2>3, <4>1 DEF Reached
    <3> QED
      BY <3>2, <3>3
  <2> QED
    BY <2>4, <2>5
<1> QED
  BY <1>2, <1>3

LEMMA WholeStart == Init => WholeInv
  BY DEF Init, WholeInv, Observed, Accounted, SnapshotWhole, WholeHours, NoRoll

\* The steps no property of whole hours can see.
LEMMA WholeUntouched ==
  WholeInv /\ UNCHANGED <<obs, deleted, status, content, roll, heard, untold>> => WholeInv'
  BY DEF WholeInv, Observed, Accounted, SnapshotWhole, WholeHours, Reached

LEMMA WholeStep == TypeInv /\ WholeInv /\ [Next]_vars => WholeInv'
<1> SUFFICES ASSUME TypeInv, WholeInv, [Next]_vars PROVE WholeInv'
  OBVIOUS
<1> USE RollupAssumption, HoursAreTimes
<1>0. /\ roll.pc = "open" => roll \in OpenRolls /\ roll.hour \in Hours /\ roll.content \in Contents
      /\ status \in [Hours -> Statuses] /\ content \in [Hours -> Contents]
      /\ obs \in [Packets -> SUBSET Hours] /\ heard \in [Hours -> SUBSET Packets]
      /\ backfill \subseteq Packets /\ untold \subseteq Hours
  BY RollTyped DEF TypeInv, RollupTypeOK, RolledOK, RawOK, HistoryOK, FeedOK
<1>1. ASSUME NEW w \in Workers, InsertObservation(w) PROVE WholeInv'
  <2>1. PICK p \in Packets, h \in Hours :
           /\ status[h] = "none"
           /\ obs' = [obs EXCEPT ![p] = @ \cup {h}]
           /\ heard' = [heard EXCEPT ![h] = @ \cup {p}]
    BY <1>1, NeverLate
  <2>2. UNCHANGED <<deleted, status, content, roll, untold>>
    BY <1>1 DEF InsertObservation, rolled, tasks
  <2>3. Observed'
    BY <1>0, <2>1 DEF WholeInv, Observed
  <2>4. Accounted'
    BY <1>0, <2>1, <2>2 DEF WholeInv, Accounted, Reached
  <2>5. SnapshotWhole'
    BY <1>0, <2>1, <2>2 DEF WholeInv, SnapshotWhole, TypeInv, RollOK
  <2>6. WholeHours'
    BY <1>0, <2>1, <2>2 DEF WholeInv, WholeHours
  <2> QED
    BY <2>3, <2>4, <2>5, <2>6 DEF WholeInv
<1>2. ASSUME NEW p \in Packets, BackfillText(p) PROVE WholeInv'
  <2>1. UNCHANGED <<obs, deleted, status, content, heard, untold>>
    BY <1>2 DEF BackfillText, rolled, history
  <2>2. \/ roll' = roll
        \/ roll.pc = "open" /\ roll' = [roll EXCEPT !.requeued = TRUE]
    BY <1>2 DEF BackfillText, Requeues
  <2>3. SnapshotWhole'
    BY <1>0, <2>1, <2>2 DEF WholeInv, SnapshotWhole, OpenRolls
  <2> QED
    BY <2>1, <2>3 DEF WholeInv, Observed, Accounted, WholeHours, Reached
<1>3. ASSUME RegisterHours \/ MarkPartial \/ (\E h \in Hours : RollPartial(h)) PROVE WholeInv'
  <2>1. UNCHANGED <<obs, deleted, content, roll, heard, untold>>
    BY <1>3 DEF RegisterHours, MarkPartial, RollPartial, raw, history
  <2>2. \A h \in Hours : status'[h] = "complete" => status[h] = "complete"
    BY <1>0, <1>3 DEF RegisterHours, MarkPartial, RollPartial
  <2> QED
    BY <2>1, <2>2 DEF WholeInv, Observed, Accounted, SnapshotWhole, WholeHours, Reached
<1>4. ASSUME PassFails \/ RollFails PROVE WholeInv'
  BY <1>4 DEF PassFails, RollFails, NoRoll, raw, rolled, history, WholeInv, Observed, Accounted,
              SnapshotWhole, WholeHours, Reached
<1>5. ASSUME NEW h \in Hours, RollBegins(h) PROVE WholeInv'
  <2>1. UNCHANGED <<obs, deleted, status, content, heard, untold>>
    BY <1>5 DEF RollBegins, raw, rolled, history
  <2>2. roll'.hour = h /\ roll'.content.packets = {p \in Packets : h \in obs[p]}
    BY <1>5 DEF RollBegins, Raw
  <2>3. ~Reached(h)
    BY <1>5 DEF RollBegins, LockedStatus
  <2>4. h \notin untold => {p \in Packets : h \in obs[p]} = heard[h]
    BY <1>0, <2>3 DEF WholeInv, Observed, Accounted
  <2>5. SnapshotWhole'
    BY <2>1, <2>2, <2>4 DEF SnapshotWhole
  <2> QED
    BY <2>1, <2>5 DEF WholeInv, Observed, Accounted, WholeHours, Reached
<1>6. ASSUME RollCommits PROVE WholeInv'
  <2>1. UNCHANGED <<obs, deleted, heard, untold>> /\ roll' = NoRoll
    BY <1>6 DEF RollCommits, raw, history
  <2>2. WholeHours'
    BY <1>0, <1>6, <2>1 DEF RollCommits, WholeInv, WholeHours, SnapshotWhole
  <2> QED
    BY <2>1, <2>2 DEF WholeInv, Observed, Accounted, SnapshotWhole, Reached, NoRoll
<1>7. ASSUME NEW S, DeleteBatchOf(S) PROVE WholeInv'
  <2>1. PICK V \in SUBSET Packets : DeleteOldPackets(V) /\ \A p \in V : packet[p] # NoTime
    BY <1>7 DEF DeleteBatchOf, Victims, Old
  <2>2. UNCHANGED <<status, content, roll, heard>> /\ untold \subseteq untold'
    BY <1>7, <2>1 DEF DeleteBatchOf, DeleteOldPackets, rolled
  <2>3. \A p \in Packets : obs'[p] = IF p \in V THEN {} ELSE obs[p]
    BY <2>1 DEF DeleteOldPackets
  <2>4. Observed'
    BY <2>2, <2>3 DEF WholeInv, Observed
  <2>5. Accounted'
    <3> SUFFICES ASSUME NEW h \in Hours \ untold', ~Reached(h)', NEW p \in heard'[h]
                 PROVE  h \in obs'[p]
      BY DEF Accounted, Reached
    <3>1. ~Reached(h) /\ (p \in V => h \notin obs[p])
      BY <2>1, DeletionTold
    <3>2. p \in Packets /\ h \in obs[p]
      BY <1>0, <2>2, <3>1 DEF WholeInv, Accounted
    <3> QED
      BY <2>3, <3>1, <3>2
  <2>6. SnapshotWhole'
    BY <2>2 DEF WholeInv, SnapshotWhole
  <2>7. WholeHours'
    BY <2>2 DEF WholeInv, WholeHours
  <2> QED
    BY <2>4, <2>5, <2>6, <2>7 DEF WholeInv
<1>8. ASSUME DeleteOldRollups PROVE WholeInv'
  <2>1. UNCHANGED <<obs, deleted, roll, heard, untold>>
    BY <1>8 DEF DeleteOldRollups, raw, tasks
  <2>2. \A h \in Hours : status'[h] = "complete" => status[h] = "complete" /\ content'[h] = content[h]
    BY <1>0, <1>8 DEF DeleteOldRollups
  <2> QED
    BY <2>1, <2>2 DEF WholeInv, Observed, Accounted, SnapshotWhole, WholeHours, Reached
<1>9. ASSUME \/ Tick \/ ImportKey \/ ListUndecrypted \/ (\E P : BackfillFails(P)) \/ ListMissing
             \/ DeleteStaleDirty \/ ListDirty \/ (\E h \in Hours : RollSkipped(h)) \/ HoldBack
             \/ SnapshotOldRollups \/ CleanupFails
      PROVE  WholeInv'
  <2>1. UNCHANGED <<obs, deleted, status, content, roll, heard, untold>>
    BY <1>9 DEF Tick, ImportKey, ListUndecrypted, BackfillFails, ListMissing, DeleteStaleDirty,
                ListDirty, RollSkipped, HoldBack, SnapshotOldRollups, CleanupFails, raw, rolled,
                tasks, history
  <2> QED
    BY <2>1, WholeUntouched
<1>10. ASSUME NEW w \in Workers, (\E p \in Packets : UpsertPacket(w, p)) \/ LiveText(w) \/ Abandon(w)
       PROVE  WholeInv'
  <2>1. UNCHANGED <<obs, deleted, status, content, roll, heard, untold>>
    BY <1>10 DEF UpsertPacket, LiveText, Abandon, raw, rolled, tasks, history
  <2> QED
    BY <2>1, WholeUntouched
<1>11. CASE UNCHANGED vars
  BY <1>11, WholeUntouched DEF vars, raw, rolled, tasks, history
<1> QED
  BY <1>0, <1>1, <1>2, <1>3, <1>4, <1>5, <1>6, <1>7, <1>8, <1>9, <1>10, <1>11
  DEF Next, Ingest, Backfill, Pass, Rolls, Cleanup

\* A complete hour counts every observation ever made in it, unless it lost
\* rows that raw_deleted_before does not tell of.
THEOREM CompleteIsWhole == Spec => []WholeHours
<1>1. WholeInv => WholeHours
  BY DEF WholeInv
<1> QED
  BY TypeAlways, WholeStart, WholeStep, <1>1, PTL DEF Spec

-----------------------------------------------------------------------------
(* No re-roll is lost.                                                     *)

Pending(h) == {p \in Packets : h \in obs[p] /\ message[p] = "backfilled"}

\* A message the snapshot misses has queued the hour since.
SnapshotCounts ==
  roll.pc = "open" =>
    /\ Pending(roll.hour) \subseteq roll.content.texts \/ roll.requeued
    /\ roll.requeued => roll.hour \in dirty

RerollInv == SnapshotCounts /\ BackfilledCounted

LEMMA RerollStart == Init => RerollInv
  BY DEF Init, RerollInv, SnapshotCounts, BackfilledCounted, NoRoll

LEMMA RerollUntouched ==
  RerollInv /\ UNCHANGED <<obs, message, deleted, status, content, roll, dirty>> => RerollInv'
  BY DEF RerollInv, SnapshotCounts, BackfilledCounted, Reached, Pending

LEMMA RerollStep == TypeInv /\ RerollInv /\ [Next]_vars => RerollInv'
<1> SUFFICES ASSUME TypeInv, RerollInv, [Next]_vars PROVE RerollInv'
  OBVIOUS
<1> USE HoursAreTimes
<1>0. /\ roll.pc = "open" => roll \in OpenRolls /\ roll.hour \in Hours /\ roll.content \in Contents
      /\ status \in [Hours -> Statuses] /\ content \in [Hours -> Contents]
      /\ obs \in [Packets -> SUBSET Hours] /\ dirty \subseteq Hours
      /\ message \in [Packets -> {"none", "live", "backfilled"}] /\ backfill \subseteq Packets
  BY RollTyped DEF TypeInv, RollupTypeOK, RolledOK, RawOK, FeedOK
<1>1. ASSUME NEW w \in Workers, InsertObservation(w) PROVE RerollInv'
  <2>1. PICK p \in Packets, h \in Hours :
           status[h] = "none" /\ obs' = [obs EXCEPT ![p] = @ \cup {h}]
    BY <1>1, NeverLate
  <2>2. UNCHANGED <<message, deleted, status, content, roll, dirty>>
    BY <1>1 DEF InsertObservation, rolled, tasks
  <2>3. \A g \in Hours : status[g] # "none" => Pending(g)' = Pending(g)
    BY <1>0, <2>1, <2>2 DEF Pending
  <2>4. SnapshotCounts'
    BY <1>0, <2>2, <2>3 DEF RerollInv, SnapshotCounts, TypeInv, RollOK
  <2>5. BackfilledCounted'
    BY <1>0, <2>1, <2>2 DEF RerollInv, BackfilledCounted, Reached
  <2> QED
    BY <2>4, <2>5 DEF RerollInv
<1>2. ASSUME NEW w \in Workers, LiveText(w) PROVE RerollInv'
  <2>1. UNCHANGED <<obs, deleted, status, content, roll, dirty>>
    BY <1>2 DEF LiveText, rolled, tasks
  <2>2. \A p \in Packets : message'[p] = "backfilled" => message[p] = "backfilled"
    BY <1>0, <1>2 DEF LiveText
  <2> QED
    BY <2>1, <2>2 DEF RerollInv, SnapshotCounts, BackfilledCounted, Reached, Pending
<1>3. ASSUME NEW p \in Packets, BackfillText(p) PROVE RerollInv'
  <2>1. UNCHANGED <<obs, deleted, status, content>>
    BY <1>3 DEF BackfillText, rolled
  <2>2. CASE UNCHANGED <<message, dirty, roll>>
    BY <2>1, <2>2, RerollUntouched
  <2>3. CASE /\ message' = [message EXCEPT ![p] = "backfilled"]
             /\ dirty' = dirty \cup obs[p]
             /\ roll' = Requeues(p)
    <3>1. SnapshotCounts'
      <4>1. CASE roll.pc = "open" /\ roll.hour \in obs[p]
        <5>1. roll' = [roll EXCEPT !.requeued = TRUE]
          BY <2>3, <4>1 DEF Requeues
        <5>2. roll'.requeued /\ roll'.hour = roll.hour /\ roll.hour \in dirty'
          BY <1>0, <2>3, <4>1, <5>1 DEF OpenRolls
        <5> QED
          BY <5>2 DEF SnapshotCounts
      <4>2. CASE roll.pc # "open"
        BY <2>3, <4>2 DEF SnapshotCounts, Requeues
      <4>3. CASE roll.pc = "open" /\ roll.hour \notin obs[p]
        <5>1. roll' = roll
          BY <2>3, <4>3 DEF Requeues
        <5>2. Pending(roll.hour)' = Pending(roll.hour)
          BY <1>0, <2>1, <2>3, <4>3, <5>1 DEF Pending
        <5> QED
          BY <2>3, <5>1, <5>2 DEF RerollInv, SnapshotCounts
      <4> QED
        BY <4>1, <4>2, <4>3
    <3>2. BackfilledCounted'
      BY <1>0, <2>1, <2>3 DEF RerollInv, BackfilledCounted, Reached
    <3> QED
      BY <3>1, <3>2 DEF RerollInv
  <2> QED
    BY <1>3, <2>2, <2>3 DEF BackfillText
<1>4. ASSUME RegisterHours \/ MarkPartial \/ (\E h \in Hours : RollPartial(h)) PROVE RerollInv'
  <2>1. UNCHANGED <<obs, message, deleted, content, roll, dirty>>
    BY <1>4 DEF RegisterHours, MarkPartial, RollPartial, raw
  <2>2. \A h \in Hours : status'[h] = "complete" => status[h] = "complete"
    BY <1>0, <1>4 DEF RegisterHours, MarkPartial, RollPartial
  <2> QED
    BY <2>1, <2>2 DEF RerollInv, SnapshotCounts, BackfilledCounted, Reached, Pending
<1>5. ASSUME DeleteStaleDirty PROVE RerollInv'
  <2>1. UNCHANGED <<obs, message, deleted, status, content, roll>> /\ roll = NoRoll
    BY <1>5 DEF DeleteStaleDirty, raw, rolled
  <2>2. \A h \in Hours : h \in dirty => h \in dirty' \/ Hopeless(h)
    BY <1>5 DEF DeleteStaleDirty
  <2>3. BackfilledCounted'
    BY <2>1, <2>2 DEF RerollInv, BackfilledCounted, Reached, Hopeless
  <2> QED
    BY <2>1, <2>3 DEF RerollInv, SnapshotCounts, NoRoll
<1>6. ASSUME PassFails \/ RollFails PROVE RerollInv'
  BY <1>6 DEF PassFails, RollFails, NoRoll, raw, rolled, RerollInv, SnapshotCounts,
              BackfilledCounted, Reached
<1>7. ASSUME NEW h \in Hours, RollBegins(h) PROVE RerollInv'
  <2>1. UNCHANGED <<obs, message, deleted, status, content, dirty>>
    BY <1>7 DEF RollBegins, raw, rolled
  <2>2. roll'.hour = h /\ roll'.content = Raw(h) /\ ~roll'.requeued
    BY <1>7 DEF RollBegins
  <2>3. Pending(h)' \subseteq Raw(h).texts
    BY <2>1 DEF Pending, Raw
  <2>4. SnapshotCounts'
    BY <2>2, <2>3 DEF SnapshotCounts, Pending
  <2> QED
    BY <2>1, <2>4 DEF RerollInv, BackfilledCounted, Reached
<1>8. ASSUME RollCommits PROVE RerollInv'
  <2>1. UNCHANGED <<obs, message, deleted>> /\ roll' = NoRoll /\ roll.pc = "open"
    BY <1>8 DEF RollCommits, raw
  <2>2. /\ \A h \in Hours : h # roll.hour => status'[h] = status[h] /\ content'[h] = content[h]
                                             /\ (h \in dirty => h \in dirty')
        /\ content'[roll.hour] = roll.content
    BY <1>0, <1>8 DEF RollCommits, Undirtied
  <2>3. roll.hour \notin dirty' => ~roll.requeued
    BY <1>8, <2>1 DEF RollCommits, Conflict, Undirtied, RerollInv, SnapshotCounts
  <2>4. roll.hour \notin dirty' => Pending(roll.hour) \subseteq roll.content.texts
    BY <2>1, <2>3 DEF RerollInv, SnapshotCounts
  <2>5. BackfilledCounted'
    <3> SUFFICES ASSUME NEW h \in Hours, status'[h] = "complete", h \notin dirty', ~Reached(h)',
                        NEW p \in Packets, h \in obs'[p], message'[p] = "backfilled"
                 PROVE  p \in content'[h].texts
      BY DEF BackfilledCounted, Reached
    <3>1. CASE h = roll.hour
      BY <2>1, <2>2, <2>4, <3>1 DEF Pending
    <3>2. CASE h # roll.hour
      BY <2>1, <2>2, <3>2 DEF RerollInv, BackfilledCounted, Reached
    <3> QED
      BY <3>1, <3>2
  <2> QED
    BY <2>1, <2>5 DEF RerollInv, SnapshotCounts, NoRoll
<1>9. ASSUME NEW S, DeleteBatchOf(S) PROVE RerollInv'
  <2>1. PICK V \in SUBSET Packets : DeleteOldPackets(V) /\ \A p \in V : packet[p] # NoTime
    BY <1>9 DEF DeleteBatchOf, Victims, Old
  <2>2. UNCHANGED <<status, content, roll, dirty>>
    BY <1>9 DEF DeleteBatchOf, rolled
  <2>3. \A p \in Packets : /\ obs'[p] \subseteq obs[p]
                           /\ message'[p] = "backfilled" => message[p] = "backfilled"
    BY <2>1 DEF DeleteOldPackets
  <2>4. \A h \in Hours : Reached(h) => Reached(h)'
    BY <2>1, DeletionTold
  <2>5. SnapshotCounts'
    <3>1. \A h : Pending(h)' \subseteq Pending(h)
      BY <2>3 DEF Pending
    <3> QED
      BY <2>2, <3>1 DEF RerollInv, SnapshotCounts, Pending
  <2>6. BackfilledCounted'
    BY <2>2, <2>3, <2>4 DEF RerollInv, BackfilledCounted
  <2> QED
    BY <2>5, <2>6 DEF RerollInv
<1>10. ASSUME DeleteOldRollups PROVE RerollInv'
  <2>0. cleanup.queued \subseteq OldHours
    BY DEF TypeInv, CleanupOK
  <2>1. UNCHANGED <<obs, message, deleted, roll>>
    BY <1>10 DEF DeleteOldRollups, raw
  <2>2. \A h \in Hours : status'[h] = "complete" =>
          status[h] = "complete" /\ content'[h] = content[h] /\ (h \in dirty => h \in dirty')
    BY <1>0, <1>10, <2>0 DEF DeleteOldRollups
  <2>3. roll.pc = "open" /\ roll.hour \in dirty => roll.hour \in dirty'
    BY <1>0, <1>10, <2>0 DEF DeleteOldRollups
  <2>4. SnapshotCounts'
    BY <2>1, <2>3 DEF RerollInv, SnapshotCounts, Pending
  <2>5. BackfilledCounted'
    BY <2>1, <2>2 DEF RerollInv, BackfilledCounted, Reached
  <2> QED
    BY <2>4, <2>5 DEF RerollInv
<1>11. ASSUME \/ Tick \/ ImportKey \/ ListUndecrypted \/ (\E P : BackfillFails(P)) \/ ListMissing
              \/ ListDirty \/ (\E h \in Hours : RollSkipped(h)) \/ HoldBack
              \/ SnapshotOldRollups \/ CleanupFails
       PROVE  RerollInv'
  <2>1. UNCHANGED <<obs, message, deleted, status, content, roll, dirty>>
    BY <1>11 DEF Tick, ImportKey, ListUndecrypted, BackfillFails, ListMissing, ListDirty,
                 RollSkipped, HoldBack, SnapshotOldRollups, CleanupFails, raw, rolled, tasks
  <2> QED
    BY <2>1, RerollUntouched
<1>12. ASSUME NEW w \in Workers, (\E p \in Packets : UpsertPacket(w, p)) \/ Abandon(w)
       PROVE  RerollInv'
  <2>1. UNCHANGED <<obs, message, deleted, status, content, roll, dirty>>
    BY <1>12 DEF UpsertPacket, Abandon, raw, rolled, tasks
  <2> QED
    BY <2>1, RerollUntouched
<1>13. CASE UNCHANGED vars
  BY <1>13, RerollUntouched DEF vars, raw, rolled, tasks
<1> QED
  BY <1>0, <1>1, <1>2, <1>3, <1>4, <1>5, <1>6, <1>7, <1>8, <1>9, <1>10, <1>11, <1>12, <1>13
  DEF Next, Ingest, Backfill, Pass, Rolls, Cleanup

\* A backfilled message is in its hours' rows, or their re-roll is queued,
\* while the raw rows remain.
THEOREM NoRerollLost == Spec => []BackfilledCounted
<1>1. RerollInv => BackfilledCounted
  BY DEF RerollInv
<1> QED
  BY TypeAlways, RerollStart, RerollStep, <1>1, PTL DEF Spec

-----------------------------------------------------------------------------
(* The holdback holds.                                                     *)

\* An hour's raw rows were given up after Cap.
GivenUp(h, t) == t > h - Clamp + Retention + Cap

Guarded(h) == cleanup.cutoff <= h - Margin \/ cleanup.cutoff <= clock - Retention - Cap

HoldInv ==
  \A h \in waited :
    /\ status[h] # "none"
    /\ status[h] = "missing" /\ Reached(h) => GivenUp(h, clock)
    /\ status[h] = "missing" /\ cleanup.pc = "packets" => Guarded(h)

LEMMA HoldStart == Init => HoldInv
  BY DEF Init, HoldInv

LEMMA HoldUntouched ==
  HoldInv /\ UNCHANGED <<clock, deleted, status, cleanup, waited>> => HoldInv'
  BY DEF HoldInv, Reached, GivenUp, Guarded

LEMMA CutoffGuards ==
  ASSUME NEW h \in Int, NEW g \in Int, g <= h, NEW t \in Int, NEW c \in Int,
         Margin \in Int, Cap \in Nat, c = RawCutoff(g, t)
  PROVE  c <= h - Margin \/ c <= t - Cap
  BY DEF RawCutoff, Later

LEMMA GuardedUntilCap ==
  ASSUME NEW h \in Int, NEW d \in Int, NEW c \in Int, NEW t \in Int, NEW k \in Int, NEW m \in Int,
         NEW a \in Int, NEW b \in Int,
         h <= d + k, d < c, m >= k, c <= h - m \/ c <= t - a - b
  PROVE  t > h - k + a + b
  OBVIOUS

LEMMA OvertakeKeeps ==
  ASSUME NEW gone, NEW written, Overtake(gone, written), cleanup \in Cleanups
  PROVE  cleanup'.pc = cleanup.pc /\ cleanup'.cutoff = cleanup.cutoff
  BY DEF Overtake, Cleanups

LEMMA HoldStep == TypeInv /\ HoldInv /\ [Next]_vars => HoldInv'
<1> SUFFICES ASSUME TypeInv, HoldInv, [Next]_vars PROVE HoldInv'
  OBVIOUS
<1>0. /\ cleanup \in Cleanups /\ status \in [Hours -> Statuses] /\ waited \subseteq Hours /\ clock \in Int
      /\ cleanup.cutoff \in Int /\ (deleted = NoTime \/ deleted \in Int) /\ NoTime \notin Int
      /\ Clamp \in Int /\ Cap \in Nat /\ Margin \in Int /\ Retention \in Int /\ Margin >= Clamp
      /\ Hours \subseteq Int
  BY RollupAssumption, HoursAreTimes
  DEF TypeInv, RollupTypeOK, RolledOK, RawOK, FeedOK, TasksOK, HistoryOK, Times, Cleanups
<1>1. ASSUME Tick PROVE HoldInv'
  <2>1. UNCHANGED <<deleted, status, cleanup, waited>> /\ clock' = clock + 1
    BY <1>1 DEF Tick, rolled, tasks, history
  <2>2. \A h \in waited : /\ GivenUp(h, clock) => GivenUp(h, clock')
                          /\ Guarded(h) => Guarded(h)'
    BY <1>0, <2>1 DEF GivenUp, Guarded
  <2> QED
    BY <2>1, <2>2 DEF HoldInv, Reached
<1>2. ASSUME RegisterHours \/ MarkPartial \/ RollCommits \/ (\E h \in Hours : RollPartial(h))
      PROVE  HoldInv'
  <2>1. UNCHANGED <<clock, deleted, waited>>
    BY <1>2 DEF RegisterHours, MarkPartial, RollCommits, RollPartial, raw, history
  <2>3. cleanup'.pc = cleanup.pc /\ cleanup'.cutoff = cleanup.cutoff
    BY <1>0, <1>2, OvertakeKeeps DEF RegisterHours, MarkPartial, RollCommits, RollPartial
  <2>2. \A h \in Hours : status[h] # "none" =>
          status'[h] # "none" /\ (status'[h] = "missing" => status[h] = "missing")
    BY <1>0, <1>2 DEF RegisterHours, MarkPartial, RollCommits, RollPartial
  <2> QED
    BY <1>0, <2>1, <2>2, <2>3 DEF HoldInv, Reached, GivenUp, Guarded
<1>3. ASSUME HoldBack PROVE HoldInv'
  <2>1. UNCHANGED <<clock, deleted, status>> /\ waited' = waited \cup {h \in Missing : ~Reached(h)}
    BY <1>3 DEF HoldBack, CleanFrom, raw, rolled
  <2>2. \A h \in waited' : status[h] # "none" /\ (status[h] = "missing" /\ Reached(h) => GivenUp(h, clock))
    BY <2>1 DEF HoldInv, Missing
  <2>3. ASSUME NEW h \in waited', status[h] = "missing" PROVE Guarded(h)'
    <3>1. h \in Missing
      BY <1>0, <2>1, <2>3 DEF Missing
    <3>2. PICK g \in Hours : IsFirst(g, Missing) /\ cleanup'.cutoff = RawCutoff(g, clock - Retention)
      <4>1. PICK g \in Hours : IsFirst(g, Missing) /\ CleanFrom(RawCutoff(g, clock - Retention))
        BY <1>3, <3>1 DEF HoldBack
      <4> QED
        BY <4>1 DEF CleanFrom, NoCleanup
    <3>3. g <= h /\ g \in Int /\ h \in Int /\ clock - Retention \in Int
      BY <1>0, <3>1, <3>2 DEF IsFirst, Missing
    <3>4. cleanup'.cutoff \in Int
      BY <1>0, <3>2, <3>3 DEF RawCutoff, Later
    <3>5. cleanup'.cutoff <= h - Margin \/ cleanup'.cutoff <= (clock - Retention) - Cap
      BY <1>0, <3>2, <3>3, <3>4, CutoffGuards
    <3> QED
      BY <1>0, <2>1, <3>4, <3>5 DEF Guarded
  <2> QED
    BY <2>1, <2>2, <2>3 DEF HoldInv, Reached, GivenUp
<1>4. ASSUME NEW S, DeleteBatchOf(S) PROVE HoldInv'
  <2>1. PICK V \in SUBSET Packets :
          DeleteOldPackets(V) /\ \A p \in V : packet[p] # NoTime /\ packet[p] < cleanup.cutoff
    BY <1>4 DEF DeleteBatchOf, Victims, Old
  <2>2. /\ UNCHANGED <<clock, status, waited>> /\ cleanup.pc = "packets"
        /\ cleanup'.cutoff = cleanup.cutoff
    BY <1>4 DEF DeleteBatchOf, rolled, TypeInv, RollupTypeOK, TasksOK, Cleanups
  <2>3. deleted' = deleted \/ (deleted' \in Int /\ deleted' = deleted)
        \/ (deleted' \in Int /\ deleted' < cleanup.cutoff)
    <3>1. CASE V = {}
      BY <2>1, <3>1 DEF DeleteOldPackets
    <3>2. CASE V # {}
      <4>1. PICK t \in Times : IsNewest(t, V) /\ deleted' = IF deleted = NoTime THEN t ELSE Later(deleted, t)
        BY <2>1, <3>2 DEF DeleteOldPackets, Times
      <4>2. t < cleanup.cutoff /\ t \in Int
        BY <2>1, <4>1 DEF IsNewest, Times
      <4>3. deleted' = t \/ deleted' = deleted
        BY <4>1 DEF Later
      <4> QED
        BY <4>2, <4>3
    <3> QED
      BY <3>1, <3>2
  <2>4. ASSUME NEW h \in waited, status[h] = "missing", Reached(h)' PROVE GivenUp(h, clock)
    <3>1. CASE deleted' = deleted
      BY <2>4, <3>1 DEF HoldInv, Reached
    <3>2. CASE deleted' \in Int /\ deleted' < cleanup.cutoff
      <4>1. h \in Int /\ h <= deleted' + Clamp
        BY <1>0, <2>4 DEF Reached
      <4>2. cleanup.cutoff <= h - Margin \/ cleanup.cutoff <= clock - Retention - Cap
        BY <2>2, <2>4 DEF HoldInv, Guarded
      <4>3. cleanup.cutoff \in Int /\ Cap \in Int
        BY <1>0
      <4> QED
        BY <1>0, <3>2, <4>1, <4>2, <4>3, GuardedUntilCap DEF GivenUp
    <3> QED
      BY <2>3, <3>1, <3>2
  <2> QED
    BY <2>2, <2>4 DEF HoldInv, Guarded
<1>5. ASSUME DeleteOldRollups PROVE HoldInv'
  <2>1. UNCHANGED <<clock, deleted>> /\ cleanup' = NoCleanup
    BY <1>5 DEF DeleteOldRollups, raw
  <2>2. \A h \in waited' : h \in waited /\ status'[h] = status[h]
    BY <1>0, <1>5 DEF DeleteOldRollups
  <2> QED
    BY <2>1, <2>2 DEF HoldInv, Reached, GivenUp, NoCleanup
<1>6. ASSUME CleanupFails \/ SnapshotOldRollups PROVE HoldInv'
  <2>1. UNCHANGED <<clock, deleted, status, waited>>
    BY <1>6 DEF CleanupFails, SnapshotOldRollups, raw, rolled, history
  <2>2. cleanup'.pc # "packets"
    <3>1. CASE CleanupFails
      BY <3>1 DEF CleanupFails, NoCleanup
    <3>2. CASE SnapshotOldRollups
      BY <1>0, <3>2 DEF SnapshotOldRollups, Cleanups
    <3> QED
      BY <1>6, <3>1, <3>2
  <2> QED
    BY <2>1, <2>2 DEF HoldInv, Reached, GivenUp
<1>7. ASSUME \/ ImportKey \/ ListUndecrypted \/ (\E P : BackfillFails(P)) \/ ListMissing
             \/ ListDirty \/ PassFails \/ RollFails
             \/ (\E h \in Hours : RollSkipped(h) \/ RollBegins(h)) \/ (\E p \in Packets : BackfillText(p))
      PROVE  HoldInv'
  <2>1. UNCHANGED <<clock, deleted, status, cleanup, waited>>
    BY <1>7 DEF ImportKey, ListUndecrypted, BackfillFails, ListMissing, ListDirty,
                PassFails, RollFails, RollSkipped, RollBegins, BackfillText, rolled, tasks, history
  <2> QED
    BY <2>1, HoldUntouched
<1>8. ASSUME NEW w \in Workers, \/ \E p \in Packets : UpsertPacket(w, p)
                                \/ InsertObservation(w) \/ LiveText(w) \/ Abandon(w)
      PROVE  HoldInv'
  <2>1. UNCHANGED <<clock, deleted, status, cleanup, waited>>
    BY <1>8 DEF UpsertPacket, InsertObservation, LiveText, Abandon, rolled, tasks, history
  <2> QED
    BY <2>1, HoldUntouched
<1>11. ASSUME DeleteStaleDirty PROVE HoldInv'
  <2>1. UNCHANGED <<clock, deleted, status, waited>>
    BY <1>11 DEF DeleteStaleDirty, raw, rolled, history
  <2>2. cleanup'.pc = cleanup.pc /\ cleanup'.cutoff = cleanup.cutoff
    BY <1>0, <1>11, OvertakeKeeps DEF DeleteStaleDirty
  <2> QED
    BY <2>1, <2>2 DEF HoldInv, Reached, GivenUp, Guarded
<1>9. CASE UNCHANGED vars
  BY <1>9, HoldUntouched DEF vars, rolled, tasks, history
<1>10. backfill \subseteq Packets
  BY DEF TypeInv, RollupTypeOK, FeedOK
<1> QED
  BY <1>1, <1>2, <1>3, <1>4, <1>5, <1>6, <1>7, <1>8, <1>9, <1>10, <1>11
  DEF Next, Ingest, Backfill, Pass, Rolls, Cleanup

LEMMA OnlyWhenReached ==
  ASSUME TypeInv, HoldInv, [Next]_vars, NEW h \in waited,
         status[h] = "missing", status'[h] = "partial"
  PROVE  GivenUp(h, clock)
<1>0. h \in Hours /\ status \in [Hours -> Statuses]
  BY DEF TypeInv, RollupTypeOK, HistoryOK, RolledOK
<1>1. CASE MarkPartial
  BY <1>0, <1>1 DEF MarkPartial, HoldInv
<1>2. CASE \E g \in Hours : RollPartial(g)
  BY <1>0, <1>2 DEF RollPartial, LockedStatus, HoldInv
<1>3. CASE RegisterHours
  BY <1>0, <1>3 DEF RegisterHours
<1>4. CASE RollCommits
  BY <1>0, <1>4 DEF RollCommits
<1>5. CASE DeleteOldRollups
  BY <1>0, <1>5 DEF DeleteOldRollups
<1>6. CASE UNCHANGED status
  BY <1>6
<1>7. ASSUME NEW w \in Workers, \/ \E p \in Packets : UpsertPacket(w, p)
                                \/ InsertObservation(w) \/ LiveText(w) \/ Abandon(w)
      PROVE  UNCHANGED status
  BY <1>7 DEF UpsertPacket, InsertObservation, LiveText, Abandon, rolled
<1>8. ASSUME \/ Tick \/ ImportKey \/ ListUndecrypted \/ (\E P : BackfillFails(P)) \/ ListMissing
             \/ DeleteStaleDirty \/ ListDirty \/ PassFails \/ RollFails
             \/ (\E g \in Hours : RollSkipped(g) \/ RollBegins(g)) \/ (\E p \in Packets : BackfillText(p))
             \/ HoldBack \/ (\E S : DeleteBatchOf(S)) \/ SnapshotOldRollups \/ CleanupFails
             \/ UNCHANGED vars
      PROVE  UNCHANGED status
  BY <1>8 DEF Tick, ImportKey, ListUndecrypted, BackfillFails, ListMissing, DeleteStaleDirty, ListDirty,
              PassFails, RollFails, RollSkipped, RollBegins, BackfillText, HoldBack, DeleteBatchOf,
              SnapshotOldRollups, CleanupFails, rolled, vars
<1>9. backfill \subseteq Packets
  BY DEF TypeInv, RollupTypeOK, FeedOK
<1> QED
  BY <1>1, <1>2, <1>3, <1>4, <1>5, <1>6, <1>7, <1>8, <1>9
  DEF Next, Ingest, Backfill, Pass, Rolls, Cleanup

\* An hour that a cleanup saw missing and whole turns partial only after the
\* raw rows were held back for Cap.
THEOREM HeldBackForCap == Spec => PartialOnlyAfterCap
<1>1. TypeInv /\ HoldInv /\ [Next]_vars =>
        [\A h \in waited : status[h] = "missing" /\ status'[h] = "partial" =>
           clock > h - Clamp + Retention + Cap]_vars
  BY OnlyWhenReached DEF GivenUp
<1> QED
  BY TypeAlways, HoldStart, HoldStep, <1>1, PTL DEF Spec, PartialOnlyAfterCap

-----------------------------------------------------------------------------
(* The cache key moves.                                                    *)

Moves == (\E h \in Hours : Told(h)' # Told(h)) => revision' + coverage' > revision + coverage

LEMMA ToldSame == UNCHANGED <<status, content>> => Moves
  BY DEF Moves, Told

LEMMA ToldSameOf ==
  ASSUME NEW h \in Hours, status'[h] = status[h],
         status[h] = "complete" => content'[h] = content[h]
  PROVE  Told(h)' = Told(h)
<1>1. (IF status'[h] = "none" THEN "missing" ELSE status'[h])
      = IF status[h] = "none" THEN "missing" ELSE status[h]
  OBVIOUS
<1>2. (IF status'[h] = "complete" THEN content'[h] ELSE NoContent)
      = IF status[h] = "complete" THEN content[h] ELSE NoContent
  OBVIOUS
<1> QED
  BY <1>1, <1>2, Zenon DEF Told

LEMMA EachStepMoves == TypeInv /\ [Next]_vars => Moves
<1> SUFFICES ASSUME TypeInv, [Next]_vars PROVE Moves
  OBVIOUS
<1>0. /\ status \in [Hours -> Statuses] /\ content \in [Hours -> Contents]
      /\ revision \in Nat /\ coverage \in Nat /\ Rows
      /\ roll.pc = "open" => roll.hour \in Hours /\ roll.content.rolled /\ status[roll.hour] # "none"
      /\ \A h \in Hours : content[h].rolled => status[h] \in {"complete", "none"}
  BY RollTyped DEF TypeInv, RollupTypeOK, RolledOK, RollOK
<1>1. ASSUME RegisterHours PROVE Moves
  <2>1. content' = content
    BY <1>1 DEF RegisterHours
  <2>2. \A h \in Hours : status'[h] = status[h] \/ (status[h] = "none" /\ status'[h] = "missing")
    BY <1>0, <1>1 DEF RegisterHours
  <2> QED
    BY <2>1, <2>2 DEF Moves, Told
<1>2. ASSUME MarkPartial PROVE Moves
  <2>1. coverage' = coverage /\ content' = content
    BY <1>2 DEF MarkPartial
  <2>2. CASE {h \in Missing : Reached(h)} = {}
    <3>1. \A h \in Hours : status'[h] = status[h]
      BY <1>0, <1>2, <2>2 DEF MarkPartial
    <3> QED
      BY <2>1, <3>1 DEF Moves, Told
  <2>3. CASE {h \in Missing : Reached(h)} # {}
    <3>1. revision' = revision + 1
      BY <1>2, <2>3 DEF MarkPartial, Bump
    <3> QED
      BY <1>0, <2>1, <3>1 DEF Moves
  <2> QED
    BY <2>2, <2>3
<1>3. ASSUME NEW h \in Hours, RollPartial(h) PROVE Moves
  <2>1. coverage' = coverage /\ content' = content
    BY <1>3 DEF RollPartial
  <2>2. CASE status[h] = "missing"
    <3>1. revision' = revision + 1
      BY <1>3, <2>2 DEF RollPartial, Bump
    <3> QED
      BY <1>0, <2>1, <3>1 DEF Moves
  <2>3. CASE status[h] # "missing"
    <3>1. status' = status
      BY <1>3, <2>3 DEF RollPartial
    <3> QED
      BY <2>1, <3>1, ToldSame
  <2> QED
    BY <2>2, <2>3
<1>4. ASSUME RollCommits PROVE Moves
  <2>1. coverage' = coverage /\ roll.pc = "open"
    BY <1>4 DEF RollCommits
  <2>2. CASE content[roll.hour] # roll.content
    <3>1. revision' = revision + 1
      BY <1>4, <2>2 DEF RollCommits, Bump
    <3> QED
      BY <1>0, <2>1, <3>1 DEF Moves
  <2>3. CASE content[roll.hour] = roll.content
    <3>1. status[roll.hour] = "complete"
      BY <1>0, <2>1, <2>3
    <3>2. \A h \in Hours : status'[h] = status[h] /\ content'[h] = content[h]
      BY <1>0, <1>4, <2>3, <3>1 DEF RollCommits
    <3> QED
      BY <3>2 DEF Moves, Told
  <2> QED
    BY <2>2, <2>3
<1>5. ASSUME DeleteOldRollups PROVE Moves
  <2>1. revision' = revision
    BY <1>5 DEF DeleteOldRollups
  <2>2. CASE \E h \in OldHours : status[h] # "none"
    <3>1. coverage' = coverage + 1
      BY <1>5, <2>2 DEF DeleteOldRollups, Cover
    <3> QED
      BY <1>0, <2>1, <3>1 DEF Moves
  <2>3. CASE ~ \E h \in OldHours : status[h] # "none"
    <3>1. ASSUME NEW h \in Hours PROVE Told(h)' = Told(h)
      <4>1. status'[h] = status[h] /\ (status[h] = "complete" => content'[h] = content[h])
        BY <1>0, <1>5, <2>3 DEF DeleteOldRollups
      <4> QED
        BY <4>1, ToldSameOf, Zenon
    <3> QED
      BY <3>1 DEF Moves
  <2> QED
    BY <2>2, <2>3
<1>6. ASSUME NEW w \in Workers, \/ \E p \in Packets : UpsertPacket(w, p)
                                \/ InsertObservation(w) \/ LiveText(w) \/ Abandon(w)
      PROVE  UNCHANGED <<status, content>>
  BY <1>6 DEF UpsertPacket, InsertObservation, LiveText, Abandon, rolled
<1>7. ASSUME \/ Tick \/ ImportKey \/ ListUndecrypted \/ (\E P : BackfillFails(P)) \/ ListMissing
             \/ DeleteStaleDirty \/ ListDirty \/ PassFails \/ RollFails
             \/ (\E g \in Hours : RollSkipped(g) \/ RollBegins(g)) \/ (\E p \in Packets : BackfillText(p))
             \/ HoldBack \/ (\E S : DeleteBatchOf(S)) \/ SnapshotOldRollups \/ CleanupFails
             \/ UNCHANGED vars
      PROVE  UNCHANGED <<status, content>>
  BY <1>7 DEF Tick, ImportKey, ListUndecrypted, BackfillFails, ListMissing, DeleteStaleDirty, ListDirty,
              PassFails, RollFails, RollSkipped, RollBegins, BackfillText, HoldBack, DeleteBatchOf,
              SnapshotOldRollups, CleanupFails, rolled, vars
<1>8. backfill \subseteq Packets
  BY DEF TypeInv, RollupTypeOK, FeedOK
<1> QED
  BY <1>1, <1>2, <1>3, <1>4, <1>5, <1>6, <1>7, <1>8, ToldSame
  DEF Next, Ingest, Backfill, Pass, Rolls, Cleanup

\* Revision plus coverage grows with every change of what readers that join the
\* hours are told.
THEOREM KeyAlwaysMoves == Spec => RevisionMoves
<1>1. TypeInv /\ [Next]_vars =>
        [(\E h \in Hours : Told(h)' # Told(h)) => revision' + coverage' > revision + coverage]_vars
  BY EachStepMoves DEF Moves
<1> QED
  BY TypeAlways, <1>1, PTL DEF Spec, RevisionMoves
==============================================================================
