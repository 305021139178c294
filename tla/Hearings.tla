------------------------------ MODULE Hearings -------------------------------
(***************************************************************************)
(* One packet heard by many observers, over several paths, reported        *)
(* through two brokers: the storing and streaming half of handlePacket     *)
(* (internal/ingest/packet.go), the presence coalescer's UpsertPacket      *)
(* (internal/presence/coalescer.go), the two SQL statements behind it and  *)
(* the hub's memory of paths already seen (internal/hub/sent.go).          *)
(*                                                                         *)
(* A broker worker handles the messages of one observer in order           *)
(* (MessageQueue); the workers of the two brokers, and those of different  *)
(* observers, interleave between any two database calls.                   *)
(***************************************************************************)
EXTENDS Integers, Sequences, FiniteSets

CONSTANTS
  Brokers, Observers, Packets, Paths,
  Traces,        \* the packets of payload type TRACE, whose path is no path
  SentTTL,       \* sentPathsTTL
  SentMax,       \* sentPathsMax
  MaxHeard,      \* the bound on hearings
  MaxClock       \* the bound on time

ASSUME HearingsAssumption ==
  /\ Traces \subseteq Packets
  /\ SentTTL \in Nat \ {0} /\ SentMax \in Nat \ {0}

Links == Brokers \X Observers
Copies == [packet : Packets, path : Paths]
Pairs == Packets \X Observers

VARIABLES
  inbox,         \* link -> copies waiting in the broker's queue
  call,          \* link -> the handlePacket under way
  rows,          \* packets table: the hashes stored
  count,         \* packets table: observation_count
  stored,        \* packet_observations: the pairs stored
  packetsSeen,   \* the coalescer's suppressed hashes
  sent,          \* the hub's sentPaths
  wanted,        \* some client asked for repeats
  clock,
  calm,          \* no report misses a broker and no statement fails
  heard,         \* hearings so far
  events,        \* history: the packetObservation events the hub took
  lost           \* history: <<packet, count>> of events a full hub dropped

vars == <<inbox, call, rows, count, stored, packetsSeen, sent, wanted, clock, calm, heard,
          events, lost>>

Idle == [pc |-> "idle"]

Init ==
  /\ inbox = [l \in Links |-> <<>>]
  /\ call = [l \in Links |-> Idle]
  /\ rows = {} /\ stored = {} /\ packetsSeen = {}
  /\ count = [p \in Packets |-> 0]
  /\ sent = [at |-> {}, order |-> <<>>]
  /\ wanted \in BOOLEAN
  /\ calm \in BOOLEAN
  /\ clock = 0 /\ heard = 0 /\ events = <<>> /\ lost = {}

-----------------------------------------------------------------------------
(* The outside: an observer reports a hearing to the brokers it reaches,   *)
(* clients turn repeats on and off, time passes.                           *)

Reached == IF calm THEN {Brokers} ELSE SUBSET Brokers \ {{}}

Hear(o, c) ==
  /\ heard < MaxHeard /\ heard' = heard + 1
  /\ \E reached \in Reached :
       inbox' = [l \in Links |-> IF l[1] \in reached /\ l[2] = o
                                 THEN Append(inbox[l], c) ELSE inbox[l]]
  /\ UNCHANGED <<call, rows, count, stored, packetsSeen, sent, wanted, clock, events, lost,
                 calm>>

RepeatClients ==
  /\ wanted' = ~wanted
  /\ UNCHANGED <<inbox, call, rows, count, stored, packetsSeen, sent, clock, heard, events,
                 lost, calm>>

Tick ==
  /\ clock < MaxClock /\ clock' = clock + 1
  /\ UNCHANGED <<inbox, call, rows, count, stored, packetsSeen, sent, wanted, heard, events, lost, calm>>

\* A presence flush forgets a hash that was quiet for its TTL.
Forget(p) ==
  /\ p \in packetsSeen
  /\ packetsSeen' = packetsSeen \ {p}
  /\ UNCHANGED <<inbox, call, rows, count, stored, sent, wanted, clock, heard, events, lost, calm>>

-----------------------------------------------------------------------------
(* UpsertPacket: suppressed for a hash seen lately, written through        *)
(* otherwise; the row says whether the statement inserted it.              *)

Begun(c, pc, isNew) == [pc |-> pc, copy |-> c, isNew |-> isNew]

TakeNext(l) ==
  /\ call[l] = Idle /\ inbox[l] # <<>>
  /\ inbox' = [inbox EXCEPT ![l] = Tail(@)]

Suppress(l) ==
  /\ TakeNext(l)
  /\ Head(inbox[l]).packet \in packetsSeen
  /\ call' = [call EXCEPT ![l] = Begun(Head(inbox[l]), "insert", FALSE)]
  /\ UNCHANGED <<rows, count, stored, packetsSeen, sent, wanted, clock, heard, events, lost, calm>>

NewIfUnseen(p) == p \notin packetsSeen
NewRow(p) == p \notin rows

UpsertPacket(l) ==
  LET c == Head(inbox[l]) IN
  /\ TakeNext(l)
  /\ c.packet \notin packetsSeen
  /\ rows' = rows \cup {c.packet}
  /\ call' = [call EXCEPT ![l] = Begun(c, "remember", NewRow(c.packet))]
  /\ UNCHANGED <<count, stored, packetsSeen, sent, wanted, clock, heard, events, lost, calm>>

\* A call whose statements fail ends; one that times out may leave the row.
UpsertFails(l) ==
  LET c == Head(inbox[l]) IN
  /\ ~calm
  /\ TakeNext(l)
  /\ \/ UNCHANGED rows
     \/ c.packet \notin packetsSeen /\ rows' = rows \cup {c.packet}
  /\ UNCHANGED <<call, count, stored, packetsSeen, sent, wanted, clock, heard, events, lost, calm>>

Remember(l) ==
  /\ call[l].pc = "remember"
  /\ packetsSeen' = packetsSeen \cup {call[l].copy.packet}
  /\ call' = [call EXCEPT ![l].pc = "insert"]
  /\ UNCHANGED <<inbox, rows, count, stored, sent, wanted, clock, heard, events, lost, calm>>

-----------------------------------------------------------------------------
(* InsertObservation: one statement inserts the pair unless it is there,   *)
(* bumps the packet's count for a new row and returns the count.           *)

PairOf(l) == <<call[l].copy.packet, l[2]>>
HearingOf(l) == <<call[l].copy.packet, l[2], call[l].copy.path>>

StorePair(l) ==
  /\ stored' = stored \cup {PairOf(l)}
  /\ count' = [count EXCEPT ![call[l].copy.packet] = @ + IF PairOf(l) \in stored THEN 0 ELSE 1]

InsertObservation(l) ==
  /\ call[l].pc = "insert"
  /\ StorePair(l)
  /\ call' = [call EXCEPT ![l] =
       [pc |-> "mark", copy |-> @.copy, isNew |-> @.isNew,
        inserted |-> PairOf(l) \notin stored, count |-> count'[@.copy.packet], at |-> clock]]
  /\ UNCHANGED <<inbox, rows, packetsSeen, sent, wanted, clock, heard, events, lost, calm>>

InsertFails(l) ==
  /\ ~calm
  /\ call[l].pc = "insert"
  /\ StorePair(l) \/ UNCHANGED <<stored, count>>
  /\ call' = [call EXCEPT ![l] = Idle]
  /\ UNCHANGED <<inbox, rows, packetsSeen, sent, wanted, clock, heard, events, lost, calm>>

-----------------------------------------------------------------------------
(* MarkSent: sentPaths.add first pops, oldest first, what has outlived the *)
(* TTL or fills the bound.                                                 *)

Stays(order, k) ==
  k = Len(order) \/ (clock - order[k + 1].at < SentTTL /\ Len(order) - k < SentMax)
Popped(order) ==
  CHOOSE k \in 0..Len(order) : Stays(order, k) /\ \A j \in 0..(k - 1) : ~Stays(order, j)

Evicted(m) ==
  LET k == Popped(m.order) IN
  [at |-> m.at \ {m.order[i].key : i \in 1..k}, order |-> SubSeq(m.order, k + 1, Len(m.order))]

IsNewKey(m, key) == key \notin Evicted(m).at
Add(m, key) ==
  IF IsNewKey(m, key)
  THEN [at |-> Evicted(m).at \cup {key},
        order |-> Append(Evicted(m).order, [key |-> key, at |-> clock])]
  ELSE Evicted(m)

\* The path is new if the hearing is and it is not the pair's first.
PathNewByHearing(pair, hearing) == IsNewKey(Add(sent, pair), hearing)
PathNew(pair, hearing) == IsNewKey(Add(sent, pair), hearing) /\ ~IsNewKey(sent, pair)

Repeat(l) ==
  /\ ~call[l].inserted /\ wanted
  /\ call[l].copy.packet \notin Traces
  /\ PathNew(PairOf(l), HearingOf(l))

StreamedIfUnmarked(l) == call[l].inserted /\ IsNewKey(sent, PairOf(l))
Streamed(l) == call[l].inserted

\* What is neither stored nor a repeat is not streamed.  A repeat counts
\* from its mark, a stored hearing from its insert.
MarkSent(l) ==
  /\ call[l].pc = "mark"
  /\ sent' = IF call[l].copy.packet \in Traces THEN sent
             ELSE Add(Add(sent, PairOf(l)), HearingOf(l))
  /\ call' = [call EXCEPT ![l] =
       IF Streamed(l) THEN [@ EXCEPT !.pc = "broadcast"]
       ELSE IF Repeat(l) THEN [@ EXCEPT !.pc = "repeat", !.at = clock]
       ELSE Idle]
  /\ UNCHANGED <<inbox, rows, count, stored, packetsSeen, wanted, clock, heard, events, lost, calm>>

-----------------------------------------------------------------------------
(* The event, after the path and side-effect queries.                      *)

EventCount(l, repeat) == IF repeat THEN 0 ELSE call[l].count

Event(l, repeat) ==
  [packet |-> call[l].copy.packet, observer |-> l[2], path |-> call[l].copy.path,
   first |-> call[l].isNew /\ ~repeat, repeat |-> repeat,
   count |-> EventCount(l, repeat), at |-> call[l].at]

\* The hub takes the event if its channel has room; it is full of whatever
\* the workers broadcast, so here it may be full at any time.
Broadcast(l) ==
  /\ call[l].pc = "broadcast"
  /\ \/ events' = Append(events, Event(l, FALSE)) /\ UNCHANGED lost
     \/ lost' = lost \cup {<<call[l].copy.packet, call[l].count>>} /\ UNCHANGED events
  /\ call' = [call EXCEPT ![l] = Idle]
  /\ UNCHANGED <<inbox, rows, count, stored, packetsSeen, sent, wanted, clock, heard, calm>>

\* A busy hub drops it.
BroadcastRepeat(l) ==
  /\ call[l].pc = "repeat"
  /\ events' \in {events, Append(events, Event(l, TRUE))}
  /\ call' = [call EXCEPT ![l] = Idle]
  /\ UNCHANGED <<inbox, rows, count, stored, packetsSeen, sent, wanted, clock, heard, lost, calm>>

-----------------------------------------------------------------------------
HandlePacket(l) ==
  \/ Suppress(l) \/ UpsertPacket(l) \/ UpsertFails(l) \/ Remember(l)
  \/ InsertObservation(l) \/ InsertFails(l)
  \/ MarkSent(l) \/ Broadcast(l) \/ BroadcastRepeat(l)

Next ==
  \/ \E o \in Observers, c \in Copies : Hear(o, c)
  \/ \E l \in Links : HandlePacket(l)
  \/ \E p \in Packets : Forget(p)
  \/ RepeatClients \/ Tick

Spec == Init /\ [][Next]_vars

-----------------------------------------------------------------------------
(* Properties.                                                             *)

\* "isFirstObservation: true means the packet is new, so add a row", and
\* counts number a packet's hearings ("Repeats carry observationCount 0"): no
\* two events of a packet add its row or carry the same count, whatever the
\* two workers, the memory of recent hashes and failures do.
NumberedOnce ==
  \A i, j \in DOMAIN events :
    /\ events[i].packet = events[j].packet
    /\ \/ events[i].first /\ events[j].first
       \/ events[i].count > 0 /\ events[i].count = events[j].count
    => i = j

\* "Exact copies (the same path again, or the same hearing via another
\* broker) are not sent": a repeat never shows a path of that observer that
\* was stored or streamed less than the memory's TTL before, however the two
\* workers interleave.  (Where every report reaches both, no statement fails
\* and there is room for every key: eviction forgets earlier.)
SameHearing(e, f) == e.packet = f.packet /\ e.observer = f.observer /\ e.path = f.path
CopiesNotStreamed ==
  calm => \A i, j \in DOMAIN events :
    i # j /\ SameHearing(events[i], events[j]) /\ events[j].repeat
      => \/ events[j].at - events[i].at >= SentTTL
         \/ events[i].repeat /\ events[i].at - events[j].at >= SentTTL

\* The path memory, the row lock and the two workers never disagree about a
\* stored hearing: when all reports are handled, every number up to a row's
\* count was either streamed or dropped by a full hub, never both, so that a
\* client misses exactly the events the hub dropped.
Quiet == \A l \in Links : inbox[l] = <<>> /\ call[l] = Idle
StreamedCounts(p) ==
  {events[i].count : i \in {j \in DOMAIN events : events[j].packet = p /\ ~events[j].repeat}}
LostCounts(p) == {n \in 1..count[p] : <<p, n>> \in lost}
StoredIsStreamedOrLost ==
  \A p \in Packets :
    /\ StreamedCounts(p) \cap LostCounts(p) = {}
    /\ Quiet /\ calm => 1..count[p] = StreamedCounts(p) \cup LostCounts(p)

\* "true means the packet is new, so add a row": when all reports are handled
\* and the hub dropped none, every stored packet was announced as new.  The
\* code breaks this: the worker whose statement inserted the row may come
\* second with the pair.
NewPacketAnnounced ==
  Quiet /\ calm /\ lost = {} =>
    \A p \in rows : \E i \in DOMAIN events : events[i].packet = p /\ events[i].first
==============================================================================
