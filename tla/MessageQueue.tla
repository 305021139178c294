---------------------------- MODULE MessageQueue -----------------------------
(***************************************************************************)
(* The ingest queue of one broker worker (internal/ingest/queue.go) and    *)
(* the part of Worker.Start that feeds, reports and closes it              *)
(* (internal/ingest/ingest.go).                                            *)
(*                                                                         *)
(* The MQTT callback spreads messages over lanes by observer and never     *)
(* waits: a message that fits neither its lane nor the byte budget is      *)
(* dropped and counted.  One goroutine per lane handles its messages in    *)
(* order.  At shutdown the lanes are closed and drained, for as long as    *)
(* the drain timeout allows.                                               *)
(***************************************************************************)
EXTENDS Integers, Sequences, FiniteSets

CONSTANTS
  PublicKeys,    \* values of the topic's public-key segment
  Lanes,
  LaneOf,        \* the FNV hash: observer -> lane
  Sizes,         \* message sizes, topic and payload
  LaneCap,       \* messages a lane holds
  MaxBytes,      \* bytes queued or in hand, over all lanes
  MaxMessages    \* the bound on arrivals

ASSUME QueueAssumption ==
  /\ LaneOf \in [PublicKeys -> Lanes]
  /\ Sizes \subseteq Nat \ {0}
  /\ LaneCap \in Nat \ {0}
  /\ MaxBytes \in Nat

VARIABLES
  lanes,         \* lane -> messages waiting
  bytes,         \* the byte count the callback checks
  dropped,       \* drops not yet reported
  closed,
  cancelled,     \* the handlers' context
  worker,        \* lane -> where its goroutine is
  hand,          \* lane -> the message its goroutine holds
  start,         \* where Worker.Start is
  timedOut,      \* close gave up waiting
  arrived,       \* history: messages delivered by the broker
  accepted,      \* history: arrival numbers enqueued
  handled,       \* history: arrival numbers handled
  last,          \* history: observer -> the last one handled
  refused,       \* history: arrival numbers dropped for lack of room
  reported       \* history: drops logged

queueVars == <<lanes, bytes, dropped, closed, cancelled, worker, hand, start, timedOut,
          arrived, accepted, handled, last, refused, reported>>

Messages == [n : Nat \ {0}, observer : PublicKeys, size : Sizes]
Nothing == [n |-> 0]

QueueInit ==
  /\ lanes = [l \in Lanes |-> <<>>] /\ bytes = 0 /\ dropped = 0
  /\ closed = FALSE /\ cancelled = FALSE
  /\ worker = [l \in Lanes |-> "range"] /\ hand = [l \in Lanes |-> Nothing]
  /\ start = "running" /\ timedOut = FALSE
  /\ arrived = 0 /\ accepted = {} /\ handled = {} /\ refused = {} /\ reported = 0
  /\ last = [o \in PublicKeys |-> 0]

-----------------------------------------------------------------------------
(* The MQTT callback, under the queue's mutex.                             *)

Fits(size) == size <= MaxBytes - bytes

HasRoom(l) == Len(lanes[l]) < LaneCap
Arrives == arrived < MaxMessages /\ arrived' = arrived + 1
Message(o, size) == [n |-> arrived + 1, observer |-> o, size |-> size]

Accept(o, size) ==
  /\ ~closed /\ Fits(size) /\ HasRoom(LaneOf[o])
  /\ Arrives
  /\ lanes' = [lanes EXCEPT ![LaneOf[o]] = Append(@, Message(o, size))]
  /\ bytes' = bytes + size
  /\ accepted' = accepted \cup {arrived'}
  /\ UNCHANGED <<dropped, closed, cancelled, worker, hand, start, timedOut, handled, last,
                 refused, reported>>

DropCharged(o, size) ==
  /\ ~closed /\ ~(Fits(size) /\ HasRoom(LaneOf[o]))
  /\ Arrives
  /\ bytes' = IF Fits(size) THEN bytes + size ELSE bytes
  /\ dropped' = dropped + 1
  /\ refused' = refused \cup {arrived'}
  /\ UNCHANGED <<lanes, closed, cancelled, worker, hand, start, timedOut, accepted,
                 handled, last, reported>>

Drop(o, size) ==
  /\ ~closed /\ ~(Fits(size) /\ HasRoom(LaneOf[o]))
  /\ Arrives
  /\ dropped' = dropped + 1
  /\ refused' = refused \cup {arrived'}
  /\ UNCHANGED <<lanes, bytes, closed, cancelled, worker, hand, start, timedOut, accepted,
                 handled, last, reported>>

\* Paho's Disconnect gives callbacks 500 ms; what they bring is not counted.
Ignore ==
  /\ closed
  /\ Arrives
  /\ UNCHANGED <<lanes, bytes, dropped, closed, cancelled, worker, hand, start, timedOut,
                 accepted, handled, last, refused, reported>>

Enqueue == Ignore \/ \E o \in PublicKeys, size \in Sizes : Accept(o, size) \/ Drop(o, size)

-----------------------------------------------------------------------------
(* A lane's goroutine.                                                     *)

TakeAnother(l) ==
  /\ worker[l] = "range" /\ lanes[l] # <<>>
  /\ \E i \in DOMAIN lanes[l] :
       /\ hand' = [hand EXCEPT ![l] = lanes[l][i]]
       /\ lanes' = [lanes EXCEPT ![l] = SubSeq(@, 1, i - 1) \o SubSeq(@, i + 1, Len(@))]
  /\ worker' = [worker EXCEPT ![l] = IF cancelled THEN "exited" ELSE "handling"]
  /\ UNCHANGED <<bytes, dropped, closed, cancelled, start, timedOut, arrived, accepted,
                 handled, last, refused, reported>>

\* After the context is cancelled the goroutine returns, message and all.
Take(l) ==
  /\ worker[l] = "range" /\ lanes[l] # <<>>
  /\ hand' = [hand EXCEPT ![l] = Head(lanes[l])]
  /\ lanes' = [lanes EXCEPT ![l] = Tail(@)]
  /\ worker' = [worker EXCEPT ![l] = IF cancelled THEN "exited" ELSE "handling"]
  /\ UNCHANGED <<bytes, dropped, closed, cancelled, start, timedOut, arrived, accepted,
                 handled, last, refused, reported>>

Handled(l) ==
  /\ handled' = handled \cup {hand[l].n}
  /\ last' = [last EXCEPT ![hand[l].observer] = hand[l].n]

HandleUnrecovered(l) ==
  /\ worker[l] = "handling"
  /\ \E next \in {"crediting", "exited"} : worker' = [worker EXCEPT ![l] = next]
  /\ Handled(l)
  /\ UNCHANGED <<lanes, bytes, dropped, closed, cancelled, hand, start, timedOut, arrived,
                 accepted, refused, reported>>

HandleMayHang(l) ==
  /\ worker[l] = "handling"
  /\ \E next \in {"crediting", "hung"} : worker' = [worker EXCEPT ![l] = next]
  /\ Handled(l)
  /\ UNCHANGED <<lanes, bytes, dropped, closed, cancelled, hand, start, timedOut, arrived,
                 accepted, refused, reported>>

\* The handler returns, or panics and is recovered.
Handle(l) ==
  /\ worker[l] = "handling"
  /\ worker' = [worker EXCEPT ![l] = "crediting"]
  /\ Handled(l)
  /\ UNCHANGED <<lanes, bytes, dropped, closed, cancelled, hand, start, timedOut, arrived,
                 accepted, refused, reported>>

\* The bytes are given back once the message is handled, under the mutex.
Credit(l) ==
  /\ worker[l] = "crediting"
  /\ bytes' = bytes - hand[l].size
  /\ hand' = [hand EXCEPT ![l] = Nothing]
  /\ worker' = [worker EXCEPT ![l] = "range"]
  /\ UNCHANGED <<lanes, dropped, closed, cancelled, start, timedOut, arrived, accepted,
                 handled, last, refused, reported>>

\* Ranging over a closed lane ends when it is empty.
Exit(l) ==
  /\ worker[l] = "range" /\ lanes[l] = <<>> /\ closed
  /\ worker' = [worker EXCEPT ![l] = "exited"]
  /\ UNCHANGED <<lanes, bytes, dropped, closed, cancelled, hand, start, timedOut, arrived,
                 accepted, handled, last, refused, reported>>

-----------------------------------------------------------------------------
(* Worker.Start: report drops on a ticker, close the queue when told to    *)
(* stop, report the rest.                                                  *)

TakeDroppedKeeps ==
  /\ reported' = reported + dropped
  /\ UNCHANGED <<dropped, lanes, bytes, closed, cancelled, worker, hand, timedOut, arrived,
                 accepted, handled, last, refused>>

TakeDropped ==
  /\ reported' = reported + dropped
  /\ dropped' = 0
  /\ UNCHANGED <<lanes, bytes, closed, cancelled, worker, hand, timedOut, arrived, accepted,
                 handled, last, refused>>

ReportDrops == start = "running" /\ dropped > 0 /\ TakeDropped /\ UNCHANGED start

Close ==
  /\ start = "running"
  /\ start' = "draining"
  /\ closed' = TRUE
  /\ UNCHANGED <<lanes, bytes, dropped, cancelled, worker, hand, timedOut, arrived,
                 accepted, handled, last, refused, reported>>

AllExited == \A l \in Lanes : worker[l] = "exited"

\* close cancels the handlers either way; a timeout still waits for them.
CancelBeforeDrain ==
  /\ start = "draining"
  /\ start' = "waiting"
  /\ cancelled' = TRUE
  /\ UNCHANGED <<lanes, bytes, dropped, closed, worker, hand, timedOut, arrived, accepted,
                 handled, last, refused, reported>>

Drained ==
  /\ start = "draining" /\ AllExited
  /\ start' = "closed"
  /\ cancelled' = TRUE
  /\ UNCHANGED <<lanes, bytes, dropped, closed, worker, hand, timedOut, arrived, accepted,
                 handled, last, refused, reported>>

DrainTimeout ==
  /\ start = "draining"
  /\ start' = "waiting"
  /\ cancelled' = TRUE
  /\ timedOut' = TRUE
  /\ UNCHANGED <<lanes, bytes, dropped, closed, worker, hand, arrived, accepted, handled,
                 last, refused, reported>>

Stopped ==
  /\ start = "waiting" /\ AllExited
  /\ start' = "closed"
  /\ UNCHANGED <<lanes, bytes, dropped, closed, cancelled, worker, hand, timedOut, arrived,
                 accepted, handled, last, refused, reported>>

LastReport == start = "closed" /\ start' = "returned" /\ TakeDropped

-----------------------------------------------------------------------------
Lane(l) == Take(l) \/ Handle(l) \/ Credit(l) \/ Exit(l)
Shutdown == Drained \/ DrainTimeout \/ Stopped \/ LastReport

QueueNext ==
  \/ Enqueue
  \/ \E l \in Lanes : Lane(l)
  \/ ReportDrops \/ Close \/ Shutdown

QueueSpec == QueueInit /\ [][QueueNext]_queueVars

\* A lane's goroutine runs when it can; a handler ends because its context
\* has a 30 s timeout; the drain has one of 20 s.  Nobody has to stop Start.
Fairness == (\A l \in Lanes : WF_queueVars(Lane(l))) /\ WF_queueVars(Shutdown)
FairSpec == QueueSpec /\ Fairness

-----------------------------------------------------------------------------
(* Properties.                                                             *)

\* Types; the byte count stays within the budget, the lanes within capacity.
LanesOK ==
  /\ lanes \in [Lanes -> Seq(Messages)]
  /\ \A l \in Lanes : Len(lanes[l]) <= LaneCap
WorkersOK ==
  /\ worker \in [Lanes -> {"range", "handling", "crediting", "exited"}]
  /\ hand \in [Lanes -> Messages \cup {Nothing}]
  /\ \A l \in Lanes : worker[l] \in {"handling", "crediting"} => hand[l] \in Messages
CountsOK ==
  /\ bytes \in Int /\ bytes <= MaxBytes
  /\ dropped \in Nat /\ reported \in Nat
  /\ closed \in BOOLEAN /\ cancelled \in BOOLEAN /\ timedOut \in BOOLEAN
  /\ start \in {"running", "draining", "waiting", "closed", "returned"}
HistoryOK ==
  /\ arrived \in Nat
  /\ accepted \in SUBSET Nat /\ handled \in SUBSET Nat /\ refused \in SUBSET Nat
  /\ last \in [PublicKeys -> Nat]
TypeOK == LanesOK /\ WorkersOK /\ CountsOK /\ HistoryOK

\* "Keep status and packets from each observer in arrival order": a message
\* is never handled after a later one of the same observer, although lanes
\* run in parallel and messages in between were dropped.
InArrivalOrder ==
  [][\A o \in PublicKeys : last'[o] # last[o] => last'[o] > last[o]]_queueVars

Holding(l) == worker[l] \in {"handling", "crediting"}
Waiting(l) == {lanes[l][i] : i \in DOMAIN lanes[l]}
InFlight == (UNION {Waiting(l) : l \in Lanes}) \cup {hand[l] : l \in {k \in Lanes : Holding(k)}}
BytesOf(m) == {m} \X (1..m.size)
\* The byte budget is charged exactly the messages queued or in hand, so no
\* drop, panic or interleaving of the callback with the lanes leaks budget:
\* a leak would sooner or later drop everything.
BytesExact == ~cancelled => bytes = Cardinality(UNION {BytesOf(m) : m \in InFlight})

\* A close that reports no timeout has handled every message ever accepted.
CleanCloseLosesNothing ==
  start \in {"closed", "returned"} /\ ~timedOut => accepted \subseteq handled

\* Every message dropped for lack of room is counted once in the log, those
\* dropped between the last tick and the end of the drain included.
DropsReported ==
  /\ dropped + reported = Cardinality(refused)
  /\ start = "returned" => reported = Cardinality(refused)

\* An accepted message is handled, unless a shutdown times out.
AcceptedIsHandled ==
  \A n \in 1..MaxMessages : n \in accepted ~> n \in handled \/ timedOut

\* Shutdown ends, drained or not, however many messages wait.
ShutdownEnds == closed ~> start = "returned"
==============================================================================
