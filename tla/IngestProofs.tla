---------------------------- MODULE IngestProofs ----------------------------
(* What holds of the ingest queue for every number of observers, lanes and *)
(* messages, every hash, every capacity and byte budget, and of the        *)
(* storing and streaming half of handlePacket for every number of brokers, *)
(* observers, packets and paths.                                           *)
EXTENDS MessageQueue, Hearings, FiniteSetTheorems, SequenceTheorems, TLAPS

-----------------------------------------------------------------------------
(* Sequences of messages.                                                  *)

LEMMA Appended ==
  ASSUME NEW S, NEW q \in Seq(S), NEW x \in S
  PROVE  /\ Append(q, x) \in Seq(S) /\ Len(q) \in Nat /\ Len(Append(q, x)) = Len(q) + 1
         /\ DOMAIN q = 1..Len(q) /\ DOMAIN Append(q, x) = 1..(Len(q) + 1)
         /\ \A i \in 1..Len(q) : Append(q, x)[i] = q[i]
         /\ Append(q, x)[Len(q) + 1] = x
OBVIOUS

LEMMA Dequeued ==
  ASSUME NEW S, NEW q \in Seq(S), q # <<>>
  PROVE  /\ Head(q) \in S /\ Tail(q) \in Seq(S)
         /\ Len(q) \in Nat \ {0} /\ Len(Tail(q)) = Len(q) - 1
         /\ \A i \in 1..Len(Tail(q)) : i + 1 \in 1..Len(q) /\ Tail(q)[i] = q[i + 1]
         /\ Head(q) = q[1]
OBVIOUS

-----------------------------------------------------------------------------
(* Type correctness.                                                       *)

\* A message waiting in a lane is a message.
LEMMA WaitingTyped ==
  ASSUME LanesOK
  PROVE  \A l \in Lanes : \A i \in 1..Len(lanes[l]) :
           lanes[l][i] \in Messages /\ lanes[l][i].n \in Nat
<1>1. \A l \in Lanes : \A i \in 1..Len(lanes[l]) : lanes[l][i] \in Messages
  BY DEF LanesOK
<1>2. \A m \in Messages : m.n \in Nat
  BY DEF Messages
<1> QED
  BY <1>1, <1>2

LEMMA InitTypeOK == QueueInit => TypeOK
<1> SUFFICES ASSUME QueueInit PROVE TypeOK
  OBVIOUS
<1> USE QueueAssumption DEF QueueInit
<1>1. LanesOK
  BY DEF LanesOK
<1>2. WorkersOK
  BY DEF WorkersOK
<1>3. CountsOK
  <2>1. bytes \in Int /\ bytes <= MaxBytes /\ dropped \in Nat /\ reported \in Nat
    OBVIOUS
  <2> QED
    BY <2>1 DEF CountsOK
<1>4. HistoryOK
  BY DEF HistoryOK
<1> QED
  BY <1>1, <1>2, <1>3, <1>4 DEF TypeOK

LEMMA AcceptTypeOK ==
  ASSUME TypeOK, NEW o \in PublicKeys, NEW size \in Sizes, Accept(o, size)
  PROVE  TypeOK'
<1> DEFINE l == LaneOf[o]
           m == Message(o, size)
<1> USE QueueAssumption DEF TypeOK
<1>0. m \in Messages
  BY DEF Message, Messages, HistoryOK
<1>1. l \in Lanes /\ m \in Messages /\ lanes[l] \in Seq(Messages)
  BY <1>0 DEF LanesOK
<1>2. lanes' = [lanes EXCEPT ![l] = Append(lanes[l], m)] /\ Len(lanes[l]) < LaneCap
  BY DEF Accept, HasRoom
<1> HIDE DEF l, m
<1>3. Append(lanes[l], m) \in Seq(Messages) /\ Len(Append(lanes[l], m)) <= LaneCap
  BY <1>1, <1>2, Appended
<1>4. LanesOK'
  BY <1>1, <1>2, <1>3 DEF LanesOK
<1>5. WorkersOK'
  BY DEF Accept, WorkersOK
<1>6. CountsOK'
  BY DEF Accept, Fits, CountsOK
<1>7. HistoryOK'
  BY DEF Accept, Arrives, HistoryOK
<1> QED
  BY <1>4, <1>5, <1>6, <1>7

LEMMA TakeTypeOK ==
  ASSUME TypeOK, NEW l \in Lanes, Take(l)
  PROVE  TypeOK'
<1> USE QueueAssumption DEF TypeOK
<1>1. lanes[l] \in Seq(Messages) /\ lanes[l] # <<>> /\ Len(lanes[l]) <= LaneCap
  BY DEF Take, LanesOK
<1>2. /\ Head(lanes[l]) \in Messages /\ Tail(lanes[l]) \in Seq(Messages)
      /\ Len(Tail(lanes[l])) <= LaneCap
  BY <1>1, Dequeued
<1>3. LanesOK'
  BY <1>2 DEF Take, LanesOK
<1>4. WorkersOK'
  BY <1>2 DEF Take, WorkersOK
<1>5. CountsOK' /\ HistoryOK'
  BY DEF Take, CountsOK, HistoryOK
<1> QED
  BY <1>3, <1>4, <1>5

LEMMA HandleTypeOK ==
  ASSUME TypeOK, NEW l \in Lanes, Handle(l)
  PROVE  TypeOK'
<1> USE DEF TypeOK
<1>1. hand[l].n \in Nat \ {0} /\ hand[l].observer \in PublicKeys
  BY DEF Handle, WorkersOK, Messages
<1>2. LanesOK' /\ CountsOK'
  BY DEF Handle, LanesOK, CountsOK
<1>3. WorkersOK'
  BY DEF Handle, WorkersOK
<1>4. HistoryOK'
  BY <1>1 DEF Handle, Handled, HistoryOK
<1> QED
  BY <1>2, <1>3, <1>4

LEMMA NextTypeOK == TypeOK /\ [QueueNext]_queueVars => TypeOK'
<1> SUFFICES ASSUME TypeOK, [QueueNext]_queueVars PROVE TypeOK'
  OBVIOUS
<1> USE QueueAssumption DEF TypeOK
<1>1. CASE Enqueue
  <2>1. CASE Ignore
    BY <2>1 DEF Ignore, Arrives, LanesOK, WorkersOK, CountsOK, HistoryOK
  <2>2. ASSUME NEW o \in PublicKeys, NEW size \in Sizes, Drop(o, size) PROVE TypeOK'
    BY <2>2 DEF Drop, Arrives, LanesOK, WorkersOK, CountsOK, HistoryOK
  <2> QED
    BY <1>1, <2>1, <2>2, AcceptTypeOK DEF Enqueue
<1>2. ASSUME NEW l \in Lanes, Lane(l) PROVE TypeOK'
  <2>1. CASE Credit(l)
    <3>1. hand[l].size \in Nat
      BY <2>1 DEF Credit, WorkersOK, Messages
    <3>2. CountsOK'
      BY <2>1, <3>1 DEF Credit, CountsOK
    <3> QED
      BY <2>1, <3>2 DEF Credit, LanesOK, WorkersOK, HistoryOK
  <2>2. CASE Exit(l)
    BY <2>2 DEF Exit, LanesOK, WorkersOK, CountsOK, HistoryOK
  <2> QED
    BY <1>2, <2>1, <2>2, TakeTypeOK, HandleTypeOK DEF Lane
<1>3. CASE ReportDrops
  BY <1>3 DEF ReportDrops, TakeDropped, LanesOK, WorkersOK, CountsOK, HistoryOK
<1>4. CASE Close
  BY <1>4 DEF Close, LanesOK, WorkersOK, CountsOK, HistoryOK
<1>5. CASE Shutdown
  <2>1. CASE Drained \/ DrainTimeout \/ Stopped
    BY <2>1 DEF Drained, DrainTimeout, Stopped, LanesOK, WorkersOK, CountsOK, HistoryOK
  <2>2. CASE LastReport
    BY <2>2 DEF LastReport, TakeDropped, LanesOK, WorkersOK, CountsOK, HistoryOK
  <2> QED
    BY <1>5, <2>1, <2>2 DEF Shutdown
<1>6. CASE UNCHANGED queueVars
  BY <1>6 DEF queueVars, LanesOK, WorkersOK, CountsOK, HistoryOK
<1> QED
  BY <1>1, <1>2, <1>3, <1>4, <1>5, <1>6 DEF QueueNext

\* Every variable keeps its type, no lane exceeds its capacity and the byte
\* count never exceeds the budget: queue.go's mu, lanes, bytes and maxBytes.
THEOREM TypeCorrect == QueueSpec => []TypeOK
BY InitTypeOK, NextTypeOK, PTL DEF QueueSpec

-----------------------------------------------------------------------------
(* Order.  A lane holds its messages in arrival order, all of them newer   *)
(* than the one in hand, and that one newer than every one handled before. *)

OrderInv ==
  /\ \A l \in Lanes : \A i \in 1..Len(lanes[l]) : lanes[l][i].n <= arrived
  /\ \A l \in Lanes : \A i, j \in 1..Len(lanes[l]) :
       i < j => lanes[l][i].n < lanes[l][j].n
  /\ \A l \in Lanes : \A i \in 1..Len(lanes[l]) : LaneOf[lanes[l][i].observer] = l
  /\ \A l \in Lanes : worker[l] = "handling" =>
       /\ LaneOf[hand[l].observer] = l /\ hand[l].n <= arrived
       /\ \A i \in 1..Len(lanes[l]) : hand[l].n < lanes[l][i].n
  /\ \A o \in PublicKeys :
       /\ last[o] <= arrived
       /\ \A i \in 1..Len(lanes[LaneOf[o]]) : last[o] < lanes[LaneOf[o]][i].n
       /\ worker[LaneOf[o]] = "handling" => last[o] < hand[LaneOf[o]].n

LEMMA AcceptOrder ==
  ASSUME TypeOK, OrderInv, NEW o \in PublicKeys, NEW size \in Sizes, Accept(o, size)
  PROVE  OrderInv'
<1> DEFINE d == LaneOf[o]
           m == Message(o, size)
<1>0. m \in Messages /\ m.n = arrived + 1 /\ LaneOf[m.observer] = d
  BY QueueAssumption DEF Message, Messages, TypeOK, HistoryOK
<1>1. /\ d \in Lanes /\ m \in Messages /\ lanes \in [Lanes -> Seq(Messages)]
      /\ m.n = arrived + 1 /\ LaneOf[m.observer] = d
  BY <1>0, QueueAssumption DEF TypeOK, LanesOK
<1>2. /\ lanes' = [lanes EXCEPT ![d] = Append(lanes[d], m)] /\ arrived' = arrived + 1
      /\ UNCHANGED <<worker, hand, last>>
  BY DEF Accept, Arrives
<1>3. arrived \in Nat /\ last \in [PublicKeys -> Nat] /\ hand \in [Lanes -> Messages \cup {Nothing}]
      /\ \A l \in Lanes : worker[l] = "handling" => hand[l].n \in Nat
  BY DEF TypeOK, HistoryOK, WorkersOK, Messages
<1> HIDE DEF d, m
<1>4. /\ Len(lanes[d]) \in Nat /\ Len(lanes'[d]) = Len(lanes[d]) + 1
      /\ \A i \in 1..Len(lanes[d]) : lanes'[d][i] = lanes[d][i]
      /\ lanes'[d][Len(lanes[d]) + 1] = m
  BY <1>1, <1>2, Appended
<1>5. \A l \in Lanes \ {d} : lanes'[l] = lanes[l]
  BY <1>1, <1>2
<1>6. \A l \in Lanes : \A i \in 1..Len(lanes'[l]) :
        \/ lanes'[l][i] = m /\ l = d /\ i = Len(lanes[d]) + 1
        \/ i \in 1..Len(lanes[l]) /\ lanes'[l][i] = lanes[l][i]
  <2> SUFFICES ASSUME NEW l \in Lanes, NEW i \in 1..Len(lanes'[l])
               PROVE  \/ lanes'[l][i] = m /\ l = d /\ i = Len(lanes[d]) + 1
                      \/ i \in 1..Len(lanes[l]) /\ lanes'[l][i] = lanes[l][i]
    OBVIOUS
  <2>1. CASE l = d
    <3>1. i = Len(lanes[d]) + 1 \/ i \in 1..Len(lanes[d])
      BY <1>4, <2>1
    <3> QED
      BY <1>4, <2>1, <3>1
  <2>2. CASE l # d
    BY <1>5, <2>2
  <2> QED
    BY <2>1, <2>2
<1>7. \A l \in Lanes : \A i \in 1..Len(lanes[l]) :
        lanes[l][i].n \in Nat /\ lanes[l][i].n <= arrived
  BY WaitingTyped DEF OrderInv, TypeOK
<1>8. \A l \in Lanes : \A i \in 1..Len(lanes'[l]) : lanes'[l][i].n <= arrived'
  BY <1>1, <1>2, <1>3, <1>6, <1>7
<1>9. \A l \in Lanes : \A i, j \in 1..Len(lanes'[l]) : i < j => lanes'[l][i].n < lanes'[l][j].n
  <2> SUFFICES ASSUME NEW l \in Lanes, NEW i \in 1..Len(lanes'[l]), NEW j \in 1..Len(lanes'[l]),
                      i < j
               PROVE  lanes'[l][i].n < lanes'[l][j].n
    OBVIOUS
  <2>1. i \in 1..Len(lanes[l]) /\ lanes'[l][i] = lanes[l][i]
    BY <1>4, <1>6
  <2>2. CASE lanes'[l][j] = m
    BY <1>1, <1>3, <1>7, <2>1, <2>2
  <2>3. CASE j \in 1..Len(lanes[l]) /\ lanes'[l][j] = lanes[l][j]
    BY <2>1, <2>3 DEF OrderInv
  <2> QED
    BY <1>6, <2>2, <2>3
<1>10. \A l \in Lanes : \A i \in 1..Len(lanes'[l]) : LaneOf[lanes'[l][i].observer] = l
  BY <1>1, <1>6 DEF OrderInv
<1>11. \A l \in Lanes : worker'[l] = "handling" =>
        /\ LaneOf[hand'[l].observer] = l /\ hand'[l].n <= arrived'
        /\ \A i \in 1..Len(lanes'[l]) : hand'[l].n < lanes'[l][i].n
  <2> SUFFICES ASSUME NEW l \in Lanes, worker'[l] = "handling"
               PROVE  /\ LaneOf[hand'[l].observer] = l /\ hand'[l].n <= arrived'
                      /\ \A i \in 1..Len(lanes'[l]) : hand'[l].n < lanes'[l][i].n
    OBVIOUS
  <2>1. /\ LaneOf[hand[l].observer] = l /\ hand[l].n \in Nat /\ hand[l].n <= arrived
        /\ \A i \in 1..Len(lanes[l]) : hand[l].n < lanes[l][i].n
    BY <1>2, <1>3 DEF OrderInv
  <2>2. \A i \in 1..Len(lanes'[l]) : hand[l].n < lanes'[l][i].n
    <3> SUFFICES ASSUME NEW i \in 1..Len(lanes'[l]) PROVE hand[l].n < lanes'[l][i].n
      OBVIOUS
    <3>1. CASE lanes'[l][i] = m
      BY <1>1, <1>3, <2>1, <3>1
    <3>2. CASE i \in 1..Len(lanes[l]) /\ lanes'[l][i] = lanes[l][i]
      BY <2>1, <3>2
    <3> QED
      BY <1>6, <3>1, <3>2
  <2> QED
    BY <1>2, <1>3, <2>1, <2>2
<1>12. \A x \in PublicKeys :
        /\ last'[x] <= arrived'
        /\ \A i \in 1..Len(lanes'[LaneOf[x]]) : last'[x] < lanes'[LaneOf[x]][i].n
        /\ worker'[LaneOf[x]] = "handling" => last'[x] < hand'[LaneOf[x]].n
  BY <1>1, <1>2, <1>3, <1>6, QueueAssumption DEF OrderInv
<1> QED
  BY <1>8, <1>9, <1>10, <1>11, <1>12 DEF OrderInv

LEMMA TakeOrder ==
  ASSUME TypeOK, OrderInv, NEW d \in Lanes, Take(d)
  PROVE  OrderInv'
<1>1. /\ lanes \in [Lanes -> Seq(Messages)] /\ lanes[d] # <<>> /\ lanes[d] \in Seq(Messages)
      /\ worker \in [Lanes -> {"range", "handling", "crediting", "exited"}]
      /\ hand \in [Lanes -> Messages \cup {Nothing}]
  BY DEF Take, TypeOK, LanesOK, WorkersOK
<1>2. /\ lanes' = [lanes EXCEPT ![d] = Tail(lanes[d])]
      /\ hand' = [hand EXCEPT ![d] = Head(lanes[d])]
      /\ worker' = [worker EXCEPT ![d] = IF cancelled THEN "exited" ELSE "handling"]
      /\ UNCHANGED <<arrived, last>>
  BY DEF Take
<1>3. /\ Len(lanes[d]) \in Nat \ {0}
      /\ \A i \in 1..Len(lanes'[d]) : i + 1 \in 1..Len(lanes[d]) /\ lanes'[d][i] = lanes[d][i + 1]
      /\ hand'[d] = lanes[d][1]
  BY <1>1, <1>2, Dequeued
<1>4. \A l \in Lanes \ {d} : lanes'[l] = lanes[l] /\ hand'[l] = hand[l] /\ worker'[l] = worker[l]
  BY <1>1, <1>2
<1>5. Len(lanes'[d]) \in Nat
  BY <1>1, <1>2, Dequeued
<1>6. 1 \in 1..Len(lanes[d])
  BY <1>3
<1>7. \A l \in Lanes : \A i \in 1..Len(lanes'[l]) : lanes'[l][i].n <= arrived'
  BY <1>2, <1>3, <1>4 DEF OrderInv
<1>8. \A l \in Lanes : \A i, j \in 1..Len(lanes'[l]) : i < j => lanes'[l][i].n < lanes'[l][j].n
  <2> SUFFICES ASSUME NEW l \in Lanes, NEW i \in 1..Len(lanes'[l]), NEW j \in 1..Len(lanes'[l]),
                      i < j
               PROVE  lanes'[l][i].n < lanes'[l][j].n
    OBVIOUS
  <2>1. CASE l = d
    <3>1. i + 1 \in 1..Len(lanes[d]) /\ j + 1 \in 1..Len(lanes[d]) /\ i + 1 < j + 1
      BY <1>3, <1>5, <2>1
    <3>2. lanes[d][i + 1].n < lanes[d][j + 1].n
      BY <3>1 DEF OrderInv
    <3> QED
      BY <1>3, <2>1, <3>2
  <2>2. CASE l # d
    BY <1>4, <2>2 DEF OrderInv
  <2> QED
    BY <2>1, <2>2
<1>9. \A l \in Lanes : \A i \in 1..Len(lanes'[l]) : LaneOf[lanes'[l][i].observer] = l
  BY <1>3, <1>4 DEF OrderInv
<1>10. \A l \in Lanes : worker'[l] = "handling" =>
        /\ LaneOf[hand'[l].observer] = l /\ hand'[l].n <= arrived'
        /\ \A i \in 1..Len(lanes'[l]) : hand'[l].n < lanes'[l][i].n
  <2> SUFFICES ASSUME NEW l \in Lanes, worker'[l] = "handling"
               PROVE  /\ LaneOf[hand'[l].observer] = l /\ hand'[l].n <= arrived'
                      /\ \A i \in 1..Len(lanes'[l]) : hand'[l].n < lanes'[l][i].n
    OBVIOUS
  <2>1. CASE l = d
    <3>1. \A i \in 1..Len(lanes'[d]) : 1 < i + 1
      BY <1>5
    <3> QED
      BY <1>2, <1>3, <1>6, <2>1, <3>1 DEF OrderInv
  <2>2. CASE l # d
    BY <1>2, <1>4, <2>2 DEF OrderInv
  <2> QED
    BY <2>1, <2>2
<1>11. ASSUME NEW x \in PublicKeys
       PROVE  /\ last'[x] <= arrived'
              /\ \A i \in 1..Len(lanes'[LaneOf[x]]) : last'[x] < lanes'[LaneOf[x]][i].n
              /\ worker'[LaneOf[x]] = "handling" => last'[x] < hand'[LaneOf[x]].n
  <2>1. LaneOf[x] \in Lanes
    BY QueueAssumption
  <2>2. CASE LaneOf[x] = d
    <3>1. /\ last[x] <= arrived
          /\ \A i \in 1..Len(lanes[d]) : last[x] < lanes[d][i].n
      BY <2>2 DEF OrderInv
    <3>2. \A i \in 1..Len(lanes'[d]) : last[x] < lanes'[d][i].n
      BY <1>3, <3>1
    <3>3. last[x] < hand'[d].n
      BY <1>3, <1>6, <3>1
    <3> QED
      BY <1>2, <2>2, <3>1, <3>2, <3>3
  <2>3. CASE LaneOf[x] # d
    BY <1>2, <1>4, <2>1, <2>3 DEF OrderInv
  <2> QED
    BY <2>2, <2>3
<1> QED
  BY <1>7, <1>8, <1>9, <1>10, <1>11 DEF OrderInv

LEMMA HandleOrder ==
  ASSUME TypeOK, OrderInv, NEW d \in Lanes, Handle(d)
  PROVE  OrderInv'
<1> DEFINE o == hand[d].observer
<1>1. /\ hand[d] \in Messages /\ o \in PublicKeys /\ worker[d] = "handling"
      /\ last \in [PublicKeys -> Nat]
      /\ worker \in [Lanes -> {"range", "handling", "crediting", "exited"}]
  BY DEF Handle, TypeOK, WorkersOK, HistoryOK, Messages
<1>2. /\ last' = [last EXCEPT ![o] = hand[d].n]
      /\ worker' = [worker EXCEPT ![d] = "crediting"]
      /\ UNCHANGED <<lanes, hand, arrived>>
  BY DEF Handle, Handled
<1>3. LaneOf[o] = d /\ hand[d].n <= arrived /\ \A i \in 1..Len(lanes[d]) : hand[d].n < lanes[d][i].n
  BY <1>1 DEF OrderInv
<1> HIDE DEF o
<1>4. \A l \in Lanes : worker'[l] = "handling" => worker[l] = "handling"
  BY <1>1, <1>2
<1>5. \A l \in Lanes : worker'[l] = "handling" =>
        /\ LaneOf[hand'[l].observer] = l /\ hand'[l].n <= arrived'
        /\ \A i \in 1..Len(lanes'[l]) : hand'[l].n < lanes'[l][i].n
  BY <1>2, <1>4 DEF OrderInv
<1>6. ASSUME NEW x \in PublicKeys
      PROVE  /\ last'[x] <= arrived'
             /\ \A i \in 1..Len(lanes'[LaneOf[x]]) : last'[x] < lanes'[LaneOf[x]][i].n
             /\ worker'[LaneOf[x]] = "handling" => last'[x] < hand'[LaneOf[x]].n
  <2>1. CASE x = o
    BY <1>1, <1>2, <1>3, <2>1
  <2>2. CASE x # o
    <3>1. last'[x] = last[x]
      BY <1>1, <1>2, <2>2
    <3>2. LaneOf[x] \in Lanes
      BY QueueAssumption
    <3> QED
      BY <1>2, <1>4, <3>1, <3>2 DEF OrderInv
  <2> QED
    BY <2>1, <2>2
<1> QED
  BY <1>2, <1>5, <1>6 DEF OrderInv

LEMMA RestOrder ==
  ASSUME TypeOK, OrderInv, UNCHANGED <<lanes, last>>, arrived' \in Nat, arrived <= arrived',
         \A l \in Lanes : worker'[l] = "handling" => worker[l] = "handling" /\ hand'[l] = hand[l]
  PROVE  OrderInv'
<1>1. /\ arrived \in Nat /\ last \in [PublicKeys -> Nat] /\ lanes \in [Lanes -> Seq(Messages)]
      /\ \A l \in Lanes : worker[l] = "handling" => hand[l].n \in Nat
  BY DEF TypeOK, HistoryOK, LanesOK, WorkersOK, Messages
<1>2. \A l \in Lanes : \A i \in 1..Len(lanes[l]) : lanes[l][i].n \in Nat
  BY WaitingTyped DEF TypeOK
<1>3. \A l \in Lanes : \A i \in 1..Len(lanes'[l]) : lanes'[l][i].n <= arrived'
  BY <1>1, <1>2 DEF OrderInv
<1>4. \A l \in Lanes : worker'[l] = "handling" =>
        /\ LaneOf[hand'[l].observer] = l /\ hand'[l].n <= arrived'
        /\ \A i \in 1..Len(lanes'[l]) : hand'[l].n < lanes'[l][i].n
  BY <1>1 DEF OrderInv
<1>5. \A x \in PublicKeys :
        /\ last'[x] <= arrived'
        /\ \A i \in 1..Len(lanes'[LaneOf[x]]) : last'[x] < lanes'[LaneOf[x]][i].n
        /\ worker'[LaneOf[x]] = "handling" => last'[x] < hand'[LaneOf[x]].n
  BY <1>1, QueueAssumption DEF OrderInv
<1> QED
  BY <1>3, <1>4, <1>5 DEF OrderInv

LEMMA NextOrder == TypeOK /\ OrderInv /\ [QueueNext]_queueVars => OrderInv'
<1> SUFFICES ASSUME TypeOK, OrderInv, [QueueNext]_queueVars PROVE OrderInv'
  OBVIOUS
<1>1. arrived \in Nat /\ worker \in [Lanes -> {"range", "handling", "crediting", "exited"}]
  BY DEF TypeOK, HistoryOK, WorkersOK
<1>2. CASE Enqueue
  <2>1. CASE Ignore
    BY <1>1, <2>1, RestOrder DEF Ignore, Arrives
  <2>2. ASSUME NEW o \in PublicKeys, NEW size \in Sizes, Drop(o, size) PROVE OrderInv'
    BY <1>1, <2>2, RestOrder DEF Drop, Arrives
  <2> QED
    BY <1>2, <2>1, <2>2, AcceptOrder DEF Enqueue
<1>3. ASSUME NEW l \in Lanes, Lane(l) PROVE OrderInv'
  <2>1. CASE Credit(l)
    <3>1. \A k \in Lanes : worker'[k] = "handling" => worker[k] = "handling" /\ hand'[k] = hand[k]
      BY <1>1, <2>1 DEF Credit
    <3> QED
      BY <1>1, <2>1, <3>1, RestOrder DEF Credit
  <2>2. CASE Exit(l)
    <3>1. \A k \in Lanes : worker'[k] = "handling" => worker[k] = "handling" /\ hand'[k] = hand[k]
      BY <1>1, <2>2 DEF Exit
    <3> QED
      BY <1>1, <2>2, <3>1, RestOrder DEF Exit
  <2> QED
    BY <1>3, <2>1, <2>2, TakeOrder, HandleOrder DEF Lane
<1>4. CASE ReportDrops \/ Close \/ Shutdown \/ UNCHANGED queueVars
  <2>1. UNCHANGED <<lanes, last, worker, hand, arrived>>
    BY <1>4 DEF ReportDrops, Close, Shutdown, Drained, DrainTimeout, Stopped, LastReport, TakeDropped, queueVars
  <2> QED
    BY <1>1, <2>1, RestOrder
<1> QED
  BY <1>2, <1>3, <1>4 DEF QueueNext

\* The part of the step relation the order property looks at.
LEMMA StepInOrder ==
  ASSUME TypeOK, OrderInv, [QueueNext]_queueVars, NEW o \in PublicKeys, last'[o] # last[o]
  PROVE  last'[o] > last[o]
<1>1. last \in [PublicKeys -> Nat]
  BY DEF TypeOK, HistoryOK
<1>2. PICK l \in Lanes : Handle(l)
  BY DEF QueueNext, Enqueue, Ignore, Accept, Drop, Lane, Take, Credit, Exit, ReportDrops, Close, Shutdown,
         Drained, DrainTimeout, Stopped, LastReport, TakeDropped, queueVars
<1>3. /\ last' = [last EXCEPT ![hand[l].observer] = hand[l].n]
      /\ worker[l] = "handling" /\ hand[l].n \in Nat
  BY <1>2 DEF Handle, Handled, TypeOK, WorkersOK, Messages
<1>4. hand[l].observer = o /\ last'[o] = hand[l].n
  BY <1>1, <1>3
<1> QED
  BY <1>1, <1>3, <1>4 DEF OrderInv

LEMMA OrderInvariant == QueueSpec => [](TypeOK /\ OrderInv)
<1>1. QueueInit => OrderInv
  BY QueueAssumption DEF QueueInit, OrderInv
<1> QED
  BY <1>1, InitTypeOK, NextTypeOK, NextOrder, PTL DEF QueueSpec

\* "Keep status and packets from each observer in arrival order": whatever
\* the hash, the capacities and the interleaving of the lanes.
THEOREM AlwaysInArrivalOrder == QueueSpec => InArrivalOrder
<1>1. TypeOK /\ OrderInv /\ [QueueNext]_queueVars =>
        [\A o \in PublicKeys : last'[o] # last[o] => last'[o] > last[o]]_queueVars
  BY StepInOrder
<1> QED
  BY <1>1, OrderInvariant, PTL DEF QueueSpec, InArrivalOrder

-----------------------------------------------------------------------------
(* Shutdown.  Until the context is cancelled nothing accepted disappears:  *)
(* it waits, is in hand or was handled; a lane's goroutine ends only on a  *)
(* closed, empty lane.                                                     *)

Waits(n) == \E l \in Lanes : \E i \in 1..Len(lanes[l]) : lanes[l][i].n = n
InHand(n) == \E l \in Lanes : worker[l] = "handling" /\ hand[l].n = n

ShutdownInv ==
  /\ cancelled <=> start \in {"waiting", "closed", "returned"}
  /\ closed <=> start # "running"
  /\ start = "waiting" => timedOut
  /\ ~cancelled => \A n \in accepted : n \in handled \/ Waits(n) \/ InHand(n)
  /\ ~cancelled => \A l \in Lanes : worker[l] = "exited" => closed /\ lanes[l] = <<>>
  /\ CleanCloseLosesNothing

LEMMA AcceptShutdown ==
  ASSUME TypeOK, ShutdownInv, NEW o \in PublicKeys, NEW size \in Sizes, Accept(o, size)
  PROVE  ShutdownInv'
<1> DEFINE d == LaneOf[o]
           m == Message(o, size)
<1>0. m \in Messages /\ m.n = arrived + 1
  BY QueueAssumption DEF Message, Messages, TypeOK, HistoryOK
<1>1. d \in Lanes /\ lanes \in [Lanes -> Seq(Messages)]
  BY QueueAssumption DEF TypeOK, LanesOK
<1>2. /\ ~closed /\ start = "running" /\ ~cancelled
      /\ lanes' = [lanes EXCEPT ![d] = Append(lanes[d], m)]
      /\ accepted' = accepted \cup {arrived + 1}
      /\ UNCHANGED <<closed, cancelled, worker, hand, start, timedOut, handled>>
  BY DEF Accept, Arrives, ShutdownInv
<1> HIDE DEF d, m
<1>3. /\ Len(lanes[d]) \in Nat /\ Len(lanes'[d]) = Len(lanes[d]) + 1
      /\ \A i \in 1..Len(lanes[d]) : lanes'[d][i] = lanes[d][i]
      /\ lanes'[d][Len(lanes[d]) + 1] = m
  BY <1>0, <1>1, <1>2, Appended
<1>4. \A l \in Lanes \ {d} : lanes'[l] = lanes[l]
  BY <1>1, <1>2
<1>5. ASSUME NEW n, Waits(n) PROVE Waits(n)'
  <2>1. PICK l \in Lanes : \E i \in 1..Len(lanes[l]) : lanes[l][i].n = n
    BY <1>5 DEF Waits
  <2>2. PICK i \in 1..Len(lanes[l]) : lanes[l][i].n = n
    BY <2>1
  <2>3. i \in 1..Len(lanes'[l]) /\ lanes'[l][i] = lanes[l][i]
    BY <1>3, <1>4
  <2> QED
    BY <2>2, <2>3 DEF Waits
<1>6. ASSUME NEW n, n = arrived + 1 PROVE Waits(n)'
  <2>1. Len(lanes[d]) + 1 \in 1..Len(lanes'[d])
    BY <1>3
  <2> QED
    BY <1>0, <1>1, <1>3, <1>6, <2>1 DEF Waits
<1>7. \A n : InHand(n)' <=> InHand(n)
  BY <1>2 DEF InHand
<1>8. ASSUME NEW n \in accepted' PROVE n \in handled' \/ Waits(n)' \/ InHand(n)'
  <2>1. CASE n = arrived + 1
    BY <1>6, <2>1
  <2>2. CASE n \in accepted
    BY <1>2, <1>5, <1>7, <2>2 DEF ShutdownInv
  <2> QED
    BY <1>2, <2>1, <2>2
<1>9. \A l \in Lanes : worker[l] # "exited"
  BY <1>2 DEF ShutdownInv
<1> QED
  BY <1>2, <1>8, <1>9 DEF ShutdownInv, CleanCloseLosesNothing

LEMMA TakeShutdown ==
  ASSUME TypeOK, ShutdownInv, NEW d \in Lanes, Take(d)
  PROVE  ShutdownInv'
<1>1. /\ lanes \in [Lanes -> Seq(Messages)] /\ lanes[d] # <<>> /\ lanes[d] \in Seq(Messages)
      /\ worker \in [Lanes -> {"range", "handling", "crediting", "exited"}]
      /\ hand \in [Lanes -> Messages \cup {Nothing}]
  BY DEF Take, TypeOK, LanesOK, WorkersOK
<1>2. /\ worker[d] = "range"
      /\ lanes' = [lanes EXCEPT ![d] = Tail(lanes[d])]
      /\ hand' = [hand EXCEPT ![d] = Head(lanes[d])]
      /\ worker' = [worker EXCEPT ![d] = IF cancelled THEN "exited" ELSE "handling"]
      /\ UNCHANGED <<closed, cancelled, start, timedOut, accepted, handled>>
  BY DEF Take
<1>3. CASE cancelled
  BY <1>2, <1>3 DEF ShutdownInv, CleanCloseLosesNothing
<1>4. CASE ~cancelled
  <2>1. \A l \in Lanes \ {d} : lanes'[l] = lanes[l] /\ hand'[l] = hand[l] /\ worker'[l] = worker[l]
    BY <1>1, <1>2
  <2>2. worker'[d] = "handling" /\ hand'[d] = lanes[d][1]
    BY <1>1, <1>2, <1>4, Dequeued
  <2>3. \A i \in 1..Len(lanes[d]) :
          i # 1 => i - 1 \in 1..Len(lanes'[d]) /\ lanes'[d][i - 1] = lanes[d][i]
    <3> SUFFICES ASSUME NEW i \in 1..Len(lanes[d]), i # 1
                 PROVE  i - 1 \in 1..Len(lanes'[d]) /\ lanes'[d][i - 1] = lanes[d][i]
      OBVIOUS
    <3>1. lanes'[d] = Tail(lanes[d])
      BY <1>1, <1>2
    <3>2. i - 1 \in 1..Len(Tail(lanes[d])) /\ (i - 1) + 1 = i
      BY <1>1, Dequeued
    <3>3. Tail(lanes[d])[i - 1] = lanes[d][(i - 1) + 1]
      BY <1>1, <3>2, Dequeued
    <3> QED
      BY <3>1, <3>2, <3>3
  <2>4. ASSUME NEW n, Waits(n) PROVE Waits(n)' \/ InHand(n)'
    <3>1. PICK l \in Lanes : \E i \in 1..Len(lanes[l]) : lanes[l][i].n = n
      BY <2>4 DEF Waits
    <3>2. PICK i \in 1..Len(lanes[l]) : lanes[l][i].n = n
      BY <3>1
    <3>3. CASE l # d
      BY <2>1, <3>2, <3>3 DEF Waits
    <3>4. CASE l = d /\ i = 1
      BY <2>2, <3>2, <3>4 DEF InHand
    <3>5. CASE l = d /\ i # 1
      BY <2>3, <3>2, <3>5 DEF Waits
    <3> QED
      BY <3>3, <3>4, <3>5
  <2>5. ASSUME NEW n, InHand(n) PROVE InHand(n)'
    BY <1>2, <2>1, <2>5 DEF InHand
  <2>6. \A n \in accepted' : n \in handled' \/ Waits(n)' \/ InHand(n)'
    BY <1>2, <1>4, <2>4, <2>5 DEF ShutdownInv
  <2>7. \A l \in Lanes : worker'[l] = "exited" => closed' /\ lanes'[l] = <<>>
    BY <1>2, <1>4, <2>1, <2>2 DEF ShutdownInv
  <2> QED
    BY <1>2, <2>6, <2>7 DEF ShutdownInv, CleanCloseLosesNothing
<1> QED
  BY <1>3, <1>4

LEMMA HandleShutdown ==
  ASSUME TypeOK, ShutdownInv, NEW d \in Lanes, Handle(d)
  PROVE  ShutdownInv'
<1>1. worker \in [Lanes -> {"range", "handling", "crediting", "exited"}]
  BY DEF TypeOK, WorkersOK
<1>2. /\ handled' = handled \cup {hand[d].n}
      /\ worker' = [worker EXCEPT ![d] = "crediting"]
      /\ UNCHANGED <<lanes, hand, closed, cancelled, start, timedOut, accepted>>
  BY DEF Handle, Handled
<1>3. \A n : Waits(n)' <=> Waits(n)
  BY <1>2 DEF Waits
<1>4. \A n : InHand(n) => InHand(n)' \/ n \in handled'
  BY <1>1, <1>2 DEF InHand
<1>5. \A l \in Lanes : worker'[l] = "exited" => worker[l] = "exited"
  BY <1>1, <1>2
<1> QED
  BY <1>2, <1>3, <1>4, <1>5 DEF ShutdownInv, CleanCloseLosesNothing

LEMMA IdleLaneShutdown ==
  ASSUME TypeOK, ShutdownInv, NEW d \in Lanes, Credit(d) \/ Exit(d)
  PROVE  ShutdownInv'
<1>1. /\ worker \in [Lanes -> {"range", "handling", "crediting", "exited"}]
      /\ hand \in [Lanes -> Messages \cup {Nothing}]
  BY DEF TypeOK, WorkersOK
<1>2. /\ UNCHANGED <<lanes, closed, cancelled, start, timedOut, accepted, handled>>
      /\ \A l \in Lanes : worker[l] = "handling" => worker'[l] = "handling" /\ hand'[l] = hand[l]
      /\ \A l \in Lanes : worker'[l] = "exited" =>
           worker[l] = "exited" \/ (closed /\ lanes[l] = <<>>)
  <2>1. CASE Credit(d)
    <3>1. /\ worker[d] = "crediting" /\ worker' = [worker EXCEPT ![d] = "range"]
          /\ \A l \in Lanes \ {d} : hand'[l] = hand[l]
      BY <1>1, <2>1 DEF Credit
    <3> QED
      BY <1>1, <2>1, <3>1 DEF Credit
  <2>2. CASE Exit(d)
    <3>1. /\ worker[d] = "range" /\ worker' = [worker EXCEPT ![d] = "exited"]
          /\ lanes[d] = <<>> /\ closed
      BY <2>2 DEF Exit
    <3> QED
      BY <1>1, <2>2, <3>1 DEF Exit
  <2> QED
    BY <2>1, <2>2
<1>3. \A n : Waits(n)' <=> Waits(n)
  BY <1>2 DEF Waits
<1>4. \A n : InHand(n) => InHand(n)'
  BY <1>2 DEF InHand
<1> QED
  BY <1>2, <1>3, <1>4 DEF ShutdownInv, CleanCloseLosesNothing

LEMMA StartShutdown ==
  ASSUME TypeOK, ShutdownInv, ReportDrops \/ Close \/ Shutdown \/ Ignore \/ UNCHANGED queueVars
  PROVE  ShutdownInv'
<1>1. UNCHANGED <<lanes, worker, hand, accepted, handled>>
  BY DEF ReportDrops, Close, Shutdown, Drained, DrainTimeout, Stopped, LastReport, TakeDropped,
         Ignore, queueVars
<1>2. \A n : (Waits(n)' <=> Waits(n)) /\ (InHand(n)' <=> InHand(n))
  BY <1>1 DEF Waits, InHand
<1>3. CASE ReportDrops \/ Ignore \/ UNCHANGED queueVars
  <2>1. UNCHANGED <<closed, cancelled, start, timedOut>>
    BY <1>3 DEF ReportDrops, TakeDropped, Ignore, queueVars
  <2> QED
    BY <1>1, <1>2, <2>1 DEF ShutdownInv, CleanCloseLosesNothing
<1>4. CASE Close
  <2>1. start = "running" /\ start' = "draining" /\ closed' /\ UNCHANGED <<cancelled, timedOut>>
    BY <1>4 DEF Close
  <2> QED
    BY <1>1, <1>2, <2>1 DEF ShutdownInv, CleanCloseLosesNothing
<1>5. CASE Drained
  <2>1. /\ start = "draining" /\ start' = "closed" /\ cancelled' /\ ~cancelled
        /\ UNCHANGED <<closed, timedOut>> /\ \A l \in Lanes : worker[l] = "exited"
    BY <1>5 DEF Drained, AllExited, ShutdownInv
  <2>2. \A n : ~Waits(n) /\ ~InHand(n)
    BY <2>1 DEF Waits, InHand, ShutdownInv
  <2> QED
    BY <1>1, <2>1, <2>2 DEF ShutdownInv, CleanCloseLosesNothing
<1>6. CASE DrainTimeout \/ Stopped \/ LastReport
  <2>1. /\ cancelled' /\ UNCHANGED closed /\ start' \in {"waiting", "closed", "returned"}
        /\ start # "running"
        /\ \/ timedOut'
           \/ start = "closed" /\ start' = "returned" /\ UNCHANGED timedOut
    BY <1>6 DEF DrainTimeout, Stopped, LastReport, TakeDropped, ShutdownInv
  <2> QED
    BY <1>1, <2>1 DEF ShutdownInv, CleanCloseLosesNothing
<1> QED
  BY <1>3, <1>4, <1>5, <1>6 DEF Shutdown

LEMMA NextShutdown == TypeOK /\ ShutdownInv /\ [QueueNext]_queueVars => ShutdownInv'
<1> SUFFICES ASSUME TypeOK, ShutdownInv, [QueueNext]_queueVars PROVE ShutdownInv'
  OBVIOUS
<1>1. ASSUME NEW o \in PublicKeys, NEW size \in Sizes, Drop(o, size) PROVE ShutdownInv'
  <2>1. UNCHANGED <<lanes, worker, hand, accepted, handled, closed, cancelled, start, timedOut>>
    BY <1>1 DEF Drop
  <2>2. \A n : (Waits(n)' <=> Waits(n)) /\ (InHand(n)' <=> InHand(n))
    BY <2>1 DEF Waits, InHand
  <2> QED
    BY <2>1, <2>2 DEF ShutdownInv, CleanCloseLosesNothing
<1> QED
  BY <1>1, AcceptShutdown, TakeShutdown, HandleShutdown, IdleLaneShutdown, StartShutdown
     DEF QueueNext, Enqueue, Lane

\* A shutdown that logs no timeout has handled everything the queue accepted,
\* however many messages waited when it began: messageQueue.close.
THEOREM CleanCloseIsComplete == QueueSpec => []CleanCloseLosesNothing
<1>1. QueueInit => ShutdownInv
  BY DEF QueueInit, ShutdownInv, CleanCloseLosesNothing
<1> QED
  BY <1>1, InitTypeOK, NextTypeOK, NextShutdown, PTL DEF QueueSpec, ShutdownInv

-----------------------------------------------------------------------------
(* Reports.                                                                *)

ReportInv ==
  /\ IsFiniteSet(refused) /\ \A n \in refused : n <= arrived
  /\ dropped + reported = Cardinality(refused)
  /\ start = "returned" => dropped = 0
  /\ closed <=> start # "running"

LEMMA NextReport == TypeOK /\ ReportInv /\ [QueueNext]_queueVars => ReportInv'
<1> SUFFICES ASSUME TypeOK, ReportInv, [QueueNext]_queueVars PROVE ReportInv'
  OBVIOUS
<1>1. /\ arrived \in Nat /\ refused \subseteq Nat /\ dropped \in Nat /\ reported \in Nat
      /\ Cardinality(refused) \in Nat
  BY FS_CardinalityType DEF TypeOK, HistoryOK, CountsOK, ReportInv
<1>2. ASSUME NEW o \in PublicKeys, NEW size \in Sizes, Drop(o, size) PROVE ReportInv'
  <2>1. /\ arrived' = arrived + 1 /\ refused' = refused \cup {arrived + 1}
        /\ dropped' = dropped + 1 /\ ~closed /\ UNCHANGED <<reported, start, closed>>
    BY <1>2 DEF Drop, Arrives
  <2>2. arrived + 1 \notin refused
    BY <1>1 DEF ReportInv
  <2>3. IsFiniteSet(refused') /\ Cardinality(refused') = Cardinality(refused) + 1
    BY <2>1, <2>2, FS_AddElement DEF ReportInv
  <2>4. \A n \in refused' : n <= arrived'
    BY <1>1, <2>1 DEF ReportInv
  <2>5. dropped' + reported' = Cardinality(refused')
    BY <1>1, <2>1, <2>3 DEF ReportInv
  <2> QED
    BY <2>1, <2>3, <2>4, <2>5 DEF ReportInv
<1>3. ASSUME UNCHANGED <<refused, dropped, reported>>, arrived' \in {arrived, arrived + 1},
             start' = "returned" => start = "returned", closed' <=> start' # "running"
      PROVE  ReportInv'
  <2>1. \A n \in refused' : n <= arrived'
    BY <1>1, <1>3 DEF ReportInv
  <2> QED
    BY <1>3, <2>1 DEF ReportInv
<1>4. CASE Ignore
  BY <1>3, <1>4 DEF Ignore, Arrives, ReportInv
<1>5. ASSUME NEW o \in PublicKeys, NEW size \in Sizes, Accept(o, size) PROVE ReportInv'
  BY <1>3, <1>5 DEF Accept, Arrives, ReportInv
<1>6. ASSUME NEW l \in Lanes, Lane(l) PROVE ReportInv'
  BY <1>3, <1>6 DEF Lane, Take, Handle, Credit, Exit, ReportInv
<1>7. CASE ReportDrops \/ LastReport
  <2>1. /\ dropped' = 0 /\ reported' = reported + dropped /\ UNCHANGED <<refused, arrived, closed>>
        /\ start' # "running" <=> start # "running"
    BY <1>7 DEF ReportDrops, LastReport, TakeDropped
  <2> QED
    BY <1>1, <2>1 DEF ReportInv
<1>8. CASE Close \/ Drained \/ DrainTimeout \/ Stopped \/ UNCHANGED queueVars
  BY <1>3, <1>8 DEF Close, Drained, DrainTimeout, Stopped, queueVars, ReportInv
<1> QED
  BY <1>2, <1>4, <1>5, <1>6, <1>7, <1>8 DEF QueueNext, Enqueue, Shutdown

\* The drops the log reports are exactly the messages refused for lack of
\* room, the last ones included: takeDropped, and Start's final report.
THEOREM DropsAlwaysReported == QueueSpec => []DropsReported
<1>1. QueueInit => ReportInv
  BY FS_EmptySet DEF QueueInit, ReportInv
<1>2. TypeOK /\ ReportInv => DropsReported
  BY DEF TypeOK, CountsOK, ReportInv, DropsReported
<1> QED
  BY <1>1, <1>2, InitTypeOK, NextTypeOK, NextReport, PTL DEF QueueSpec

-----------------------------------------------------------------------------
(* The byte budget.  No message is in flight twice.                        *)

Charged == UNION {BytesOf(m) : m \in InFlight}
Distinct ==
  /\ \A l \in Lanes : \A i \in 1..Len(lanes[l]) : lanes[l][i].n <= arrived
  /\ \A l \in Lanes : Holding(l) => hand[l].n <= arrived
  /\ \A k, l \in Lanes : \A i \in 1..Len(lanes[k]), j \in 1..Len(lanes[l]) :
       lanes[k][i] = lanes[l][j] => k = l /\ i = j
  /\ \A k, l \in Lanes : Holding(k) => \A i \in 1..Len(lanes[l]) : lanes[l][i] # hand[k]
  /\ \A k, l \in Lanes : Holding(k) /\ Holding(l) /\ hand[k] = hand[l] => k = l
ByteInv == Distinct /\ (~cancelled => IsFiniteSet(Charged) /\ bytes = Cardinality(Charged))

LEMMA FlightMembers ==
  ASSUME TypeOK
  PROVE  /\ \A m : m \in InFlight <=>
              \/ \E l \in Lanes : \E i \in 1..Len(lanes[l]) : lanes[l][i] = m
              \/ \E l \in Lanes : Holding(l) /\ hand[l] = m
         /\ InFlight \subseteq Messages
<1>1. \A l \in Lanes : DOMAIN lanes[l] = 1..Len(lanes[l])
  BY DEF TypeOK, LanesOK
<1>2. \A m : m \in InFlight <=>
              \/ \E l \in Lanes : \E i \in 1..Len(lanes[l]) : lanes[l][i] = m
              \/ \E l \in Lanes : Holding(l) /\ hand[l] = m
  <2>1. \A l \in Lanes : \A m : m \in Waiting(l) <=> \E i \in 1..Len(lanes[l]) : lanes[l][i] = m
    BY <1>1 DEF Waiting
  <2>2. \A m : m \in InFlight <=>
              \/ \E l \in Lanes : m \in Waiting(l)
              \/ \E l \in Lanes : Holding(l) /\ hand[l] = m
    BY DEF InFlight
  <2> QED
    BY <2>1, <2>2, Zenon
<1>3. \A l \in Lanes : Holding(l) => hand[l] \in Messages
  BY DEF TypeOK, WorkersOK, Holding
<1> QED
  BY <1>2, <1>3, WaitingTyped DEF TypeOK

LEMMA MessageBytes ==
  ASSUME NEW m \in Messages
  PROVE  IsFiniteSet(BytesOf(m)) /\ Cardinality(BytesOf(m)) = m.size
<1>1. m.size \in Nat \ {0}
  BY QueueAssumption DEF Messages
<1>2. IsFiniteSet(1..m.size) /\ Cardinality(1..m.size) = m.size
  BY <1>1, FS_Interval
<1>3. IsFiniteSet({m}) /\ Cardinality({m}) = 1
  BY FS_Singleton
<1>4. IsFiniteSet(BytesOf(m)) /\ Cardinality(BytesOf(m)) = Cardinality({m}) * Cardinality(1..m.size)
  BY <1>2, <1>3, FS_Product DEF BytesOf
<1> QED
  BY <1>1, <1>2, <1>3, <1>4

LEMMA ChargedMembers ==
  \A x : x \in Charged <=> \E m \in InFlight : x \in BytesOf(m)
BY DEF Charged

\* One byte belongs to one message.
LEMMA BytesApart ==
  ASSUME NEW m, NEW k, m # k
  PROVE  BytesOf(m) \cap BytesOf(k) = {}
BY DEF BytesOf

LEMMA SameFlight ==
  ASSUME TypeOK, ByteInv, cancelled' = cancelled, bytes' = bytes, InFlight' = InFlight, Distinct'
  PROVE  ByteInv'
<1>1. Charged' = Charged
  BY DEF Charged
<1> QED
  BY <1>1 DEF ByteInv

LEMMA AcceptBytes ==
  ASSUME TypeOK, TypeOK', ByteInv, NEW o \in PublicKeys, NEW size \in Sizes, Accept(o, size)
  PROVE  ByteInv'
<1> DEFINE d == LaneOf[o]
           m == Message(o, size)
<1>0. m \in Messages /\ m.n = arrived + 1 /\ m.size = size
  BY QueueAssumption DEF Message, Messages, TypeOK, HistoryOK
<1>1. d \in Lanes /\ lanes \in [Lanes -> Seq(Messages)]
  BY QueueAssumption DEF TypeOK, LanesOK
<1>2. /\ lanes' = [lanes EXCEPT ![d] = Append(lanes[d], m)]
      /\ bytes' = bytes + size /\ arrived' = arrived + 1 /\ arrived \in Nat
      /\ UNCHANGED <<cancelled, worker, hand>>
  BY DEF Accept, Arrives, TypeOK, HistoryOK
<1> HIDE DEF d, m
<1>3. /\ Len(lanes[d]) \in Nat /\ Len(lanes'[d]) = Len(lanes[d]) + 1
      /\ \A i \in 1..Len(lanes[d]) : lanes'[d][i] = lanes[d][i]
      /\ lanes'[d][Len(lanes[d]) + 1] = m
  BY <1>0, <1>1, <1>2, Appended
<1>4. \A l \in Lanes \ {d} : lanes'[l] = lanes[l]
  BY <1>1, <1>2
<1>5. ASSUME NEW l \in Lanes, NEW i \in 1..Len(lanes'[l])
      PROVE  \/ lanes'[l][i] = m /\ l = d /\ i = Len(lanes[d]) + 1
             \/ i \in 1..Len(lanes[l]) /\ lanes'[l][i] = lanes[l][i]
  <2>1. CASE l = d
    <3>1. i = Len(lanes[d]) + 1 \/ i \in 1..Len(lanes[d])
      BY <1>3, <2>1
    <3> QED
      BY <1>3, <2>1, <3>1
  <2>2. CASE l # d
    BY <1>4, <2>2
  <2> QED
    BY <2>1, <2>2
<1>6. \A l \in Lanes : \A i \in 1..Len(lanes[l]) : i \in 1..Len(lanes'[l]) /\ lanes'[l][i] = lanes[l][i]
  BY <1>3, <1>4
<1>7. \A l \in Lanes : Holding(l)' <=> Holding(l)
  BY <1>2 DEF Holding
<1>8. /\ \A l \in Lanes : \A i \in 1..Len(lanes[l]) : lanes[l][i] # m /\ lanes[l][i].n \in Nat
      /\ \A l \in Lanes : Holding(l) => hand[l] # m /\ hand[l].n \in Nat
  <2>1. \A l \in Lanes : Holding(l) => hand[l].n \in Nat
    BY DEF TypeOK, WorkersOK, Messages, Holding
  <2> QED
    BY <1>0, <1>2, <2>1, WaitingTyped DEF ByteInv, Distinct, TypeOK
<1>9. Distinct'
  <2>1. \A l \in Lanes : \A i \in 1..Len(lanes'[l]) : lanes'[l][i].n <= arrived'
    BY <1>0, <1>2, <1>5, <1>8 DEF ByteInv, Distinct
  <2>2. \A l \in Lanes : Holding(l)' => hand'[l].n <= arrived'
    BY <1>2, <1>7, <1>8 DEF ByteInv, Distinct
  <2>3. ASSUME NEW k \in Lanes, NEW l \in Lanes, NEW i \in 1..Len(lanes'[k]), NEW j \in 1..Len(lanes'[l]),
               lanes'[k][i] = lanes'[l][j]
        PROVE  k = l /\ i = j
    <3>1. CASE lanes'[k][i] = m
      <4>1. k = d /\ i = Len(lanes[d]) + 1
        BY <1>5, <1>8, <3>1
      <4>2. l = d /\ j = Len(lanes[d]) + 1
        BY <1>5, <1>8, <2>3, <3>1
      <4> QED
        BY <4>1, <4>2
    <3>2. CASE lanes'[k][i] # m
      <4>1. i \in 1..Len(lanes[k]) /\ lanes'[k][i] = lanes[k][i]
        BY <1>5, <3>2
      <4>2. j \in 1..Len(lanes[l]) /\ lanes'[l][j] = lanes[l][j]
        BY <1>5, <2>3, <3>2
      <4>3. lanes[k][i] = lanes[l][j]
        BY <2>3, <4>1, <4>2
      <4> QED
        BY <4>1, <4>2, <4>3 DEF ByteInv, Distinct
    <3> QED
      BY <3>1, <3>2
  <2>4. ASSUME NEW k \in Lanes, NEW l \in Lanes, Holding(k)', NEW i \in 1..Len(lanes'[l])
        PROVE  lanes'[l][i] # hand'[k]
    BY <1>2, <1>5, <1>7, <1>8, <2>4 DEF ByteInv, Distinct
  <2>5. \A k, l \in Lanes : Holding(k)' /\ Holding(l)' /\ hand'[k] = hand'[l] => k = l
    BY <1>2, <1>7 DEF ByteInv, Distinct
  <2> QED
    BY <2>1, <2>2, <2>3, <2>4, <2>5 DEF Distinct
<1>10. InFlight' = InFlight \cup {m} /\ m \notin InFlight
  <2>1. \A x : x \in InFlight' <=>
              \/ \E l \in Lanes : \E i \in 1..Len(lanes'[l]) : lanes'[l][i] = x
              \/ \E l \in Lanes : Holding(l)' /\ hand'[l] = x
    <3>1. \A l \in Lanes : DOMAIN lanes'[l] = 1..Len(lanes'[l])
      BY DEF TypeOK, LanesOK
    <3>2. \A l \in Lanes : \A x : x \in Waiting(l)' <=> \E i \in 1..Len(lanes'[l]) : lanes'[l][i] = x
      BY <3>1 DEF Waiting
    <3>3. \A x : x \in InFlight' <=>
                \/ \E l \in Lanes : x \in Waiting(l)'
                \/ \E l \in Lanes : Holding(l)' /\ hand'[l] = x
      BY DEF InFlight
    <3> QED
      BY <3>2, <3>3, Zenon
  <2>2. m \notin InFlight
    BY <1>8, FlightMembers
  <2>3. m \in InFlight'
    <3>1. Len(lanes[d]) + 1 \in 1..Len(lanes'[d])
      BY <1>3
    <3> QED
      BY <1>1, <1>3, <2>1, <3>1
  <2>4. ASSUME NEW x \in InFlight PROVE x \in InFlight'
    BY <1>2, <1>6, <1>7, <2>1, <2>4, FlightMembers
  <2>5. ASSUME NEW x \in InFlight', x # m PROVE x \in InFlight
    BY <1>2, <1>5, <1>7, <2>1, <2>5, FlightMembers
  <2> QED
    BY <2>2, <2>3, <2>4, <2>5
<1>11. Charged' = Charged \cup BytesOf(m)
  BY <1>10 DEF Charged
<1>12. Charged \cap BytesOf(m) = {}
  BY <1>10, ChargedMembers, BytesApart
<1>13. ASSUME ~cancelled PROVE IsFiniteSet(Charged') /\ bytes' = Cardinality(Charged')
  <2>1. IsFiniteSet(Charged) /\ bytes = Cardinality(Charged) /\ Cardinality(Charged) \in Nat
    BY <1>13, FS_CardinalityType DEF ByteInv
  <2>2. IsFiniteSet(BytesOf(m)) /\ Cardinality(BytesOf(m)) = size /\ size \in Nat
    BY <1>0, MessageBytes, QueueAssumption
  <2>3. /\ IsFiniteSet(Charged \cup BytesOf(m))
        /\ Cardinality(Charged \cup BytesOf(m)) =
             Cardinality(Charged) + Cardinality(BytesOf(m)) - Cardinality(Charged \cap BytesOf(m))
    BY <2>1, <2>2, FS_Union
  <2>4. Cardinality(Charged \cap BytesOf(m)) = 0
    BY <1>12, FS_EmptySet
  <2> QED
    BY <1>2, <1>11, <2>1, <2>2, <2>3, <2>4
<1> QED
  BY <1>2, <1>9, <1>13 DEF ByteInv

LEMMA CreditBytes ==
  ASSUME TypeOK, TypeOK', ByteInv, NEW d \in Lanes, Credit(d)
  PROVE  ByteInv'
<1>1. /\ worker[d] = "crediting" /\ worker' = [worker EXCEPT ![d] = "range"]
      /\ hand' = [hand EXCEPT ![d] = Nothing]
      /\ bytes' = bytes - hand[d].size /\ UNCHANGED <<lanes, cancelled, arrived>>
  BY DEF Credit
<1>2. /\ worker \in [Lanes -> {"range", "handling", "crediting", "exited"}]
      /\ hand \in [Lanes -> Messages \cup {Nothing}]
  BY DEF TypeOK, WorkersOK
<1>3. PICK m \in Messages : m = hand[d]
  BY <1>1 DEF TypeOK, WorkersOK
<1>4. Holding(d) /\ ~Holding(d)'
  BY <1>1, <1>2 DEF Holding
<1>5. \A l \in Lanes : l # d => (Holding(l)' <=> Holding(l)) /\ hand'[l] = hand[l]
  BY <1>1, <1>2 DEF Holding
<1>6. Distinct'
  <2>1. \A l \in Lanes : Holding(l)' => Holding(l) /\ hand'[l] = hand[l]
    BY <1>4, <1>5
  <2> QED
    BY <1>1, <2>1 DEF ByteInv, Distinct
<1>7. InFlight' = InFlight \ {m} /\ m \in InFlight
  <2>1. \A x : x \in InFlight' <=>
              \/ \E l \in Lanes : \E i \in 1..Len(lanes[l]) : lanes[l][i] = x
              \/ \E l \in Lanes : Holding(l)' /\ hand'[l] = x
    <3>1. \A l \in Lanes : DOMAIN lanes'[l] = 1..Len(lanes[l]) /\ lanes' = lanes
      BY <1>1 DEF TypeOK, LanesOK
    <3>2. \A l \in Lanes : \A x : x \in Waiting(l)' <=> \E i \in 1..Len(lanes[l]) : lanes[l][i] = x
      BY <3>1 DEF Waiting
    <3>3. \A x : x \in InFlight' <=>
                \/ \E l \in Lanes : x \in Waiting(l)'
                \/ \E l \in Lanes : Holding(l)' /\ hand'[l] = x
      BY DEF InFlight
    <3> QED
      BY <3>2, <3>3, Zenon
  <2>2. m \in InFlight
    BY <1>3, <1>4, FlightMembers
  <2>3. m \notin InFlight'
    BY <1>3, <1>4, <1>5, <2>1 DEF ByteInv, Distinct
  <2>4. ASSUME NEW x \in InFlight, x # m PROVE x \in InFlight'
    BY <1>3, <1>5, <2>1, <2>4, FlightMembers
  <2>5. ASSUME NEW x \in InFlight' PROVE x \in InFlight
    BY <1>4, <1>5, <2>1, <2>5, FlightMembers
  <2> QED
    BY <2>2, <2>3, <2>4, <2>5
<1>8. Charged' = Charged \ BytesOf(m)
  <2>1. \A k \in InFlight : k # m => BytesOf(k) \cap BytesOf(m) = {}
    BY BytesApart
  <2>2. \A x : x \in Charged' <=> \E k \in InFlight' : x \in BytesOf(k)
    BY DEF Charged
  <2> QED
    BY <1>7, <2>1, <2>2, ChargedMembers
<1>9. Charged \cap BytesOf(m) = BytesOf(m)
  BY <1>7, ChargedMembers
<1>10. ASSUME ~cancelled PROVE IsFiniteSet(Charged') /\ bytes' = Cardinality(Charged')
  <2>1. IsFiniteSet(Charged) /\ bytes = Cardinality(Charged)
    BY <1>10 DEF ByteInv
  <2>2. Cardinality(BytesOf(m)) = m.size
    BY MessageBytes
  <2>3. /\ IsFiniteSet(Charged \ BytesOf(m))
        /\ Cardinality(Charged \ BytesOf(m)) = Cardinality(Charged) - Cardinality(Charged \cap BytesOf(m))
    BY <2>1, FS_Difference
  <2> QED
    BY <1>1, <1>3, <1>8, <1>9, <2>1, <2>2, <2>3
<1> QED
  BY <1>1, <1>6, <1>10 DEF ByteInv

LEMMA TakeBytes ==
  ASSUME TypeOK, TypeOK', ByteInv, NEW d \in Lanes, Take(d)
  PROVE  ByteInv'
<1>1. /\ lanes \in [Lanes -> Seq(Messages)] /\ lanes[d] # <<>> /\ lanes[d] \in Seq(Messages)
      /\ worker \in [Lanes -> {"range", "handling", "crediting", "exited"}]
      /\ hand \in [Lanes -> Messages \cup {Nothing}]
  BY DEF Take, TypeOK, LanesOK, WorkersOK
<1>2. /\ lanes' = [lanes EXCEPT ![d] = Tail(lanes[d])]
      /\ hand' = [hand EXCEPT ![d] = Head(lanes[d])]
      /\ worker' = [worker EXCEPT ![d] = IF cancelled THEN "exited" ELSE "handling"]
      /\ worker[d] = "range"
      /\ UNCHANGED <<arrived, cancelled, bytes>>
  BY DEF Take
<1>3. /\ Len(lanes[d]) \in Nat \ {0} /\ Len(lanes'[d]) = Len(lanes[d]) - 1
      /\ \A i \in 1..Len(lanes'[d]) : i + 1 \in 1..Len(lanes[d]) /\ lanes'[d][i] = lanes[d][i + 1]
      /\ hand'[d] = lanes[d][1]
  BY <1>1, <1>2, Dequeued
<1>4. \A l \in Lanes : l # d =>
        lanes'[l] = lanes[l] /\ hand'[l] = hand[l] /\ (Holding(l)' <=> Holding(l))
  BY <1>1, <1>2 DEF Holding
<1>5. ~Holding(d) /\ (Holding(d)' <=> ~cancelled) /\ 1 \in 1..Len(lanes[d])
  BY <1>1, <1>2, <1>3 DEF Holding
<1>6. \A l \in Lanes : \A i \in 1..Len(lanes'[l]) :
        \/ l = d /\ i + 1 \in 1..Len(lanes[d]) /\ i + 1 # 1 /\ lanes'[l][i] = lanes[d][i + 1]
        \/ l # d /\ lanes'[l][i] = lanes[l][i] /\ i \in 1..Len(lanes[l])
  BY <1>3, <1>4
<1>7. Distinct'
  <2>1. \A l \in Lanes : \A i \in 1..Len(lanes'[l]) : lanes'[l][i].n <= arrived'
    BY <1>2, <1>6 DEF ByteInv, Distinct
  <2>2. \A l \in Lanes : Holding(l)' => hand'[l].n <= arrived'
    BY <1>2, <1>3, <1>4, <1>5 DEF ByteInv, Distinct
  <2>3. ASSUME NEW k \in Lanes, NEW l \in Lanes, NEW i \in 1..Len(lanes'[k]), NEW j \in 1..Len(lanes'[l]),
               lanes'[k][i] = lanes'[l][j]
        PROVE  k = l /\ i = j
    <3>1. k = l
      BY <1>6, <2>3 DEF ByteInv, Distinct
    <3>2. CASE k = d
      <4>1. i + 1 = j + 1
        BY <1>6, <2>3, <3>1, <3>2 DEF ByteInv, Distinct
      <4> QED
        BY <3>1, <4>1
    <3>3. CASE k # d
      BY <1>6, <2>3, <3>1, <3>3 DEF ByteInv, Distinct
    <3> QED
      BY <3>2, <3>3
  <2>4. ASSUME NEW k \in Lanes, NEW l \in Lanes, Holding(k)', NEW i \in 1..Len(lanes'[l])
        PROVE  lanes'[l][i] # hand'[k]
    <3>1. CASE k = d
      BY <1>3, <1>5, <1>6, <3>1 DEF ByteInv, Distinct
    <3>2. CASE k # d
      BY <1>4, <1>6, <2>4, <3>2 DEF ByteInv, Distinct
    <3> QED
      BY <3>1, <3>2
  <2>5. ASSUME NEW k \in Lanes, NEW l \in Lanes, Holding(k)', Holding(l)', hand'[k] = hand'[l]
        PROVE  k = l
    BY <1>3, <1>4, <1>5, <2>5 DEF ByteInv, Distinct
  <2> QED
    BY <2>1, <2>2, <2>3, <2>4, <2>5 DEF Distinct
<1>8. ASSUME ~cancelled PROVE InFlight' = InFlight
  <2>1. \A x : x \in InFlight' <=>
              \/ \E l \in Lanes : \E i \in 1..Len(lanes'[l]) : lanes'[l][i] = x
              \/ \E l \in Lanes : Holding(l)' /\ hand'[l] = x
    <3>1. \A l \in Lanes : DOMAIN lanes'[l] = 1..Len(lanes'[l])
      BY DEF TypeOK, LanesOK
    <3>2. \A l \in Lanes : \A x : x \in Waiting(l)' <=> \E i \in 1..Len(lanes'[l]) : lanes'[l][i] = x
      BY <3>1 DEF Waiting
    <3>3. \A x : x \in InFlight' <=>
                \/ \E l \in Lanes : x \in Waiting(l)'
                \/ \E l \in Lanes : Holding(l)' /\ hand'[l] = x
      BY DEF InFlight
    <3> QED
      BY <3>2, <3>3, Zenon
  <2>2. \A i \in 1..Len(lanes[d]) : i = 1 \/ (i - 1 \in 1..Len(lanes'[d]) /\ lanes'[d][i - 1] = lanes[d][i])
    <3>1. \A i \in 1..Len(lanes[d]) : i = 1 \/ (i - 1 \in 1..Len(lanes'[d]) /\ i - 1 + 1 = i)
      BY <1>3
    <3> QED
      BY <1>3, <3>1
  <2>3. ASSUME NEW x \in InFlight PROVE x \in InFlight'
    <3>1. CASE \E l \in Lanes : \E i \in 1..Len(lanes[l]) : lanes[l][i] = x
      <4>1. PICK l \in Lanes : \E i \in 1..Len(lanes[l]) : lanes[l][i] = x
        BY <3>1
      <4>2. PICK i \in 1..Len(lanes[l]) : lanes[l][i] = x
        BY <4>1
      <4>3. CASE l # d
        BY <1>4, <2>1, <4>2, <4>3
      <4>4. CASE l = d /\ i = 1
        BY <1>3, <1>5, <1>8, <2>1, <4>2, <4>4
      <4>5. CASE l = d /\ i # 1
        BY <2>1, <2>2, <4>2, <4>5
      <4> QED
        BY <4>3, <4>4, <4>5
    <3>2. CASE \E l \in Lanes : Holding(l) /\ hand[l] = x
      BY <1>4, <1>5, <2>1, <3>2
    <3> QED
      BY <2>3, <3>1, <3>2, FlightMembers
  <2>4. ASSUME NEW x \in InFlight' PROVE x \in InFlight
    <3>1. CASE \E l \in Lanes : \E i \in 1..Len(lanes'[l]) : lanes'[l][i] = x
      BY <1>6, <3>1, FlightMembers
    <3>2. CASE \E l \in Lanes : Holding(l)' /\ hand'[l] = x
      BY <1>3, <1>4, <1>5, <3>2, FlightMembers
    <3> QED
      BY <2>1, <2>4, <3>1, <3>2
  <2> QED
    BY <2>3, <2>4
<1>9. CASE cancelled
  BY <1>2, <1>7, <1>9 DEF ByteInv
<1>10. CASE ~cancelled
  BY <1>2, <1>7, <1>8, <1>10, SameFlight
<1> QED
  BY <1>9, <1>10

LEMMA RestBytes ==
  ASSUME TypeOK, ByteInv, UNCHANGED <<lanes, hand, bytes>>, arrived' \in Nat, arrived <= arrived',
         cancelled' = cancelled \/ cancelled',
         \A l \in Lanes : Holding(l)' <=> Holding(l)
  PROVE  ByteInv'
<1>1. /\ \A l \in Lanes : \A i \in 1..Len(lanes[l]) : lanes[l][i].n \in Nat
      /\ \A l \in Lanes : Holding(l) => hand[l].n \in Nat
      /\ arrived \in Nat
  BY WaitingTyped DEF TypeOK, WorkersOK, Messages, Holding, HistoryOK
<1>2. Distinct'
  BY <1>1 DEF ByteInv, Distinct
<1>3. InFlight' = InFlight
  BY DEF InFlight, Waiting
<1>4. CASE cancelled'
  BY <1>2, <1>4 DEF ByteInv
<1>5. CASE ~cancelled'
  BY <1>2, <1>3, <1>5, SameFlight
<1> QED
  BY <1>4, <1>5

LEMMA NextBytes == TypeOK /\ TypeOK' /\ ByteInv /\ [QueueNext]_queueVars => ByteInv'
<1> SUFFICES ASSUME TypeOK, TypeOK', ByteInv, [QueueNext]_queueVars PROVE ByteInv'
  OBVIOUS
<1>1. arrived \in Nat /\ worker \in [Lanes -> {"range", "handling", "crediting", "exited"}]
  BY DEF TypeOK, HistoryOK, WorkersOK
<1>2. ASSUME NEW o \in PublicKeys, NEW size \in Sizes, Drop(o, size) PROVE ByteInv'
  BY <1>1, <1>2, RestBytes DEF Drop, Arrives, Holding
<1>3. CASE Ignore
  BY <1>1, <1>3, RestBytes DEF Ignore, Arrives, Holding
<1>4. ASSUME NEW l \in Lanes, Handle(l) \/ Exit(l) PROVE ByteInv'
  <2>1. \A k \in Lanes : Holding(k)' <=> Holding(k)
    BY <1>1, <1>4 DEF Handle, Exit, Holding
  <2>2. UNCHANGED <<lanes, hand, bytes, arrived, cancelled>>
    BY <1>4 DEF Handle, Exit
  <2> QED
    BY <1>1, <2>1, <2>2, RestBytes
<1>5. CASE ReportDrops \/ Close \/ Shutdown \/ UNCHANGED queueVars
  <2>1. UNCHANGED <<lanes, worker, hand, bytes, arrived>> /\ (cancelled' = cancelled \/ cancelled')
    BY <1>5 DEF ReportDrops, Close, Shutdown, Drained, DrainTimeout, Stopped, LastReport, TakeDropped, queueVars
  <2> QED
    BY <1>1, <2>1, RestBytes DEF Holding
<1> QED
  BY <1>2, <1>3, <1>4, <1>5, AcceptBytes, TakeBytes, CreditBytes DEF QueueNext, Enqueue, Lane

\* The budget is charged exactly the bytes of the messages queued or in hand,
\* whatever the callback and the lanes do: messageQueue's bytes.
THEOREM ExactBytes == QueueSpec => []BytesExact
<1>1. QueueInit => ByteInv
  <2> SUFFICES ASSUME QueueInit PROVE ByteInv
    OBVIOUS
  <2>1. \A l \in Lanes : lanes[l] = <<>> /\ ~Holding(l)
    BY DEF QueueInit, Holding
  <2>2. InFlight = {}
    BY <2>1 DEF InFlight, Waiting
  <2>3. Charged = {}
    BY <2>2 DEF Charged
  <2>4. Distinct
    BY <2>1 DEF Distinct
  <2>5. IsFiniteSet(Charged) /\ bytes = Cardinality(Charged)
    BY <2>3, FS_EmptySet DEF QueueInit
  <2> QED
    BY <2>4, <2>5 DEF ByteInv
<1>2. ByteInv => BytesExact
  BY DEF ByteInv, BytesExact, Charged
<1> QED
  BY <1>1, <1>2, InitTypeOK, NextTypeOK, NextBytes, PTL DEF QueueSpec

-----------------------------------------------------------------------------
(* The storing half's invariant.                                           *)

BegunCalls == [pc : {"remember", "insert"}, copy : Copies, isNew : BOOLEAN]
MarkedCalls ==
  [pc : {"mark", "broadcast", "repeat"}, copy : Copies, isNew : BOOLEAN,
   inserted : BOOLEAN, count : Nat, at : Nat]
Calls == {Idle} \cup BegunCalls \cup MarkedCalls
Events ==
  [packet : Packets, observer : Observers, path : Paths, first : BOOLEAN,
   repeat : BOOLEAN, count : Nat, at : Nat]
MemoryKeys == Pairs \cup (Packets \X Observers \X Paths)

CallsOK ==
  /\ inbox \in [Links -> Seq(Copies)]
  /\ call \in [Links -> Calls]
TablesOK ==
  /\ rows \in SUBSET Packets /\ stored \in SUBSET Pairs
  /\ count \in [Packets -> Nat]
Memories == [at : SUBSET MemoryKeys, order : Seq([key : MemoryKeys, at : Nat])]
MemoryOK == sent \in Memories
EventsOK ==
  /\ clock \in Nat /\ calm \in BOOLEAN
  /\ events \in Seq(Events) /\ lost \in SUBSET (Packets \X Nat)
TypesOK == CallsOK /\ TablesOK /\ MemoryOK /\ EventsOK

Unmarked == {"remember", "insert", "mark"}
\* A hearing that is stored and not streamed yet, a repeat likewise.
Pledged(l) == call[l].pc = "broadcast" \/ (call[l].pc = "mark" /\ call[l].inserted)
Repeating(l) == call[l].pc = "repeat"
Pending(l) == Pledged(l) \/ Repeating(l)
\* What will be streamed of it.
Due(l) == Event(l, Repeating(l))

\* Every count up to the row's is given once; the events have it or will.
Numbers ==
  /\ \A i \in DOMAIN events :
       IF events[i].repeat THEN events[i].count = 0
       ELSE events[i].count \in 1..count[events[i].packet]
  /\ \A l \in Links : Pledged(l) => call[l].count \in 1..count[call[l].copy.packet]
  /\ \A i, j \in DOMAIN events :
       events[i].packet = events[j].packet /\ events[i].count > 0 /\ events[i].count = events[j].count
         => i = j
  /\ \A i \in DOMAIN events, l \in Links :
       Pledged(l) /\ events[i].packet = call[l].copy.packet => events[i].count # call[l].count
  /\ \A l, m \in Links :
       /\ Pledged(l) /\ Pledged(m) /\ call[l].copy.packet = call[m].copy.packet
       /\ call[l].count = call[m].count
       => l = m
\* A dropped event's number is given to nobody else either.
LostNumbers ==
  \A p \in Packets, n \in Nat : <<p, n>> \in lost =>
    /\ n \in 1..count[p]
    /\ \A i \in DOMAIN events : events[i].packet = p => events[i].count # n
    /\ \A l \in Links : Pledged(l) /\ call[l].copy.packet = p => call[l].count # n
AllNumbered ==
  calm => \A p \in Packets : \A n \in 1..count[p] :
    \/ <<p, n>> \in lost
    \/ \E i \in DOMAIN events : events[i].packet = p /\ ~events[i].repeat /\ events[i].count = n
    \/ \E l \in Links : Pledged(l) /\ call[l].copy.packet = p /\ call[l].count = n

\* The call whose statement inserted the row, until it ends.
Announcing(l) == call[l].pc \in Unmarked \cup {"broadcast"} /\ call[l].isNew
Announced ==
  /\ \A i \in DOMAIN events : events[i].first => events[i].packet \in rows
  /\ \A l \in Links : Announcing(l) => call[l].copy.packet \in rows
  /\ \A i, j \in DOMAIN events :
       events[i].first /\ events[j].first /\ events[i].packet = events[j].packet => i = j
  /\ \A i \in DOMAIN events, l \in Links :
       events[i].first /\ Announcing(l) => events[i].packet # call[l].copy.packet
  /\ \A l, m \in Links :
       Announcing(l) /\ Announcing(m) /\ call[l].copy.packet = call[m].copy.packet => l = m

\* The copies a link has not marked, counted from the last one.
PendingLen(l) == Len(inbox[l]) + IF call[l].pc \in Unmarked THEN 1 ELSE 0
Back(l, d) == IF d < Len(inbox[l]) THEN inbox[l][Len(inbox[l]) - d] ELSE call[l].copy

\* Both workers see an observer's reports in the same order, and what one
\* has marked before the other is stored.
Aligned ==
  \A l, m \in Links : l[2] = m[2] =>
    \A d \in 0..(PendingLen(l) - 1) :
      IF d < PendingLen(m) THEN Back(l, d) = Back(m, d)
      ELSE <<Back(l, d).packet, l[2]>> \in stored
MarkedStored == \A l \in Links : call[l].pc \in {"mark", "broadcast", "repeat"} => PairOf(l) \in stored

\* The memory: its keys are those of its entries, once each, and of pairs
\* that are stored.
Entries(m) == {m.order[i] : i \in DOMAIN m.order}
Faithful(m) ==
  /\ m.at = {e.key : e \in Entries(m)}
  /\ \A i, j \in DOMAIN m.order : m.order[i].key = m.order[j].key => i = j
StoredKeys ==
  \A p \in Packets, o \in Observers :
    /\ <<p, o>> \in sent.at => <<p, o>> \in stored
    /\ \A q \in Paths : <<p, o, q>> \in sent.at => <<p, o>> \in stored
Timely == \A e \in Entries(sent) : e.at <= clock

\* Nobody has marked the pair, and every worker will mark it with that path.
StillUnmarked(p, o, path) ==
  /\ <<p, o>> \notin sent.at /\ \A q \in Paths : <<p, o, q>> \notin sent.at
  /\ \E d \in Nat : \A b \in Brokers :
       /\ d < PendingLen(<<b, o>>)
       /\ Back(<<b, o>>, d) = [packet |-> p, path |-> path]
       /\ \A e \in (d + 1)..(PendingLen(<<b, o>>) - 1) : Back(<<b, o>>, e).packet # p

\* The memory remembers what was or will be streamed for the TTL.
Remembered(e) ==
  LET hearing == <<e.packet, e.observer, e.path>> IN
  \/ clock - e.at >= SentTTL
  \/ \E x \in Entries(sent) : x.key = hearing /\ x.at >= e.at
  \/ ~e.repeat /\ StillUnmarked(e.packet, e.observer, e.path)
Guarded(e) ==
  /\ e.at <= clock /\ <<e.packet, e.observer>> \in stored
  /\ e.repeat => e.packet \notin Traces
  /\ e.packet \notin Traces => Remembered(e)

\* Event f, if it is a repeat, keeps its distance from e.
Apart(e, f) ==
  SameHearing(e, f) /\ f.repeat =>
    f.at - e.at >= SentTTL \/ (e.repeat /\ e.at - f.at >= SentTTL)
Spaced ==
  /\ \A i, j \in DOMAIN events : i # j => Apart(events[i], events[j])
  /\ \A i \in DOMAIN events, l \in Links :
       Pending(l) => Apart(events[i], Due(l)) /\ Apart(Due(l), events[i])
  /\ \A l, m \in Links : l # m /\ Pending(l) /\ Pending(m) => Apart(Due(l), Due(m))
Claimed(e) ==
  (\E i \in DOMAIN events : events[i] = e) \/ \E l \in Links : Pending(l) /\ Due(l) = e
AllGuarded == \A e \in Events : Claimed(e) => Guarded(e)

Room == Len(sent.order) + 2 <= SentMax
Marking == StoredKeys /\ Timely /\ MarkedStored
Copying == Marking /\ (calm => Aligned /\ Spaced /\ AllGuarded)

-----------------------------------------------------------------------------
(* The memory of paths.                                                    *)

LEMMA Elements ==
  ASSUME NEW S, NEW q \in Seq(S)
  PROVE  Len(q) \in Nat /\ DOMAIN q = 1..Len(q) /\ \A i \in 1..Len(q) : q[i] \in S
OBVIOUS

LEMMA Chopped ==
  ASSUME NEW S, NEW q \in Seq(S), NEW k \in 0..Len(q)
  PROVE  /\ SubSeq(q, k + 1, Len(q)) \in Seq(S)
         /\ Len(SubSeq(q, k + 1, Len(q))) = Len(q) - k
         /\ \A i \in 1..(Len(q) - k) : SubSeq(q, k + 1, Len(q))[i] = q[i + k]
<1>1. /\ Len(q) \in Int /\ k + 1 \in Int /\ \A i \in (k + 1)..Len(q) : q[i] \in S
      /\ (IF k + 1 <= Len(q) THEN Len(q) - (k + 1) + 1 ELSE 0) = Len(q) - k
  BY Elements
<1>2. /\ SubSeq(q, k + 1, Len(q)) \in Seq(S)
      /\ Len(SubSeq(q, k + 1, Len(q))) = Len(q) - k
      /\ \A i \in 1..(Len(q) - (k + 1) + 1) : SubSeq(q, k + 1, Len(q))[i] = q[k + 1 + i - 1]
  BY <1>1, SubSeqProperties
<1>3. \A i \in 1..(Len(q) - k) : i \in 1..(Len(q) - (k + 1) + 1) /\ k + 1 + i - 1 = i + k
  BY <1>1
<1> QED
  BY <1>2, <1>3

\* What add pops is the shortest prefix that leaves nothing outlived and
\* room for one key.
LEMMA PoppedLeast ==
  ASSUME NEW order, Len(order) \in Nat
  PROVE  /\ Popped(order) \in 0..Len(order)
         /\ \A j \in 0..(Popped(order) - 1) : ~Stays(order, j)
<1> DEFINE n == Len(order)
           Below(k) == {j \in 0..n : j < k}
           T == {Below(k) : k \in {j \in 0..n : Stays(order, j)}}
<1>1. T # {} /\ T \subseteq SUBSET (0..n)
  <2>1. n \in 0..n /\ Stays(order, n)
    BY DEF Stays
  <2>2. Below(n) \in T
    BY <2>1
  <2>3. ASSUME NEW x \in T PROVE x \in SUBSET (0..n)
    OBVIOUS
  <2> QED
    BY <2>2, <2>3
<1>2. FiniteSubsetsOf(0..n) = SUBSET (0..n)
  <2>1. IsFiniteSet(0..n)
    BY FS_Interval
  <2> QED
    BY <2>1, FS_FiniteSubsetsOfFinite
<1>3. \E x \in T : \A y \in T : ~ (<<y, x>> \in StrictSubsetOrdering(0..n))
  <2>1. IsWellFoundedOn(StrictSubsetOrdering(0..n), SUBSET (0..n))
    BY <1>2, FS_StrictSubsetOrderingWellFounded
  <2> HIDE DEF T
  <2> QED
    BY <1>1, <2>1, WFMin
<1>4. PICK k \in 0..n : Stays(order, k) /\ \A y \in T : ~ (<<y, Below(k)>> \in StrictSubsetOrdering(0..n))
  BY <1>3
<1>5. ASSUME NEW j \in 0..(k - 1) PROVE ~Stays(order, j)
  <2>1. j \in 0..n /\ j < k
    BY <1>4
  <2>2. Below(j) \subseteq Below(k) /\ j \in Below(k) /\ j \notin Below(j)
    BY <2>1, <1>4
  <2>3. <<Below(j), Below(k)>> \in StrictSubsetOrdering(0..n)
    <3>1. Below(j) \in SUBSET (0..n) /\ Below(k) \in SUBSET (0..n)
      OBVIOUS
    <3> HIDE DEF Below
    <3> QED
      BY <2>2, <3>1 DEF StrictSubsetOrdering
  <2>4. Below(j) \notin T
    BY <1>4, <2>3
  <2> QED
    BY <2>1, <2>4
<1>6. k \in 0..Len(order) /\ Stays(order, k) /\ \A j \in 0..(k - 1) : ~Stays(order, j)
  BY <1>4, <1>5
<1> QED
  BY <1>6 DEF Popped

LEMMA EvictedEffect ==
  ASSUME NEW m \in Memories, Faithful(m), clock \in Nat
  PROVE  /\ Evicted(m) \in Memories /\ Faithful(Evicted(m))
         /\ Entries(Evicted(m)) \subseteq Entries(m) /\ Evicted(m).at \subseteq m.at
         /\ Len(m.order) \in Nat /\ Len(Evicted(m).order) \in Nat
         /\ Len(Evicted(m).order) <= Len(m.order)
         /\ Len(m.order) < SentMax =>
              \A e \in Entries(m) : e \in Entries(Evicted(m)) \/ clock - e.at >= SentTTL
<1>1. PICK q : q = m.order
  OBVIOUS
<1>2. q \in Seq([key : MemoryKeys, at : Nat]) /\ Len(q) \in Nat
  BY <1>1 DEF Memories
<1>3. PICK k : k = Popped(q)
  OBVIOUS
<1>4. k \in 0..Len(q) /\ \A j \in 0..(k - 1) : ~Stays(q, j)
  BY <1>2, <1>3, PoppedLeast
<1>5. PICK r : r = SubSeq(q, k + 1, Len(q))
  OBVIOUS
<1>6. /\ r \in Seq([key : MemoryKeys, at : Nat]) /\ Len(r) = Len(q) - k /\ Len(r) \in Nat
      /\ \A i \in 1..Len(r) : r[i] = q[i + k] /\ i + k \in 1..Len(q)
  <2>1. /\ r \in Seq([key : MemoryKeys, at : Nat]) /\ Len(r) = Len(q) - k
        /\ \A i \in 1..(Len(q) - k) : r[i] = q[i + k]
    BY <1>2, <1>4, <1>5, Chopped
  <2> QED
    BY <1>2, <1>4, <2>1
<1>7. PICK a : a = m.at \ {q[i].key : i \in 1..k}
  OBVIOUS
<1>8. Evicted(m) = [at |-> a, order |-> r]
  BY <1>1, <1>3, <1>5, <1>7 DEF Evicted
<1>9. m.at \in SUBSET MemoryKeys
  BY DEF Memories
<1>10. Evicted(m) \in Memories
  BY <1>6, <1>7, <1>8, <1>9 DEF Memories
<1>11. /\ m.at = {q[i].key : i \in 1..Len(q)}
       /\ \A i, j \in 1..Len(q) : q[i].key = q[j].key => i = j
  <2>1. DOMAIN q = 1..Len(q)
    BY <1>2, Elements
  <2>2. Entries(m) = {q[i] : i \in 1..Len(q)}
    BY <1>1, <2>1 DEF Entries
  <2> QED
    BY <1>1, <2>1, <2>2 DEF Faithful
<1>12. /\ Entries(m) = {q[i] : i \in 1..Len(q)}
       /\ Entries(Evicted(m)) = {r[i] : i \in 1..Len(r)}
  <2>1. DOMAIN q = 1..Len(q) /\ DOMAIN r = 1..Len(r)
    BY <1>2, <1>6, Elements
  <2> QED
    BY <1>1, <1>8, <2>1 DEF Entries
<1>13. \A i \in 1..Len(q) : i <= k \/ (i - k \in 1..Len(r) /\ r[i - k] = q[i])
  BY <1>2, <1>4, <1>6
<1>14. Entries(Evicted(m)) \subseteq Entries(m)
  BY <1>6, <1>12
<1>15. a = {r[i].key : i \in 1..Len(r)}
  <2>1. ASSUME NEW x \in a PROVE x \in {r[i].key : i \in 1..Len(r)}
    <3>1. PICK i \in 1..Len(q) : x = q[i].key
      BY <1>7, <1>11
    <3>2. i > k
      BY <1>4, <1>7, <3>1
    <3>3. i - k \in 1..Len(r) /\ r[i - k] = q[i]
      BY <1>4, <1>13, <3>2
    <3> QED
      BY <3>1, <3>3
  <2>2. ASSUME NEW i \in 1..Len(r) PROVE r[i].key \in a
    <3>1. r[i] = q[i + k] /\ i + k \in 1..Len(q)
      BY <1>6
    <3>2. \A j \in 1..k : j \in 1..Len(q) /\ j # i + k
      BY <1>2, <1>4, <1>6
    <3>3. \A j \in 1..k : q[j].key # q[i + k].key
      BY <1>11, <3>1, <3>2
    <3> QED
      BY <1>7, <1>11, <3>1, <3>3
  <2> QED
    BY <2>1, <2>2
<1>16. Faithful(Evicted(m))
  <2>1. ASSUME NEW i \in 1..Len(r), NEW j \in 1..Len(r), r[i].key = r[j].key PROVE i = j
    <3>1. i + k = j + k
      BY <1>6, <1>11, <2>1
    <3> QED
      BY <1>4, <3>1
  <2>2. DOMAIN r = 1..Len(r)
    BY <1>6
  <2> QED
    BY <1>8, <1>15, <2>1, <2>2 DEF Faithful, Entries
<1>17. ASSUME Len(q) < SentMax, NEW e \in Entries(m)
       PROVE  e \in Entries(Evicted(m)) \/ clock - e.at >= SentTTL
  <2>1. PICK i \in 1..Len(q) : e = q[i]
    BY <1>12
  <2>2. CASE i <= k
    <3>1. ~Stays(q, i - 1)
      BY <1>2, <1>4, <2>2
    <3>2. Len(q) - (i - 1) < SentMax /\ i - 1 + 1 = i
      BY <1>2, <1>17, HearingsAssumption
    <3>3. ~(clock - q[i].at < SentTTL)
      BY <3>1, <3>2 DEF Stays
    <3>4. q[i] \in [key : MemoryKeys, at : Nat]
      BY <1>2, Elements
    <3> QED
      BY <2>1, <3>3, <3>4, HearingsAssumption
  <2>3. CASE ~(i <= k)
    BY <1>12, <1>13, <2>1, <2>3
  <2> QED
    BY <2>2, <2>3
<1>18. Evicted(m).at \subseteq m.at /\ Evicted(m).order = r
  BY <1>7, <1>8
<1>19. Len(m.order) \in Nat /\ Len(r) \in Nat /\ Len(r) <= Len(m.order)
  BY <1>1, <1>2, <1>4, <1>6
<1> QED
  BY <1>1, <1>10, <1>14, <1>16, <1>17, <1>18, <1>19

LEMMA AddEffect ==
  ASSUME NEW m \in Memories, Faithful(m), clock \in Nat, NEW key \in MemoryKeys
  PROVE  /\ Add(m, key) \in Memories /\ Faithful(Add(m, key))
         /\ Add(m, key).at \subseteq m.at \cup {key}
         /\ Len(m.order) \in Nat /\ Len(Add(m, key).order) \in Nat
         /\ Len(Add(m, key).order) <= Len(m.order) + 1
         /\ \A e \in Entries(Add(m, key)) : e \in Entries(m) \/ e = [key |-> key, at |-> clock]
         /\ IsNewKey(m, key) => [key |-> key, at |-> clock] \in Entries(Add(m, key))
         /\ key \notin m.at => IsNewKey(m, key)
         /\ Len(m.order) < SentMax =>
              /\ \A e \in Entries(m) : e \in Entries(Add(m, key)) \/ clock - e.at >= SentTTL
              /\ \A e \in Entries(m) :
                   e.key = key /\ IsNewKey(m, key) => clock - e.at >= SentTTL
<1>1. PICK v \in Memories : v = Evicted(m)
  BY EvictedEffect
<1>2. /\ Faithful(v) /\ Entries(v) \subseteq Entries(m) /\ v.at \subseteq m.at
      /\ Len(m.order) \in Nat /\ Len(v.order) \in Nat /\ Len(v.order) <= Len(m.order)
      /\ Len(m.order) < SentMax =>
           \A e \in Entries(m) : e \in Entries(v) \/ clock - e.at >= SentTTL
  BY <1>1, EvictedEffect
<1>3. IsNewKey(m, key) <=> key \notin v.at
  BY <1>1 DEF IsNewKey
<1>4. CASE key \in v.at
  <2>1. Add(m, key) = v
    BY <1>1, <1>3, <1>4 DEF Add
  <2> QED
    BY <1>1, <1>2, <1>3, <1>4, <2>1
<1>5. CASE key \notin v.at
  <2>1. PICK x \in [key : MemoryKeys, at : Nat] : x = [key |-> key, at |-> clock]
    OBVIOUS
  <2>2. PICK q \in Seq([key : MemoryKeys, at : Nat]) : q = v.order
    BY DEF Memories
  <2>3. PICK r : r = Append(q, x)
    OBVIOUS
  <2>4. /\ r \in Seq([key : MemoryKeys, at : Nat]) /\ Len(q) \in Nat /\ Len(r) = Len(q) + 1
        /\ \A i \in 1..Len(q) : r[i] = q[i]
        /\ r[Len(q) + 1] = x
    BY <2>3
  <2>5. Add(m, key) = [at |-> v.at \cup {key}, order |-> r]
    BY <1>1, <1>3, <1>5, <2>1, <2>2, <2>3 DEF Add
  <2>6. Entries(v) = {q[i] : i \in 1..Len(q)} /\ Entries(Add(m, key)) = {r[i] : i \in 1..Len(r)}
    <3>1. DOMAIN q = 1..Len(q) /\ DOMAIN r = 1..Len(r)
      BY <2>4
    <3> QED
      BY <2>2, <2>5, <3>1 DEF Entries
  <2>7. Entries(Add(m, key)) = Entries(v) \cup {x}
    <3>1. \A i \in 1..Len(r) : i \in 1..Len(q) \/ i = Len(q) + 1
      BY <2>4
    <3>2. \A i \in 1..Len(q) : i \in 1..Len(r)
      BY <2>4
    <3>3. Len(q) + 1 \in 1..Len(r)
      BY <2>4
    <3> QED
      BY <2>4, <2>6, <3>1, <3>2, <3>3
  <2>8. x.key = key /\ x.at = clock
    BY <2>1
  <2>9. v.at \in SUBSET MemoryKeys
    BY DEF Memories
  <2>10. Add(m, key) \in Memories
    BY <2>4, <2>5, <2>9 DEF Memories
  <2>11. Faithful(Add(m, key))
    <3>1. v.at \cup {key} = {e.key : e \in Entries(Add(m, key))}
      BY <1>2, <2>7, <2>8 DEF Faithful
    <3>2. \A i \in 1..Len(q) : q[i].key # key
      BY <1>2, <1>5, <2>2, <2>6 DEF Faithful
    <3>3. \A i, j \in 1..Len(q) : q[i].key = q[j].key => i = j
      <4>1. DOMAIN q = 1..Len(q)
        OBVIOUS
      <4> QED
        BY <1>2, <2>2, <4>1 DEF Faithful
    <3>4. \A i \in 1..Len(r) : (i \in 1..Len(q) /\ r[i] = q[i]) \/ (i = Len(q) + 1 /\ r[i] = x)
      BY <2>4
    <3>5. \A i, j \in 1..Len(r) : r[i].key = r[j].key => i = j
      BY <2>8, <3>2, <3>3, <3>4
    <3>6. DOMAIN r = 1..Len(r)
      BY <2>4
    <3>7. Add(m, key).at = v.at \cup {key} /\ Add(m, key).order = r
      BY <2>5
    <3> QED
      BY <3>1, <3>5, <3>6, <3>7 DEF Faithful
  <2>12. \A e \in Entries(v) : e.key # key
    BY <1>2, <1>5 DEF Faithful
  <2>13. Add(m, key).at = v.at \cup {key} /\ Add(m, key).order = r /\ v.order = q
    BY <2>2, <2>5
  <2>14. Len(r) \in Nat /\ Len(r) <= Len(m.order) + 1
    BY <1>2, <2>2, <2>4
  <2>15. ASSUME Len(m.order) < SentMax, NEW e \in Entries(m)
         PROVE  /\ e \in Entries(Add(m, key)) \/ clock - e.at >= SentTTL
                /\ e.key = key => clock - e.at >= SentTTL
    BY <1>2, <2>7, <2>12, <2>15
  <2> QED
    BY <1>2, <1>3, <1>5, <2>1, <2>7, <2>10, <2>11, <2>13, <2>14, <2>15
<1> QED
  BY <1>4, <1>5

-----------------------------------------------------------------------------
(* Types.                                                                  *)

LEMMA CallTyped ==
  ASSUME NEW x \in Calls
  PROVE  /\ x.pc \in {"remember", "insert"} => x \in BegunCalls
         /\ x.pc \in {"mark", "broadcast", "repeat"} => x \in MarkedCalls
         /\ x # Idle <=> x.pc # "idle"
         /\ x # Idle => x.copy \in Copies /\ x.copy.packet \in Packets /\ x.copy.path \in Paths
                        /\ x.isNew \in BOOLEAN
         /\ x.pc \in {"idle", "remember", "insert", "mark", "broadcast", "repeat"}
BY DEF Calls, BegunCalls, MarkedCalls, Idle, Copies

LEMMA KeysTyped ==
  ASSUME TypesOK, NEW l \in Links, call[l] # Idle
  PROVE  /\ PairOf(l) \in Pairs /\ PairOf(l) \in MemoryKeys /\ HearingOf(l) \in MemoryKeys
         /\ l[2] \in Observers /\ call[l].copy.packet \in Packets /\ call[l].copy.path \in Paths
<1>1. l[2] \in Observers
  BY DEF Links
<1>2. call[l].copy.packet \in Packets /\ call[l].copy.path \in Paths
  BY CallTyped DEF TypesOK, CallsOK
<1> QED
  BY <1>1, <1>2 DEF PairOf, HearingOf, Pairs, MemoryKeys

\* What a call in its second half will stream.
Said(x, o) ==
  [packet |-> x.copy.packet, observer |-> o, path |-> x.copy.path,
   first |-> x.isNew /\ ~(x.pc = "repeat"), repeat |-> x.pc = "repeat",
   count |-> IF x.pc = "repeat" THEN 0 ELSE x.count, at |-> x.at]

LEMMA DueSaid ==
  ASSUME NEW l \in Links
  PROVE  Due(l) = Said(call[l], l[2]) /\ Due(l)' = Said(call'[l], l[2])
BY DEF Due, Event, EventCount, Repeating, Said

LEMMA SaidTyped ==
  ASSUME NEW x \in MarkedCalls, NEW o \in Observers
  PROVE  /\ Said(x, o) \in Events
         /\ Said(x, o).packet = x.copy.packet /\ Said(x, o).observer = o
         /\ Said(x, o).path = x.copy.path /\ Said(x, o).repeat = (x.pc = "repeat")
         /\ Said(x, o).first = (x.isNew /\ x.pc # "repeat")
         /\ Said(x, o).count = (IF x.pc = "repeat" THEN 0 ELSE x.count)
         /\ Said(x, o).at = x.at
<1>1. PICK r \in BOOLEAN : r = (x.pc = "repeat")
  OBVIOUS
<1>2. /\ x.copy.packet \in Packets /\ x.copy.path \in Paths
      /\ (x.isNew /\ ~r) \in BOOLEAN /\ (IF r THEN 0 ELSE x.count) \in Nat /\ x.at \in Nat
  BY DEF MarkedCalls, Copies
<1>3. PICK f \in BOOLEAN : f = (x.isNew /\ ~r)
  BY <1>2
<1>4. PICK n \in Nat : n = IF r THEN 0 ELSE x.count
  BY <1>2
<1>5. PICK e : e = [packet |-> x.copy.packet, observer |-> o, path |-> x.copy.path,
                    first |-> f, repeat |-> r, count |-> n, at |-> x.at]
  OBVIOUS
<1>6. /\ e \in Events /\ e.packet = x.copy.packet /\ e.observer = o
      /\ e.path = x.copy.path /\ e.first = f /\ e.repeat = r /\ e.count = n /\ e.at = x.at
  BY <1>2, <1>5 DEF Events
<1>7. Said(x, o) = e
  BY <1>1, <1>3, <1>4, <1>5 DEF Said
<1> QED
  BY <1>1, <1>3, <1>4, <1>6, <1>7

LEMMA DueTyped ==
  ASSUME TypesOK, NEW l \in Links, call[l].pc \in {"mark", "broadcast", "repeat"}
  PROVE  /\ Due(l) \in Events
         /\ Due(l).packet = call[l].copy.packet /\ Due(l).observer = l[2]
         /\ Due(l).path = call[l].copy.path /\ Due(l).repeat = (call[l].pc = "repeat")
         /\ Due(l).first = (call[l].isNew /\ call[l].pc # "repeat")
         /\ Due(l).count = (IF call[l].pc = "repeat" THEN 0 ELSE call[l].count)
         /\ Due(l).at = call[l].at
<1>1. call[l] \in MarkedCalls
  BY CallTyped DEF TypesOK, CallsOK
<1>2. l[2] \in Observers
  BY DEF Links
<1> QED
  BY <1>1, <1>2, DueSaid, SaidTyped

\* What marking leaves in the memory and of the call.
LEMMA MarkedMemory ==
  ASSUME TypesOK, Faithful(sent), NEW l \in Links, MarkSent(l)
  PROVE  /\ sent' \in Memories /\ Faithful(sent')
         /\ call[l].copy.packet \in Traces => sent' = sent
         /\ call[l].copy.packet \notin Traces => sent' = Add(Add(sent, PairOf(l)), HearingOf(l))
         /\ call[l] \in MarkedCalls /\ call[l].pc = "mark"
         /\ PairOf(l) \in MemoryKeys /\ HearingOf(l) \in MemoryKeys
<1>1. call[l] \in MarkedCalls /\ call[l].pc = "mark" /\ call[l] # Idle
  BY CallTyped DEF MarkSent, TypesOK, CallsOK, Idle
<1>2. PairOf(l) \in MemoryKeys /\ HearingOf(l) \in MemoryKeys
  BY <1>1, KeysTyped
<1>3. sent \in Memories /\ clock \in Nat
  BY DEF TypesOK, MemoryOK, EventsOK
<1>4. Add(sent, PairOf(l)) \in Memories /\ Faithful(Add(sent, PairOf(l)))
  BY <1>2, <1>3, AddEffect
<1>5. /\ Add(Add(sent, PairOf(l)), HearingOf(l)) \in Memories
      /\ Faithful(Add(Add(sent, PairOf(l)), HearingOf(l)))
  BY <1>2, <1>3, <1>4, AddEffect
<1> QED
  BY <1>1, <1>2, <1>3, <1>5 DEF MarkSent

LEMMA MarkedCall ==
  ASSUME TypesOK, NEW l \in Links, MarkSent(l)
  PROVE  /\ call'[l] \in Calls /\ \A m \in Links : m # l => call'[m] = call[m]
         /\ call[l].inserted =>
              /\ call'[l].pc = "broadcast" /\ call'[l].copy = call[l].copy
              /\ call'[l].isNew = call[l].isNew /\ call'[l].inserted = call[l].inserted
              /\ call'[l].count = call[l].count /\ call'[l].at = call[l].at
         /\ ~call[l].inserted /\ Repeat(l) =>
              /\ call'[l].pc = "repeat" /\ call'[l].copy = call[l].copy
              /\ call'[l].isNew = call[l].isNew /\ call'[l].count = call[l].count
              /\ call'[l].at = clock
         /\ ~call[l].inserted /\ ~Repeat(l) => call'[l] = Idle
         /\ call' = [call EXCEPT ![l] = call'[l]]
<1>1. call[l] \in MarkedCalls /\ call[l].pc = "mark" /\ clock \in Nat
  BY CallTyped DEF MarkSent, TypesOK, CallsOK, Idle, EventsOK
<1>2. PICK x \in MarkedCalls : x = call[l]
  BY <1>1
<1>3. PICK y : y = IF Streamed(l) THEN [x EXCEPT !.pc = "broadcast"]
                   ELSE IF Repeat(l) THEN [x EXCEPT !.pc = "repeat", !.at = clock] ELSE Idle
  OBVIOUS
<1>4. call' = [call EXCEPT ![l] = y]
  BY <1>2, <1>3 DEF MarkSent
<1>5. call'[l] = y /\ \A m \in Links : m # l => call'[m] = call[m]
  BY <1>4 DEF TypesOK, CallsOK
<1>6. CASE x.inserted
  <2>1. y = [x EXCEPT !.pc = "broadcast"]
    BY <1>2, <1>3, <1>6 DEF Streamed
  <2>2. y \in MarkedCalls /\ y.pc = "broadcast" /\ y.copy = x.copy /\ y.isNew = x.isNew
        /\ y.inserted = x.inserted /\ y.count = x.count /\ y.at = x.at
    BY <2>1 DEF MarkedCalls
  <2> QED
    BY <1>2, <1>4, <1>5, <1>6, <2>2 DEF Calls
<1>7. CASE ~x.inserted /\ Repeat(l)
  <2>1. y = [x EXCEPT !.pc = "repeat", !.at = clock]
    BY <1>2, <1>3, <1>7 DEF Streamed
  <2>2. y \in MarkedCalls /\ y.pc = "repeat" /\ y.copy = x.copy /\ y.isNew = x.isNew
        /\ y.count = x.count /\ y.at = clock
    BY <1>1, <2>1 DEF MarkedCalls
  <2> QED
    BY <1>2, <1>4, <1>5, <1>7, <2>2 DEF Calls
<1>8. CASE ~x.inserted /\ ~Repeat(l)
  <2>1. y = Idle
    BY <1>2, <1>3, <1>8 DEF Streamed
  <2> QED
    BY <1>2, <1>4, <1>5, <1>8, <2>1 DEF Calls
<1> QED
  BY <1>6, <1>7, <1>8

\* The next report of a link, now being handled.
LEMMA TakenCopy ==
  ASSUME TypesOK, NEW l \in Links, TakeNext(l)
  PROVE  /\ Head(inbox[l]) \in Copies /\ inbox' \in [Links -> Seq(Copies)]
         /\ Len(inbox[l]) \in Nat \ {0} /\ Len(inbox'[l]) = Len(inbox[l]) - 1
         /\ Head(inbox[l]) = inbox[l][1]
         /\ \A i \in 1..Len(inbox'[l]) : inbox'[l][i] = inbox[l][i + 1]
         /\ \A m \in Links : m # l => inbox'[m] = inbox[m]
         /\ call[l] = Idle
<1>1. PICK q \in Seq(Copies) : q = inbox[l]
  BY DEF TypesOK, CallsOK
<1>2. /\ q # <<>> /\ inbox' = [inbox EXCEPT ![l] = Tail(q)] /\ call[l] = Idle
  BY <1>1 DEF TakeNext
<1>3. /\ Head(q) \in Copies /\ Tail(q) \in Seq(Copies) /\ Len(q) \in Nat \ {0}
      /\ Len(Tail(q)) = Len(q) - 1 /\ Head(q) = q[1]
      /\ \A i \in 1..Len(Tail(q)) : Tail(q)[i] = q[i + 1]
  BY <1>1, <1>2
<1>4. inbox'[l] = Tail(q) /\ \A m \in Links : m # l => inbox'[m] = inbox[m]
  BY <1>2 DEF TypesOK, CallsOK
<1> QED
  BY <1>1, <1>2, <1>3, <1>4 DEF TypesOK, CallsOK

LEMMA InsertedCall ==
  ASSUME TypesOK, NEW l \in Links, InsertObservation(l)
  PROVE  /\ call'[l] \in MarkedCalls /\ \A m \in Links : m # l => call'[m] = call[m]
         /\ call' = [call EXCEPT ![l] = call'[l]]
         /\ call[l] \in BegunCalls /\ call[l].pc = "insert"
         /\ call'[l].pc = "mark" /\ call'[l].copy = call[l].copy /\ call'[l].isNew = call[l].isNew
         /\ call'[l].inserted = (PairOf(l) \notin stored)
         /\ call'[l].count = count'[call[l].copy.packet] /\ call'[l].at = clock
         /\ stored' = stored \cup {PairOf(l)} /\ stored' \subseteq Pairs
         /\ count' \in [Packets -> Nat]
         /\ \A p \in Packets : count'[p] = IF p = call[l].copy.packet /\ PairOf(l) \notin stored
                                           THEN count[p] + 1 ELSE count[p]
<1>1. call[l] \in BegunCalls /\ call[l].pc = "insert" /\ call[l] # Idle /\ clock \in Nat
  BY CallTyped DEF InsertObservation, TypesOK, CallsOK, Idle, EventsOK
<1>2. PICK p \in Packets : p = call[l].copy.packet
  BY <1>1, KeysTyped
<1>3. PairOf(l) \in Pairs
  BY <1>1, KeysTyped
<1>4. /\ stored' = stored \cup {PairOf(l)}
      /\ count' = [count EXCEPT ![p] = @ + IF PairOf(l) \in stored THEN 0 ELSE 1]
  BY <1>2 DEF InsertObservation, StorePair
<1>5. /\ count' \in [Packets -> Nat]
      /\ \A r \in Packets : count'[r] = IF r = p /\ PairOf(l) \notin stored
                                        THEN count[r] + 1 ELSE count[r]
  BY <1>4 DEF TypesOK, TablesOK
<1>6. PICK y : y = [pc |-> "mark", copy |-> call[l].copy, isNew |-> call[l].isNew,
                    inserted |-> PairOf(l) \notin stored, count |-> count'[p], at |-> clock]
  OBVIOUS
<1>7. call' = [call EXCEPT ![l] = y]
  BY <1>2, <1>6 DEF InsertObservation
<1>8. call'[l] = y /\ \A m \in Links : m # l => call'[m] = call[m]
  BY <1>7 DEF TypesOK, CallsOK
<1>9. count'[p] \in Nat
  BY <1>5
<1>10. y \in MarkedCalls
  BY <1>1, <1>6, <1>9 DEF MarkedCalls, BegunCalls
<1>11. /\ y.pc = "mark" /\ y.copy = call[l].copy /\ y.isNew = call[l].isNew
       /\ y.inserted = (PairOf(l) \notin stored) /\ y.count = count'[p] /\ y.at = clock
  BY <1>6
<1>12. stored' \subseteq Pairs
  BY <1>3, <1>4 DEF TypesOK, TablesOK
<1> QED
  BY <1>1, <1>2, <1>4, <1>5, <1>7, <1>8, <1>10, <1>11, <1>12

\* The other statements that end or move a call.
LEMMA MovedCall ==
  ASSUME TypesOK, NEW l \in Links
  PROVE  /\ Suppress(l) \/ UpsertPacket(l) =>
              /\ call'[l] \in BegunCalls /\ call'[l].copy = Head(inbox[l])
              /\ call'[l].pc \in {"insert", "remember"}
              /\ call'[l].isNew = (UpsertPacket(l) /\ Head(inbox[l]).packet \notin rows)
         /\ Remember(l) =>
              /\ call[l] \in BegunCalls /\ call'[l] \in BegunCalls /\ call'[l].pc = "insert"
              /\ call'[l].copy = call[l].copy /\ call'[l].isNew = call[l].isNew
         /\ InsertFails(l) \/ Broadcast(l) \/ BroadcastRepeat(l) => call'[l] = Idle
         /\ Suppress(l) \/ UpsertPacket(l) \/ Remember(l) \/ InsertFails(l) \/ Broadcast(l)
              \/ BroadcastRepeat(l) =>
              /\ \A m \in Links : m # l => call'[m] = call[m]
              /\ call' \in [Links -> Calls]
<1>1. call \in [Links -> Calls]
  BY DEF TypesOK, CallsOK
<1>2. ASSUME NEW c \in Copies, NEW pc \in {"remember", "insert"}, NEW b \in BOOLEAN,
             call' = [call EXCEPT ![l] = Begun(c, pc, b)]
      PROVE  /\ call'[l] \in BegunCalls /\ call'[l].copy = c /\ call'[l].pc = pc /\ call'[l].isNew = b
             /\ \A m \in Links : m # l => call'[m] = call[m]
             /\ call' \in [Links -> Calls]
  BY <1>1, <1>2 DEF Begun, Calls, BegunCalls
<1>3. CASE Suppress(l)
  <2>1. Head(inbox[l]) \in Copies /\ ~UpsertPacket(l)
    BY <1>3, TakenCopy DEF Suppress, UpsertPacket
  <2>2. /\ call'[l] \in BegunCalls /\ call'[l].copy = Head(inbox[l]) /\ call'[l].pc = "insert"
        /\ call'[l].isNew = FALSE
        /\ \A m \in Links : m # l => call'[m] = call[m]
        /\ call' \in [Links -> Calls]
    BY <1>2, <1>3, <2>1 DEF Suppress
  <2>3. call[l].pc = "idle"
    BY <1>3 DEF Suppress, TakeNext, Idle
  <2>4. ~Remember(l) /\ ~InsertFails(l) /\ ~Broadcast(l) /\ ~BroadcastRepeat(l)
    BY <2>3 DEF Remember, InsertFails, Broadcast, BroadcastRepeat
  <2> QED
    BY <1>3, <2>1, <2>2, <2>4
<1>4. CASE UpsertPacket(l)
  <2>1. Head(inbox[l]) \in Copies /\ ~Suppress(l)
    BY <1>4, TakenCopy DEF Suppress, UpsertPacket
  <2>2. PICK b \in BOOLEAN : b = (Head(inbox[l]).packet \notin rows)
    OBVIOUS
  <2>3. call' = [call EXCEPT ![l] = Begun(Head(inbox[l]), "remember", b)]
    BY <1>4, <2>2 DEF UpsertPacket, NewRow
  <2>4. /\ call'[l] \in BegunCalls /\ call'[l].copy = Head(inbox[l]) /\ call'[l].pc = "remember"
        /\ call'[l].isNew = b
        /\ \A m \in Links : m # l => call'[m] = call[m]
        /\ call' \in [Links -> Calls]
    BY <1>2, <2>1, <2>3
  <2>5. call[l].pc = "idle"
    BY <1>4 DEF UpsertPacket, TakeNext, Idle
  <2>6. ~Remember(l) /\ ~InsertFails(l) /\ ~Broadcast(l) /\ ~BroadcastRepeat(l)
    BY <2>5 DEF Remember, InsertFails, Broadcast, BroadcastRepeat
  <2> QED
    BY <1>4, <2>1, <2>2, <2>4, <2>6
<1>5. CASE Remember(l)
  <2>1. PICK x \in BegunCalls : x = call[l]
    BY <1>1, <1>5, CallTyped DEF Remember
  <2>2. PICK y : y = [x EXCEPT !.pc = "insert"]
    OBVIOUS
  <2>3. y \in BegunCalls /\ y.pc = "insert" /\ y.copy = x.copy /\ y.isNew = x.isNew
    BY <2>2 DEF BegunCalls
  <2>4. call' = [call EXCEPT ![l] = y]
    BY <1>5, <2>1, <2>2 DEF Remember
  <2>5. call'[l] = y /\ call' \in [Links -> Calls] /\ \A m \in Links : m # l => call'[m] = call[m]
    BY <1>1, <2>3, <2>4 DEF Calls
  <2>6. call[l].pc = "remember" /\ call[l] # Idle
    BY <1>5 DEF Remember, Idle
  <2>7. ~Suppress(l) /\ ~UpsertPacket(l) /\ ~InsertFails(l) /\ ~Broadcast(l) /\ ~BroadcastRepeat(l)
    BY <2>6 DEF Suppress, UpsertPacket, TakeNext, InsertFails, Broadcast, BroadcastRepeat
  <2> QED
    BY <1>5, <2>1, <2>3, <2>5, <2>7
<1>6. CASE InsertFails(l) \/ Broadcast(l) \/ BroadcastRepeat(l)
  <2>1. call' = [call EXCEPT ![l] = Idle]
    BY <1>6 DEF InsertFails, Broadcast, BroadcastRepeat
  <2>2. call'[l] = Idle /\ call' \in [Links -> Calls] /\ \A m \in Links : m # l => call'[m] = call[m]
    BY <1>1, <2>1 DEF Calls
  <2>3. call[l].pc \in {"insert", "broadcast", "repeat"}
    BY <1>6 DEF InsertFails, Broadcast, BroadcastRepeat
  <2>4. call[l].pc # "idle" /\ call[l].pc # "remember"
    BY <2>3
  <2>5. call[l] # Idle
    BY <2>4 DEF Idle
  <2>6. ~Suppress(l) /\ ~UpsertPacket(l) /\ ~Remember(l)
    BY <2>4, <2>5 DEF Suppress, UpsertPacket, TakeNext, Remember
  <2> QED
    BY <1>6, <2>2, <2>6
<1> QED
  BY <1>3, <1>4, <1>5, <1>6

LEMMA TypesInit ==
  ASSUME Init
  PROVE  TypesOK
<1>1. CallsOK
  BY DEF Init, CallsOK, Calls
<1>2. TablesOK /\ EventsOK
  BY DEF Init, TablesOK, EventsOK
<1>3. MemoryOK
  BY DEF Init, MemoryOK, Memories
<1> QED
  BY <1>1, <1>2, <1>3 DEF TypesOK

\* The steps that are no call's.
Outside ==
  /\ UNCHANGED <<call, rows, count, stored, sent, events, lost, calm>>
  /\ clock' = clock \/ clock' = clock + 1

LEMMA OutsideSteps ==
  ASSUME [Next]_vars
  PROVE  \/ Outside /\ (UNCHANGED inbox \/ \E o \in Observers, c \in Copies : Hear(o, c))
         \/ \E l \in Links : HandlePacket(l)
<1>1. CASE \E o \in Observers, c \in Copies : Hear(o, c)
  <2>1. PICK o \in Observers, c \in Copies : Hear(o, c)
    BY <1>1
  <2> QED
    BY <2>1 DEF Hear, Outside
<1>2. CASE \E p \in Packets : Forget(p)
  BY <1>2 DEF Forget, Outside
<1>3. CASE RepeatClients
  BY <1>3 DEF RepeatClients, Outside
<1>4. CASE Tick
  BY <1>4 DEF Tick, Outside
<1>5. CASE UNCHANGED vars
  BY <1>5 DEF vars, Outside
<1> QED
  BY <1>1, <1>2, <1>3, <1>4, <1>5 DEF Next

LEMMA HeardTyped ==
  ASSUME TypesOK, NEW o \in Observers, NEW c \in Copies, Hear(o, c)
  PROVE  inbox' \in [Links -> Seq(Copies)]
<1>1. PICK reached \in Reached :
        inbox' = [l \in Links |-> IF l[1] \in reached /\ l[2] = o
                                  THEN Append(inbox[l], c) ELSE inbox[l]]
  BY DEF Hear
<1>2. \A l \in Links : inbox[l] \in Seq(Copies) /\ Append(inbox[l], c) \in Seq(Copies)
  BY Appended DEF TypesOK, CallsOK
<1> QED
  BY <1>1, <1>2

\* What a pledged call and an event say.
LEMMA PledgeTyped ==
  ASSUME TypesOK
  PROVE  /\ \A l \in Links : Pledged(l) =>
              call[l].copy.packet \in Packets /\ call[l].count \in Nat
         /\ \A i \in DOMAIN events :
              events[i] \in Events /\ events[i].packet \in Packets /\ events[i].count \in Nat
         /\ \A p \in Packets : count[p] \in Nat
         /\ events \in Seq(Events)
<1>1. ASSUME NEW l \in Links, Pledged(l)
      PROVE  call[l].copy.packet \in Packets /\ call[l].count \in Nat
  <2>1. call[l] \in MarkedCalls
    BY <1>1, CallTyped DEF Pledged, TypesOK, CallsOK
  <2> QED
    BY <2>1 DEF MarkedCalls, Copies
<1>2. events \in Seq(Events)
  BY DEF TypesOK, EventsOK
<1>3. ASSUME NEW i \in DOMAIN events
      PROVE  events[i] \in Events /\ events[i].packet \in Packets /\ events[i].count \in Nat
  <2>1. events[i] \in Events
    BY <1>2
  <2> QED
    BY <2>1 DEF Events
<1> QED
  BY <1>1, <1>2, <1>3 DEF TypesOK, TablesOK

LEMMA EventsStep ==
  ASSUME TypesOK, NEW l \in Links
  PROVE  /\ Broadcast(l) =>
              /\ ~Due(l).repeat /\ Due(l) \in Events /\ events' \in Seq(Events)
              /\ lost' \in SUBSET (Packets \X Nat)
              /\ \/ events' = Append(events, Due(l)) /\ lost' = lost
                 \/ /\ events' = events
                    /\ lost' = lost \cup {<<call[l].copy.packet, call[l].count>>}
         /\ BroadcastRepeat(l) =>
              /\ lost' = lost
              /\ events' = events \/ (events' = Append(events, Due(l)) /\ Due(l).repeat
                                      /\ Due(l) \in Events /\ events' \in Seq(Events))
<1>1. events \in Seq(Events) /\ lost \in SUBSET (Packets \X Nat)
  BY DEF TypesOK, EventsOK
<1>2. CASE Broadcast(l)
  <2>1. call[l].pc = "broadcast"
    BY <1>2 DEF Broadcast
  <2>2. Due(l) = Event(l, FALSE) /\ Due(l) \in Events /\ ~Due(l).repeat
    BY <2>1, DueTyped DEF Due, Repeating
  <2>3. \/ events' = Append(events, Due(l)) /\ lost' = lost
        \/ events' = events /\ lost' = lost \cup {<<call[l].copy.packet, call[l].count>>}
    BY <1>2, <2>2 DEF Broadcast
  <2>4. events' \in Seq(Events) /\ lost' \in SUBSET (Packets \X Nat)
    <3>1. call[l].copy.packet \in Packets /\ call[l].count \in Nat
      BY <2>1, PledgeTyped DEF Pledged
    <3>2. Append(events, Due(l)) \in Seq(Events)
      BY <1>1, <2>2, Appended
    <3> QED
      BY <1>1, <2>3, <3>1, <3>2
  <2>5. ~BroadcastRepeat(l)
    BY <2>1 DEF BroadcastRepeat
  <2> QED
    BY <2>2, <2>3, <2>4, <2>5
<1>3. CASE BroadcastRepeat(l)
  <2>1. call[l].pc = "repeat"
    BY <1>3 DEF BroadcastRepeat
  <2>2. Due(l) = Event(l, TRUE) /\ Due(l) \in Events /\ Due(l).repeat
    BY <2>1, DueTyped DEF Due, Repeating
  <2>3. lost' = lost /\ (events' = events \/ events' = Append(events, Due(l)))
    BY <1>3, <2>2 DEF BroadcastRepeat
  <2>4. Append(events, Due(l)) \in Seq(Events)
    BY <1>1, <2>2, Appended
  <2>5. ~Broadcast(l)
    BY <2>1 DEF Broadcast
  <2> QED
    BY <2>2, <2>3, <2>4, <2>5
<1> QED
  BY <1>2, <1>3

LEMMA TypesStep ==
  ASSUME TypesOK, Faithful(sent), [Next]_vars
  PROVE  TypesOK' /\ Faithful(sent)'
<1>1. CASE Outside /\ (UNCHANGED inbox \/ \E o \in Observers, c \in Copies : Hear(o, c))
  <2>1. inbox' \in [Links -> Seq(Copies)]
    BY <1>1, HeardTyped DEF TypesOK, CallsOK
  <2>2. CallsOK' /\ TablesOK'
    BY <1>1, <2>1 DEF TypesOK, CallsOK, TablesOK, Outside
  <2>3. MemoryOK' /\ Faithful(sent)'
    BY <1>1 DEF TypesOK, MemoryOK, Faithful, Entries, Outside
  <2>4. EventsOK'
    BY <1>1 DEF TypesOK, EventsOK, Outside
  <2> QED
    BY <2>2, <2>3, <2>4 DEF TypesOK
<1>2. ASSUME NEW l \in Links, HandlePacket(l) PROVE TypesOK' /\ Faithful(sent)'
  <2>1. CASE Suppress(l)
    <3>1. CallsOK'
      BY <2>1, MovedCall, TakenCopy DEF Suppress, CallsOK
    <3>2. UNCHANGED <<rows, count, stored, sent, clock, calm, events, lost>>
      BY <2>1 DEF Suppress
    <3> QED
      BY <3>1, <3>2 DEF TypesOK, TablesOK, MemoryOK, EventsOK, Faithful, Entries
  <2>2. CASE UpsertPacket(l)
    <3>1. CallsOK' /\ Head(inbox[l]) \in Copies
      BY <2>2, MovedCall, TakenCopy DEF UpsertPacket, CallsOK
    <3>2. UNCHANGED <<count, stored, sent, clock, calm, events, lost>> /\ rows' = rows \cup {Head(inbox[l]).packet}
      BY <2>2 DEF UpsertPacket
    <3>3. TablesOK'
      BY <3>1, <3>2 DEF TypesOK, TablesOK, Copies
    <3> QED
      BY <3>1, <3>2, <3>3 DEF TypesOK, MemoryOK, EventsOK, Faithful, Entries
  <2>3. CASE UpsertFails(l)
    <3>1. Head(inbox[l]) \in Copies /\ inbox' \in [Links -> Seq(Copies)]
      BY <2>3, TakenCopy DEF UpsertFails
    <3>2. UNCHANGED <<call, count, stored, sent, clock, calm, events, lost>>
          /\ (rows' = rows \/ rows' = rows \cup {Head(inbox[l]).packet})
      BY <2>3 DEF UpsertFails
    <3>3. TablesOK' /\ CallsOK'
      BY <3>1, <3>2 DEF TypesOK, TablesOK, Copies, CallsOK
    <3> QED
      BY <3>1, <3>2, <3>3 DEF TypesOK, MemoryOK, EventsOK, Faithful, Entries
  <2>4. CASE Remember(l)
    <3>1. CallsOK'
      BY <2>4, MovedCall DEF Remember, CallsOK, TypesOK
    <3>2. UNCHANGED <<rows, count, stored, sent, clock, calm, events, lost>>
      BY <2>4 DEF Remember
    <3> QED
      BY <3>1, <3>2 DEF TypesOK, TablesOK, MemoryOK, EventsOK, Faithful, Entries
  <2>5. CASE InsertObservation(l)
    <3>1. UNCHANGED <<inbox, rows, sent, clock, calm, events, lost>>
      BY <2>5 DEF InsertObservation
    <3>2. call'[l] \in Calls /\ call' = [call EXCEPT ![l] = call'[l]]
      BY <2>5, InsertedCall DEF Calls
    <3>3. CallsOK'
      BY <3>1, <3>2 DEF TypesOK, CallsOK
    <3>4. TablesOK'
      BY <2>5, <3>1, InsertedCall DEF TypesOK, TablesOK
    <3> QED
      BY <3>1, <3>3, <3>4 DEF TypesOK, MemoryOK, EventsOK, Faithful, Entries
  <2>6. CASE InsertFails(l)
    <3>1. CallsOK'
      BY <2>6, MovedCall DEF InsertFails, CallsOK, TypesOK
    <3>2. UNCHANGED <<rows, sent, clock, calm, events, lost>>
      BY <2>6 DEF InsertFails
    <3>3. call[l] # Idle
      BY <2>6 DEF InsertFails, Idle
    <3>4. PairOf(l) \in Pairs /\ call[l].copy.packet \in Packets
      BY <3>3, KeysTyped
    <3>5. stored' \in SUBSET Pairs /\ count' \in [Packets -> Nat]
      BY <2>6, <3>4 DEF InsertFails, StorePair, TypesOK, TablesOK
    <3> QED
      BY <3>1, <3>2, <3>5 DEF TypesOK, TablesOK, MemoryOK, EventsOK, Faithful, Entries
  <2>7. CASE MarkSent(l)
    <3>1. UNCHANGED <<inbox, rows, count, stored, clock, calm, events, lost>>
      BY <2>7 DEF MarkSent
    <3>2. call'[l] \in Calls /\ call' = [call EXCEPT ![l] = call'[l]]
      BY <2>7, MarkedCall
    <3>3. CallsOK'
      BY <3>1, <3>2 DEF TypesOK, CallsOK
    <3>4. MemoryOK' /\ Faithful(sent)'
      BY <2>7, MarkedMemory DEF MemoryOK, Faithful, Entries
    <3> QED
      BY <3>1, <3>3, <3>4 DEF TypesOK, TablesOK, EventsOK
  <2>8. CASE Broadcast(l) \/ BroadcastRepeat(l)
    <3>1. CallsOK'
      BY <2>8, MovedCall DEF Broadcast, BroadcastRepeat, CallsOK, TypesOK
    <3>2. UNCHANGED <<rows, stored, count, sent, clock, calm>>
      BY <2>8 DEF Broadcast, BroadcastRepeat
    <3>3. events' \in Seq(Events) /\ lost' \in SUBSET (Packets \X Nat)
      BY <2>8, EventsStep DEF TypesOK, EventsOK
    <3> QED
      BY <3>1, <3>2, <3>3 DEF TypesOK, TablesOK, MemoryOK, EventsOK, Faithful, Entries
  <2> QED
    BY <1>2, <2>1, <2>2, <2>3, <2>4, <2>5, <2>6, <2>7, <2>8 DEF HandlePacket
<1> QED
  BY <1>1, <1>2, OutsideSteps

-----------------------------------------------------------------------------
(* Counts: the insert that adds a pair takes the next number, and nothing  *)
(* else does.                                                              *)

SamePledges ==
  \A l \in Links :
    /\ Pledged(l)' <=> Pledged(l)
    /\ Pledged(l) => call'[l].count = call[l].count /\ call'[l].copy = call[l].copy
SameNumbers ==
  /\ SamePledges /\ count' = count /\ lost' = lost
  /\ \/ events' = events
     \/ \E e \in Events : e.repeat /\ e.count = 0 /\ e.first = FALSE /\ events' = Append(events, e)
NumberLost ==
  SamePledges /\ ~calm /\ events' = events /\ lost' = lost /\ \A p \in Packets : count'[p] >= count[p]

LEMMA UnpledgedMove ==
  ASSUME TypesOK, NEW l \in Links, \A m \in Links : m # l => call'[m] = call[m],
         ~Pledged(l), ~Pledged(l)'
  PROVE  SamePledges
BY DEF SamePledges, Pledged

LEMMA NumberSteps ==
  ASSUME TypesOK, [Next]_vars
  PROVE  /\ calm' = calm
         /\ \/ SameNumbers \/ NumberLost
            \/ \E l \in Links : InsertObservation(l) /\ PairOf(l) \notin stored
            \/ \E l \in Links : Broadcast(l)
<1>1. CASE Outside
  BY <1>1 DEF Outside, SameNumbers, SamePledges, Pledged
<1>2. ASSUME NEW l \in Links, HandlePacket(l)
      PROVE  /\ calm' = calm
             /\ \/ SameNumbers \/ NumberLost
                \/ InsertObservation(l) /\ PairOf(l) \notin stored
                \/ Broadcast(l)
  <2>1. CASE Suppress(l) \/ UpsertPacket(l)
    <3>1. call[l].pc = "idle" /\ call'[l].pc \in {"insert", "remember"}
      <4>1. call[l].pc = "idle"
        <5>1. call[l] = Idle
          BY <2>1 DEF Suppress, UpsertPacket, TakeNext
        <5> QED
          BY <5>1 DEF Idle
      <4> QED
        BY <2>1, <4>1, MovedCall
    <3>2. ~Pledged(l) /\ ~Pledged(l)'
      BY <3>1 DEF Pledged
    <3>3. count' = count /\ events' = events /\ lost' = lost /\ calm' = calm
      BY <2>1 DEF Suppress, UpsertPacket
    <3> QED
      BY <2>1, <3>2, <3>3, MovedCall, UnpledgedMove DEF SameNumbers
  <2>2. CASE UpsertFails(l)
    BY <2>2 DEF UpsertFails, SameNumbers, SamePledges, Pledged
  <2>3. CASE Remember(l)
    <3>1. call[l].pc = "remember" /\ call'[l].pc = "insert"
      BY <2>3, MovedCall DEF Remember
    <3>2. ~Pledged(l) /\ ~Pledged(l)'
      BY <3>1 DEF Pledged
    <3>3. count' = count /\ events' = events /\ lost' = lost /\ calm' = calm
      BY <2>3 DEF Remember
    <3> QED
      BY <2>3, <3>2, <3>3, MovedCall, UnpledgedMove DEF SameNumbers
  <2>4. CASE InsertObservation(l) /\ PairOf(l) \in stored
    <3>1. call[l].pc = "insert" /\ call'[l].pc = "mark" /\ ~call'[l].inserted
      BY <2>4, InsertedCall
    <3>2. ~Pledged(l) /\ ~Pledged(l)'
      BY <3>1 DEF Pledged
    <3>3. events' = events /\ lost' = lost /\ calm' = calm
      BY <2>4 DEF InsertObservation
    <3>4. count' \in [Packets -> Nat] /\ \A p \in Packets : count'[p] = count[p]
      BY <2>4, InsertedCall
    <3>5. count' = count
      BY <3>4 DEF TypesOK, TablesOK
    <3> QED
      BY <2>4, <3>2, <3>3, <3>5, InsertedCall, UnpledgedMove DEF SameNumbers
  <2>5. CASE InsertObservation(l) /\ PairOf(l) \notin stored
    BY <2>5 DEF InsertObservation
  <2>6. CASE InsertFails(l)
    <3>1. call[l].pc = "insert" /\ call'[l].pc = "idle" /\ ~calm /\ calm' = calm
      BY <2>6, MovedCall DEF InsertFails, Idle
    <3>2. ~Pledged(l) /\ ~Pledged(l)'
      BY <3>1 DEF Pledged
    <3>3. events' = events /\ lost' = lost
      BY <2>6 DEF InsertFails
    <3>4. call[l].copy.packet \in Packets
      BY <3>1, KeysTyped DEF Idle
    <3>5. \A p \in Packets : count'[p] >= count[p]
      BY <2>6, <3>4 DEF InsertFails, StorePair, TypesOK, TablesOK
    <3> QED
      BY <2>6, <3>1, <3>2, <3>3, <3>5, MovedCall, UnpledgedMove DEF NumberLost
  <2>7. CASE MarkSent(l)
    <3>1. call[l].pc = "mark" /\ call'[l].pc \in {"broadcast", "repeat", "idle"}
          /\ (call'[l].pc = "broadcast" <=> call[l].inserted)
          /\ (call[l].inserted => call'[l].count = call[l].count /\ call'[l].copy = call[l].copy)
      <4>1. call[l].pc = "mark"
        BY <2>7 DEF MarkSent
      <4>2. CASE call[l].inserted
        BY <2>7, <4>1, <4>2, MarkedCall
      <4>3. CASE ~call[l].inserted /\ Repeat(l)
        BY <2>7, <4>1, <4>3, MarkedCall
      <4>4. CASE ~call[l].inserted /\ ~Repeat(l)
        <5>1. call'[l].pc = "idle"
          BY <2>7, <4>4, MarkedCall DEF Idle
        <5> QED
          BY <4>1, <4>4, <5>1
      <4> QED
        BY <4>2, <4>3, <4>4
    <3>2. \A m \in Links : m # l => call'[m] = call[m]
      BY <2>7, MarkedCall
    <3>3. SamePledges
      BY <3>1, <3>2 DEF SamePledges, Pledged
    <3>4. count' = count /\ events' = events /\ lost' = lost /\ calm' = calm
      BY <2>7 DEF MarkSent
    <3> QED
      BY <3>3, <3>4 DEF SameNumbers
  <2>8. CASE Broadcast(l)
    BY <2>8 DEF Broadcast
  <2>9. CASE BroadcastRepeat(l)
    <3>1. call[l].pc = "repeat" /\ call'[l].pc = "idle"
      BY <2>9, MovedCall DEF BroadcastRepeat, Idle
    <3>2. ~Pledged(l) /\ ~Pledged(l)'
      BY <3>1 DEF Pledged
    <3>3. count' = count /\ lost' = lost /\ calm' = calm
      BY <2>9 DEF BroadcastRepeat
    <3>4. Due(l).count = 0 /\ Due(l).first = FALSE
      BY <3>1, DueTyped
    <3>5. \/ events' = events
          \/ \E e \in Events : e.repeat /\ e.count = 0 /\ e.first = FALSE /\ events' = Append(events, e)
      BY <2>9, <3>4, EventsStep
    <3> QED
      BY <2>9, <3>2, <3>3, <3>5, MovedCall, UnpledgedMove DEF SameNumbers
  <2> QED
    BY <1>2, <2>1, <2>2, <2>3, <2>4, <2>5, <2>6, <2>7, <2>8, <2>9 DEF HandlePacket
<1> QED
  BY <1>1, <1>2, OutsideSteps DEF Outside

LEMMA NumbersStep ==
  ASSUME TypesOK, TypesOK', [Next]_vars, Numbers, AllNumbered
  PROVE  Numbers' /\ AllNumbered'
<1>1. CASE SameNumbers /\ events' = events
  BY <1>1, NumberSteps DEF SameNumbers, SamePledges, Numbers, AllNumbered
<1>2. ASSUME SameNumbers, NEW e \in Events, e.repeat, e.count = 0, events' = Append(events, e)
      PROVE  Numbers' /\ AllNumbered'
  <2>1. /\ DOMAIN events = 1..Len(events) /\ DOMAIN events' = 1..(Len(events) + 1)
        /\ \A i \in 1..Len(events) : events'[i] = events[i]
        /\ events'[Len(events) + 1] = e /\ Len(events) \in Nat
    BY <1>2, PledgeTyped, Appended
  <2>2. \A i \in DOMAIN events' : (i \in DOMAIN events /\ events'[i] = events[i]) \/ events'[i] = e
    BY <2>1
  <2>3. \A i \in DOMAIN events : i \in DOMAIN events' /\ events'[i] = events[i]
    BY <2>1
  <2>4. count' = count /\ lost' = lost /\ SamePledges
    BY <1>2 DEF SameNumbers
  <2>5. Numbers'
    <3>1. \A i \in DOMAIN events' : IF events'[i].repeat THEN events'[i].count = 0
                                    ELSE events'[i].count \in 1..count'[events'[i].packet]
      BY <1>2, <2>2, <2>4 DEF Numbers
    <3>2. \A l \in Links : Pledged(l)' => call'[l].count \in 1..count'[call'[l].copy.packet]
      BY <2>4 DEF Numbers, SamePledges
    <3>3. \A i, j \in DOMAIN events' :
            events'[i].packet = events'[j].packet /\ events'[i].count > 0 /\ events'[i].count = events'[j].count
              => i = j
      BY <1>2, <2>2 DEF Numbers
    <3>4. \A i \in DOMAIN events', l \in Links :
            Pledged(l)' /\ events'[i].packet = call'[l].copy.packet => events'[i].count # call'[l].count
      <4>1. \A l \in Links : Pledged(l) => call[l].count # 0
        BY PledgeTyped DEF Numbers
      <4> QED
        BY <1>2, <2>2, <2>4, <4>1 DEF Numbers, SamePledges
    <3>5. \A l, m \in Links :
            /\ Pledged(l)' /\ Pledged(m)' /\ call'[l].copy.packet = call'[m].copy.packet
            /\ call'[l].count = call'[m].count
            => l = m
      BY <2>4 DEF Numbers, SamePledges
    <3> QED
      BY <3>1, <3>2, <3>3, <3>4, <3>5 DEF Numbers
  <2>6. AllNumbered'
    <3>1. ASSUME calm, NEW r \in Packets, NEW n \in 1..count[r]
          PROVE  \/ <<r, n>> \in lost'
                 \/ \E i \in DOMAIN events' : events'[i].packet = r /\ ~events'[i].repeat /\ events'[i].count = n
                 \/ \E m \in Links : Pledged(m)' /\ call'[m].copy.packet = r /\ call'[m].count = n
      BY <2>3, <2>4, <3>1 DEF AllNumbered, SamePledges
    <3> QED
      BY <2>4, <3>1, NumberSteps DEF AllNumbered
  <2> QED
    BY <2>5, <2>6
<1>3. CASE NumberLost
  <2>1. Numbers'
    <3>1. \A p \in Packets, n \in Nat : n \in 1..count[p] => n \in 1..count'[p]
      BY <1>3 DEF NumberLost, TypesOK, TablesOK
    <3>2. \A i \in DOMAIN events' : IF events'[i].repeat THEN events'[i].count = 0
                                    ELSE events'[i].count \in 1..count'[events'[i].packet]
      BY <1>3, <3>1, PledgeTyped DEF NumberLost, Numbers
    <3>3. \A l \in Links : Pledged(l)' => call'[l].count \in 1..count'[call'[l].copy.packet]
      BY <1>3, <3>1, PledgeTyped DEF NumberLost, SamePledges, Numbers
    <3>4. SamePledges /\ events' = events
      BY <1>3 DEF NumberLost
    <3> QED
      BY <3>2, <3>3, <3>4 DEF SamePledges, Numbers
  <2>2. AllNumbered'
    BY <1>3, NumberSteps DEF NumberLost, AllNumbered
  <2> QED
    BY <2>1, <2>2
<1>4. ASSUME NEW l \in Links, InsertObservation(l), PairOf(l) \notin stored
      PROVE  Numbers' /\ AllNumbered'
  <2>1. PICK p \in Packets : p = call[l].copy.packet
    BY <1>4, InsertedCall DEF BegunCalls, Copies
  <2>2. /\ ~Pledged(l) /\ Pledged(l)'
        /\ call'[l].copy.packet = p /\ call'[l].count = count[p] + 1
        /\ count'[p] = count[p] + 1 /\ \A r \in Packets : r # p => count'[r] = count[r]
    BY <1>4, <2>1, InsertedCall DEF Pledged
  <2>3. \A m \in Links : m # l => /\ Pledged(m)' <=> Pledged(m)
                                  /\ Pledged(m) => call'[m].count = call[m].count /\ call'[m].copy = call[m].copy
    BY <1>4, InsertedCall DEF Pledged
  <2>4. events' = events /\ lost' = lost
    BY <1>4 DEF InsertObservation
  <2>5. count[p] \in Nat
    BY PledgeTyped
  <2>6. \A r \in Packets, n \in Nat : n \in 1..count[r] => n \in 1..count'[r]
    BY <2>2, <2>5
  <2>7. Numbers'
    <3>1. \A i \in DOMAIN events' : IF events'[i].repeat THEN events'[i].count = 0
                                    ELSE events'[i].count \in 1..count'[events'[i].packet]
      BY <2>4, <2>6, PledgeTyped DEF Numbers
    <3>2. \A m \in Links : Pledged(m)' => call'[m].count \in 1..count'[call'[m].copy.packet]
      BY <2>2, <2>3, <2>5, <2>6, PledgeTyped DEF Numbers
    <3>3. \A i, j \in DOMAIN events' :
            events'[i].packet = events'[j].packet /\ events'[i].count > 0 /\ events'[i].count = events'[j].count
              => i = j
      BY <2>4 DEF Numbers
    <3>4. \A i \in DOMAIN events : events[i].packet = p => events[i].count # count[p] + 1
      BY <2>5, PledgeTyped DEF Numbers
    <3>5. \A m \in Links : Pledged(m) /\ call[m].copy.packet = p => call[m].count # count[p] + 1
      BY <2>5, PledgeTyped DEF Numbers
    <3>6. \A i \in DOMAIN events', m \in Links :
            Pledged(m)' /\ events'[i].packet = call'[m].copy.packet => events'[i].count # call'[m].count
      BY <2>2, <2>3, <2>4, <3>4 DEF Numbers
    <3>7. \A k, m \in Links :
            /\ Pledged(k)' /\ Pledged(m)' /\ call'[k].copy.packet = call'[m].copy.packet
            /\ call'[k].count = call'[m].count
            => k = m
      BY <2>2, <2>3, <3>5 DEF Numbers
    <3> QED
      BY <3>1, <3>2, <3>3, <3>6, <3>7 DEF Numbers
  <2>8. AllNumbered'
    <3>1. ASSUME calm, NEW r \in Packets, NEW n \in 1..count'[r]
          PROVE  \/ <<r, n>> \in lost'
                 \/ \E i \in DOMAIN events' : events'[i].packet = r /\ ~events'[i].repeat /\ events'[i].count = n
                 \/ \E m \in Links : Pledged(m)' /\ call'[m].copy.packet = r /\ call'[m].count = n
      <4>1. CASE n \in 1..count[r]
        BY <2>2, <2>3, <2>4, <3>1, <4>1 DEF AllNumbered
      <4>2. CASE n \notin 1..count[r]
        <5>1. r = p /\ n = count[p] + 1
          BY <2>2, <2>5, <4>2
        <5> QED
          BY <2>2, <5>1
      <4> QED
        BY <4>1, <4>2
    <3> QED
      BY <3>1, NumberSteps DEF AllNumbered
  <2> QED
    BY <2>7, <2>8
<1>5. ASSUME NEW l \in Links, Broadcast(l), events' = Append(events, Due(l)), lost' = lost
      PROVE  Numbers' /\ AllNumbered'
  <2>1. call[l].pc = "broadcast"
    BY <1>5 DEF Broadcast
  <2>2. PICK e \in Events : e = Due(l)
    BY <1>5, EventsStep
  <2>3. /\ events' = Append(events, e) /\ ~e.repeat /\ e.packet = call[l].copy.packet
        /\ e.count = call[l].count /\ count' = count
    BY <1>5, <2>1, <2>2, EventsStep, DueTyped DEF Broadcast
  <2>4. /\ DOMAIN events = 1..Len(events) /\ DOMAIN events' = 1..(Len(events) + 1)
        /\ \A i \in 1..Len(events) : events'[i] = events[i]
        /\ events'[Len(events) + 1] = e /\ Len(events) \in Nat
    BY <2>3, PledgeTyped, Appended
  <2>5. \A i \in DOMAIN events' :
          (i \in DOMAIN events /\ events'[i] = events[i]) \/ (i = Len(events) + 1 /\ events'[i] = e)
    BY <2>4
  <2>6. \A i \in DOMAIN events : i \in DOMAIN events' /\ events'[i] = events[i]
    BY <2>4
  <2>7. Len(events) + 1 \in DOMAIN events' /\ events'[Len(events) + 1] = e
    BY <2>4
  <2>8. Pledged(l) /\ call'[l].pc = "idle" /\ ~Pledged(l)'
    BY <1>5, <2>1, MovedCall DEF Pledged, Idle
  <2>9. \A m \in Links : m # l => /\ Pledged(m)' <=> Pledged(m)
                                  /\ Pledged(m) => call'[m].count = call[m].count /\ call'[m].copy = call[m].copy
    BY <1>5, MovedCall DEF Pledged
  <2>10. Numbers'
    <3>1. \A i \in DOMAIN events' : IF events'[i].repeat THEN events'[i].count = 0
                                    ELSE events'[i].count \in 1..count'[events'[i].packet]
      BY <2>3, <2>5, <2>8 DEF Numbers
    <3>2. \A m \in Links : Pledged(m)' => call'[m].count \in 1..count'[call'[m].copy.packet]
      BY <2>3, <2>8, <2>9 DEF Numbers
    <3>3. \A i \in DOMAIN events : events[i].packet = e.packet => events[i].count # e.count
      BY <2>3, <2>8 DEF Numbers
    <3>4. \A i, j \in DOMAIN events' :
            events'[i].packet = events'[j].packet /\ events'[i].count > 0 /\ events'[i].count = events'[j].count
              => i = j
      BY <2>5, <3>3 DEF Numbers
    <3>5. \A i \in DOMAIN events', m \in Links :
            Pledged(m)' /\ events'[i].packet = call'[m].copy.packet => events'[i].count # call'[m].count
      BY <2>3, <2>5, <2>8, <2>9 DEF Numbers
    <3>6. \A k, m \in Links :
            /\ Pledged(k)' /\ Pledged(m)' /\ call'[k].copy.packet = call'[m].copy.packet
            /\ call'[k].count = call'[m].count
            => k = m
      BY <2>8, <2>9 DEF Numbers
    <3> QED
      BY <3>1, <3>2, <3>4, <3>5, <3>6 DEF Numbers
  <2>11. AllNumbered'
    <3>1. ASSUME calm, NEW r \in Packets, NEW n \in 1..count[r]
          PROVE  \/ <<r, n>> \in lost'
                 \/ \E i \in DOMAIN events' : events'[i].packet = r /\ ~events'[i].repeat /\ events'[i].count = n
                 \/ \E m \in Links : Pledged(m)' /\ call'[m].copy.packet = r /\ call'[m].count = n
      <4>1. CASE \E i \in DOMAIN events : events[i].packet = r /\ ~events[i].repeat /\ events[i].count = n
        BY <2>6, <4>1
      <4>2. CASE \E m \in Links : Pledged(m) /\ call[m].copy.packet = r /\ call[m].count = n
        BY <2>3, <2>7, <2>9, <4>2
      <4>3. CASE <<r, n>> \in lost
        BY <1>5, <4>3
      <4> QED
        BY <3>1, <4>1, <4>2, <4>3 DEF AllNumbered
    <3> QED
      BY <2>3, <3>1, NumberSteps DEF AllNumbered
  <2> QED
    BY <2>10, <2>11
<1>6. ASSUME NEW l \in Links, Broadcast(l), events' = events,
             lost' = lost \cup {<<call[l].copy.packet, call[l].count>>}
      PROVE  Numbers' /\ AllNumbered'
  <2>1. Pledged(l) /\ ~Pledged(l)' /\ count' = count /\ calm' = calm
    BY <1>6, MovedCall DEF Broadcast, Pledged, Idle
  <2>2. \A m \in Links : m # l => /\ Pledged(m)' <=> Pledged(m)
                                  /\ Pledged(m) => call'[m].count = call[m].count /\ call'[m].copy = call[m].copy
    BY <1>6, MovedCall DEF Pledged
  <2>3. Numbers'
    BY <1>6, <2>1, <2>2 DEF Numbers
  <2>4. ASSUME calm, NEW r \in Packets, NEW n \in 1..count[r]
        PROVE  \/ <<r, n>> \in lost'
               \/ \E i \in DOMAIN events' : events'[i].packet = r /\ ~events'[i].repeat /\ events'[i].count = n
               \/ \E m \in Links : Pledged(m)' /\ call'[m].copy.packet = r /\ call'[m].count = n
    <3>1. CASE <<r, n>> \in lost \/ (r = call[l].copy.packet /\ n = call[l].count)
      BY <1>6, <3>1
    <3>2. CASE \E i \in DOMAIN events : events[i].packet = r /\ ~events[i].repeat /\ events[i].count = n
      BY <1>6, <3>2
    <3>3. CASE \E m \in Links : m # l /\ Pledged(m) /\ call[m].copy.packet = r /\ call[m].count = n
      BY <2>2, <3>3
    <3> QED
      BY <2>4, <3>1, <3>2, <3>3 DEF AllNumbered
  <2>5. AllNumbered'
    BY <2>1, <2>4 DEF AllNumbered
  <2> QED
    BY <2>3, <2>5
<1> QED
  BY <1>1, <1>2, <1>3, <1>4, <1>5, <1>6, NumberSteps, EventsStep DEF SameNumbers

\* A number is lost by the call that held it, and drawn by no other.
LEMMA LostStep ==
  ASSUME TypesOK, TypesOK', [Next]_vars, Numbers, LostNumbers
  PROVE  LostNumbers'
<1> SUFFICES ASSUME NEW p \in Packets, NEW n \in Nat, <<p, n>> \in lost'
             PROVE  /\ n \in 1..count'[p]
                    /\ \A i \in DOMAIN events' : events'[i].packet = p => events'[i].count # n
                    /\ \A l \in Links : Pledged(l)' /\ call'[l].copy.packet = p => call'[l].count # n
  BY DEF LostNumbers
<1>1. <<p, n>> \in lost =>
        /\ n \in 1..count[p] /\ n # 0
        /\ \A i \in DOMAIN events : events[i].packet = p => events[i].count # n
        /\ \A l \in Links : Pledged(l) /\ call[l].copy.packet = p => call[l].count # n
  BY DEF LostNumbers
<1>2. CASE SameNumbers /\ events' = events
  BY <1>1, <1>2 DEF SameNumbers, SamePledges
<1>3. ASSUME SameNumbers, NEW e \in Events, e.count = 0, events' = Append(events, e)
      PROVE  /\ n \in 1..count'[p]
             /\ \A i \in DOMAIN events' : events'[i].packet = p => events'[i].count # n
             /\ \A l \in Links : Pledged(l)' /\ call'[l].copy.packet = p => call'[l].count # n
  <2>1. \A i \in DOMAIN events' : (i \in DOMAIN events /\ events'[i] = events[i]) \/ events'[i] = e
    BY <1>3, PledgeTyped, Appended
  <2>2. lost' = lost /\ count' = count /\ SamePledges
    BY <1>3 DEF SameNumbers
  <2> QED
    BY <1>1, <1>3, <2>1, <2>2 DEF SamePledges
<1>4. CASE NumberLost
  <2>1. count[p] \in Nat /\ count'[p] \in Nat /\ count'[p] >= count[p]
    BY <1>4 DEF NumberLost, TypesOK, TablesOK
  <2> QED
    BY <1>1, <1>4, <2>1 DEF NumberLost, SamePledges
<1>5. ASSUME NEW l \in Links, InsertObservation(l), PairOf(l) \notin stored
      PROVE  /\ n \in 1..count'[p]
             /\ \A i \in DOMAIN events' : events'[i].packet = p => events'[i].count # n
             /\ \A m \in Links : Pledged(m)' /\ call'[m].copy.packet = p => call'[m].count # n
  <2>1. PICK r \in Packets : r = call[l].copy.packet
    BY <1>5, InsertedCall DEF BegunCalls, Copies
  <2>2. /\ call'[l].copy.packet = r /\ call'[l].count = count[r] + 1
        /\ count'[r] = count[r] + 1 /\ \A q \in Packets : q # r => count'[q] = count[q]
    BY <1>5, <2>1, InsertedCall
  <2>3. \A m \in Links : m # l => /\ Pledged(m)' <=> Pledged(m)
                                  /\ Pledged(m) => call'[m].count = call[m].count /\ call'[m].copy = call[m].copy
    BY <1>5, InsertedCall DEF Pledged
  <2>4. events' = events /\ lost' = lost
    BY <1>5 DEF InsertObservation
  <2>5. count[p] \in Nat /\ count[r] \in Nat
    BY PledgeTyped
  <2>6. n \in 1..count'[p] /\ (p = r => n # count[r] + 1)
    BY <1>1, <2>2, <2>4, <2>5
  <2> QED
    BY <1>1, <2>2, <2>3, <2>4, <2>6
<1>6. ASSUME NEW l \in Links, Broadcast(l)
      PROVE  /\ n \in 1..count'[p]
             /\ \A i \in DOMAIN events' : events'[i].packet = p => events'[i].count # n
             /\ \A m \in Links : Pledged(m)' /\ call'[m].copy.packet = p => call'[m].count # n
  <2>1. Pledged(l) /\ ~Pledged(l)' /\ count' = count /\ call[l].pc = "broadcast"
    BY <1>6, MovedCall DEF Broadcast, Pledged, Idle
  <2>2. \A m \in Links : m # l => /\ Pledged(m)' <=> Pledged(m)
                                  /\ Pledged(m) => call'[m].count = call[m].count /\ call'[m].copy = call[m].copy
    BY <1>6, MovedCall DEF Pledged
  <2>3. CASE events' = Append(events, Due(l)) /\ lost' = lost
    <3>1. \A i \in DOMAIN events' : (i \in DOMAIN events /\ events'[i] = events[i]) \/ events'[i] = Due(l)
      BY <1>6, <2>3, EventsStep, PledgeTyped, Appended
    <3>2. Due(l).packet = call[l].copy.packet /\ Due(l).count = call[l].count
      BY <2>1, DueTyped
    <3> QED
      BY <1>1, <2>1, <2>2, <2>3, <3>1, <3>2
  <2>4. CASE events' = events /\ lost' = lost \cup {<<call[l].copy.packet, call[l].count>>}
    <3>1. CASE <<p, n>> \in lost
      BY <1>1, <2>1, <2>2, <2>4, <3>1
    <3>2. CASE p = call[l].copy.packet /\ n = call[l].count
      <4>1. n \in 1..count[p]
        BY <2>1, <3>2 DEF Numbers
      <4>2. \A i \in DOMAIN events : events[i].packet = p => events[i].count # n
        BY <2>1, <3>2 DEF Numbers
      <4>3. \A m \in Links : Pledged(m) /\ m # l /\ call[m].copy.packet = p => call[m].count # n
        BY <2>1, <3>2 DEF Numbers
      <4> QED
        BY <2>1, <2>2, <2>4, <4>1, <4>2, <4>3
    <3> QED
      BY <2>4, <3>1, <3>2
  <2> QED
    BY <1>6, <2>3, <2>4, EventsStep
<1> QED
  BY <1>2, <1>3, <1>4, <1>5, <1>6, NumberSteps DEF SameNumbers

-----------------------------------------------------------------------------
(* The row's first: the call whose statement inserted it, then its event.  *)

LEMMA AnnouncedInit ==
  ASSUME Init
  PROVE  Announced /\ Numbers /\ LostNumbers /\ AllNumbered /\ Faithful(sent)
<1>1. \A l \in Links : call[l].pc = "idle"
  BY DEF Init, Idle
<1>2. /\ events = <<>> /\ lost = {} /\ sent = [at |-> {}, order |-> <<>>]
      /\ \A p \in Packets : count[p] = 0
  BY DEF Init
<1>3. Announced
  BY <1>1, <1>2 DEF Announced, Announcing, Unmarked
<1>4. Numbers /\ LostNumbers /\ AllNumbered
  BY <1>1, <1>2 DEF Numbers, LostNumbers, AllNumbered, Pledged
<1>5. Faithful(sent)
  BY <1>2 DEF Faithful, Entries
<1> QED
  BY <1>3, <1>4, <1>5

\* Nothing begins to announce a row.
NoneAnnounces ==
  /\ rows \subseteq rows'
  /\ \A l \in Links : Announcing(l)' => Announcing(l) /\ call'[l].copy = call[l].copy
  /\ \/ events' = events
     \/ \E e \in Events : ~e.first /\ events' = Append(events, e)

LEMMA OneMoves ==
  ASSUME TypesOK, NEW l \in Links, \A m \in Links : m # l => call'[m] = call[m],
         Announcing(l)' => Announcing(l) /\ call'[l].copy = call[l].copy,
         rows \subseteq rows', events' = events
  PROVE  NoneAnnounces
BY DEF NoneAnnounces, Announcing

LEMMA AnnounceSteps ==
  ASSUME TypesOK, [Next]_vars
  PROVE  \/ NoneAnnounces
         \/ \E l \in Links : UpsertPacket(l) /\ Head(inbox[l]).packet \notin rows
         \/ \E l \in Links : Broadcast(l) /\ Announcing(l) /\ events' = Append(events, Due(l))
<1>1. CASE Outside
  BY <1>1 DEF Outside, NoneAnnounces, Announcing
<1>2. ASSUME NEW l \in Links, HandlePacket(l)
      PROVE  \/ NoneAnnounces
             \/ UpsertPacket(l) /\ Head(inbox[l]).packet \notin rows
             \/ Broadcast(l) /\ Announcing(l) /\ events' = Append(events, Due(l))
  <2>1. CASE Suppress(l) \/ (UpsertPacket(l) /\ Head(inbox[l]).packet \in rows)
    <3>1. ~call'[l].isNew
      <4>1. Suppress(l) => ~UpsertPacket(l)
        BY DEF Suppress, UpsertPacket
      <4> QED
        BY <2>1, <4>1, MovedCall
    <3>2. rows \subseteq rows' /\ events' = events
      BY <2>1 DEF Suppress, UpsertPacket
    <3>3. ~Announcing(l)'
      BY <3>1 DEF Announcing
    <3> QED
      BY <2>1, <3>2, <3>3, MovedCall, OneMoves
  <2>2. CASE UpsertFails(l)
    BY <2>2 DEF UpsertFails, NoneAnnounces, Announcing
  <2>3. CASE Remember(l)
    <3>1. rows' = rows /\ events' = events /\ call[l].pc = "remember"
      BY <2>3 DEF Remember
    <3>2. call'[l].copy = call[l].copy /\ call'[l].isNew = call[l].isNew
      BY <2>3, MovedCall
    <3>3. Announcing(l)' => Announcing(l)
      BY <3>1, <3>2 DEF Announcing, Unmarked
    <3> QED
      BY <2>3, <3>1, <3>2, <3>3, MovedCall, OneMoves
  <2>4. CASE InsertObservation(l)
    <3>1. rows' = rows /\ events' = events /\ call[l].pc = "insert"
      BY <2>4 DEF InsertObservation
    <3>2. call'[l].copy = call[l].copy /\ call'[l].isNew = call[l].isNew
      BY <2>4, InsertedCall
    <3>3. Announcing(l)' => Announcing(l)
      BY <3>1, <3>2 DEF Announcing, Unmarked
    <3> QED
      BY <2>4, <3>1, <3>2, <3>3, InsertedCall, OneMoves
  <2>5. CASE InsertFails(l)
    <3>1. call'[l].pc = "idle"
      BY <2>5, MovedCall DEF Idle
    <3>2. rows' = rows /\ events' = events
      BY <2>5 DEF InsertFails
    <3>3. ~Announcing(l)'
      BY <3>1 DEF Announcing, Unmarked
    <3> QED
      BY <2>5, <3>2, <3>3, MovedCall, OneMoves
  <2>6. CASE MarkSent(l)
    <3>1. rows' = rows /\ events' = events /\ call[l].pc = "mark"
      BY <2>6 DEF MarkSent
    <3>2. CASE call[l].inserted
      BY <2>6, <3>1, <3>2, MarkedCall, OneMoves DEF Announcing, Unmarked
    <3>3. CASE ~call[l].inserted
      <4>1. call'[l].pc = "repeat" \/ call'[l].pc = "idle"
        BY <2>6, <3>3, MarkedCall DEF Idle
      <4>2. ~Announcing(l)'
        BY <4>1 DEF Announcing, Unmarked
      <4>3. \A m \in Links : m # l => call'[m] = call[m]
        BY <2>6, MarkedCall
      <4> QED
        BY <3>1, <4>2, <4>3, OneMoves
    <3> QED
      BY <3>2, <3>3
  <2>7. CASE Broadcast(l)
    <3>1. call[l].pc = "broadcast" /\ call'[l].pc = "idle" /\ rows' = rows
      BY <2>7, MovedCall DEF Broadcast, Idle
    <3>2. \A m \in Links : m # l => call'[m] = call[m]
      BY <2>7, MovedCall
    <3>3. CASE events' = events
      BY <3>1, <3>2, <3>3 DEF NoneAnnounces, Announcing, Unmarked
    <3>4. CASE events' = Append(events, Due(l)) /\ ~Announcing(l)
      <4>1. ~Due(l).first /\ Due(l) \in Events
        BY <2>7, <3>1, <3>4, DueTyped, EventsStep DEF Announcing
      <4> QED
        BY <3>1, <3>2, <3>4, <4>1 DEF NoneAnnounces, Announcing, Unmarked
    <3> QED
      BY <2>7, <3>3, <3>4, EventsStep
  <2>8. CASE BroadcastRepeat(l)
    <3>1. call[l].pc = "repeat" /\ call'[l].pc = "idle" /\ rows' = rows
      BY <2>8, MovedCall DEF BroadcastRepeat, Idle
    <3>2. ~Due(l).first
      BY <3>1, DueTyped
    <3>3. events' = events \/ (Due(l) \in Events /\ events' = Append(events, Due(l)))
      BY <2>8, EventsStep
    <3>4. \A m \in Links : m # l => call'[m] = call[m]
      BY <2>8, MovedCall
    <3> QED
      BY <3>1, <3>2, <3>3, <3>4 DEF NoneAnnounces, Announcing, Unmarked
  <2> QED
    BY <1>2, <2>1, <2>2, <2>3, <2>4, <2>5, <2>6, <2>7, <2>8 DEF HandlePacket
<1> QED
  BY <1>1, <1>2, OutsideSteps

LEMMA AnnouncedStep ==
  ASSUME TypesOK, [Next]_vars, Announced
  PROVE  Announced'
<1>1. CASE NoneAnnounces /\ events' = events
  BY <1>1 DEF NoneAnnounces, Announced
<1>2. ASSUME NoneAnnounces, NEW e \in Events, ~e.first, events' = Append(events, e)
      PROVE  Announced'
  <2>1. /\ DOMAIN events = 1..Len(events) /\ DOMAIN events' = 1..(Len(events) + 1)
        /\ \A i \in 1..Len(events) : events'[i] = events[i]
        /\ events'[Len(events) + 1] = e /\ Len(events) \in Nat
    BY <1>2, PledgeTyped, Appended
  <2>2. \A i \in DOMAIN events' : (i \in DOMAIN events /\ events'[i] = events[i]) \/ events'[i] = e
    BY <2>1
  <2> QED
    BY <1>2, <2>2 DEF NoneAnnounces, Announced
<1>3. ASSUME NEW l \in Links, UpsertPacket(l), Head(inbox[l]).packet \notin rows
      PROVE  Announced'
  <2>1. PICK p : p = Head(inbox[l]).packet
    OBVIOUS
  <2>2. p \notin rows /\ rows' = rows \cup {p} /\ events' = events
    BY <1>3, <2>1 DEF UpsertPacket
  <2>3. call'[l].copy.packet = p
    BY <1>3, <2>1, MovedCall
  <2>4. \A m \in Links : m # l => call'[m] = call[m]
    BY <1>3, MovedCall
  <2>5. \A m \in Links : m # l => (Announcing(m)' <=> Announcing(m))
    BY <2>4 DEF Announcing
  <2>6. /\ \A i \in DOMAIN events' : events'[i].first => events'[i].packet \in rows'
        /\ \A m \in Links : Announcing(m)' => call'[m].copy.packet \in rows'
    BY <2>2, <2>3, <2>4, <2>5 DEF Announced
  <2>7. /\ \A i \in DOMAIN events : events[i].first => events[i].packet # p
        /\ \A m \in Links : Announcing(m) => call[m].copy.packet # p
    BY <2>2 DEF Announced
  <2>8. \A i \in DOMAIN events', m \in Links :
          events'[i].first /\ Announcing(m)' => events'[i].packet # call'[m].copy.packet
    BY <2>2, <2>3, <2>4, <2>5, <2>7 DEF Announced
  <2>9. \A k, m \in Links :
          Announcing(k)' /\ Announcing(m)' /\ call'[k].copy.packet = call'[m].copy.packet => k = m
    BY <2>3, <2>4, <2>5, <2>7 DEF Announced
  <2> QED
    BY <2>2, <2>6, <2>8, <2>9 DEF Announced
<1>4. ASSUME NEW l \in Links, Broadcast(l), Announcing(l), events' = Append(events, Due(l))
      PROVE  Announced'
  <2>1. call[l].pc = "broadcast" /\ call'[l].pc = "idle" /\ rows' = rows
    BY <1>4, MovedCall DEF Broadcast, Idle
  <2>2. PICK e \in Events : e = Due(l)
    BY <1>4, EventsStep
  <2>3. events' = Append(events, e) /\ e.packet = call[l].copy.packet
    BY <1>4, <2>1, <2>2, DueTyped
  <2>4. /\ DOMAIN events = 1..Len(events) /\ DOMAIN events' = 1..(Len(events) + 1)
        /\ \A i \in 1..Len(events) : events'[i] = events[i]
        /\ events'[Len(events) + 1] = e /\ Len(events) \in Nat
    BY <2>3, PledgeTyped, Appended
  <2>5. \A i \in DOMAIN events' :
          (i \in DOMAIN events /\ events'[i] = events[i]) \/ (i = Len(events) + 1 /\ events'[i] = e)
    BY <2>4
  <2>6. \A m \in Links : m # l => call'[m] = call[m]
    BY <1>4, MovedCall
  <2>7. ~Announcing(l)' /\ \A m \in Links : m # l => (Announcing(m)' <=> Announcing(m))
    BY <2>1, <2>6 DEF Announcing, Unmarked
  <2>8. e.packet \in rows /\ \A m \in Links : m # l /\ Announcing(m) => call[m].copy.packet # e.packet
    BY <1>4, <2>3 DEF Announced
  <2>9. \A i \in DOMAIN events : events[i].first => events[i].packet # e.packet
    BY <1>4, <2>3 DEF Announced
  <2>10. /\ \A i \in DOMAIN events' : events'[i].first => events'[i].packet \in rows'
         /\ \A m \in Links : Announcing(m)' => call'[m].copy.packet \in rows'
    BY <2>1, <2>5, <2>6, <2>7, <2>8 DEF Announced
  <2>11. \A i, j \in DOMAIN events' :
           events'[i].first /\ events'[j].first /\ events'[i].packet = events'[j].packet => i = j
    BY <2>5, <2>9 DEF Announced
  <2>12. \A i \in DOMAIN events', m \in Links :
           events'[i].first /\ Announcing(m)' => events'[i].packet # call'[m].copy.packet
    BY <2>5, <2>6, <2>7, <2>8 DEF Announced
  <2>13. \A k, m \in Links :
           Announcing(k)' /\ Announcing(m)' /\ call'[k].copy.packet = call'[m].copy.packet => k = m
    BY <2>6, <2>7 DEF Announced
  <2> QED
    BY <2>10, <2>11, <2>12, <2>13 DEF Announced
<1> QED
  BY <1>1, <1>2, <1>3, <1>4, AnnounceSteps DEF NoneAnnounces

-----------------------------------------------------------------------------
(* The storing half: types and numbers.                                    *)

Storing == TypesOK /\ Faithful(sent) /\ Numbers /\ LostNumbers /\ AllNumbered /\ Announced

\* Whatever the two workers, the memory of recent hashes and failures do,
\* the inserts' numbers and the rows' announcements stay apart.
THEOREM Stored == Spec => []Storing
<1>1. Init => Storing
  BY TypesInit, AnnouncedInit DEF Storing
<1>2. Storing /\ [Next]_vars => Storing'
  BY TypesStep, NumbersStep, LostStep, AnnouncedStep DEF Storing
<1> QED
  BY <1>1, <1>2, PTL DEF Spec

\* No two events of a packet add its row or carry the same count.
THEOREM Once == Spec => []NumberedOnce
<1>1. Storing => NumberedOnce
  BY DEF Storing, Numbers, Announced, NumberedOnce
<1> QED
  BY <1>1, Stored, PTL

\* No number is both streamed and lost; and when all reports are handled,
\* the numbers streamed and those a full hub dropped are all up to the row's.
THEOREM AllAccounted == Spec => []StoredIsStreamedOrLost
<1>1. ASSUME Storing, NEW p \in Packets
      PROVE  StreamedCounts(p) \cap LostCounts(p) = {}
  <2>1. count[p] \in Nat
    BY <1>1, PledgeTyped DEF Storing
  <2>2. ASSUME NEW i \in DOMAIN events, events[i].packet = p, events[i].count \in LostCounts(p)
        PROVE  FALSE
    BY <1>1, <2>1, <2>2 DEF Storing, LostNumbers, LostCounts
  <2> QED
    BY <2>2 DEF StreamedCounts
<1>2. ASSUME Storing, Quiet, calm, NEW p \in Packets
      PROVE  1..count[p] = StreamedCounts(p) \cup LostCounts(p)
  <2>1. \A l \in Links : ~Pledged(l)
    BY <1>2 DEF Quiet, Pledged, Idle
  <2>2. \A n \in 1..count[p] :
          <<p, n>> \in lost
          \/ \E i \in DOMAIN events : events[i].packet = p /\ ~events[i].repeat /\ events[i].count = n
    BY <1>2, <2>1 DEF Storing, AllNumbered
  <2>3. \A i \in DOMAIN events : events[i].packet = p /\ ~events[i].repeat => events[i].count \in 1..count[p]
    BY <1>2 DEF Storing, Numbers
  <2> QED
    BY <2>2, <2>3 DEF StreamedCounts, LostCounts
<1>3. Storing => StoredIsStreamedOrLost
  BY <1>1, <1>2 DEF StoredIsStreamedOrLost
<1> QED
  BY <1>3, Stored, PTL

-----------------------------------------------------------------------------
(* The memory knows only what is stored.                                   *)

LEMMA LinksTyped ==
  /\ \A l \in Links : l[1] \in Brokers /\ l[2] \in Observers /\ l = <<l[1], l[2]>>
  /\ \A b \in Brokers, o \in Observers : <<b, o>> \in Links /\ <<b, o>>[1] = b /\ <<b, o>>[2] = o
BY DEF Links

LEMMA KeysDiffer ==
  /\ \A p, o, r, n, q : <<p, o>> # <<r, n, q>>
  /\ \A p, o, r, n : <<p, o>> = <<r, n>> => p = r /\ o = n
  /\ \A p, o, q, r, n, t : <<p, o, q>> = <<r, n, t>> => p = r /\ o = n /\ q = t
<1>1. ASSUME NEW p, NEW o, NEW r, NEW n, NEW q PROVE <<p, o>> # <<r, n, q>>
  <2>1. DOMAIN <<p, o>> = 1..2 /\ DOMAIN <<r, n, q>> = 1..3
    OBVIOUS
  <2>2. 3 \in 1..3 /\ 3 \notin 1..2
    OBVIOUS
  <2> QED
    BY <2>1, <2>2
<1> QED
  BY <1>1

LEMMA MarkedKeys ==
  ASSUME TypesOK, Faithful(sent), NEW l \in Links, MarkSent(l)
  PROVE  /\ sent'.at \subseteq sent.at \cup {PairOf(l), HearingOf(l)}
         /\ \A e \in Entries(sent') : e \in Entries(sent) \/ e.at = clock
         /\ Room => \A e \in Entries(sent) : e \in Entries(sent') \/ clock - e.at >= SentTTL
<1>1. CASE call[l].copy.packet \in Traces
  BY <1>1, MarkedMemory
<1>2. CASE call[l].copy.packet \notin Traces
  <2>1. PICK k, h : k = PairOf(l) /\ h = HearingOf(l)
    OBVIOUS
  <2>2. k \in MemoryKeys /\ h \in MemoryKeys /\ sent' = Add(Add(sent, k), h)
    BY <1>2, <2>1, MarkedMemory
  <2>3. sent \in Memories /\ clock \in Nat
    BY DEF TypesOK, MemoryOK, EventsOK
  <2>4. PICK m : m = Add(sent, k)
    OBVIOUS
  <2>5. /\ m \in Memories /\ Faithful(m) /\ m.at \subseteq sent.at \cup {k}
        /\ Len(sent.order) \in Nat /\ Len(m.order) \in Nat /\ Len(m.order) <= Len(sent.order) + 1
        /\ \A e \in Entries(m) : e \in Entries(sent) \/ e = [key |-> k, at |-> clock]
        /\ Len(sent.order) < SentMax =>
              \A e \in Entries(sent) : e \in Entries(m) \/ clock - e.at >= SentTTL
    BY <2>2, <2>3, <2>4, AddEffect
  <2>6. /\ sent'.at \subseteq m.at \cup {h}
        /\ \A e \in Entries(sent') : e \in Entries(m) \/ e = [key |-> h, at |-> clock]
        /\ Len(m.order) < SentMax =>
              \A e \in Entries(m) : e \in Entries(sent') \/ clock - e.at >= SentTTL
    BY <2>2, <2>3, <2>4, <2>5, AddEffect
  <2>7. sent'.at \subseteq sent.at \cup {PairOf(l), HearingOf(l)}
    BY <2>1, <2>5, <2>6
  <2>8. \A e \in Entries(sent') : e \in Entries(sent) \/ e.at = clock
    BY <2>5, <2>6
  <2>9. Room => Len(sent.order) < SentMax /\ Len(m.order) < SentMax
    BY <2>5, HearingsAssumption DEF Room
  <2>10. Room => \A e \in Entries(sent) : e \in Entries(sent') \/ clock - e.at >= SentTTL
    BY <2>5, <2>6, <2>9
  <2> QED
    BY <2>7, <2>8, <2>10
<1> QED
  BY <1>1, <1>2

LEMMA MarkingInit ==
  ASSUME Init
  PROVE  Marking
<1>1. \A l \in Links : call[l].pc = "idle"
  BY DEF Init, Idle
<1>2. sent = [at |-> {}, order |-> <<>>]
  BY DEF Init
<1> QED
  BY <1>1, <1>2 DEF Marking, StoredKeys, Timely, Entries, MarkedStored

LEMMA MarkedStoredStep ==
  ASSUME TypesOK, [Next]_vars, MarkedStored
  PROVE  MarkedStored' /\ stored \subseteq stored'
<1>1. CASE Outside
  BY <1>1 DEF Outside, MarkedStored, PairOf
<1>2. ASSUME NEW l \in Links, HandlePacket(l)
      PROVE  /\ \A m \in Links : m # l => call'[m] = call[m]
             /\ stored \subseteq stored'
             /\ call'[l].pc \in {"mark", "broadcast", "repeat"} => PairOf(l)' \in stored'
  <2>1. CASE Suppress(l) \/ UpsertPacket(l)
    <3>1. call'[l].pc \in {"insert", "remember"}
      BY <2>1, MovedCall
    <3>2. stored' = stored
      BY <2>1 DEF Suppress, UpsertPacket
    <3>3. call'[l].pc \notin {"mark", "broadcast", "repeat"}
      BY <3>1
    <3> QED
      BY <2>1, <3>2, <3>3, MovedCall
  <2>2. CASE UpsertFails(l)
    BY <2>2 DEF UpsertFails, MarkedStored, PairOf
  <2>3. CASE Remember(l)
    <3>1. stored' = stored
      BY <2>3 DEF Remember
    <3> QED
      BY <2>3, <3>1, MovedCall
  <2>4. CASE InsertObservation(l)
    <3>1. PairOf(l)' = PairOf(l)
      BY <2>4, InsertedCall DEF PairOf
    <3> QED
      BY <2>4, <3>1, InsertedCall
  <2>5. CASE InsertFails(l) \/ Broadcast(l) \/ BroadcastRepeat(l)
    <3>1. stored \subseteq stored'
      BY <2>5 DEF InsertFails, StorePair, Broadcast, BroadcastRepeat
    <3>2. call'[l].pc = "idle"
      BY <2>5, MovedCall DEF Idle
    <3> QED
      BY <2>5, <3>1, <3>2, MovedCall
  <2>6. CASE MarkSent(l)
    <3>1. call[l].pc = "mark" /\ stored' = stored
      BY <2>6 DEF MarkSent
    <3>2. PairOf(l) \in stored
      BY <3>1 DEF MarkedStored
    <3>3. call'[l].copy = call[l].copy \/ call'[l].pc = "idle"
      BY <2>6, MarkedCall DEF Idle
    <3>4. call'[l].copy = call[l].copy => PairOf(l)' = PairOf(l)
      BY DEF PairOf
    <3> QED
      BY <2>6, <3>1, <3>2, <3>3, <3>4, MarkedCall
  <2> QED
    BY <1>2, <2>1, <2>2, <2>3, <2>4, <2>5, <2>6 DEF HandlePacket
<1>3. ASSUME NEW l \in Links, HandlePacket(l) PROVE MarkedStored' /\ stored \subseteq stored'
  <2>1. ASSUME NEW m \in Links, call'[m].pc \in {"mark", "broadcast", "repeat"}
        PROVE  PairOf(m)' \in stored'
    <3>1. CASE m = l
      BY <1>2, <1>3, <2>1, <3>1
    <3>2. CASE m # l
      BY <1>2, <1>3, <2>1, <3>2 DEF MarkedStored, PairOf
    <3> QED
      BY <3>1, <3>2
  <2> QED
    BY <1>2, <1>3, <2>1 DEF MarkedStored
<1> QED
  BY <1>1, <1>3, OutsideSteps DEF Outside

LEMMA ClockStep ==
  ASSUME TypesOK, [Next]_vars
  PROVE  /\ clock \in Nat /\ clock' \in Nat /\ clock' >= clock
         /\ sent' = sent \/ (clock' = clock /\ \E l \in Links : MarkSent(l))
<1>1. clock \in Nat
  BY DEF TypesOK, EventsOK
<1>2. CASE Outside
  BY <1>1, <1>2 DEF Outside
<1>3. ASSUME NEW l \in Links, HandlePacket(l) PROVE clock' = clock /\ (sent' = sent \/ MarkSent(l))
  BY <1>3 DEF HandlePacket, Suppress, UpsertPacket, UpsertFails, Remember, InsertObservation,
              InsertFails, MarkSent, Broadcast, BroadcastRepeat
<1> QED
  BY <1>1, <1>2, <1>3, OutsideSteps

LEMMA EntriesTyped ==
  ASSUME TypesOK
  PROVE  \A e \in Entries(sent) : e.key \in MemoryKeys /\ e.at \in Nat
<1>1. PICK S : S = [key : MemoryKeys, at : Nat]
  OBVIOUS
<1>2. sent.order \in Seq(S)
  BY <1>1 DEF TypesOK, MemoryOK, Memories
<1>3. \A i \in DOMAIN sent.order : sent.order[i] \in S
  BY <1>2
<1> QED
  BY <1>1, <1>3 DEF Entries

LEMMA MarkingStep ==
  ASSUME TypesOK, TypesOK', Faithful(sent), [Next]_vars, Marking
  PROVE  Marking'
<1>1. stored \subseteq stored' /\ MarkedStored'
  BY MarkedStoredStep DEF Marking
<1>2. CASE sent' = sent
  <2>1. StoredKeys'
    BY <1>1, <1>2 DEF Marking, StoredKeys
  <2>2. Timely'
    BY <1>2, ClockStep, EntriesTyped DEF Marking, Timely, Entries
  <2> QED
    BY <1>1, <2>1, <2>2 DEF Marking
<1>3. ASSUME NEW l \in Links, MarkSent(l), clock' = clock PROVE Marking'
  <2>1. PairOf(l) \in stored
    BY <1>3 DEF Marking, MarkedStored, MarkSent
  <2>2. PICK p, o, q : PairOf(l) = <<p, o>> /\ HearingOf(l) = <<p, o, q>>
    BY DEF PairOf, HearingOf
  <2>3. \A k \in sent'.at : k \in sent.at \/ k = <<p, o>> \/ k = <<p, o, q>>
    BY <1>3, <2>2, MarkedKeys
  <2>4. ASSUME NEW r \in Packets, NEW n \in Observers
        PROVE  /\ <<r, n>> \in sent'.at => <<r, n>> \in stored'
               /\ \A t \in Paths : <<r, n, t>> \in sent'.at => <<r, n>> \in stored'
    BY <1>1, <2>1, <2>2, <2>3, KeysDiffer DEF Marking, StoredKeys
  <2>5. StoredKeys'
    BY <2>4 DEF StoredKeys
  <2>6. \A e \in Entries(sent') : e.at <= clock
    BY <1>3, MarkedKeys, ClockStep DEF Marking, Timely
  <2>7. Timely'
    BY <1>3, <2>6 DEF Timely, Entries
  <2> QED
    BY <1>1, <2>5, <2>7 DEF Marking
<1> QED
  BY <1>2, <1>3, ClockStep

-----------------------------------------------------------------------------
(* The reports a link has not marked.                                      *)

Kept(l) ==
  /\ PendingLen(l)' = PendingLen(l)
  /\ \A d \in 0..(PendingLen(l) - 1) : Back(l, d)' = Back(l, d)
Grown(l, c) ==
  /\ PendingLen(l)' = PendingLen(l) + 1 /\ Back(l, 0)' = c
  /\ \A d \in 1..PendingLen(l) : Back(l, d)' = Back(l, d - 1)
Shrunk(l) ==
  /\ PendingLen(l) >= 1 /\ PendingLen(l)' = PendingLen(l) - 1
  /\ \A d \in 0..(PendingLen(l) - 2) : Back(l, d)' = Back(l, d)
  /\ \A d \in Nat : d = PendingLen(l) - 1 => Back(l, d) = call[l].copy
QueuesKept == \A l \in Links : Kept(l)
Arrived(o, c) == \A l \in Links : IF l[2] = o THEN Grown(l, c) ELSE Kept(l)
Dropped(l) == Shrunk(l) /\ \A m \in Links : m # l => Kept(m)

LEMMA QueueTyped ==
  ASSUME TypesOK, NEW l \in Links
  PROVE  /\ PendingLen(l) \in Nat /\ inbox[l] \in Seq(Copies) /\ Len(inbox[l]) \in Nat
         /\ \A d \in 0..(PendingLen(l) - 1) : Back(l, d) \in Copies
<1>1. inbox[l] \in Seq(Copies) /\ Len(inbox[l]) \in Nat /\ call[l] \in Calls
  BY DEF TypesOK, CallsOK
<1>2. PendingLen(l) \in Nat /\ (call[l].pc \notin Unmarked => PendingLen(l) = Len(inbox[l]))
  <2>1. CASE call[l].pc \in Unmarked
    <3>1. PendingLen(l) = Len(inbox[l]) + 1
      BY <2>1 DEF PendingLen
    <3> QED
      BY <1>1, <2>1, <3>1
  <2>2. CASE call[l].pc \notin Unmarked
    <3>1. PendingLen(l) = Len(inbox[l]) + 0
      BY <2>2 DEF PendingLen
    <3> QED
      BY <1>1, <2>2, <3>1
  <2> QED
    BY <2>1, <2>2
<1>3. ASSUME NEW d \in 0..(PendingLen(l) - 1) PROVE Back(l, d) \in Copies
  <2>1. CASE d < Len(inbox[l])
    <3>1. Len(inbox[l]) - d \in 1..Len(inbox[l])
      BY <1>1, <2>1
    <3> QED
      BY <1>1, <2>1, <3>1, Elements DEF Back
  <2>2. CASE ~(d < Len(inbox[l]))
    <3>1. call[l].pc \in Unmarked
      BY <1>1, <1>2, <2>2
    <3>2. call[l] # Idle
      BY <3>1 DEF Idle, Unmarked
    <3> QED
      BY <1>1, <2>2, <3>2, CallTyped DEF Back
  <2> QED
    BY <2>1, <2>2
<1> QED
  BY <1>1, <1>2, <1>3

LEMMA KeptQueue ==
  ASSUME TypesOK, NEW l \in Links, inbox'[l] = inbox[l],
         \/ call'[l].pc \notin Unmarked /\ call[l].pc \notin Unmarked
         \/ call'[l].pc \in Unmarked /\ call[l].pc \in Unmarked /\ call'[l].copy = call[l].copy
  PROVE  Kept(l)
<1>1. inbox[l] \in Seq(Copies) /\ Len(inbox[l]) \in Nat
  BY QueueTyped
<1>2. PendingLen(l)' = PendingLen(l)
  BY DEF PendingLen
<1>3. ASSUME NEW d \in 0..(PendingLen(l) - 1) PROVE Back(l, d)' = Back(l, d)
  <2>1. CASE call[l].pc \in Unmarked
    BY <2>1 DEF Back
  <2>2. CASE call[l].pc \notin Unmarked
    <3>1. PendingLen(l) = Len(inbox[l])
      BY <1>1, <2>2 DEF PendingLen
    <3> QED
      BY <1>1, <3>1 DEF Back
  <2> QED
    BY <2>1, <2>2
<1> QED
  BY <1>2, <1>3 DEF Kept

LEMMA TakenQueue ==
  ASSUME TypesOK, NEW l \in Links, TakeNext(l), call'[l].pc \in Unmarked,
         call'[l].copy = Head(inbox[l])
  PROVE  Kept(l)
<1>1. /\ Len(inbox[l]) \in Nat \ {0} /\ Len(inbox'[l]) = Len(inbox[l]) - 1
      /\ Head(inbox[l]) = inbox[l][1] /\ call[l] = Idle
      /\ \A i \in 1..Len(inbox'[l]) : inbox'[l][i] = inbox[l][i + 1]
  BY TakenCopy
<1>2. call[l].pc \notin Unmarked
  BY <1>1 DEF Idle, Unmarked
<1>3. PendingLen(l)' = Len(inbox[l]) /\ PendingLen(l) = Len(inbox[l])
  BY <1>1, <1>2 DEF PendingLen
<1>4. ASSUME NEW d \in 0..(Len(inbox[l]) - 1) PROVE Back(l, d)' = Back(l, d)
  <2>1. Back(l, d) = inbox[l][Len(inbox[l]) - d]
    BY <1>1 DEF Back
  <2>2. CASE d < Len(inbox'[l])
    <3>1. Len(inbox'[l]) - d \in 1..Len(inbox'[l]) /\ Len(inbox'[l]) - d + 1 = Len(inbox[l]) - d
      BY <1>1, <2>2
    <3>2. Back(l, d)' = inbox'[l][Len(inbox'[l]) - d]
      BY <2>2 DEF Back
    <3> QED
      BY <1>1, <2>1, <3>1, <3>2
  <2>3. CASE ~(d < Len(inbox'[l]))
    <3>1. Len(inbox[l]) - d = 1
      BY <1>1, <2>3
    <3>2. Back(l, d)' = call'[l].copy
      BY <2>3 DEF Back
    <3> QED
      BY <1>1, <2>1, <3>1, <3>2
  <2> QED
    BY <2>2, <2>3
<1> QED
  BY <1>3, <1>4 DEF Kept

LEMMA HeardQueues ==
  ASSUME TypesOK, calm, NEW o \in Observers, NEW c \in Copies, Hear(o, c)
  PROVE  Arrived(o, c)
<1>1. inbox' = [l \in Links |-> IF l[1] \in Brokers /\ l[2] = o THEN Append(inbox[l], c) ELSE inbox[l]]
  BY DEF Hear, Reached
<1>2. call' = call
  BY DEF Hear
<1>3. ASSUME NEW l \in Links PROVE IF l[2] = o THEN Grown(l, c) ELSE Kept(l)
  <2>1. CASE l[2] = o
    <3>1. PICK q \in Seq(Copies) : q = inbox[l]
      BY QueueTyped
    <3>2. inbox'[l] = Append(q, c)
      BY <1>1, <2>1, <3>1, LinksTyped
    <3>3. /\ Len(q) \in Nat /\ Len(inbox'[l]) = Len(q) + 1 /\ inbox'[l][Len(q) + 1] = c
          /\ \A i \in 1..Len(q) : inbox'[l][i] = q[i]
      BY <3>2, Appended
    <3>4. PendingLen(l)' = PendingLen(l) + 1
      <4>1. CASE call[l].pc \in Unmarked
        <5>1. PendingLen(l) = Len(q) + 1 /\ PendingLen(l)' = Len(q) + 1 + 1
          BY <1>2, <3>1, <3>3, <4>1 DEF PendingLen
        <5> QED
          BY <3>3, <5>1
      <4>2. CASE call[l].pc \notin Unmarked
        <5>1. PendingLen(l) = Len(q) + 0 /\ PendingLen(l)' = Len(q) + 1 + 0
          BY <1>2, <3>1, <3>3, <4>2 DEF PendingLen
        <5> QED
          BY <3>3, <5>1
      <4> QED
        BY <4>1, <4>2
    <3>5. Back(l, 0)' = c
      BY <3>3 DEF Back
    <3>6. ASSUME NEW d \in 1..PendingLen(l) PROVE Back(l, d)' = Back(l, d - 1)
      <4>1. CASE d < Len(q) + 1
        <5>1. Len(q) + 1 - d \in 1..Len(q) /\ Len(q) + 1 - d = Len(q) - (d - 1)
          BY <3>3, <4>1
        <5>2. Back(l, d - 1) = q[Len(q) - (d - 1)]
          BY <3>1, <3>3, <4>1 DEF Back
        <5>3. Back(l, d)' = inbox'[l][Len(q) + 1 - d]
          BY <3>3, <4>1 DEF Back
        <5> QED
          BY <3>3, <5>1, <5>2, <5>3
      <4>2. CASE ~(d < Len(q) + 1)
        BY <1>2, <3>1, <3>3, <4>2 DEF Back
      <4> QED
        BY <4>1, <4>2
    <3> QED
      BY <2>1, <3>4, <3>5, <3>6 DEF Grown
  <2>2. CASE l[2] # o
    <3>1. inbox'[l] = inbox[l]
      BY <1>1, <2>2
    <3> QED
      BY <1>2, <2>2, <3>1, KeptQueue
  <2> QED
    BY <2>1, <2>2
<1> QED
  BY <1>3 DEF Arrived

LEMMA MarkedQueue ==
  ASSUME TypesOK, NEW l \in Links, MarkSent(l)
  PROVE  Dropped(l)
<1>1. call[l].pc = "mark" /\ inbox' = inbox
  BY DEF MarkSent
<1>2. call'[l].pc \in {"broadcast", "repeat", "idle"} /\ \A m \in Links : m # l => call'[m] = call[m]
  <2>1. Idle.pc = "idle"
    BY DEF Idle
  <2> QED
    BY <2>1, MarkedCall
<1>3. call[l].pc \in Unmarked /\ call'[l].pc \notin Unmarked
  BY <1>1, <1>2 DEF Unmarked
<1>4. Len(inbox[l]) \in Nat
  BY QueueTyped
<1>5. PendingLen(l) = Len(inbox[l]) + 1 /\ PendingLen(l)' = Len(inbox[l])
  BY <1>1, <1>3, <1>4 DEF PendingLen
<1>6. \A d \in 0..(PendingLen(l) - 2) : Back(l, d)' = Back(l, d)
  BY <1>1, <1>4, <1>5 DEF Back
<1>7. \A d \in Nat : d = PendingLen(l) - 1 => Back(l, d) = call[l].copy
  BY <1>4, <1>5 DEF Back
<1>8. \A m \in Links : m # l => Kept(m)
  BY <1>1, <1>2, KeptQueue
<1> QED
  BY <1>4, <1>5, <1>6, <1>7, <1>8 DEF Dropped, Shrunk

LEMMA QueueSteps ==
  ASSUME TypesOK, calm, [Next]_vars
  PROVE  \/ QueuesKept
         \/ \E o \in Observers, c \in Copies : Hear(o, c) /\ Arrived(o, c)
         \/ \E l \in Links : MarkSent(l) /\ Dropped(l)
<1>1. CASE Outside /\ UNCHANGED inbox
  BY <1>1, KeptQueue DEF Outside, QueuesKept
<1>2. CASE \E o \in Observers, c \in Copies : Hear(o, c)
  BY <1>2, HeardQueues
<1>3. ASSUME NEW l \in Links, HandlePacket(l) PROVE QueuesKept \/ (MarkSent(l) /\ Dropped(l))
  <2>1. CASE Suppress(l) \/ UpsertPacket(l)
    <3>1. call'[l].pc \in Unmarked /\ call'[l].copy = Head(inbox[l])
      BY <2>1, MovedCall DEF Unmarked
    <3>2. TakeNext(l)
      BY <2>1 DEF Suppress, UpsertPacket
    <3>3. Kept(l)
      BY <3>1, <3>2, TakenQueue
    <3>4. \A m \in Links : m # l => call'[m] = call[m] /\ inbox'[m] = inbox[m]
      BY <2>1, <3>2, MovedCall, TakenCopy
    <3>5. \A m \in Links : m # l => Kept(m)
      BY <3>4, KeptQueue
    <3> QED
      BY <3>3, <3>5 DEF QueuesKept
  <2>2. CASE UpsertFails(l) \/ InsertFails(l)
    BY <2>2 DEF UpsertFails, InsertFails
  <2>3. CASE Remember(l)
    <3>1. inbox' = inbox /\ call[l].pc = "remember"
      BY <2>3 DEF Remember
    <3>2. call'[l].pc = "insert" /\ call'[l].copy = call[l].copy /\ \A m \in Links : m # l => call'[m] = call[m]
      BY <2>3, MovedCall
    <3>3. \A m \in Links : Kept(m)
      BY <3>1, <3>2, KeptQueue DEF Unmarked
    <3> QED
      BY <3>3 DEF QueuesKept
  <2>4. CASE InsertObservation(l)
    <3>1. inbox' = inbox /\ call[l].pc = "insert"
      BY <2>4 DEF InsertObservation
    <3>2. call'[l].pc = "mark" /\ call'[l].copy = call[l].copy /\ \A m \in Links : m # l => call'[m] = call[m]
      BY <2>4, InsertedCall
    <3>3. \A m \in Links : Kept(m)
      BY <3>1, <3>2, KeptQueue DEF Unmarked
    <3> QED
      BY <3>3 DEF QueuesKept
  <2>5. CASE Broadcast(l) \/ BroadcastRepeat(l)
    <3>1. inbox' = inbox /\ call[l].pc \notin Unmarked
      BY <2>5 DEF Broadcast, BroadcastRepeat, Unmarked
    <3>2. call'[l].pc \notin Unmarked /\ \A m \in Links : m # l => call'[m] = call[m]
      BY <2>5, MovedCall DEF Idle, Unmarked
    <3>3. \A m \in Links : Kept(m)
      BY <3>1, <3>2, KeptQueue
    <3> QED
      BY <3>3 DEF QueuesKept
  <2>6. CASE MarkSent(l)
    BY <2>6, MarkedQueue
  <2> QED
    BY <1>3, <2>1, <2>2, <2>3, <2>4, <2>5, <2>6 DEF HandlePacket
<1> QED
  BY <1>1, <1>2, <1>3, OutsideSteps

LEMMA AlignedInit ==
  ASSUME Init
  PROVE  Aligned /\ Spaced /\ AllGuarded
<1>1. \A l \in Links : call[l].pc = "idle" /\ inbox[l] = <<>>
  BY DEF Init, Idle
<1>2. events = <<>>
  BY DEF Init
<1>3. \A l \in Links : PendingLen(l) = 0
  <2>1. ASSUME NEW l \in Links PROVE PendingLen(l) = 0
    <3>1. call[l].pc \notin Unmarked /\ Len(inbox[l]) = 0
      BY <1>1 DEF Unmarked
    <3> QED
      BY <3>1 DEF PendingLen
  <2> QED
    BY <2>1
<1>4. Aligned
  BY <1>3 DEF Aligned
<1>5. \A l \in Links : ~Pending(l)
  BY <1>1 DEF Pending, Pledged, Repeating
<1> QED
  BY <1>2, <1>4, <1>5 DEF Spaced, AllGuarded, Claimed

LEMMA AlignedStep ==
  ASSUME TypesOK, calm, [Next]_vars, Marking, Aligned
  PROVE  Aligned'
<1>1. stored \subseteq stored'
  BY MarkedStoredStep DEF Marking
<1>2. \A l \in Links : PendingLen(l) \in Nat
  BY QueueTyped
<1>3. CASE QueuesKept
  <2>1. ASSUME NEW l \in Links, NEW m \in Links, l[2] = m[2], NEW d \in 0..(PendingLen(l)' - 1)
        PROVE  IF d < PendingLen(m)' THEN Back(l, d)' = Back(m, d)'
               ELSE <<Back(l, d)'.packet, l[2]>> \in stored'
    <3>1. /\ PendingLen(l)' = PendingLen(l) /\ PendingLen(m)' = PendingLen(m) /\ d \in 0..(PendingLen(l) - 1)
          /\ Back(l, d)' = Back(l, d) /\ (d < PendingLen(m) => Back(m, d)' = Back(m, d))
      BY <1>2, <1>3, <2>1 DEF QueuesKept, Kept
    <3> QED
      BY <1>1, <2>1, <3>1 DEF Aligned
  <2> QED
    BY <2>1 DEF Aligned
<1>4. ASSUME NEW o \in Observers, NEW c \in Copies, Arrived(o, c) PROVE Aligned'
  <2>1. ASSUME NEW l \in Links, NEW m \in Links, l[2] = m[2], NEW d \in 0..(PendingLen(l)' - 1)
        PROVE  IF d < PendingLen(m)' THEN Back(l, d)' = Back(m, d)'
               ELSE <<Back(l, d)'.packet, l[2]>> \in stored'
    <3>1. CASE l[2] # o
      <4>1. Kept(l) /\ Kept(m)
        BY <1>4, <2>1, <3>1 DEF Arrived
      <4>2. /\ PendingLen(l)' = PendingLen(l) /\ PendingLen(m)' = PendingLen(m) /\ d \in 0..(PendingLen(l) - 1)
            /\ Back(l, d)' = Back(l, d) /\ (d < PendingLen(m) => Back(m, d)' = Back(m, d))
        BY <1>2, <2>1, <4>1 DEF Kept
      <4> QED
        BY <1>1, <2>1, <4>2 DEF Aligned
    <3>2. CASE l[2] = o
      <4>1. Grown(l, c) /\ Grown(m, c)
        BY <1>4, <2>1, <3>2 DEF Arrived
      <4>2. PendingLen(l)' = PendingLen(l) + 1 /\ PendingLen(m)' = PendingLen(m) + 1
        BY <4>1 DEF Grown
      <4>3. CASE d = 0
        BY <1>2, <4>1, <4>2, <4>3 DEF Grown
      <4>4. CASE d # 0
        <5>1. d - 1 \in 0..(PendingLen(l) - 1) /\ d \in 1..PendingLen(l)
          BY <1>2, <2>1, <4>2, <4>4
        <5>2. Back(l, d)' = Back(l, d - 1)
          BY <4>1, <5>1 DEF Grown
        <5>3. CASE d - 1 < PendingLen(m)
          <6>1. d \in 1..PendingLen(m) /\ d < PendingLen(m)'
            BY <1>2, <4>2, <4>4, <5>1, <5>3
          <6>2. Back(m, d)' = Back(m, d - 1)
            BY <4>1, <6>1 DEF Grown
          <6>3. Back(l, d - 1) = Back(m, d - 1)
            BY <2>1, <5>1, <5>3 DEF Aligned
          <6> QED
            BY <5>2, <6>1, <6>2, <6>3
        <5>4. CASE ~(d - 1 < PendingLen(m))
          <6>1. ~(d < PendingLen(m)')
            BY <1>2, <4>2, <5>1, <5>4
          <6>2. <<Back(l, d - 1).packet, l[2]>> \in stored
            BY <2>1, <5>1, <5>4 DEF Aligned
          <6> QED
            BY <1>1, <5>2, <6>1, <6>2
        <5> QED
          BY <5>3, <5>4
      <4> QED
        BY <4>3, <4>4
    <3> QED
      BY <3>1, <3>2
  <2> QED
    BY <2>1 DEF Aligned
<1>5. ASSUME NEW k \in Links, MarkSent(k), Dropped(k) PROVE Aligned'
  <2>1. <<call[k].copy.packet, k[2]>> \in stored
    BY <1>5 DEF Marking, MarkedStored, MarkSent, PairOf
  <2>2. Shrunk(k)
    BY <1>5 DEF Dropped
  <2>3. ASSUME NEW l \in Links, NEW m \in Links, l[2] = m[2], NEW d \in 0..(PendingLen(l)' - 1)
        PROVE  IF d < PendingLen(m)' THEN Back(l, d)' = Back(m, d)'
               ELSE <<Back(l, d)'.packet, l[2]>> \in stored'
    <3>1. CASE l = k /\ m = k
      <4>1. /\ PendingLen(l)' = PendingLen(l) - 1 /\ PendingLen(m)' = PendingLen(l) - 1
            /\ \A e \in 0..(PendingLen(l) - 2) : Back(l, e)' = Back(l, e) /\ Back(m, e)' = Back(l, e)
        BY <2>2, <3>1 DEF Shrunk
      <4> QED
        BY <1>2, <2>3, <4>1
    <3>2. CASE l = k /\ m # k
      <4>1. Kept(m)
        BY <1>5, <3>2 DEF Dropped
      <4>2. /\ PendingLen(m)' = PendingLen(m) /\ d \in 0..(PendingLen(l) - 1) /\ Back(l, d)' = Back(l, d)
            /\ d < PendingLen(m) => Back(m, d)' = Back(m, d)
        BY <1>2, <2>2, <2>3, <3>2, <4>1 DEF Shrunk, Kept
      <4> QED
        BY <1>1, <2>3, <4>2 DEF Aligned
    <3>3. CASE l # k /\ m = k
      <4>1. Kept(l)
        BY <1>5, <3>3 DEF Dropped
      <4>2. /\ PendingLen(l)' = PendingLen(l) /\ d \in 0..(PendingLen(l) - 1) /\ Back(l, d)' = Back(l, d)
        BY <1>2, <2>3, <4>1 DEF Kept
      <4>3. PendingLen(m)' = PendingLen(m) - 1 /\ PendingLen(m) >= 1
        BY <2>2, <3>3 DEF Shrunk
      <4>4. CASE d < PendingLen(m)'
        <5>1. d < PendingLen(m) /\ Back(m, d)' = Back(m, d)
          BY <1>2, <2>2, <3>3, <4>2, <4>3, <4>4 DEF Shrunk
        <5> QED
          BY <2>3, <4>2, <4>4, <5>1 DEF Aligned
      <4>5. CASE d = PendingLen(m) - 1
        <5>1. d < PendingLen(m) /\ Back(m, d) = call[m].copy
          BY <1>2, <2>2, <3>3, <4>2, <4>5 DEF Shrunk
        <5>2. Back(l, d) = call[m].copy
          BY <2>3, <4>2, <5>1 DEF Aligned
        <5>3. ~(d < PendingLen(m)')
          BY <1>2, <4>3, <4>5
        <5> QED
          BY <1>1, <2>1, <2>3, <3>3, <4>2, <5>2, <5>3
      <4>6. CASE d > PendingLen(m) - 1
        <5>1. ~(d < PendingLen(m)) /\ ~(d < PendingLen(m)')
          BY <1>2, <4>2, <4>3, <4>6
        <5>2. <<Back(l, d).packet, l[2]>> \in stored
          BY <2>3, <4>2, <5>1 DEF Aligned
        <5> QED
          BY <1>1, <4>2, <5>1, <5>2
      <4> QED
        BY <1>2, <4>2, <4>3, <4>4, <4>5, <4>6
    <3>4. CASE l # k /\ m # k
      <4>1. Kept(l) /\ Kept(m)
        BY <1>5, <3>4 DEF Dropped
      <4>2. /\ PendingLen(l)' = PendingLen(l) /\ PendingLen(m)' = PendingLen(m) /\ d \in 0..(PendingLen(l) - 1)
            /\ Back(l, d)' = Back(l, d) /\ (d < PendingLen(m) => Back(m, d)' = Back(m, d))
        BY <1>2, <2>3, <4>1 DEF Kept
      <4> QED
        BY <1>1, <2>3, <4>2 DEF Aligned
    <3> QED
      BY <3>1, <3>2, <3>3, <3>4
  <2> QED
    BY <2>3 DEF Aligned
<1> QED
  BY <1>3, <1>4, <1>5, QueueSteps

-----------------------------------------------------------------------------
(* What was or will be streamed, and the memory.                           *)

LEMMA KeptUnmarked ==
  ASSUME TypesOK, NEW p \in Packets, NEW o \in Observers, NEW path \in Paths,
         StillUnmarked(p, o, path),
         <<p, o>> \notin sent'.at /\ \A q \in Paths : <<p, o, q>> \notin sent'.at,
         \/ \A b \in Brokers : Kept(<<b, o>>)
         \/ \E c \in Copies : \A b \in Brokers : Grown(<<b, o>>, c)
  PROVE  StillUnmarked(p, o, path)'
<1>1. PICK d \in Nat : \A b \in Brokers :
        /\ d < PendingLen(<<b, o>>)
        /\ Back(<<b, o>>, d) = [packet |-> p, path |-> path]
        /\ \A e \in (d + 1)..(PendingLen(<<b, o>>) - 1) : Back(<<b, o>>, e).packet # p
  BY DEF StillUnmarked
<1>2. \A b \in Brokers : PendingLen(<<b, o>>) \in Nat
  BY LinksTyped, QueueTyped
<1>3. CASE \A b \in Brokers : Kept(<<b, o>>)
  <2>1. ASSUME NEW b \in Brokers
        PROVE  /\ d < PendingLen(<<b, o>>)'
               /\ Back(<<b, o>>, d)' = [packet |-> p, path |-> path]
               /\ \A e \in (d + 1)..(PendingLen(<<b, o>>)' - 1) : Back(<<b, o>>, e)'.packet # p
    BY <1>1, <1>2, <1>3 DEF Kept
  <2> QED
    BY <2>1 DEF StillUnmarked
<1>4. ASSUME NEW c \in Copies, \A b \in Brokers : Grown(<<b, o>>, c)
      PROVE  StillUnmarked(p, o, path)'
  <2>1. PICK f \in Nat : f = d + 1
    OBVIOUS
  <2>2. ASSUME NEW b \in Brokers
        PROVE  /\ f < PendingLen(<<b, o>>)'
               /\ Back(<<b, o>>, f)' = [packet |-> p, path |-> path]
               /\ \A e \in (f + 1)..(PendingLen(<<b, o>>)' - 1) : Back(<<b, o>>, e)'.packet # p
    <3>1. PICK n \in Nat : n = PendingLen(<<b, o>>)
      BY <1>2
    <3>2. PendingLen(<<b, o>>)' = n + 1 /\ f < n + 1 /\ f \in 1..n /\ f - 1 = d
      BY <1>1, <1>4, <2>1, <3>1 DEF Grown
    <3>3. Back(<<b, o>>, f)' = Back(<<b, o>>, f - 1)
      BY <1>4, <3>1, <3>2 DEF Grown
    <3>4. ASSUME NEW e \in (f + 1)..n PROVE Back(<<b, o>>, e)'.packet # p
      <4>1. e \in 1..n /\ e - 1 \in (d + 1)..(n - 1)
        BY <2>1, <3>4
      <4>2. Back(<<b, o>>, e)' = Back(<<b, o>>, e - 1)
        BY <1>4, <3>1, <4>1 DEF Grown
      <4> QED
        BY <1>1, <3>1, <4>1, <4>2
    <3> QED
      BY <1>1, <3>2, <3>3, <3>4
  <2> QED
    BY <2>2 DEF StillUnmarked
<1> QED
  BY <1>3, <1>4

LEMMA MarkedEntry ==
  ASSUME TypesOK, Faithful(sent), NEW l \in Links, MarkSent(l), call[l].copy.packet \notin Traces
  PROVE  /\ HearingOf(l) \notin sent.at => IsNewKey(Add(sent, PairOf(l)), HearingOf(l))
         /\ IsNewKey(Add(sent, PairOf(l)), HearingOf(l)) =>
              \E x \in Entries(sent') : x.key = HearingOf(l) /\ x.at = clock
         /\ Room /\ PathNew(PairOf(l), HearingOf(l)) =>
              /\ PairOf(l) \in sent.at
              /\ \A x \in Entries(sent) : x.key = HearingOf(l) => clock - x.at >= SentTTL
<1>1. PICK k, h : k = PairOf(l) /\ h = HearingOf(l)
  OBVIOUS
<1>2. k \in MemoryKeys /\ h \in MemoryKeys /\ sent' = Add(Add(sent, k), h) /\ k # h
  BY <1>1, MarkedMemory, KeysDiffer DEF PairOf, HearingOf
<1>3. sent \in Memories /\ clock \in Nat
  BY DEF TypesOK, MemoryOK, EventsOK
<1>4. PICK m : m = Add(sent, k)
  OBVIOUS
<1>5. /\ m \in Memories /\ Faithful(m) /\ m.at \subseteq sent.at \cup {k}
      /\ Len(sent.order) \in Nat /\ Len(m.order) \in Nat /\ Len(m.order) <= Len(sent.order) + 1
      /\ k \notin sent.at => IsNewKey(sent, k)
      /\ Len(sent.order) < SentMax =>
            \A e \in Entries(sent) : e \in Entries(m) \/ clock - e.at >= SentTTL
  BY <1>2, <1>3, <1>4, AddEffect
<1>6. /\ h \notin m.at => IsNewKey(m, h)
      /\ IsNewKey(m, h) => [key |-> h, at |-> clock] \in Entries(sent')
      /\ Len(m.order) < SentMax =>
            \A e \in Entries(m) : e.key = h /\ IsNewKey(m, h) => clock - e.at >= SentTTL
  BY <1>2, <1>3, <1>4, <1>5, AddEffect
<1>7. h \notin sent.at => IsNewKey(m, h)
  BY <1>2, <1>5, <1>6
<1>8. IsNewKey(m, h) => \E x \in Entries(sent') : x.key = h /\ x.at = clock
  BY <1>6
<1>9. ASSUME Room, PathNew(k, h)
      PROVE  /\ k \in sent.at
             /\ \A x \in Entries(sent) : x.key = h => clock - x.at >= SentTTL
  <2>1. IsNewKey(m, h) /\ ~IsNewKey(sent, k)
    BY <1>4, <1>9 DEF PathNew
  <2>2. Len(sent.order) < SentMax /\ Len(m.order) < SentMax
    BY <1>5, <1>9, HearingsAssumption DEF Room
  <2> QED
    BY <1>5, <1>6, <2>1, <2>2
<1> QED
  BY <1>1, <1>4, <1>7, <1>8, <1>9

\* A claim and its hearing.
LEMMA EventTyped ==
  ASSUME NEW e \in Events
  PROVE  /\ e.packet \in Packets /\ e.observer \in Observers /\ e.path \in Paths
         /\ e.repeat \in BOOLEAN /\ e.at \in Nat
BY DEF Events

LEMMA MarkedUnmarked ==
  ASSUME TypesOK, Faithful(sent), NEW l \in Links, MarkSent(l),
         NEW p \in Packets \ Traces, NEW o \in Observers, NEW path \in Paths,
         StillUnmarked(p, o, path)
  PROVE  \/ StillUnmarked(p, o, path)'
         \/ \E x \in Entries(sent') : x.key = <<p, o, path>> /\ x.at = clock
<1>1. Dropped(l)
  BY MarkedQueue
<1>2. /\ <<p, o>> \notin sent.at /\ \A q \in Paths : <<p, o, q>> \notin sent.at
  BY DEF StillUnmarked
<1>3. sent'.at \subseteq sent.at \cup {<<call[l].copy.packet, l[2]>>, <<call[l].copy.packet, l[2], call[l].copy.path>>}
  BY MarkedKeys DEF PairOf, HearingOf
<1>4. ASSUME call[l].copy.packet # p \/ l[2] # o
      PROVE  <<p, o>> \notin sent'.at /\ \A q \in Paths : <<p, o, q>> \notin sent'.at
  BY <1>2, <1>3, <1>4, KeysDiffer
<1>5. CASE l[2] # o
  <2>1. \A b \in Brokers : Kept(<<b, o>>)
    BY <1>1, <1>5, LinksTyped DEF Dropped
  <2> QED
    BY <1>4, <1>5, <2>1, KeptUnmarked
<1>6. CASE l[2] = o
  <2>1. PICK d \in Nat : \A b \in Brokers :
          /\ d < PendingLen(<<b, o>>)
          /\ Back(<<b, o>>, d) = [packet |-> p, path |-> path]
          /\ \A e \in (d + 1)..(PendingLen(<<b, o>>) - 1) : Back(<<b, o>>, e).packet # p
    BY DEF StillUnmarked
  <2>2. l[1] \in Brokers /\ l = <<l[1], o>>
    BY <1>6, LinksTyped
  <2>3. \A b \in Brokers : PendingLen(<<b, o>>) \in Nat
    BY LinksTyped, QueueTyped
  <2>4. PICK n \in Nat : n = PendingLen(l) - 1
    BY <1>1, <2>2, <2>3 DEF Dropped, Shrunk
  <2>5. Back(l, n) = call[l].copy /\ d <= n
    BY <1>1, <2>1, <2>2, <2>3, <2>4 DEF Dropped, Shrunk
  <2>6. CASE d < n
    <3>1. Back(l, n).packet # p
      <4>1. n \in (d + 1)..(PendingLen(l) - 1)
        BY <2>4, <2>6
      <4> QED
        BY <2>1, <2>2, <4>1
    <3>2. <<p, o>> \notin sent'.at /\ \A q \in Paths : <<p, o, q>> \notin sent'.at
      BY <1>4, <2>5, <3>1
    <3>3. ASSUME NEW b \in Brokers
          PROVE  /\ d < PendingLen(<<b, o>>)'
                 /\ Back(<<b, o>>, d)' = [packet |-> p, path |-> path]
                 /\ \A e \in (d + 1)..(PendingLen(<<b, o>>)' - 1) : Back(<<b, o>>, e)'.packet # p
      <4>1. PICK k \in Links : k = <<b, o>>
        BY LinksTyped
      <4>2. CASE k = l
        <5>1. PendingLen(k)' = PendingLen(k) - 1 /\ \A e \in 0..(PendingLen(k) - 2) : Back(k, e)' = Back(k, e)
          BY <1>1, <4>2 DEF Dropped, Shrunk
        <5>2. d < PendingLen(k)' /\ d \in 0..(PendingLen(k) - 2) /\ PendingLen(k) \in Nat
          BY <2>3, <2>4, <2>6, <4>1, <4>2, <5>1
        <5>3. \A e \in (d + 1)..(PendingLen(k)' - 1) :
                e \in 0..(PendingLen(k) - 2) /\ e \in (d + 1)..(PendingLen(k) - 1)
          BY <5>1, <5>2
        <5> QED
          BY <2>1, <4>1, <5>1, <5>2, <5>3
      <4>3. CASE k # l
        <5>1. PendingLen(k)' = PendingLen(k) /\ \A e \in 0..(PendingLen(k) - 1) : Back(k, e)' = Back(k, e)
          BY <1>1, <4>3 DEF Dropped, Kept
        <5> QED
          BY <2>1, <2>3, <4>1, <5>1
      <4> QED
        BY <4>2, <4>3
    <3> QED
      BY <3>2, <3>3 DEF StillUnmarked
  <2>7. CASE d = n
    <3>1. call[l].copy.packet = p /\ call[l].copy.path = path
      BY <2>1, <2>2, <2>5, <2>7
    <3>2. HearingOf(l) = <<p, o, path>>
      BY <1>6, <3>1 DEF HearingOf
    <3> QED
      BY <1>2, <3>1, <3>2, MarkedEntry
  <2> QED
    BY <2>4, <2>5, <2>6, <2>7
<1> QED
  BY <1>5, <1>6

LEMMA GuardKept ==
  ASSUME TypesOK, Faithful(sent), calm, Room, [Next]_vars, Marking, NEW e \in Events, Guarded(e)
  PROVE  Guarded(e)'
<1>1. e.at <= clock' /\ <<e.packet, e.observer>> \in stored' /\ (e.repeat => e.packet \notin Traces)
  BY ClockStep, MarkedStoredStep, EventTyped DEF Guarded, Marking
<1>2. Entries(sent)' = Entries(sent')
  BY DEF Entries
<1>3. ASSUME e.packet \notin Traces PROVE Remembered(e)'
  <2>1. Remembered(e)
    BY <1>3 DEF Guarded
  <2>2. clock \in Nat /\ clock' \in Nat /\ clock' >= clock /\ e.at \in Nat /\ SentTTL \in Nat
    BY ClockStep, EventTyped, HearingsAssumption
  <2>3. CASE clock - e.at >= SentTTL
    BY <2>2, <2>3 DEF Remembered
  <2>4. ASSUME NEW x \in Entries(sent), x.key = <<e.packet, e.observer, e.path>>, x.at >= e.at
        PROVE  Remembered(e)'
    <3>1. x.at \in Nat
      BY EntriesTyped
    <3>2. CASE x \in Entries(sent')
      BY <1>2, <2>4, <3>2 DEF Remembered
    <3>3. CASE x \notin Entries(sent')
      <4>1. PICK l \in Links : MarkSent(l) /\ clock' = clock
        BY <2>4, <3>3, ClockStep
      <4>2. clock - x.at >= SentTTL
        BY <2>4, <3>3, <4>1, MarkedKeys
      <4>3. clock' - e.at >= SentTTL
        BY <2>2, <2>4, <3>1, <4>1, <4>2
      <4> QED
        BY <4>3 DEF Remembered
    <3> QED
      BY <3>2, <3>3
  <2>5. ASSUME ~e.repeat, StillUnmarked(e.packet, e.observer, e.path)
        PROVE  Remembered(e)'
    <3>1. PICK p \in Packets \ Traces, o \in Observers, q \in Paths :
            p = e.packet /\ o = e.observer /\ q = e.path
      BY <1>3, EventTyped
    <3>2. StillUnmarked(p, o, q)
      BY <2>5, <3>1
    <3>3. ASSUME NEW l \in Links, MarkSent(l) PROVE Remembered(e)'
      <4>1. clock' = clock
        BY <3>3 DEF MarkSent
      <4>2. CASE StillUnmarked(p, o, q)'
        BY <2>5, <3>1, <4>2 DEF Remembered
      <4>3. CASE \E x \in Entries(sent') : x.key = <<p, o, q>> /\ x.at = clock
        BY <1>2, <3>1, <4>3 DEF Remembered, Guarded
      <4> QED
        BY <3>2, <3>3, <4>2, <4>3, MarkedUnmarked
    <3>4. CASE sent' = sent
      <4>1. /\ <<p, o>> \notin sent'.at /\ \A t \in Paths : <<p, o, t>> \notin sent'.at
        BY <3>2, <3>4 DEF StillUnmarked
      <4>2. CASE QueuesKept
        <5>1. \A b \in Brokers : Kept(<<b, o>>)
          BY <4>2, LinksTyped DEF QueuesKept
        <5>2. StillUnmarked(p, o, q)'
          BY <3>2, <4>1, <5>1, KeptUnmarked
        <5> QED
          BY <2>5, <3>1, <5>2 DEF Remembered
      <4>3. ASSUME NEW n \in Observers, NEW c \in Copies, Arrived(n, c) PROVE Remembered(e)'
        <5>1. (\A b \in Brokers : Kept(<<b, o>>)) \/ (\A b \in Brokers : Grown(<<b, o>>, c))
          BY <4>3, LinksTyped DEF Arrived
        <5>2. StillUnmarked(p, o, q)'
          BY <3>2, <4>1, <5>1, KeptUnmarked
        <5> QED
          BY <2>5, <3>1, <5>2 DEF Remembered
      <4> QED
        BY <3>3, <4>2, <4>3, QueueSteps
    <3> QED
      BY <3>3, <3>4, ClockStep
  <2> QED
    BY <2>1, <2>3, <2>4, <2>5 DEF Remembered
<1> QED
  BY <1>1, <1>3 DEF Guarded

-----------------------------------------------------------------------------
(* Claims: what is streamed, or will be.                                   *)

Reclaims(m) == Pending(m)' => Pending(m) /\ Due(m)' = Due(m)
SameClaims == events' = events /\ \A m \in Links : Reclaims(m)
Spoken(l) ==
  /\ Pending(l) /\ ~Pending(l)' /\ events' = Append(events, Due(l))
  /\ \A m \in Links : m # l => Reclaims(m)
\* A new pair, or a repeat on a new path.
NewPair(l) == InsertObservation(l) /\ PairOf(l) \notin stored
NewPath(l) == MarkSent(l) /\ ~call[l].inserted /\ Repeat(l)
Claims(l) == events' = events /\ \A m \in Links : m # l => Reclaims(m)

LEMMA OthersReclaim ==
  ASSUME NEW m \in Links, call'[m] = call[m]
  PROVE  Reclaims(m)
<1>1. Due(m)' = Due(m)
  BY DueSaid
<1> QED
  BY <1>1 DEF Reclaims, Pending, Pledged, Repeating

LEMMA ClaimSteps ==
  ASSUME TypesOK, calm, [Next]_vars
  PROVE  \/ SameClaims
         \/ \E l \in Links : Spoken(l)
         \/ \E l \in Links : (NewPair(l) \/ NewPath(l)) /\ Claims(l)
<1>1. CASE Outside
  BY <1>1, OthersReclaim DEF Outside, SameClaims
<1>2. ASSUME NEW l \in Links, HandlePacket(l)
      PROVE  SameClaims \/ Spoken(l) \/ ((NewPair(l) \/ NewPath(l)) /\ Claims(l))
  <2>1. CASE Suppress(l) \/ UpsertPacket(l) \/ Remember(l)
    <3>1. call'[l].pc \in {"insert", "remember"} /\ \A m \in Links : m # l => call'[m] = call[m]
      BY <2>1, MovedCall
    <3>2. events' = events
      BY <2>1 DEF Suppress, UpsertPacket, Remember
    <3>3. Reclaims(l)
      BY <3>1 DEF Reclaims, Pending, Pledged, Repeating
    <3> QED
      BY <3>1, <3>2, <3>3, OthersReclaim DEF SameClaims
  <2>2. CASE UpsertFails(l) \/ InsertFails(l)
    BY <2>2 DEF UpsertFails, InsertFails
  <2>3. CASE InsertObservation(l)
    <3>1. \A m \in Links : m # l => call'[m] = call[m]
      BY <2>3, InsertedCall
    <3>2. events' = events
      BY <2>3 DEF InsertObservation
    <3>3. CASE PairOf(l) \notin stored
      BY <2>3, <3>1, <3>2, <3>3, OthersReclaim DEF NewPair, Claims
    <3>4. CASE PairOf(l) \in stored
      <4>1. call'[l].pc = "mark" /\ ~call'[l].inserted
        BY <2>3, <3>4, InsertedCall
      <4>2. Reclaims(l)
        BY <4>1 DEF Reclaims, Pending, Pledged, Repeating
      <4> QED
        BY <3>1, <3>2, <4>2, OthersReclaim DEF SameClaims
    <3> QED
      BY <3>3, <3>4
  <2>4. CASE MarkSent(l)
    <3>1. (\A m \in Links : m # l => call'[m] = call[m]) /\ events' = events /\ call[l].pc = "mark"
      BY <2>4, MarkedCall DEF MarkSent
    <3>2. CASE call[l].inserted
      <4>1. /\ call'[l].pc = "broadcast" /\ call'[l].copy = call[l].copy
            /\ call'[l].isNew = call[l].isNew
            /\ call'[l].count = call[l].count /\ call'[l].at = call[l].at
        BY <2>4, <3>2, MarkedCall
      <4>2. Said(call'[l], l[2]) = Said(call[l], l[2])
        BY <3>1, <4>1 DEF Said
      <4>3. Reclaims(l)
        BY <3>1, <3>2, <4>1, <4>2, DueSaid DEF Reclaims, Pending, Pledged
      <4> QED
        BY <3>1, <4>3, OthersReclaim DEF SameClaims
    <3>3. CASE ~call[l].inserted /\ Repeat(l)
      BY <2>4, <3>1, <3>3, OthersReclaim DEF NewPath, Claims
    <3>4. CASE ~call[l].inserted /\ ~Repeat(l)
      <4>1. call'[l].pc = "idle"
        BY <2>4, <3>4, MarkedCall DEF Idle
      <4>2. Reclaims(l)
        BY <4>1 DEF Reclaims, Pending, Pledged, Repeating
      <4> QED
        BY <3>1, <4>2, OthersReclaim DEF SameClaims
    <3> QED
      BY <3>2, <3>3, <3>4
  <2>5. CASE Broadcast(l) \/ BroadcastRepeat(l)
    <3>1. Pending(l)
      BY <2>5 DEF Broadcast, BroadcastRepeat, Pending, Pledged, Repeating
    <3>2. call'[l].pc = "idle" /\ \A m \in Links : m # l => call'[m] = call[m]
      BY <2>5, MovedCall DEF Idle
    <3>3. ~Pending(l)'
      BY <3>2 DEF Pending, Pledged, Repeating
    <3>4. events' = events \/ events' = Append(events, Due(l))
      BY <2>5, EventsStep
    <3>5. Reclaims(l)
      BY <3>3 DEF Reclaims
    <3> QED
      BY <3>1, <3>2, <3>3, <3>4, <3>5, OthersReclaim DEF SameClaims, Spoken
  <2> QED
    BY <1>2, <2>1, <2>2, <2>3, <2>4, <2>5 DEF HandlePacket
<1> QED
  BY <1>1, <1>2, OutsideSteps

\* A new pair: nobody has marked it, and every link is still to do so.
LEMMA PairUnmarked ==
  ASSUME TypesOK, calm, Marking, Aligned, NEW l \in Links, NewPair(l),
         NEW p \in Packets, NEW o \in Observers, NEW path \in Paths,
         p = call[l].copy.packet, o = l[2], path = call[l].copy.path
  PROVE  StillUnmarked(p, o, path)'
<1>1. call[l].pc = "insert" /\ call[l] # Idle /\ inbox' = inbox /\ sent' = sent
  BY DEF NewPair, InsertObservation, Idle
<1>2. <<p, o>> \notin stored
  BY DEF NewPair, PairOf
<1>3. /\ <<p, o>> \notin sent'.at /\ \A q \in Paths : <<p, o, q>> \notin sent'.at
  BY <1>1, <1>2 DEF Marking, StoredKeys
<1>4. Len(inbox[l]) \in Nat
  BY QueueTyped
<1>5. PICK d \in Nat : d = Len(inbox[l])
  BY <1>4
<1>6. PendingLen(l) = d + 1 /\ Back(l, d) = call[l].copy
  <2>1. call[l].pc \in Unmarked
    BY <1>1 DEF Unmarked
  <2> QED
    BY <1>5, <2>1 DEF PendingLen, Back
<1>7. call[l].copy = [packet |-> p, path |-> path]
  <2>1. call[l].copy \in Copies
    BY <1>1, CallTyped DEF TypesOK, CallsOK
  <2> QED
    BY <2>1 DEF Copies
<1>8. QueuesKept
  <2>1. call'[l].pc = "mark" /\ call'[l].copy = call[l].copy /\ \A m \in Links : m # l => call'[m] = call[m]
    BY InsertedCall DEF NewPair
  <2>2. \A m \in Links : Kept(m)
    BY <1>1, <2>1, KeptQueue DEF Unmarked
  <2> QED
    BY <2>2 DEF QueuesKept
<1>9. ASSUME NEW b \in Brokers
       PROVE  /\ d < PendingLen(<<b, o>>)'
              /\ Back(<<b, o>>, d)' = [packet |-> p, path |-> path]
              /\ \A e \in (d + 1)..(PendingLen(<<b, o>>)' - 1) : Back(<<b, o>>, e)'.packet # p
  <2>1. PICK m \in Links : m = <<b, o>> /\ m[2] = l[2]
    BY LinksTyped
  <2>2. PendingLen(m) \in Nat
    BY QueueTyped
  <2>3. d < PendingLen(m) /\ Back(m, d) = call[l].copy
    <3>1. d \in 0..(PendingLen(l) - 1)
      BY <1>6
    <3>2. IF d < PendingLen(m) THEN Back(l, d) = Back(m, d) ELSE <<Back(l, d).packet, l[2]>> \in stored
      BY <2>1, <3>1 DEF Aligned
    <3> QED
      BY <1>2, <1>6, <3>2
  <2>4. ASSUME NEW e \in (d + 1)..(PendingLen(m) - 1) PROVE Back(m, e).packet # p
    <3>1. e \in 0..(PendingLen(m) - 1) /\ ~(e < PendingLen(l))
      BY <1>6, <2>4
    <3>2. <<Back(m, e).packet, m[2]>> \in stored
      BY <2>1, <3>1 DEF Aligned
    <3> QED
      BY <1>2, <2>1, <3>2
  <2>5. PendingLen(m)' = PendingLen(m) /\ \A e \in 0..(PendingLen(m) - 1) : Back(m, e)' = Back(m, e)
    BY <1>8 DEF QueuesKept, Kept
  <2> QED
    BY <1>7, <2>1, <2>2, <2>3, <2>4, <2>5
<1> QED
  BY <1>3, <1>9 DEF StillUnmarked

LEMMA NewPairSafe ==
  ASSUME TypesOK, calm, Marking, Aligned, AllGuarded, NEW l \in Links, NewPair(l)
  PROVE  \E e \in Events :
           /\ Due(l)' = e /\ Guarded(e)'
           /\ \A f \in Events : Claimed(f) => Apart(e, f) /\ Apart(f, e)
<1>1. /\ call'[l] \in MarkedCalls /\ call'[l].pc = "mark" /\ call'[l].copy = call[l].copy
      /\ call'[l].at = clock /\ PairOf(l) \in stored' /\ PairOf(l) \notin stored
  BY InsertedCall DEF NewPair
<1>2. l[2] \in Observers
  BY LinksTyped
<1>3. PICK e \in Events : e = Said(call'[l], l[2])
  BY <1>1, <1>2, SaidTyped
<1>4. /\ e.packet = call[l].copy.packet /\ e.observer = l[2] /\ e.path = call[l].copy.path
      /\ ~e.repeat /\ e.at = clock
  <2>1. /\ e.packet = call'[l].copy.packet /\ e.observer = l[2] /\ e.path = call'[l].copy.path
        /\ e.repeat = (call'[l].pc = "repeat") /\ e.at = call'[l].at
    BY <1>1, <1>2, <1>3, SaidTyped
  <2> QED
    BY <1>1, <2>1
<1>5. clock' = clock /\ clock \in Nat
  BY DEF NewPair, InsertObservation, TypesOK, EventsOK
<1>6. PairOf(l) = <<e.packet, e.observer>>
  BY <1>4 DEF PairOf
<1>7. Remembered(e)'
  <2>1. e.packet \in Packets /\ e.observer \in Observers /\ e.path \in Paths
    BY EventTyped
  <2>2. StillUnmarked(e.packet, e.observer, e.path)'
    BY <1>4, <2>1, PairUnmarked
  <2> QED
    BY <1>4, <2>2 DEF Remembered
<1>8. Guarded(e)'
  BY <1>1, <1>4, <1>5, <1>6, <1>7 DEF Guarded
<1>9. ASSUME NEW f \in Events, Claimed(f) PROVE Apart(e, f) /\ Apart(f, e)
  <2>1. <<f.packet, f.observer>> \in stored
    BY <1>9 DEF AllGuarded, Guarded
  <2> QED
    BY <1>1, <1>6, <2>1 DEF Apart, SameHearing
<1> QED
  BY <1>3, <1>8, <1>9, DueSaid

LEMMA NewPathSafe ==
  ASSUME TypesOK, Faithful(sent), Room, calm, Marking, AllGuarded, NEW l \in Links, NewPath(l)
  PROVE  \E e \in Events :
           /\ Due(l)' = e /\ Guarded(e)'
           /\ \A f \in Events : Claimed(f) => Apart(e, f) /\ Apart(f, e)
<1>1. /\ call[l] \in MarkedCalls /\ call[l].pc = "mark" /\ call'[l].pc = "repeat"
      /\ call'[l].copy = call[l].copy /\ call'[l].at = clock /\ call'[l] \in Calls
  BY MarkedCall, MarkedMemory DEF NewPath
<1>2. l[2] \in Observers /\ call'[l] \in MarkedCalls
  BY <1>1, LinksTyped, CallTyped
<1>3. PICK e \in Events : e = Said(call'[l], l[2])
  BY <1>2, SaidTyped
<1>4. /\ e.packet = call[l].copy.packet /\ e.observer = l[2] /\ e.path = call[l].copy.path
      /\ e.repeat /\ e.at = clock
  <2>1. PICK x \in MarkedCalls : x = call'[l]
    BY <1>2
  <2>2. /\ e.packet = x.copy.packet /\ e.observer = l[2] /\ e.path = x.copy.path
        /\ e.repeat = (x.pc = "repeat") /\ e.at = x.at
    BY <1>2, <1>3, <2>1, SaidTyped
  <2>3. x.pc = "repeat" /\ x.copy = call[l].copy /\ x.at = clock
    BY <1>1, <2>1
  <2>4. e.repeat
    BY <2>2, <2>3
  <2> QED
    BY <2>2, <2>3, <2>4
<1>5. clock' = clock /\ clock \in Nat /\ stored' = stored
  BY DEF NewPath, MarkSent, TypesOK, EventsOK
<1>6. PairOf(l) = <<e.packet, e.observer>> /\ HearingOf(l) = <<e.packet, e.observer, e.path>>
  BY <1>4 DEF PairOf, HearingOf
<1>7. PairOf(l) \in stored /\ e.packet \notin Traces /\ PathNew(PairOf(l), HearingOf(l))
  BY <1>1, <1>4 DEF Marking, MarkedStored, NewPath, Repeat
<1>8. MarkSent(l) /\ call[l].copy.packet \notin Traces
  BY <1>4, <1>7 DEF NewPath
<1>9. Remembered(e)'
  <2>1. IsNewKey(Add(sent, PairOf(l)), HearingOf(l))
    BY <1>7 DEF PathNew
  <2>2. PICK x \in Entries(sent') : x.key = HearingOf(l) /\ x.at = clock
    BY <1>8, <2>1, MarkedEntry
  <2>3. Entries(sent)' = Entries(sent')
    BY DEF Entries
  <2> QED
    BY <1>4, <1>5, <1>6, <2>2, <2>3 DEF Remembered
<1>10. Guarded(e)'
  BY <1>4, <1>5, <1>6, <1>7, <1>9 DEF Guarded
<1>11. ASSUME NEW f \in Events, Claimed(f) PROVE Apart(e, f) /\ Apart(f, e)
  <2>1. CASE f.packet = e.packet /\ f.observer = e.observer /\ f.path = e.path
    <3>1. Guarded(f) /\ f.at \in Nat
      BY <1>11, EventTyped DEF AllGuarded
    <3>2. /\ PairOf(l) \in sent.at
          /\ \A x \in Entries(sent) : x.key = HearingOf(l) => clock - x.at >= SentTTL
      BY <1>7, <1>8, MarkedEntry
    <3>3. clock - f.at >= SentTTL
      <4>1. Remembered(f)
        BY <1>7, <2>1, <3>1 DEF Guarded
      <4>2. ~StillUnmarked(f.packet, f.observer, f.path)
        BY <1>6, <2>1, <3>2 DEF StillUnmarked
      <4>3. ASSUME NEW x \in Entries(sent), x.key = HearingOf(l), x.at >= f.at PROVE clock - f.at >= SentTTL
        BY <1>5, <3>1, <3>2, <4>3, EntriesTyped, HearingsAssumption
      <4> QED
        BY <1>6, <2>1, <4>1, <4>2, <4>3 DEF Remembered
    <3> QED
      BY <1>4, <3>3 DEF Apart
  <2>2. CASE ~(f.packet = e.packet /\ f.observer = e.observer /\ f.path = e.path)
    BY <2>2 DEF Apart, SameHearing
  <2> QED
    BY <2>1, <2>2
<1> QED
  BY <1>3, <1>10, <1>11, DueSaid

LEMMA PendingTyped ==
  ASSUME TypesOK, NEW l \in Links, Pending(l)
  PROVE  Due(l) \in Events /\ Claimed(Due(l))
<1>1. call[l].pc \in {"mark", "broadcast", "repeat"}
  BY DEF Pending, Pledged, Repeating
<1> QED
  BY <1>1, DueTyped DEF Claimed

LEMMA GuardedStep ==
  ASSUME TypesOK, Faithful(sent), calm, Room, [Next]_vars, Marking, Aligned, AllGuarded
  PROVE  AllGuarded'
<1>1. ASSUME NEW e \in Events, Claimed(e) PROVE Guarded(e)'
  BY <1>1, GuardKept DEF AllGuarded
<1>2. CASE SameClaims
  <2>1. ASSUME NEW e \in Events, Claimed(e)' PROVE Claimed(e)
    BY <1>2, <2>1 DEF SameClaims, Reclaims, Claimed
  <2> QED
    BY <1>1, <2>1 DEF AllGuarded
<1>3. ASSUME NEW l \in Links, Spoken(l) PROVE AllGuarded'
  <2>1. PICK d \in Events : d = Due(l) /\ Claimed(d)
    BY <1>3, PendingTyped DEF Spoken
  <2>2. events' = Append(events, d)
    BY <1>3, <2>1 DEF Spoken
  <2>3. \A i \in DOMAIN events' : (i \in DOMAIN events /\ events'[i] = events[i]) \/ events'[i] = d
    <3>1. /\ DOMAIN events = 1..Len(events) /\ DOMAIN events' = 1..(Len(events) + 1)
          /\ \A i \in 1..Len(events) : events'[i] = events[i]
          /\ events'[Len(events) + 1] = d /\ Len(events) \in Nat
      BY <2>2, PledgeTyped, Appended
    <3> QED
      BY <3>1
  <2>4. ASSUME NEW e \in Events, Claimed(e)' PROVE Claimed(e)
    <3>1. CASE \E i \in DOMAIN events' : events'[i] = e
      BY <2>1, <2>3, <3>1 DEF Claimed
    <3>2. CASE \E m \in Links : Pending(m)' /\ Due(m)' = e
      BY <1>3, <3>2 DEF Claimed, Spoken, Reclaims
    <3> QED
      BY <2>4, <3>1, <3>2 DEF Claimed
  <2> QED
    BY <1>1, <2>4 DEF AllGuarded
<1>4. ASSUME NEW l \in Links, Claims(l), NewPair(l) \/ NewPath(l) PROVE AllGuarded'
  <2>1. PICK d \in Events : Due(l)' = d /\ Guarded(d)'
    BY <1>4, NewPairSafe, NewPathSafe
  <2>2. ASSUME NEW e \in Events, Claimed(e)' PROVE Claimed(e) \/ e = d
    BY <1>4, <2>1, <2>2 DEF Claims, Reclaims, Claimed
  <2> QED
    BY <1>1, <2>1, <2>2 DEF AllGuarded
<1> QED
  BY <1>2, <1>3, <1>4, ClaimSteps

LEMMA SpacedStep ==
  ASSUME TypesOK, Faithful(sent), calm, Room, [Next]_vars, Marking, Aligned, AllGuarded, Spaced
  PROVE  Spaced'
<1>1. CASE SameClaims
  BY <1>1 DEF SameClaims, Reclaims, Spaced, Apart, SameHearing
<1>2. ASSUME NEW l \in Links, Spoken(l) PROVE Spaced'
  <2>1. PICK d \in Events : d = Due(l)
    BY <1>2, PendingTyped DEF Spoken
  <2>2. events' = Append(events, d) /\ Pending(l) /\ ~Pending(l)'
    BY <1>2, <2>1 DEF Spoken
  <2>3. \A i \in DOMAIN events' :
          (i \in DOMAIN events /\ events'[i] = events[i]) \/ (i = Len(events) + 1 /\ events'[i] = d)
    <3>1. /\ DOMAIN events = 1..Len(events) /\ DOMAIN events' = 1..(Len(events) + 1)
          /\ \A i \in 1..Len(events) : events'[i] = events[i]
          /\ events'[Len(events) + 1] = d /\ Len(events) \in Nat
      BY <2>2, PledgeTyped, Appended
    <3> QED
      BY <3>1
  <2>4. \A m \in Links : Pending(m)' => Pending(m) /\ Due(m)' = Due(m) /\ m # l
    BY <1>2, <2>2 DEF Spoken, Reclaims
  <2>5. \A i \in DOMAIN events : Apart(events[i], d) /\ Apart(d, events[i])
    BY <2>1, <2>2 DEF Spaced
  <2>6. \A m \in Links : Pending(m) /\ m # l => Apart(Due(m), d) /\ Apart(d, Due(m))
    BY <2>1, <2>2 DEF Spaced
  <2>7. ASSUME NEW i \in DOMAIN events', NEW j \in DOMAIN events', i # j
        PROVE  Apart(events'[i], events'[j])
    BY <2>3, <2>5, <2>7 DEF Spaced
  <2>8. ASSUME NEW i \in DOMAIN events', NEW m \in Links, Pending(m)'
        PROVE  Apart(events'[i], Due(m)') /\ Apart(Due(m)', events'[i])
    BY <2>3, <2>4, <2>6, <2>8 DEF Spaced
  <2>9. ASSUME NEW k \in Links, NEW m \in Links, k # m, Pending(k)', Pending(m)'
        PROVE  Apart(Due(k)', Due(m)')
    BY <2>4, <2>9 DEF Spaced
  <2> QED
    BY <2>7, <2>8, <2>9 DEF Spaced, Apart, SameHearing
<1>3. ASSUME NEW l \in Links, Claims(l), NewPair(l) \/ NewPath(l) PROVE Spaced'
  <2>1. PICK d \in Events :
          Due(l)' = d /\ \A f \in Events : Claimed(f) => Apart(d, f) /\ Apart(f, d)
    BY <1>3, NewPairSafe, NewPathSafe
  <2>2. events' = events /\ \A m \in Links : Pending(m)' /\ m # l => Pending(m) /\ Due(m)' = Due(m)
    BY <1>3 DEF Claims, Reclaims
  <2>3. \A i \in DOMAIN events : Apart(events[i], d) /\ Apart(d, events[i])
    BY <2>1, PledgeTyped DEF Claimed
  <2>4. \A m \in Links : Pending(m) => Apart(Due(m), d) /\ Apart(d, Due(m))
    BY <2>1, PendingTyped
  <2>5. ASSUME NEW i \in DOMAIN events', NEW j \in DOMAIN events', i # j
        PROVE  Apart(events'[i], events'[j])
    BY <2>2, <2>5 DEF Spaced
  <2>6. ASSUME NEW i \in DOMAIN events', NEW m \in Links, Pending(m)'
        PROVE  Apart(events'[i], Due(m)') /\ Apart(Due(m)', events'[i])
    <3>1. CASE m = l
      <4>1. Due(m)' = d
        BY <2>1, <3>1
      <4> QED
        BY <2>2, <2>3, <4>1
    <3>2. CASE m # l
      BY <2>2, <2>6, <3>2 DEF Spaced
    <3> QED
      BY <3>1, <3>2
  <2>7. ASSUME NEW k \in Links, NEW m \in Links, k # m, Pending(k)', Pending(m)'
        PROVE  Apart(Due(k)', Due(m)')
    <3>1. CASE m = l
      <4>1. Due(m)' = d /\ k # l
        BY <2>1, <2>7, <3>1
      <4> QED
        BY <2>2, <2>4, <2>7, <4>1
    <3>2. CASE k = l
      <4>1. Due(k)' = d /\ m # l
        BY <2>1, <2>7, <3>2
      <4> QED
        BY <2>2, <2>4, <2>7, <4>1
    <3>3. CASE k # l /\ m # l
      BY <2>2, <2>7, <3>3 DEF Spaced
    <3> QED
      BY <3>1, <3>2, <3>3
  <2> QED
    BY <2>5, <2>6, <2>7 DEF Spaced, Apart, SameHearing
<1> QED
  BY <1>1, <1>2, <1>3, ClaimSteps

-----------------------------------------------------------------------------
(* A repeat keeps its distance, as long as the memory has room.            *)

LEMMA CopyingStep ==
  ASSUME Storing, Storing', Copying, Room, [Next]_vars
  PROVE  Copying'
<1>1. Marking'
  BY MarkingStep DEF Storing, Copying
<1>2. ASSUME calm PROVE Aligned' /\ Spaced' /\ AllGuarded'
  BY <1>2, AlignedStep, SpacedStep, GuardedStep DEF Storing, Copying
<1>3. calm' = calm
  BY NumberSteps DEF Storing
<1> QED
  BY <1>1, <1>2, <1>3 DEF Copying

\* A repeat never shows a path of that observer that was stored or streamed
\* less than the memory's TTL before, as long as the memory has room.
THEOREM NoCopies == Spec /\ []Room => []CopiesNotStreamed
<1>1. Init => Copying
  BY MarkingInit, AlignedInit DEF Copying
<1>2. Storing /\ Storing' /\ Copying /\ Room /\ [Next]_vars => Copying'
  BY CopyingStep
<1>3. Copying => CopiesNotStreamed
  BY DEF Copying, Spaced, Apart, CopiesNotStreamed
<1> QED
  BY <1>1, <1>2, <1>3, Stored, PTL DEF Spec
=============================================================================
