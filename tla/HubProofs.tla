----------------------------- MODULE HubProofs ------------------------------
(* What holds of the hub for every number of connections, every set of     *)
(* events, scopes and options, and every channel capacity; what holds of   *)
(* the WebSocket endpoint for every number of addresses and limits; and    *)
(* that the endpoint uses the hub as the hub's specification allows, which *)
(* carries every theorem about the hub over to it.                         *)
EXTENDS Ws, FiniteSetTheorems, TLAPS

-----------------------------------------------------------------------------
(* Type correctness.                                                       *)

\* Where Run is says what it holds: an event and recipients during a fan-out,
\* a registered client with room for the newest event after its eviction.
RunOK ==
  /\ run.pc = "select" => run.todo = {}
  /\ run.pc # "select" => run.msg.event \in Events
  /\ run.pc \in {"evict", "resend", "lag"} => run.cur \in run.todo /\ run.dropped = 1
  /\ run.pc = "resend" => Len(send[run.cur]) < SendCap

LEMMA Capacities ==
  /\ SubscribeCap \in Nat \ {0} /\ UnsubscribeCap \in Nat \ {0} /\ RemoveCap \in Nat \ {0}
  /\ BroadcastCap \in Nat \ {0} /\ SendCap \in Nat \ {0} /\ LaggedCap \in Nat \ {0}
BY HubAssumption

LEMMA SubscribeMsgsTyped ==
  /\ \A c \in Clients : Register(c) \in SubscribeMsgs
  /\ \A c \in Clients, id \in SubIds, s \in Scopes : AddMsg(c, id, s) \in SubscribeMsgs
  /\ \A c \in Clients, o \in ClientOptions : ConfigureMsg(c, o) \in SubscribeMsgs
  /\ \A m \in SubscribeMsgs : m.client \in Clients
  /\ \A m \in SubscribeMsgs : m.kind = "configure" => m.options \in ClientOptions
  /\ \A m \in SubscribeMsgs : m.kind = "scope" => m.id \in SubIds /\ m.scope \in Scopes
BY DEF SubscribeMsgs, Register, AddMsg, ConfigureMsg

LEMMA InitTypeOK == Init => TypeOK /\ RunOK
BY HubAssumption, Capacities DEF Init, TypeOK, QueuesOK, RegistryOK, BuffersOK, RunTypeOK, CallersOK, HistoryOK, RunStates, RunOK, Idle, NoOptions, ClientOptions

LEMMA OutTyped ==
  ASSUME TypeOK, NEW c \in Clients, run.msg.event \in Events
  PROVE  Out(c) \in Deliveries
BY DEF Out, PayloadFor, Payloads, Deliveries


LEMMA TakenTyped ==
  ASSUME NEW S, NEW q \in Seq(S), q # <<>>
  PROVE  Head(q) \in S /\ Tail(q) \in Seq(S) /\ Len(q) \in Nat /\ Len(Tail(q)) = Len(q) - 1
OBVIOUS

LEMMA PutTyped ==
  ASSUME NEW S, NEW q \in Seq(S), NEW x \in S
  PROVE  Append(q, x) \in Seq(S) /\ Len(q) \in Nat /\ Len(Append(q, x)) = Len(q) + 1
OBVIOUS

LEMMA BufferSet ==
  ASSUME NEW S, NEW cap, NEW f \in [Clients -> Seq(S)], \A x \in Clients : Len(f[x]) <= cap,
         NEW d \in Clients, NEW v \in Seq(S), Len(v) <= cap
  PROVE  /\ [f EXCEPT ![d] = v] \in [Clients -> Seq(S)]
         /\ \A x \in Clients : Len([f EXCEPT ![d] = v][x]) <= cap
OBVIOUS

LEMMA ServedTyped ==
  ASSUME RunTypeOK, NEW c, run.msg.event \in Events
  PROVE  /\ Served(c) \in RunStates
         /\ Served(c).pc \in {"select", "fanout"}
         /\ Served(c).pc = "select" => Served(c).todo = {}
         /\ Served(c).pc = "fanout" => Served(c).msg = run.msg
BY DEF Served, Idle, RunTypeOK, RunStates

TypeInv == TypeOK /\ RunOK

\* Each part of the invariant reads a few variables only.
LEMMA Untouched ==
  ASSUME TypeInv
  PROVE  /\ UNCHANGED queues => QueuesOK'
         /\ UNCHANGED registry => RegistryOK'
         /\ UNCHANGED delivery => BuffersOK' /\ RunTypeOK' /\ HistoryOK' /\ RunOK'
         /\ UNCHANGED <<ingest, conn>> => CallersOK'
<1> USE DEF TypeInv, TypeOK
<1>1. UNCHANGED queues => QueuesOK'
  BY DEF QueuesOK, queues
<1>2. UNCHANGED registry => RegistryOK'
  BY DEF RegistryOK, registry
<1>3. UNCHANGED delivery => BuffersOK'
  BY DEF BuffersOK, delivery
<1>4. UNCHANGED delivery => RunTypeOK' /\ HistoryOK' /\ RunOK'
  BY DEF RunTypeOK, HistoryOK, RunOK, delivery
<1>5. UNCHANGED <<ingest, conn>> => CallersOK'
  BY DEF CallersOK, ingest
<1> QED
  BY <1>1, <1>2, <1>3, <1>4, <1>5

LEMMA HandlerTypeInv ==
  ASSUME TypeInv, NEW c \in Clients, Handler(c)
  PROVE  TypeInv'
<1> USE Capacities, HubAssumption DEF TypeInv, TypeOK
<1>1. CASE NewClient(c)
  <2>1. QueuesOK'
    BY <1>1, SubscribeMsgsTyped DEF NewClient, CallNewClient, QueuesOK, HasRoom
  <2>2. CallersOK'
    BY <1>1 DEF NewClient, CallNewClient, CallersOK, ingest
  <2> QED
    BY <1>1, <2>1, <2>2, Untouched DEF NewClient, CallNewClient
<1>2. CASE Remove(c)
  <2>1. QueuesOK'
    BY <1>2, SubscribeMsgsTyped DEF Remove, CallRemove, QueuesOK, HasRoom
  <2>2. CallersOK'
    BY <1>2 DEF Remove, CallRemove, CallersOK, ingest
  <2> QED
    BY <1>2, <2>1, <2>2, Untouched DEF Remove, CallRemove
<1>3. CASE TakeEvent(c)
  <2>1. BuffersOK'
    <3>1. send[c] \in Seq(Deliveries)
      BY DEF BuffersOK
    <3>2. Tail(send[c]) \in Seq(Deliveries)
          /\ Len(send[c]) \in Nat /\ Len(Tail(send[c])) = Len(send[c]) - 1
      BY <1>3, <3>1, TakenTyped DEF TakeEvent, ReceiveEvent
    <3> QED
      BY <1>3, <3>2 DEF TakeEvent, ReceiveEvent, BuffersOK
  <2>2. RunTypeOK'
    BY <1>3 DEF TakeEvent, ReceiveEvent, RunTypeOK
  <2>3. CallersOK'
    BY <1>3 DEF TakeEvent, ReceiveEvent, CallersOK, ingest
  <2>4. HistoryOK'
    <3>1. Head(send[c]) \in Deliveries
      BY <1>3, TakenTyped DEF TakeEvent, ReceiveEvent, BuffersOK
    <3> QED
      BY <1>3, <3>1 DEF TakeEvent, ReceiveEvent, HistoryOK, Deliveries
  <2>5. RunOK'
    BY <1>3 DEF TakeEvent, ReceiveEvent, RunOK, BuffersOK, RunTypeOK, RunStates
  <2> QED
    BY <1>3, <2>1, <2>2, <2>3, <2>4, <2>5, Untouched DEF TakeEvent, ReceiveEvent
<1>4. CASE TakeLagged(c)
  <2>1. BuffersOK'
    <3>1. lagged[c] \in Seq({1, 2})
      BY DEF BuffersOK
    <3>2. Tail(lagged[c]) \in Seq({1, 2})
          /\ Len(lagged[c]) \in Nat /\ Len(Tail(lagged[c])) = Len(lagged[c]) - 1
      BY <1>4, <3>1, TakenTyped DEF TakeLagged, ReceiveLagged
    <3> QED
      BY <1>4, <3>2 DEF TakeLagged, ReceiveLagged, BuffersOK
  <2>2. RunTypeOK'
    BY <1>4 DEF TakeLagged, ReceiveLagged, RunTypeOK
  <2>3. CallersOK'
    BY <1>4 DEF TakeLagged, ReceiveLagged, CallersOK, ingest
  <2>4. HistoryOK'
    BY <1>4 DEF TakeLagged, ReceiveLagged, HistoryOK
  <2>5. RunOK'
    BY <1>4 DEF TakeLagged, ReceiveLagged, RunOK
  <2> QED
    BY <1>4, <2>1, <2>2, <2>3, <2>4, <2>5, Untouched DEF TakeLagged, ReceiveLagged
<1>5. ASSUME NEW id \in SubIds, RemoveScope(c, id)
      PROVE  TypeInv'
  <2>1. QueuesOK'
    BY <1>5, SubscribeMsgsTyped DEF RemoveScope, CallRemoveScope, QueuesOK, HasRoom
  <2>2. CallersOK'
    BY <1>5 DEF RemoveScope, CallRemoveScope, CallersOK, ingest
  <2> QED
    BY <1>5, <2>1, <2>2, Untouched DEF RemoveScope, CallRemoveScope
<1>6. ASSUME NEW id \in SubIds, NEW s \in Scopes, AddScope(c, id, s)
      PROVE  TypeInv'
  <2>1. QueuesOK'
    BY <1>6, SubscribeMsgsTyped DEF AddScope, CallAddScope, QueuesOK, HasRoom
  <2>2. CallersOK'
    BY <1>6 DEF AddScope, CallAddScope, CallersOK, ingest
  <2> QED
    BY <1>6, <2>1, <2>2, Untouched DEF AddScope, CallAddScope
<1>7. ASSUME NEW o \in OptionSets, Configure(c, o)
      PROVE  TypeInv'
  <2>1. QueuesOK'
    BY <1>7, SubscribeMsgsTyped DEF Configure, CallConfigure, QueuesOK, HasRoom
  <2>2. CallersOK'
    BY <1>7 DEF Configure, CallConfigure, CallersOK, ingest
  <2> QED
    BY <1>7, <2>1, <2>2, Untouched DEF Configure, CallConfigure
<1> QED
  BY <1>1, <1>2, <1>3, <1>4, <1>5, <1>6, <1>7 DEF Handler

LEMMA IngestTypeInv ==
  ASSUME TypeInv, NEW w \in Workers, Ingest(w)
  PROVE  TypeInv'
<1> USE Capacities, HubAssumption DEF TypeInv, TypeOK
<1>1. CASE SendRepeat(w)
  <2>1. QueuesOK'
    <3> DEFINE m == [event |-> worker[w], repeat |-> TRUE]
    <3>1. m \in BroadcastMsgs
      BY <1>1 DEF SendRepeat, CallersOK, BroadcastMsgs
    <3>2. \/ broadcast' = Append(broadcast, m) /\ Len(broadcast) < BroadcastCap
          \/ broadcast' = broadcast
      BY <1>1 DEF SendRepeat, HasRoom
    <3> HIDE DEF m
    <3>3. UNCHANGED <<subscribe, unsubscribe, remove>>
      BY <1>1 DEF SendRepeat
    <3>4. Append(broadcast, m) \in Seq(BroadcastMsgs)
          /\ Len(broadcast) \in Nat /\ Len(Append(broadcast, m)) = Len(broadcast) + 1
      BY <3>1, PutTyped DEF QueuesOK
    <3>5. broadcast' \in Seq(BroadcastMsgs) /\ Len(broadcast') <= BroadcastCap
      <4>1. CASE broadcast' = broadcast
        BY <4>1 DEF QueuesOK
      <4>2. CASE broadcast' = Append(broadcast, m) /\ Len(broadcast) < BroadcastCap
        <5>1. Len(Append(broadcast, m)) <= BroadcastCap
          BY <3>4, <4>2
        <5> QED
          BY <3>4, <4>2, <5>1
      <4> QED
        BY <3>2, <4>1, <4>2
    <3> QED
      BY <3>3, <3>5 DEF QueuesOK
  <2>2. CallersOK'
    BY <1>1 DEF SendRepeat, CallersOK
  <2> QED
    BY <1>1, <2>1, <2>2, Untouched DEF SendRepeat
<1>2. ASSUME NEW e \in Events, Broadcast(w, e)
      PROVE  TypeInv'
  <2>1. QueuesOK'
    <3>1. [event |-> e, repeat |-> FALSE] \in BroadcastMsgs
      BY DEF BroadcastMsgs
    <3> QED
      BY <1>2, <3>1, PutTyped DEF Broadcast, QueuesOK, HasRoom
  <2>2. CallersOK'
    BY <1>2 DEF Broadcast, CallersOK
  <2> QED
    BY <1>2, <2>1, <2>2, Untouched DEF Broadcast
<1>3. ASSUME NEW e \in Events, CheckRepeat(w, e)
      PROVE  TypeInv'
  <2>1. CallersOK'
    BY <1>3 DEF CheckRepeat, CallersOK
  <2> QED
    BY <1>3, <2>1, Untouched DEF CheckRepeat
<1> QED
  BY <1>1, <1>2, <1>3 DEF Ingest

LEMMA SelectTypeInv ==
  ASSUME TypeInv, Select
  PROVE  TypeInv'
<1> USE Capacities, HubAssumption DEF TypeInv, TypeOK
<1>1. CASE RunRegister
  <2>1. QueuesOK'
    BY <1>1, SubscribeMsgsTyped DEF RunRegister, QueuesOK
  <2>2. RegistryOK'
    BY <1>1, SubscribeMsgsTyped DEF RunRegister, RegistryOK, QueuesOK
  <2>3. CallersOK'
    BY <1>1 DEF RunRegister, CallersOK, ingest
  <2> QED
    BY <1>1, <2>1, <2>2, <2>3, Untouched DEF RunRegister
<1>2. CASE RunConfigure
  <2>1. QueuesOK'
    BY <1>2, SubscribeMsgsTyped DEF RunConfigure, QueuesOK
  <2>2. RegistryOK'
    <3> DEFINE m == Head(subscribe)
    <3>1. m \in SubscribeMsgs /\ m.client \in Clients /\ m.options \in ClientOptions
      BY <1>2, TakenTyped, SubscribeMsgsTyped DEF RunConfigure, QueuesOK
    <3>2. \A a, b : Delta(a, b) \in Int
      BY DEF Delta
    <3> HIDE DEF m
    <3>3. options' \in [Clients -> ClientOptions]
      BY <1>2, <3>1 DEF RunConfigure, RegistryOK, m
    <3>4. observerKeyClients' \in Int /\ repeatClients' \in Int
      BY <1>2, <3>2 DEF RunConfigure, RegistryOK
    <3> QED
      BY <1>2, <3>3, <3>4 DEF RunConfigure, RegistryOK
  <2>3. CallersOK'
    BY <1>2 DEF RunConfigure, CallersOK, ingest
  <2> QED
    BY <1>2, <2>1, <2>2, <2>3, Untouched DEF RunConfigure
<1>3. CASE RunAddScope
  <2>1. QueuesOK'
    BY <1>3, SubscribeMsgsTyped DEF RunAddScope, QueuesOK
  <2>2. RegistryOK'
    BY <1>3, SubscribeMsgsTyped DEF RunAddScope, RegistryOK, QueuesOK
  <2>3. CallersOK'
    BY <1>3 DEF RunAddScope, CallersOK, ingest
  <2> QED
    BY <1>3, <2>1, <2>2, <2>3, Untouched DEF RunAddScope
<1>4. CASE RunUnsubscribe
  <2>1. QueuesOK'
    BY <1>4, SubscribeMsgsTyped DEF RunUnsubscribe, QueuesOK
  <2>2. RegistryOK'
    BY <1>4, SubscribeMsgsTyped DEF RunUnsubscribe, RegistryOK, QueuesOK
  <2>3. CallersOK'
    BY <1>4 DEF RunUnsubscribe, CallersOK, ingest
  <2> QED
    BY <1>4, <2>1, <2>2, <2>3, Untouched DEF RunUnsubscribe
<1>5. CASE RunRemove
  <2>1. QueuesOK'
    BY <1>5, SubscribeMsgsTyped DEF RunRemove, QueuesOK
  <2>2. RegistryOK'
    BY <1>5, SubscribeMsgsTyped DEF RunRemove, RegistryOK, QueuesOK
  <2>3. CallersOK'
    BY <1>5 DEF RunRemove, CallersOK, ingest
  <2> QED
    BY <1>5, <2>1, <2>2, <2>3, Untouched DEF RunRemove
<1>6. CASE RunBroadcast
  <2>1. QueuesOK'
    BY <1>6, SubscribeMsgsTyped DEF RunBroadcast, QueuesOK
  <2>2. BuffersOK'
    BY <1>6 DEF RunBroadcast, BuffersOK
  <2>3. RunTypeOK'
    <3>1. Head(broadcast) \in [event : Events, repeat : BOOLEAN]
      BY <1>6, TakenTyped DEF RunBroadcast, QueuesOK, BroadcastMsgs
    <3> QED
      BY <1>6, <3>1 DEF RunBroadcast, RunTypeOK, RunStates, RegistryOK
  <2>4. CallersOK'
    BY <1>6 DEF RunBroadcast, CallersOK, ingest
  <2>5. HistoryOK'
    BY <1>6 DEF RunBroadcast, HistoryOK
  <2>6. RunOK'
    <3>1. Head(broadcast) \in [event : Events, repeat : BOOLEAN]
      BY <1>6, TakenTyped DEF RunBroadcast, QueuesOK, BroadcastMsgs
    <3> QED
      BY <1>6, <3>1 DEF RunBroadcast, RunOK, RunTypeOK, RunStates
  <2> QED
    BY <1>6, <2>1, <2>2, <2>3, <2>4, <2>5, <2>6, Untouched DEF RunBroadcast
<1> QED
  BY <1>1, <1>2, <1>3, <1>4, <1>5, <1>6 DEF Select, RunSubscribe

LEMMA FanOutTypeInv ==
  ASSUME TypeInv, FanOut
  PROVE  TypeInv'
<1> USE Capacities, HubAssumption DEF TypeInv, TypeOK
<1>1. ASSUME NEW c \in Clients, Deliver(c)
      PROVE  TypeInv'
  <2>1. BuffersOK'
    <3>1. Out(c) \in Deliveries
      BY <1>1, OutTyped DEF Deliver, RunOK
    <3>2. Append(send[c], Out(c)) \in Seq(Deliveries)
          /\ Len(send[c]) \in Nat /\ Len(Append(send[c], Out(c))) = Len(send[c]) + 1
      BY <3>1, PutTyped DEF BuffersOK
    <3>3. \/ send' = [send EXCEPT ![c] = Append(send[c], Out(c))] /\ Len(send[c]) < SendCap
          \/ send' = send
      BY <1>1 DEF Deliver, HasRoom
    <3>4. lagged' = lagged
      BY <1>1 DEF Deliver
    <3>5. CASE send' = send
      BY <3>4, <3>5 DEF BuffersOK
    <3>6. CASE send' = [send EXCEPT ![c] = Append(send[c], Out(c))] /\ Len(send[c]) < SendCap
      BY <3>2, <3>4, <3>6, BufferSet DEF BuffersOK
    <3> QED
      BY <3>3, <3>5, <3>6
  <2>2. RunTypeOK'
    <3>1. Served(c) \in RunStates
      BY <1>1, ServedTyped DEF Deliver, RunOK
    <3>2. [run EXCEPT !.pc = "evict", !.cur = c, !.dropped = 1] \in RunStates
      BY <1>1 DEF Deliver, RunTypeOK, RunStates
    <3>3. run' = Served(c) \/ run' = [run EXCEPT !.pc = "evict", !.cur = c, !.dropped = 1]
      BY <1>1 DEF Deliver
    <3> QED
      BY <3>1, <3>2, <3>3 DEF RunTypeOK
  <2>3. CallersOK'
    BY <1>1 DEF Deliver, CallersOK, ingest
  <2>4. HistoryOK'
    BY <1>1 DEF Deliver, HistoryOK, RunOK
  <2>5. RunOK'
    <3>1. CASE run' = Served(c)
      BY <1>1, <3>1, ServedTyped DEF Deliver, RunOK
    <3>2. CASE run' = [run EXCEPT !.pc = "evict", !.cur = c, !.dropped = 1]
      BY <1>1, <3>2 DEF Deliver, RunOK, RunTypeOK, RunStates
    <3> QED
      BY <1>1, <3>1, <3>2 DEF Deliver
  <2> QED
    BY <1>1, <2>1, <2>2, <2>3, <2>4, <2>5, Untouched DEF Deliver
<1>2. CASE Evict
  <2>1. BuffersOK'
    <3> DEFINE d == run.cur
    <3>1. d \in Clients
      BY <1>2 DEF Evict, RunTypeOK, RunStates, RunOK
    <3>2. send[d] # <<>> => Tail(send[d]) \in Seq(Deliveries)
          /\ Len(send[d]) \in Nat /\ Len(Tail(send[d])) = Len(send[d]) - 1
      BY <3>1, TakenTyped DEF BuffersOK
    <3>3. \/ send[d] # <<>> /\ send' = [send EXCEPT ![d] = Tail(send[d])]
          \/ send' = send
      BY <1>2 DEF Evict
    <3>4. lagged' = lagged
      BY <1>2 DEF Evict
    <3>5. CASE send' = send
      BY <3>4, <3>5 DEF BuffersOK
    <3>6. CASE send[d] # <<>> /\ send' = [send EXCEPT ![d] = Tail(send[d])]
      <4>1. Len(send[d]) <= SendCap
        BY <3>1 DEF BuffersOK
      <4>2. Len(Tail(send[d])) <= SendCap
        BY <3>2, <3>6, <4>1
      <4> QED
        BY <3>1, <3>2, <3>4, <3>6, <4>2, BufferSet DEF BuffersOK
    <3> QED
      BY <3>3, <3>5, <3>6
  <2>2. RunTypeOK'
    BY <1>2 DEF Evict, RunTypeOK, RunStates
  <2>3. CallersOK'
    BY <1>2 DEF Evict, CallersOK, ingest
  <2>4. HistoryOK'
    BY <1>2 DEF Evict, HistoryOK, RunTypeOK, RunOK, RunStates
  <2>5. RunOK'
    BY <1>2 DEF Evict, RunOK, BuffersOK, RunTypeOK, RunStates
  <2> QED
    BY <1>2, <2>1, <2>2, <2>3, <2>4, <2>5, Untouched DEF Evict
<1>3. CASE Resend
  <2>1. BuffersOK'
    <3> DEFINE d == run.cur
    <3>1. d \in Clients /\ run.msg.event \in Events
      BY <1>3 DEF Resend, RunTypeOK, RunStates, RunOK
    <3>2. Append(send[d], Out(d)) \in Seq(Deliveries)
          /\ Len(send[d]) \in Nat /\ Len(Append(send[d], Out(d))) = Len(send[d]) + 1
      BY <3>1, OutTyped, PutTyped DEF BuffersOK
    <3>3. \/ send' = [send EXCEPT ![d] = Append(send[d], Out(d))] /\ Len(send[d]) < SendCap
          \/ send' = send
      BY <1>3 DEF Resend, HasRoom
    <3>4. lagged' = lagged
      BY <1>3 DEF Resend
    <3>5. CASE send' = send
      BY <3>4, <3>5 DEF BuffersOK
    <3>6. CASE send' = [send EXCEPT ![d] = Append(send[d], Out(d))] /\ Len(send[d]) < SendCap
      <4>1. Len(Append(send[d], Out(d))) <= SendCap
        BY <3>2, <3>6
      <4> QED
        BY <3>1, <3>2, <3>4, <3>6, <4>1, BufferSet DEF BuffersOK
    <3> QED
      BY <3>3, <3>5, <3>6
  <2>2. RunTypeOK'
    <3>1. \/ run' = [run EXCEPT !.pc = "lag"]
          \/ run' = [run EXCEPT !.pc = "lag", !.dropped = 2]
      BY <1>3 DEF Resend
    <3> QED
      BY <3>1 DEF RunTypeOK, RunStates
  <2>3. CallersOK'
    BY <1>3 DEF Resend, CallersOK, ingest
  <2>4. HistoryOK'
    BY <1>3 DEF Resend, HistoryOK, RunTypeOK, RunOK, RunStates
  <2>5. RunOK'
    BY <1>3 DEF Resend, RunOK, HasRoom, BuffersOK, RunTypeOK, RunStates
  <2> QED
    BY <1>3, <2>1, <2>2, <2>3, <2>4, <2>5, Untouched DEF Resend
<1>4. CASE SendLagged
  <2>1. BuffersOK'
    <3> DEFINE d == run.cur
    <3>1. d \in Clients /\ run.dropped = 1
      BY <1>4 DEF SendLagged, RunTypeOK, RunStates, RunOK
    <3>2. Append(lagged[d], run.dropped) \in Seq({1, 2})
          /\ Len(lagged[d]) \in Nat /\ Len(Append(lagged[d], run.dropped)) = Len(lagged[d]) + 1
      BY <3>1, PutTyped DEF BuffersOK
    <3> QED
      BY <1>4, <3>1, <3>2 DEF SendLagged, BuffersOK, NoticeFits, HasRoom
  <2>2. RunTypeOK'
    BY <1>4, ServedTyped DEF SendLagged, RunTypeOK, RunOK
  <2>3. CallersOK'
    BY <1>4 DEF SendLagged, CallersOK, ingest
  <2>4. HistoryOK'
    BY <1>4 DEF SendLagged, HistoryOK
  <2>5. RunOK'
    BY <1>4, ServedTyped DEF SendLagged, RunOK, RunTypeOK
  <2> QED
    BY <1>4, <2>1, <2>2, <2>3, <2>4, <2>5, Untouched DEF SendLagged
<1> QED
  BY <1>1, <1>2, <1>3, <1>4 DEF FanOut

\* Every variable of the hub keeps its type, and no channel ever holds more
\* than its capacity.
THEOREM TypeCorrect == Spec => []TypeOK
<1>1. Init => TypeInv
  BY InitTypeOK DEF TypeInv
<1>2. TypeInv /\ [Next]_hubVars => TypeInv'
  <2>1. ASSUME TypeInv, Next
        PROVE  TypeInv'
    BY <2>1, HandlerTypeInv, IngestTypeInv, SelectTypeInv, FanOutTypeInv DEF Next, RunStep
  <2>2. ASSUME TypeInv, UNCHANGED hubVars
        PROVE  TypeInv'
    BY <2>2, Untouched DEF TypeInv, TypeOK, hubVars
  <2> QED
    BY <2>1, <2>2
<1> QED
  BY <1>1, <1>2, PTL DEF Spec, TypeInv

-----------------------------------------------------------------------------
(* Registration: a client is registered once, before it is closed, and     *)
(* before anything else its connection asks for.                           *)

LEMMA Appended ==
  ASSUME NEW S, NEW q \in Seq(S), NEW x \in S
  PROVE  /\ Len(q) \in Nat /\ Len(Append(q, x)) = Len(q) + 1
         /\ \A i \in 1..Len(q) : Append(q, x)[i] = q[i]
         /\ Append(q, x)[Len(q) + 1] = x
OBVIOUS

LEMMA Popped ==
  ASSUME NEW S, NEW q \in Seq(S), q # <<>>
  PROVE  /\ Len(q) \in Nat \ {0} /\ Len(Tail(q)) = Len(q) - 1
         /\ \A i \in 1..Len(Tail(q)) : i + 1 \in 1..Len(q) /\ Tail(q)[i] = q[i + 1]
         /\ Head(q) = q[1]
OBVIOUS

Registers(m, c) == m.kind = "register" /\ m.client = c

\* A registration waits at most once, for a client Run neither knows nor has
\* closed; whatever the hub knows of was registered.
RegisteredOnce ==
  /\ \A i \in 1..Len(subscribe) : conn[subscribe[i].client] # "none"
  /\ \A i \in 1..Len(subscribe) : subscribe[i].kind = "register" =>
       /\ subscribe[i].client \notin clients \cup closed
       /\ \A j \in 1..Len(subscribe) : Registers(subscribe[j], subscribe[i].client) => j = i
  /\ \A c \in clients \cup closed : conn[c] # "none"
  /\ closed \cap clients = {}
  /\ run.todo \subseteq clients

\* A live connection is registered, or its registration waits ahead of
\* everything else it put into the channel.
RegisteredFirst ==
  /\ \A i \in 1..Len(remove) : conn[remove[i]] = "gone"
  /\ \A c \in Clients : conn[c] = "live" =>
       \/ c \in clients
       \/ \E j \in 1..Len(subscribe) :
            /\ Registers(subscribe[j], c)
            /\ \A i \in 1..(j - 1) : subscribe[i].client # c

LEMMA NewClientRegistered ==
  ASSUME TypeInv, RegisteredOnce, RegisteredFirst, NEW c \in Clients, NewClient(c)
  PROVE  RegisteredOnce' /\ RegisteredFirst'
<1> DEFINE m == Register(c)
           n == Len(subscribe)
<1>1. subscribe \in Seq(SubscribeMsgs) /\ conn \in [Clients -> {"none", "live", "gone"}]
      /\ \A i \in 1..n : subscribe[i].client \in Clients
  BY SubscribeMsgsTyped DEF TypeInv, TypeOK, QueuesOK, CallersOK
<1>2. m \in SubscribeMsgs /\ m.client = c /\ m.kind = "register"
  BY SubscribeMsgsTyped DEF Register
<1>3. /\ n \in Nat /\ Len(subscribe') = n + 1
      /\ \A i \in 1..n : subscribe'[i] = subscribe[i]
      /\ subscribe'[n + 1] = m
  BY <1>1, <1>2, Appended DEF NewClient, CallNewClient
<1>4. /\ conn[c] = "none" /\ conn' = [conn EXCEPT ![c] = "live"]
      /\ UNCHANGED <<clients, closed, run, remove>>
  BY DEF NewClient, CallNewClient, registry, delivery
<1>5. \A i \in 1..n : subscribe[i].client # c
  BY <1>4 DEF RegisteredOnce
<1> HIDE DEF m, n
<1>6. RegisteredOnce'
  <2>1. \A i \in 1..(n + 1) : conn'[subscribe'[i].client] # "none"
    BY <1>1, <1>2, <1>3, <1>4 DEF RegisteredOnce, n
  <2>2. \A i \in 1..(n + 1) : subscribe'[i].kind = "register" =>
          /\ subscribe'[i].client \notin clients \cup closed
          /\ \A j \in 1..(n + 1) : Registers(subscribe'[j], subscribe'[i].client) => j = i
    BY <1>1, <1>2, <1>3, <1>4, <1>5 DEF RegisteredOnce, Registers, n
  <2>3. \A d \in clients \cup closed : conn'[d] # "none"
    BY <1>1, <1>4 DEF RegisteredOnce, TypeInv, TypeOK, RegistryOK
  <2> QED
    BY <1>3, <1>4, <2>1, <2>2, <2>3 DEF RegisteredOnce
<1>7. RegisteredFirst'
  <2>1. \A i \in 1..Len(remove) : conn'[remove[i]] = "gone"
    BY <1>1, <1>4 DEF RegisteredFirst, TypeInv, TypeOK, QueuesOK
  <2>2. ASSUME NEW d \in Clients, conn'[d] = "live"
        PROVE  \/ d \in clients
               \/ \E j \in 1..(n + 1) : /\ Registers(subscribe'[j], d)
                                       /\ \A i \in 1..(j - 1) : subscribe'[i].client # d
    <3>1. CASE d = c
      BY <1>2, <1>3, <1>5, <3>1 DEF Registers, n
    <3>2. CASE d # c
      BY <1>1, <1>3, <1>4, <2>2, <3>2 DEF RegisteredFirst, Registers, n
    <3> QED
      BY <3>1, <3>2
  <2> QED
    BY <1>3, <1>4, <2>1, <2>2 DEF RegisteredFirst
<1> QED
  BY <1>6, <1>7

\* Any other message of a live connection goes behind its registration.
LEMMA RequestRegistered ==
  ASSUME TypeInv, RegisteredOnce, RegisteredFirst, NEW c \in Clients, conn[c] = "live",
         NEW m \in SubscribeMsgs, m.client = c, m.kind # "register",
         subscribe' = Append(subscribe, m), UNCHANGED <<remove, clients, closed, run, conn>>
  PROVE  RegisteredOnce' /\ RegisteredFirst'
<1> DEFINE n == Len(subscribe)
<1>1. subscribe \in Seq(SubscribeMsgs)
  BY DEF TypeInv, TypeOK, QueuesOK
<1>2. /\ n \in Nat /\ Len(subscribe') = n + 1
      /\ \A i \in 1..n : subscribe'[i] = subscribe[i]
      /\ subscribe'[n + 1] = m
  BY <1>1, Appended
<1> HIDE DEF n
<1>3. RegisteredOnce'
  <2>1. \A i \in 1..(n + 1) : conn[subscribe'[i].client] # "none"
    BY <1>2 DEF RegisteredOnce, n
  <2>2. \A i \in 1..(n + 1) : subscribe'[i].kind = "register" =>
          /\ subscribe'[i].client \notin clients \cup closed
          /\ \A j \in 1..(n + 1) : Registers(subscribe'[j], subscribe'[i].client) => j = i
    BY <1>2 DEF RegisteredOnce, Registers, n
  <2> QED
    BY <1>2, <2>1, <2>2 DEF RegisteredOnce
<1>4. RegisteredFirst'
  <2>1. ASSUME NEW d \in Clients, conn[d] = "live", d \notin clients
        PROVE  \E j \in 1..(n + 1) : /\ Registers(subscribe'[j], d)
                                   /\ \A i \in 1..(j - 1) : subscribe'[i].client # d
    BY <1>2, <2>1 DEF RegisteredFirst, Registers, n
  <2> QED
    BY <1>2, <2>1 DEF RegisteredFirst
<1> QED
  BY <1>3, <1>4

\* Run takes the head: a registration adds its client, another message of a
\* registered client leaves the map alone.
LEMMA TakenRegistered ==
  ASSUME TypeInv, RegisteredOnce, RegisteredFirst, subscribe # <<>>,
         subscribe' = Tail(subscribe), UNCHANGED <<remove, closed, run, conn>>,
         clients' = IF Head(subscribe).kind = "register"
                    THEN clients \cup {Head(subscribe).client} ELSE clients
  PROVE  RegisteredOnce' /\ RegisteredFirst'
<1> DEFINE n == Len(subscribe)
           h == Head(subscribe)
<1>1. subscribe \in Seq(SubscribeMsgs)
  BY DEF TypeInv, TypeOK, QueuesOK
<1>2. /\ n \in Nat \ {0} /\ Len(subscribe') = n - 1
      /\ \A i \in 1..(n - 1) : subscribe'[i] = subscribe[i + 1]
      /\ h = subscribe[1]
  BY <1>1, Popped
<1> HIDE DEF n, h
<1>3. RegisteredOnce'
  <2>1. \A i \in 1..(n - 1) : conn[subscribe'[i].client] # "none"
    BY <1>2 DEF RegisteredOnce, n
  <2>2. \A i \in 1..(n - 1) : subscribe'[i].kind = "register" =>
          /\ subscribe'[i].client \notin clients \cup closed
          /\ h.kind = "register" => subscribe'[i].client # h.client
          /\ \A j \in 1..(n - 1) : Registers(subscribe'[j], subscribe'[i].client) => j = i
    BY <1>2 DEF RegisteredOnce, Registers, n
  <2>3. h.kind = "register" => h.client \notin clients \cup closed /\ conn[h.client] # "none"
    BY <1>2 DEF RegisteredOnce, n
  <2> QED
    BY <1>2, <2>1, <2>2, <2>3 DEF RegisteredOnce, h
<1>4. RegisteredFirst'
  <2>1. ASSUME NEW d \in Clients, conn[d] = "live", d \notin clients'
        PROVE  \E j \in 1..(n - 1) : /\ Registers(subscribe'[j], d)
                                   /\ \A i \in 1..(j - 1) : subscribe'[i].client # d
    <3>1. d \notin clients
      BY <2>1
    <3>2. PICK j \in 1..n : /\ Registers(subscribe[j], d)
                            /\ \A i \in 1..(j - 1) : subscribe[i].client # d
      BY <2>1, <3>1 DEF RegisteredFirst, n
    <3>3. j # 1
      BY <1>2, <2>1, <3>2 DEF Registers, h
    <3>4. j - 1 \in 1..(n - 1) /\ subscribe'[j - 1] = subscribe[j]
      BY <1>2, <3>2, <3>3
    <3>5. \A i \in 1..((j - 1) - 1) : i + 1 \in 1..(j - 1) /\ subscribe'[i] = subscribe[i + 1]
      BY <1>2, <3>2, <3>3
    <3>6. \A i \in 1..((j - 1) - 1) : subscribe'[i].client # d
      BY <3>2, <3>5
    <3> QED
      BY <3>2, <3>4, <3>6
  <2> QED
    BY <1>2, <2>1 DEF RegisteredFirst
<1> QED
  BY <1>3, <1>4

LEMMA RemoveCallRegistered ==
  ASSUME TypeInv, RegisteredOnce, RegisteredFirst, NEW c \in Clients, Remove(c)
  PROVE  RegisteredOnce' /\ RegisteredFirst'
<1> DEFINE n == Len(remove)
<1>1. remove \in Seq(Clients) /\ conn \in [Clients -> {"none", "live", "gone"}]
      /\ \A i \in 1..Len(subscribe) : subscribe[i].client \in Clients
      /\ clients \subseteq Clients /\ closed \subseteq Clients
  BY SubscribeMsgsTyped DEF TypeInv, TypeOK, QueuesOK, CallersOK, RegistryOK
<1>2. /\ n \in Nat /\ Len(remove') = n + 1
      /\ \A i \in 1..n : remove'[i] = remove[i] /\ remove[i] \in Clients
      /\ remove'[n + 1] = c
  BY <1>1, Appended DEF Remove, CallRemove
<1>3. /\ conn' = [conn EXCEPT ![c] = "gone"]
      /\ UNCHANGED <<subscribe, clients, closed, run>>
  BY DEF Remove, CallRemove, registry, delivery
<1> HIDE DEF n
<1>4. RegisteredOnce'
  BY <1>1, <1>3 DEF RegisteredOnce, Registers
<1>5. \A i \in 1..(n + 1) : conn'[remove'[i]] = "gone"
  BY <1>1, <1>2, <1>3 DEF RegisteredFirst, n
<1>6. \A d \in Clients : conn'[d] = "live" => conn[d] = "live"
  BY <1>1, <1>3
<1> QED
  BY <1>2, <1>3, <1>4, <1>5, <1>6 DEF RegisteredFirst

LEMMA RunRemoveRegistered ==
  ASSUME TypeInv, RegisteredOnce, RegisteredFirst, RunRemove
  PROVE  RegisteredOnce' /\ RegisteredFirst'
<1> DEFINE n == Len(remove)
           h == Head(remove)
<1>1. remove \in Seq(Clients) /\ run.todo = {} /\ run' = run /\ remove' = Tail(remove)
      /\ UNCHANGED <<subscribe, conn>>
  BY DEF RunRemove, delivery, TypeInv, TypeOK, QueuesOK, RunOK
<1>2. /\ n \in Nat \ {0} /\ Len(remove') = n - 1
      /\ \A i \in 1..(n - 1) : i + 1 \in 1..n /\ remove'[i] = remove[i + 1]
      /\ h = remove[1] /\ h \in Clients
  BY <1>1, Popped, TakenTyped DEF RunRemove
<1>3. \/ h \in clients /\ clients' = clients \ {h} /\ closed' = closed \cup {h}
      \/ UNCHANGED <<clients, closed>>
  BY DEF RunRemove, Removable
<1> HIDE DEF n, h
<1>4. RegisteredOnce'
  <2>1. \A d \in clients' \cup closed' : d \in clients \cup closed
    BY <1>3
  <2>2. closed' \cap clients' = {}
    BY <1>3 DEF RegisteredOnce
  <2> QED
    BY <1>1, <2>1, <2>2 DEF RegisteredOnce
<1>5. conn[h] = "gone" /\ \A i \in 1..(n - 1) : conn[remove'[i]] = "gone"
  BY <1>2 DEF RegisteredFirst, n
<1>6. \A d \in Clients : conn[d] = "live" /\ d \in clients => d \in clients'
  BY <1>3, <1>5
<1> QED
  BY <1>1, <1>2, <1>4, <1>5, <1>6 DEF RegisteredFirst

\* Every other step leaves the three channels of connections and the map
\* alone, and only ever chooses recipients among registered clients.
LEMMA RestRegistered ==
  ASSUME RegisteredOnce, RegisteredFirst, run'.todo \subseteq clients,
         UNCHANGED <<subscribe, remove, clients, closed, conn>>
  PROVE  RegisteredOnce' /\ RegisteredFirst'
BY DEF RegisteredOnce, RegisteredFirst

HubInv == TypeInv /\ RegisteredOnce /\ RegisteredFirst

LEMMA NextRegistered ==
  ASSUME HubInv, Next
  PROVE  RegisteredOnce' /\ RegisteredFirst'
<1> USE DEF HubInv
<1>1. ASSUME NEW c \in Clients, Handler(c)
      PROVE  RegisteredOnce' /\ RegisteredFirst'
  <2>1. CASE NewClient(c)
    BY <2>1, NewClientRegistered
  <2>2. CASE Remove(c)
    BY <2>2, RemoveCallRegistered
  <2>3. CASE TakeEvent(c) \/ TakeLagged(c)
    BY <2>3, RestRegistered DEF TakeEvent, ReceiveEvent, TakeLagged, ReceiveLagged, queues, registry, RegisteredOnce
  <2>4. ASSUME NEW id \in SubIds, RemoveScope(c, id)
        PROVE  RegisteredOnce' /\ RegisteredFirst'
    BY <2>4, RestRegistered DEF RemoveScope, CallRemoveScope, registry, delivery, RegisteredOnce
  <2>5. ASSUME NEW id \in SubIds, NEW s \in Scopes, AddScope(c, id, s)
        PROVE  RegisteredOnce' /\ RegisteredFirst'
    <3>1. AddMsg(c, id, s).client = c /\ AddMsg(c, id, s).kind # "register"
      BY DEF AddMsg
    <3> QED
      BY <2>5, <3>1, SubscribeMsgsTyped, RequestRegistered DEF AddScope, CallAddScope, registry, delivery
  <2>6. ASSUME NEW o \in OptionSets, Configure(c, o)
        PROVE  RegisteredOnce' /\ RegisteredFirst'
    <3>1. ConfigureMsg(c, o).client = c /\ ConfigureMsg(c, o).kind # "register"
      BY DEF ConfigureMsg
    <3>2. ConfigureMsg(c, o) \in SubscribeMsgs
      BY SubscribeMsgsTyped, HubAssumption
    <3> QED
      BY <2>6, <3>1, <3>2, RequestRegistered DEF Configure, CallConfigure, registry, delivery
  <2> QED
    BY <1>1, <2>1, <2>2, <2>3, <2>4, <2>5, <2>6 DEF Handler
<1>2. ASSUME NEW w \in Workers, Ingest(w)
      PROVE  RegisteredOnce' /\ RegisteredFirst'
  BY <1>2, RestRegistered
     DEF Ingest, SendRepeat, Broadcast, CheckRepeat, queues, registry, delivery, RegisteredOnce
<1>3. CASE RunSubscribe
  <2>1. UNCHANGED <<remove, closed, run, conn>> /\ subscribe # <<>> /\ subscribe' = Tail(subscribe)
    BY <1>3 DEF RunSubscribe, RunRegister, RunConfigure, RunAddScope, delivery
  <2>2. clients' = IF Head(subscribe).kind = "register"
                   THEN clients \cup {Head(subscribe).client} ELSE clients
    BY <1>3 DEF RunSubscribe, RunRegister, RunConfigure, RunAddScope
  <2> QED
    BY <2>1, <2>2, TakenRegistered
<1>4. CASE RunRemove
  BY <1>4, RunRemoveRegistered
<1>5. CASE RunUnsubscribe \/ RunBroadcast
  <2>1. UNCHANGED <<subscribe, remove, clients, closed, conn>>
    BY <1>5 DEF RunUnsubscribe, RunBroadcast, registry
  <2>2. CASE RunUnsubscribe
    BY <2>1, <2>2, RestRegistered DEF RunUnsubscribe, delivery, RegisteredOnce
  <2>3. CASE RunBroadcast
    <3> DEFINE R == {c \in clients : /\ Head(broadcast).repeat => options[c].includeRepeats
                                     /\ Matches(c, Head(broadcast).event)}
    <3>1. run' = run \/ run'.todo = R
      BY <2>3 DEF RunBroadcast, TypeInv, TypeOK, RunTypeOK, RunStates
    <3> QED
      BY <2>1, <3>1, RestRegistered DEF RegisteredOnce
  <2> QED
    BY <1>5, <2>2, <2>3
<1>6. CASE FanOut
  <2>1. UNCHANGED <<subscribe, remove, clients, closed, conn>>
    BY <1>6 DEF FanOut, Deliver, Evict, Resend, SendLagged, queues, registry
  <2>2. \A c : Served(c).todo \subseteq run.todo
    BY DEF Served, Idle
  <2>3. run'.todo \subseteq run.todo
    BY <1>6, <2>2
       DEF FanOut, Deliver, Evict, Resend, SendLagged, TypeInv, TypeOK, RunTypeOK, RunStates
  <2> QED
    BY <2>1, <2>3, RestRegistered DEF RegisteredOnce
<1> QED
  BY <1>1, <1>2, <1>3, <1>4, <1>5, <1>6 DEF Next, RunStep, Select

LEMMA HubInvariant == Spec => []HubInv
<1>1. Init => HubInv
  BY InitTypeOK DEF Init, HubInv, TypeInv, RegisteredOnce, RegisteredFirst, Idle
<1>2. HubInv /\ [Next]_hubVars => HubInv'
  <2>1. ASSUME HubInv, Next
        PROVE  HubInv'
    BY <2>1, NextRegistered, HandlerTypeInv, IngestTypeInv, SelectTypeInv, FanOutTypeInv
       DEF HubInv, Next, RunStep
  <2>2. ASSUME HubInv, UNCHANGED hubVars
        PROVE  HubInv'
    BY <2>2, Untouched, RestRegistered
       DEF HubInv, TypeInv, TypeOK, hubVars, queues, registry, delivery, RegisteredOnce
  <2> QED
    BY <2>1, <2>2
<1> QED
  BY <1>1, <1>2, PTL DEF Spec

\* Run never sends on a closed channel and never closes one twice, whichever
\* of its channels select reads first.
THEOREM NeverSendsOnClosed == Spec => []NoSendOnClosed
<1>1. HubInv => NoSendOnClosed
  BY DEF HubInv, RegisteredOnce, NoSendOnClosed
<1> QED
  BY <1>1, HubInvariant, PTL

\* A live connection's options and subscriptions are never applied before its
\* registration: the reason they share a channel.
THEOREM ConfigureIsNeverLost == Spec => []ConfigureFollowsRegistration
<1>1. HubInv => ConfigureFollowsRegistration
  <2> SUFFICES ASSUME HubInv, subscribe # <<>>, Head(subscribe).kind # "register",
                      conn[Head(subscribe).client] = "live"
               PROVE  Head(subscribe).client \in clients
    BY DEF ConfigureFollowsRegistration
  <2> USE DEF HubInv
  <2>1. Head(subscribe) = subscribe[1] /\ Head(subscribe).client \in Clients
    BY Popped, TakenTyped, SubscribeMsgsTyped DEF TypeInv, TypeOK, QueuesOK
  <2> QED
    BY <2>1 DEF RegisteredFirst, Registers
<1> QED
  BY <1>1, HubInvariant, PTL

-----------------------------------------------------------------------------
(* The counters ingest reads.                                              *)

\* The options of a client that was never registered are the defaults, so a
\* registration changes no count.
CountInv ==
  /\ CountersExact
  /\ \A c \in Clients \ (clients \cup closed) : options[c] = NoOptions

\* Two sets that differ at most in one element differ in size by a Delta.
LEMMA OneApart ==
  ASSUME NEW S, IsFiniteSet(S), NEW T, NEW x, T \ {x} = S \ {x},
         NEW was \in BOOLEAN, NEW is \in BOOLEAN, was <=> x \in S, is <=> x \in T
  PROVE  Cardinality(T) = Cardinality(S) + Delta(was, is)
<1>1. Cardinality(S) \in Nat
  BY FS_CardinalityType
<1>2. CASE was = is
  <2>1. T = S
    BY <1>2
  <2> QED
    BY <1>1, <1>2, <2>1 DEF Delta
<1>3. CASE is /\ ~was
  <2>1. T = S \cup {x} /\ x \notin S
    BY <1>3
  <2>2. Cardinality(T) = Cardinality(S) + 1
    BY <2>1, FS_AddElement
  <2> QED
    BY <1>3, <2>2 DEF Delta
<1>4. CASE was /\ ~is
  <2>1. T = S \ {x} /\ x \in S
    BY <1>4
  <2>2. Cardinality(T) = Cardinality(S) - 1
    BY <2>1, FS_RemoveElement
  <2> QED
    BY <1>1, <1>4, <2>2 DEF Delta
<1> QED
  BY <1>2, <1>3, <1>4

LEMMA CountedFinite ==
  ASSUME TypeInv
  PROVE  IsFiniteSet(KeyClients) /\ IsFiniteSet(RepeatClients)
<1>1. KeyClients \in SUBSET Clients /\ RepeatClients \in SUBSET Clients
  BY DEF KeyClients, RepeatClients, TypeInv, TypeOK, RegistryOK
<1> QED
  BY <1>1, FS_Subset, HubAssumption

LEMMA RunRegisterCounts ==
  ASSUME HubInv, CountInv, RunRegister
  PROVE  CountInv'
<1> DEFINE c == Head(subscribe).client
<1>1. c \in Clients /\ c \notin clients \cup closed
  BY TakenTyped, Popped, SubscribeMsgsTyped
     DEF RunRegister, HubInv, TypeInv, TypeOK, QueuesOK, RegisteredOnce
<1>2. clients' = clients \cup {c} /\ UNCHANGED <<options, closed, observerKeyClients, repeatClients>>
  BY DEF RunRegister
<1> HIDE DEF c
<1>3. ~options[c].includeObserverKey /\ ~options[c].includeRepeats
  BY <1>1 DEF CountInv, NoOptions
<1>4. KeyClients' = KeyClients /\ RepeatClients' = RepeatClients
  BY <1>2, <1>3 DEF KeyClients, RepeatClients
<1> QED
  BY <1>2, <1>4 DEF CountInv, CountersExact

LEMMA RunConfigureCounts ==
  ASSUME HubInv, CountInv, RunConfigure
  PROVE  CountInv'
<1> DEFINE c == Head(subscribe).client
           o == Head(subscribe).options
<1>1. c \in Clients /\ o \in ClientOptions
  BY TakenTyped, SubscribeMsgsTyped DEF RunConfigure, HubInv, TypeInv, TypeOK, QueuesOK
<1>2. options \in [Clients -> ClientOptions] /\ clients \subseteq Clients
  BY DEF HubInv, TypeInv, TypeOK, RegistryOK
<1>3. UNCHANGED <<clients, closed>>
  BY DEF RunConfigure
<1>4. CASE c \notin clients
  <2>1. UNCHANGED <<observerKeyClients, repeatClients, options>>
    BY <1>4 DEF RunConfigure
  <2> QED
    BY <1>3, <2>1 DEF CountInv, CountersExact, KeyClients, RepeatClients
<1>5. CASE c \in clients
  <2>1. /\ observerKeyClients' = observerKeyClients
             + Delta(options[c].includeObserverKey, o.includeObserverKey)
        /\ repeatClients' = repeatClients + Delta(options[c].includeRepeats, o.includeRepeats)
        /\ options' = [options EXCEPT ![c] = o]
    BY <1>5 DEF RunConfigure
  <2> HIDE DEF c, o
  <2>2. /\ options[c].includeObserverKey \in BOOLEAN /\ o.includeObserverKey \in BOOLEAN
        /\ options[c].includeRepeats \in BOOLEAN /\ o.includeRepeats \in BOOLEAN
    BY <1>1, <1>2 DEF ClientOptions
  <2>3. Cardinality(KeyClients') = Cardinality(KeyClients)
          + Delta(options[c].includeObserverKey, o.includeObserverKey)
    <3>1. KeyClients' \ {c} = KeyClients \ {c}
      BY <1>1, <1>2, <1>3, <2>1 DEF KeyClients
    <3>2. /\ c \in KeyClients <=> options[c].includeObserverKey
          /\ c \in KeyClients' <=> o.includeObserverKey
      BY <1>1, <1>2, <1>3, <1>5, <2>1 DEF KeyClients
    <3> QED
      BY <2>2, <3>1, <3>2, OneApart, CountedFinite DEF HubInv
  <2>4. Cardinality(RepeatClients') = Cardinality(RepeatClients)
          + Delta(options[c].includeRepeats, o.includeRepeats)
    <3>1. RepeatClients' \ {c} = RepeatClients \ {c}
      BY <1>1, <1>2, <1>3, <2>1 DEF RepeatClients
    <3>2. /\ c \in RepeatClients <=> options[c].includeRepeats
          /\ c \in RepeatClients' <=> o.includeRepeats
      BY <1>1, <1>2, <1>3, <1>5, <2>1 DEF RepeatClients
    <3> QED
      BY <2>2, <3>1, <3>2, OneApart, CountedFinite DEF HubInv
  <2>5. \A d \in Clients \ (clients' \cup closed') : options'[d] = NoOptions
    BY <1>2, <1>3, <1>5, <2>1 DEF CountInv
  <2> QED
    BY <2>1, <2>3, <2>4, <2>5 DEF CountInv, CountersExact
<1> QED
  BY <1>4, <1>5

LEMMA RunRemoveCounts ==
  ASSUME HubInv, CountInv, RunRemove
  PROVE  CountInv'
<1> DEFINE c == Head(remove)
<1>1. c \in Clients /\ options' = options
  BY TakenTyped DEF RunRemove, HubInv, TypeInv, TypeOK, QueuesOK
<1>2. options \in [Clients -> ClientOptions] /\ clients \subseteq Clients
  BY DEF HubInv, TypeInv, TypeOK, RegistryOK
<1>3. CASE c \notin clients
  <2>1. UNCHANGED <<clients, observerKeyClients, repeatClients, closed>>
    BY <1>3 DEF RunRemove, Removable
  <2> QED
    BY <1>1, <2>1 DEF CountInv, CountersExact, KeyClients, RepeatClients
<1>4. CASE c \in clients
  <2>1. /\ clients' = clients \ {c} /\ closed' = closed \cup {c}
        /\ observerKeyClients' = observerKeyClients
             - (IF options[c].includeObserverKey THEN 1 ELSE 0)
        /\ repeatClients' = repeatClients - (IF options[c].includeRepeats THEN 1 ELSE 0)
    BY <1>4 DEF RunRemove, Removable
  <2> HIDE DEF c
  <2>2. options[c].includeObserverKey \in BOOLEAN /\ options[c].includeRepeats \in BOOLEAN
    BY <1>1, <1>2 DEF ClientOptions
  <2>3. /\ KeyClients' \ {c} = KeyClients \ {c} /\ c \notin KeyClients'
        /\ RepeatClients' \ {c} = RepeatClients \ {c} /\ c \notin RepeatClients'
        /\ c \in KeyClients <=> options[c].includeObserverKey
        /\ c \in RepeatClients <=> options[c].includeRepeats
    BY <1>1, <1>4, <2>1 DEF KeyClients, RepeatClients
  <2>4. Cardinality(KeyClients') = Cardinality(KeyClients)
          + Delta(options[c].includeObserverKey, FALSE)
    BY <2>2, <2>3, OneApart, CountedFinite DEF HubInv
  <2>5. Cardinality(RepeatClients') = Cardinality(RepeatClients)
          + Delta(options[c].includeRepeats, FALSE)
    BY <2>2, <2>3, OneApart, CountedFinite DEF HubInv
  <2>6. Cardinality(KeyClients) \in Nat /\ Cardinality(RepeatClients) \in Nat
    BY CountedFinite, FS_CardinalityType DEF HubInv
  <2>7. CountersExact'
    BY <2>1, <2>2, <2>4, <2>5, <2>6 DEF CountInv, CountersExact, Delta
  <2> QED
    BY <1>1, <2>1, <2>7 DEF CountInv
<1> QED
  BY <1>3, <1>4

LEMMA RestCounts ==
  ASSUME CountInv, UNCHANGED <<clients, options, closed, observerKeyClients, repeatClients>>
  PROVE  CountInv'
BY DEF CountInv, CountersExact, KeyClients, RepeatClients

LEMMA NextCounts ==
  ASSUME HubInv, CountInv, Next
  PROVE  CountInv'
<1>1. ASSUME NEW c \in Clients, Handler(c)
      PROVE  CountInv'
  BY <1>1, RestCounts DEF Handler, NewClient, CallNewClient, Remove, CallRemove, TakeEvent, ReceiveEvent, TakeLagged, ReceiveLagged, RemoveScope, CallRemoveScope, AddScope, CallAddScope,
       Configure, CallConfigure, registry
<1>2. ASSUME NEW w \in Workers, Ingest(w)
      PROVE  CountInv'
  BY <1>2, RestCounts DEF Ingest, SendRepeat, Broadcast, CheckRepeat, registry
<1>3. CASE RunAddScope \/ RunUnsubscribe \/ RunBroadcast
  BY <1>3, RestCounts DEF RunAddScope, RunUnsubscribe, RunBroadcast, registry
<1>4. CASE FanOut
  BY <1>4, RestCounts DEF FanOut, Deliver, Evict, Resend, SendLagged, registry
<1> QED
  BY <1>1, <1>2, <1>3, <1>4, RunRegisterCounts, RunConfigureCounts, RunRemoveCounts
     DEF Next, RunStep, Select, RunSubscribe

\* The counters agree with the registered clients' options, for any number of
\* clients reconfiguring and leaving in any order.
THEOREM CountersAlwaysExact == Spec => []CountersExact
<1>1. Init => CountInv
  <2>1. SUFFICES ASSUME Init PROVE CountInv
    OBVIOUS
  <2>2. KeyClients = {} /\ RepeatClients = {}
    BY <2>1 DEF Init, KeyClients, RepeatClients
  <2> QED
    BY <2>1, <2>2, FS_EmptySet DEF Init, CountInv, CountersExact
<1>2. HubInv /\ CountInv /\ [Next]_hubVars => CountInv'
  <2>1. ASSUME CountInv, UNCHANGED hubVars
        PROVE  CountInv'
    BY <2>1, RestCounts DEF hubVars, registry
  <2> QED
    BY <2>1, NextCounts
<1>3. CountInv => CountersExact
  BY DEF CountInv
<1> QED
  BY <1>1, <1>2, <1>3, HubInvariant, PTL DEF Spec

-----------------------------------------------------------------------------
(* Lost events.                                                            *)

LEMMA NoticesStep ==
  ASSUME HubInv, OneDropPerNotice, DropsAnnounced, [Next]_hubVars
  PROVE  OneDropPerNotice' /\ DropsAnnounced'
<1> USE Capacities DEF HubInv, TypeInv, TypeOK, RunOK
<1>1. lagged \in [Clients -> Seq({1, 2})] /\ run \in RunStates /\ unannounced \subseteq Clients
  BY DEF BuffersOK, RunTypeOK, HistoryOK
<1>2. ASSUME UNCHANGED <<lagged, unannounced, run>>
      PROVE  OneDropPerNotice' /\ DropsAnnounced'
  BY <1>2 DEF OneDropPerNotice, DropsAnnounced
<1>3. ASSUME NEW c \in Clients, TakeLagged(c)
      PROVE  OneDropPerNotice' /\ DropsAnnounced'
  <2> DEFINE q == lagged[c]
  <2>1. /\ Len(q) \in Nat \ {0} /\ Len(Tail(q)) = Len(q) - 1 /\ q \in Seq({1, 2})
        /\ \A i \in 1..Len(Tail(q)) : i + 1 \in 1..Len(q) /\ Tail(q)[i] = q[i + 1]
    BY <1>1, <1>3, Popped DEF TakeLagged, ReceiveLagged
  <2>2. lagged' = [lagged EXCEPT ![c] = Tail(q)] /\ unannounced' = unannounced \ {c} /\ run' = run
    BY <1>3 DEF TakeLagged, ReceiveLagged
  <2>3. \A i \in DOMAIN Tail(q) : Tail(q)[i] = 1
    BY <2>1 DEF OneDropPerNotice
  <2> HIDE DEF q
  <2> QED
    BY <1>1, <2>2, <2>3 DEF OneDropPerNotice, DropsAnnounced
<1>4. ASSUME NEW c \in Clients, Deliver(c)
      PROVE  OneDropPerNotice' /\ DropsAnnounced'
  BY <1>4 DEF Deliver, OneDropPerNotice, DropsAnnounced
<1>5. CASE Evict
  BY <1>1, <1>5 DEF Evict, OneDropPerNotice, DropsAnnounced, RunStates
<1>6. CASE Resend
  BY <1>1, <1>6 DEF Resend, OneDropPerNotice, DropsAnnounced, RunStates, HasRoom
<1>7. CASE SendLagged
  <2> DEFINE c == run.cur
             q == lagged[c]
  <2>1. c \in Clients /\ run.dropped = 1 /\ q \in Seq({1, 2}) /\ unannounced' = unannounced
    BY <1>1, <1>7 DEF SendLagged, RunStates
  <2>2. /\ Len(q) \in Nat /\ Len(Append(q, 1)) = Len(q) + 1
        /\ \A i \in 1..Len(q) : Append(q, 1)[i] = q[i]
        /\ Append(q, 1)[Len(q) + 1] = 1
    BY <2>1, Appended
  <2>3. \A i \in DOMAIN Append(q, 1) : Append(q, 1)[i] = 1
    BY <2>1, <2>2 DEF OneDropPerNotice
  <2>4. \/ lagged' = [lagged EXCEPT ![c] = Append(q, 1)]
        \/ lagged' = lagged /\ ~(Len(q) < LaggedCap)
    BY <1>7, <2>1 DEF SendLagged, NoticeFits, HasRoom
  <2>5. \A d \in unannounced : d = c \/ lagged[d] # <<>>
    BY <1>7 DEF SendLagged, DropsAnnounced
  <2>6. Append(q, 1) # <<>> /\ (~(Len(q) < LaggedCap) => q # <<>>)
    BY <2>1, <2>2
  <2> HIDE DEF c, q
  <2>7. OneDropPerNotice'
    BY <1>1, <2>1, <2>3, <2>4 DEF OneDropPerNotice
  <2>8. DropsAnnounced'
    BY <1>1, <2>1, <2>4, <2>5, <2>6 DEF DropsAnnounced, q
  <2> QED
    BY <2>7, <2>8
<1>8. CASE UNCHANGED hubVars
  BY <1>2, <1>8 DEF hubVars, delivery
<1>9. ASSUME NEW c \in Clients, Handler(c), ~TakeLagged(c)
      PROVE  OneDropPerNotice' /\ DropsAnnounced'
  BY <1>2, <1>9 DEF Handler, NewClient, CallNewClient, Remove, CallRemove, TakeEvent, ReceiveEvent, RemoveScope, CallRemoveScope, AddScope, CallAddScope, Configure, CallConfigure, delivery
<1>10. ASSUME NEW w \in Workers, Ingest(w)
       PROVE  OneDropPerNotice' /\ DropsAnnounced'
  BY <1>2, <1>10 DEF Ingest, SendRepeat, Broadcast, CheckRepeat, delivery
<1>11. CASE Select
  <2>1. UNCHANGED <<lagged, unannounced>> /\ run.pc = "select"
    BY <1>11 DEF Select, RunSubscribe, RunRegister, RunConfigure, RunAddScope, RunUnsubscribe,
         RunRemove, RunBroadcast, delivery
  <2> QED
    BY <2>1 DEF OneDropPerNotice, DropsAnnounced
<1> QED
  BY <1>3, <1>4, <1>5, <1>6, <1>7, <1>8, <1>9, <1>10, <1>11 DEF Next, RunStep, FanOut

\* A client that lost an event always has a notice coming, however its write
\* pump interleaves with the fan-out and although notices may be swallowed.
THEOREM DropsAlwaysAnnounced == Spec => []DropsAnnounced
<1>1. Init => OneDropPerNotice /\ DropsAnnounced
  BY DEF Init, OneDropPerNotice, DropsAnnounced
<1> QED
  BY <1>1, NoticesStep, HubInvariant, PTL DEF Spec

\* The second send of an eviction never fails: the documented droppedCount of
\* two cannot occur.
THEOREM AlwaysOneDropPerNotice == Spec => []OneDropPerNotice
<1>1. Init => OneDropPerNotice /\ DropsAnnounced
  BY DEF Init, OneDropPerNotice, DropsAnnounced
<1> QED
  BY <1>1, NoticesStep, HubInvariant, PTL DEF Spec

-----------------------------------------------------------------------------
(* The newest event of a client survives.                                  *)

\* While Run evicts for a client, the event in hand is that client's newest.
NewestInv ==
  /\ NewestSurvives
  /\ run.pc \in {"evict", "resend"} => latest[run.cur] = run.msg.event

\* What NewestSurvives says of one client outside an eviction.
EndsIn(q, w, e) == IF q = <<>> THEN w = e ELSE q[Len(q)].event = e

LEMMA SentIsLast ==
  ASSUME NEW S, NEW q \in Seq(S), NEW x \in S, NEW w
  PROVE  EndsIn(Append(q, x), w, x.event)
<1>1. Len(Append(q, x)) = Len(q) + 1 /\ Append(q, x)[Len(q) + 1] = x /\ Append(q, x) # <<>>
  BY Appended
<1> QED
  BY <1>1 DEF EndsIn

LEMMA TakenFromFront ==
  ASSUME NEW S, NEW q \in Seq(S), q # <<>>, NEW w, NEW e, EndsIn(q, w, e)
  PROVE  EndsIn(Tail(q), Head(q).event, e)
<1>1. /\ Len(q) \in Nat \ {0} /\ Len(Tail(q)) = Len(q) - 1 /\ Head(q) = q[1]
      /\ \A i \in 1..Len(Tail(q)) : Tail(q)[i] = q[i + 1]
      /\ Tail(q) \in Seq(S)
  BY Popped, TakenTyped
<1>2. q[Len(q)].event = e
  BY DEF EndsIn
<1>3. CASE Tail(q) = <<>>
  <2>1. Len(q) = 1
    BY <1>1, <1>3
  <2> QED
    BY <1>1, <1>2, <1>3, <2>1 DEF EndsIn
<1>4. CASE Tail(q) # <<>>
  <2>1. Len(Tail(q)) \in 1..Len(Tail(q)) /\ Len(Tail(q)) + 1 = Len(q)
    BY <1>1, <1>4
  <2>2. Tail(q)[Len(Tail(q))] = q[Len(q)]
    BY <1>1, <2>1
  <2> QED
    BY <1>2, <1>4, <2>2 DEF EndsIn
<1> QED
  BY <1>3, <1>4

LEMMA NewestRead ==
  NewestSurvives <=>
    \A c \in Clients :
      \/ latest[c] = NoEvent
      \/ run.pc \in {"evict", "resend"} /\ run.cur = c
      \/ EndsIn(send[c], wrote[c], latest[c])
BY DEF NewestSurvives, EndsIn

LEMMA NewestReadNext ==
  NewestSurvives' <=>
    \A c \in Clients :
      \/ latest'[c] = NoEvent
      \/ run'.pc \in {"evict", "resend"} /\ run'.cur = c
      \/ EndsIn(send'[c], wrote'[c], latest'[c])
BY DEF NewestSurvives, EndsIn

LEMMA NewestStep ==
  ASSUME TypeInv, NewestInv, [Next]_hubVars
  PROVE  NewestInv'
<1> USE DEF TypeInv, TypeOK, RunOK
<1>1. /\ send \in [Clients -> Seq(Deliveries)] /\ run \in RunStates
      /\ latest \in [Clients -> Events \cup {NoEvent}]
      /\ wrote \in [Clients -> Events \cup {NoEvent}]
  BY DEF BuffersOK, RunTypeOK, HistoryOK
<1>2. ASSUME UNCHANGED <<send, latest, wrote, run>>
      PROVE  NewestInv'
  BY <1>2 DEF NewestInv, NewestSurvives
<1>3. ASSUME NEW c \in Clients, TakeEvent(c)
      PROVE  NewestInv'
  <2>1. /\ send' = [send EXCEPT ![c] = Tail(send[c])]
        /\ wrote' = [wrote EXCEPT ![c] = Head(send[c]).event]
        /\ latest' = latest /\ run' = run /\ send[c] # <<>>
    BY <1>3 DEF TakeEvent, ReceiveEvent
  <2>2. \A w, e : EndsIn(send[c], w, e) => EndsIn(Tail(send[c]), Head(send[c]).event, e)
    BY <1>1, <2>1, TakenFromFront
  <2> QED
    BY <1>1, <2>1, <2>2, NewestRead, NewestReadNext DEF NewestInv
<1>4. ASSUME NEW c \in Clients, Deliver(c)
      PROVE  NewestInv'
  <2>1. run.pc = "fanout" /\ latest' = [latest EXCEPT ![c] = run.msg.event] /\ wrote' = wrote
    BY <1>4 DEF Deliver
  <2>2. CASE HasRoom(send[c], SendCap)
    <3>1. send' = [send EXCEPT ![c] = Append(send[c], Out(c))] /\ run' = Served(c)
      BY <1>4, <2>2 DEF Deliver
    <3>2. Out(c) \in Deliveries /\ Out(c).event = run.msg.event
      BY <2>1, OutTyped DEF Out
    <3>3. EndsIn(Append(send[c], Out(c)), wrote[c], run.msg.event)
      BY <1>1, <3>2, SentIsLast
    <3>4. run'.pc \in {"select", "fanout"}
      BY <3>1 DEF Served, Idle
    <3> QED
      BY <1>1, <2>1, <3>1, <3>3, <3>4, NewestRead, NewestReadNext DEF NewestInv
  <2>3. CASE ~HasRoom(send[c], SendCap)
    <3>1. /\ send' = send /\ run'.pc = "evict" /\ run'.cur = c /\ run'.msg = run.msg
      BY <1>1, <1>4, <2>3 DEF Deliver, RunStates
    <3> QED
      BY <1>1, <2>1, <3>1, NewestRead, NewestReadNext DEF NewestInv
  <2> QED
    BY <2>2, <2>3
<1>5. CASE Evict
  <2>1. /\ run.pc = "evict" /\ latest' = latest /\ wrote' = wrote
        /\ run'.pc = "resend" /\ run'.cur = run.cur /\ run'.msg = run.msg
        /\ \A d \in Clients : d # run.cur => send'[d] = send[d]
    BY <1>1, <1>5 DEF Evict, RunStates
  <2> QED
    BY <1>1, <2>1, NewestRead, NewestReadNext DEF NewestInv
<1>6. CASE Resend
  <2> DEFINE c == run.cur
  <2>1. run.pc = "resend" /\ c \in Clients /\ HasRoom(send[c], SendCap)
    BY <1>1, <1>6 DEF Resend, RunStates, HasRoom
  <2>2. /\ send' = [send EXCEPT ![c] = Append(send[c], Out(c))]
        /\ run'.pc = "lag" /\ latest' = latest /\ wrote' = wrote
    BY <1>1, <1>6, <2>1 DEF Resend, RunStates
  <2>3. Out(c) \in Deliveries /\ Out(c).event = run.msg.event
    BY <2>1, OutTyped DEF Out
  <2>4. EndsIn(Append(send[c], Out(c)), wrote[c], latest[c])
    BY <1>1, <2>1, <2>3, SentIsLast DEF NewestInv
  <2> QED
    BY <1>1, <2>1, <2>2, <2>4, NewestRead, NewestReadNext DEF NewestInv
<1>7. CASE SendLagged
  <2>1. /\ UNCHANGED <<send, latest, wrote>> /\ run.pc = "lag"
        /\ run'.pc \in {"select", "fanout"}
    BY <1>7 DEF SendLagged, Served, Idle
  <2> QED
    BY <2>1, NewestRead, NewestReadNext DEF NewestInv
<1>8. CASE Select
  <2>1. UNCHANGED <<send, latest, wrote>> /\ run.pc = "select"
    BY <1>8 DEF Select, RunSubscribe, RunRegister, RunConfigure, RunAddScope, RunUnsubscribe,
         RunRemove, RunBroadcast, delivery
  <2>2. run'.pc \in {"select", "fanout"}
    BY <1>1, <1>8 DEF Select, RunSubscribe, RunRegister, RunConfigure, RunAddScope,
         RunUnsubscribe, RunRemove, RunBroadcast, delivery, RunStates
  <2> QED
    BY <2>1, <2>2, NewestRead, NewestReadNext DEF NewestInv
<1>9. ASSUME NEW c \in Clients, Handler(c), ~TakeEvent(c)
      PROVE  NewestInv'
  BY <1>2, <1>9 DEF Handler, NewClient, CallNewClient, Remove, CallRemove, TakeLagged, ReceiveLagged, RemoveScope, CallRemoveScope, AddScope, CallAddScope, Configure, CallConfigure, delivery
<1>10. ASSUME NEW w \in Workers, Ingest(w)
       PROVE  NewestInv'
  BY <1>2, <1>10 DEF Ingest, SendRepeat, Broadcast, CheckRepeat, delivery
<1>11. CASE UNCHANGED hubVars
  BY <1>2, <1>11 DEF hubVars, delivery
<1> QED
  BY <1>3, <1>4, <1>5, <1>6, <1>7, <1>8, <1>9, <1>10, <1>11 DEF Next, RunStep, FanOut

\* However slow a client reads and however its write pump interleaves with an
\* eviction, the newest event that matched it reaches its buffer and is never
\* the one evicted.
THEOREM NewestAlwaysSurvives == Spec => []NewestSurvives
<1>1. Init => NewestInv
  BY DEF Init, Idle, NewestInv, NewestSurvives
<1>2. HubInv /\ NewestInv /\ [Next]_hubVars => NewestInv'
  BY NewestStep DEF HubInv
<1>3. NewestInv => NewestSurvives
  BY DEF NewestInv
<1> QED
  BY <1>1, <1>2, <1>3, HubInvariant, PTL DEF Spec

-----------------------------------------------------------------------------
(* Repeats in the broadcast channel.                                       *)

RepeatsIn(q) == {i \in 1..Len(q) : q[i].repeat}

LEMMA RepeatsFinite ==
  ASSUME NEW q \in Seq(BroadcastMsgs)
  PROVE  /\ IsFiniteSet(RepeatsIn(q)) /\ Cardinality(RepeatsIn(q)) \in Nat
         /\ Cardinality(RepeatsIn(q)) <= Len(q)
<1>1. Len(q) \in Nat /\ RepeatsIn(q) \in SUBSET (1..Len(q))
  BY DEF RepeatsIn
<1>2. \A n \in Nat : IsFiniteSet(1..n) /\ Cardinality(1..n) = n
  BY FS_Interval
<1>3. IsFiniteSet(1..Len(q)) /\ Cardinality(1..Len(q)) = Len(q)
  BY <1>1, <1>2
<1> QED
  BY <1>1, <1>3, FS_Subset, FS_CardinalityType

LEMMA RepeatsAppended ==
  ASSUME NEW q \in Seq(BroadcastMsgs), NEW m \in BroadcastMsgs
  PROVE  /\ ~m.repeat => RepeatsIn(Append(q, m)) = RepeatsIn(q)
         /\ Cardinality(RepeatsIn(Append(q, m))) <= Cardinality(RepeatsIn(q)) + 1
<1>1. /\ Len(q) \in Nat /\ Len(Append(q, m)) = Len(q) + 1
      /\ \A i \in 1..Len(q) : Append(q, m)[i] = q[i]
      /\ Append(q, m)[Len(q) + 1] = m
  BY Appended
<1>2. CASE m.repeat
  <2>1. RepeatsIn(Append(q, m)) = RepeatsIn(q) \cup {Len(q) + 1}
    BY <1>1, <1>2 DEF RepeatsIn
  <2>2. IsFiniteSet(RepeatsIn(q)) /\ Cardinality(RepeatsIn(q)) \in Nat
    BY RepeatsFinite
  <2>3. \/ Cardinality(RepeatsIn(q) \cup {Len(q) + 1}) = Cardinality(RepeatsIn(q))
        \/ Cardinality(RepeatsIn(q) \cup {Len(q) + 1}) = Cardinality(RepeatsIn(q)) + 1
    BY <2>2, FS_AddElement
  <2> QED
    BY <1>2, <2>1, <2>2, <2>3
<1>3. CASE ~m.repeat
  <2>1. RepeatsIn(Append(q, m)) = RepeatsIn(q)
    BY <1>1, <1>3 DEF RepeatsIn
  <2> QED
    BY <2>1, RepeatsFinite
<1> QED
  BY <1>2, <1>3

LEMMA RepeatsTaken ==
  ASSUME NEW q \in Seq(BroadcastMsgs), q # <<>>
  PROVE  Cardinality(RepeatsIn(Tail(q))) <= Cardinality(RepeatsIn(q))
<1> DEFINE f == [i \in RepeatsIn(Tail(q)) |-> i + 1]
<1>1. \A i \in 1..Len(Tail(q)) : i + 1 \in 1..Len(q) /\ Tail(q)[i] = q[i + 1]
  BY Popped
<1>2. f \in [RepeatsIn(Tail(q)) -> RepeatsIn(q)]
  BY <1>1 DEF RepeatsIn
<1>3. \A i, j \in RepeatsIn(Tail(q)) : f[i] = f[j] => i = j
  BY DEF RepeatsIn
<1>4. f \in Injection(RepeatsIn(Tail(q)), RepeatsIn(q))
  BY <1>2, <1>3 DEF Injection, IsInjective
<1> QED
  BY <1>4, RepeatsFinite, FS_Injection

LEMMA PendingFinite ==
  ASSUME NEW P \in SUBSET Workers
  PROVE  /\ IsFiniteSet(P) /\ Cardinality(P) \in Nat
         /\ Cardinality(P) <= Cardinality(Workers) /\ Cardinality(Workers) \in Nat \ {0}
BY WorkersAssumption, FS_Subset, FS_CardinalityType, FS_EmptySet

LEMMA RepeatsStep ==
  ASSUME TypeInv, RepeatsBounded, [Next]_hubVars
  PROVE  RepeatsBounded'
<1> USE DEF TypeInv, TypeOK
<1> DEFINE half == BroadcastCap \div 2
           C == Cardinality(RepeatsIn(broadcast))
           P == Cardinality(PendingRepeats)
<1>1. /\ broadcast \in Seq(BroadcastMsgs) /\ worker \in [Workers -> Events \cup {NoEvent}]
      /\ NoEvent \notin Events /\ half \in Int
  BY HubAssumption, Capacities DEF QueuesOK, CallersOK
<1>2. C \in Nat /\ P \in Nat /\ IsFiniteSet(PendingRepeats) /\ Cardinality(Workers) \in Nat
  BY <1>1, RepeatsFinite, PendingFinite DEF PendingRepeats
<1>3. C + P <= half - 1 + Cardinality(Workers)
  <2>1. QueuedRepeats = RepeatsIn(broadcast)
    BY <1>1 DEF QueuedRepeats, RepeatsIn
  <2> QED
    BY <2>1 DEF RepeatsBounded
<1>4. ASSUME broadcast' \in Seq(BroadcastMsgs),
             Cardinality(RepeatsIn(broadcast')) + Cardinality(PendingRepeats')
               <= half - 1 + Cardinality(Workers)
      PROVE  RepeatsBounded'
  <2>1. QueuedRepeats' = RepeatsIn(broadcast')
    BY <1>4 DEF QueuedRepeats, RepeatsIn
  <2> QED
    BY <1>4, <2>1 DEF RepeatsBounded
<1>5. ASSUME broadcast' = broadcast, worker' = worker
      PROVE  RepeatsBounded'
  <2>1. PendingRepeats' = PendingRepeats
    BY <1>5 DEF PendingRepeats
  <2> QED
    BY <1>1, <1>3, <1>4, <1>5, <2>1
<1>6. ASSUME NEW w \in Workers, NEW e \in Events, Broadcast(w, e)
      PROVE  RepeatsBounded'
  <2> DEFINE m == [event |-> e, repeat |-> FALSE]
  <2>1. m \in BroadcastMsgs /\ ~m.repeat /\ worker' = worker
    BY <1>6 DEF Broadcast, BroadcastMsgs
  <2>2. broadcast' \in {broadcast, Append(broadcast, m)}
    BY <1>6 DEF Broadcast
  <2>3. RepeatsIn(broadcast') = RepeatsIn(broadcast) /\ broadcast' \in Seq(BroadcastMsgs)
    BY <1>1, <2>1, <2>2, RepeatsAppended, PutTyped
  <2>4. PendingRepeats' = PendingRepeats
    BY <2>1 DEF PendingRepeats
  <2> QED
    BY <1>3, <1>4, <2>3, <2>4
<1>7. ASSUME NEW w \in Workers, NEW e \in Events, CheckRepeat(w, e)
      PROVE  RepeatsBounded'
  <2>1. CASE Busy
    BY <1>5, <1>7, <2>1 DEF CheckRepeat, queues
  <2>2. CASE ~Busy
    <3>1. broadcast' = broadcast /\ Len(broadcast) < half /\ Len(broadcast) \in Nat
      BY <1>1, <1>7, <2>2 DEF CheckRepeat, queues, Busy
    <3>2. C <= Len(broadcast)
      BY <1>1, RepeatsFinite
    <3>3. Cardinality(PendingRepeats') \in Nat
          /\ Cardinality(PendingRepeats') <= Cardinality(Workers)
      BY PendingFinite DEF PendingRepeats
    <3>4. C + Cardinality(PendingRepeats') <= half - 1 + Cardinality(Workers)
      <4> HIDE DEF half, C, P
      <4> QED
        BY <1>1, <1>2, <3>1, <3>2, <3>3
    <3> QED
      BY <1>1, <1>4, <3>1, <3>4
  <2> QED
    BY <2>1, <2>2
<1>8. ASSUME NEW w \in Workers, SendRepeat(w)
      PROVE  RepeatsBounded'
  <2> DEFINE m == [event |-> worker[w], repeat |-> TRUE]
  <2>1. worker[w] \in Events /\ m \in BroadcastMsgs
    BY <1>1, <1>8 DEF SendRepeat, BroadcastMsgs
  <2>2. broadcast' \in {broadcast, Append(broadcast, m)}
    BY <1>8 DEF SendRepeat
  <2>3. Cardinality(RepeatsIn(broadcast')) <= C + 1 /\ broadcast' \in Seq(BroadcastMsgs)
    <3>1. Append(broadcast, m) \in Seq(BroadcastMsgs)
      BY <1>1, <2>1, PutTyped
    <3>2. Cardinality(RepeatsIn(Append(broadcast, m))) <= C + 1
      BY <1>1, <2>1, RepeatsAppended
    <3>3. C <= C + 1
      BY <1>2
    <3> QED
      BY <1>1, <2>2, <3>1, <3>2, <3>3
  <2>4. PendingRepeats' = PendingRepeats \ {w} /\ w \in PendingRepeats
    BY <1>1, <1>8 DEF SendRepeat, PendingRepeats
  <2>5. Cardinality(PendingRepeats') = P - 1
    BY <1>2, <2>4, FS_RemoveElement
  <2>6. Cardinality(RepeatsIn(broadcast')) \in Nat
    BY <2>3, RepeatsFinite
  <2>7. Cardinality(RepeatsIn(broadcast')) + Cardinality(PendingRepeats')
          <= half - 1 + Cardinality(Workers)
    <3> HIDE DEF half, C, P
    <3> QED
      BY <1>1, <1>2, <1>3, <2>3, <2>5, <2>6
  <2> QED
    BY <1>4, <2>3, <2>7
<1>9. CASE RunBroadcast
  <2>1. broadcast # <<>> /\ broadcast' = Tail(broadcast) /\ worker' = worker
    BY <1>9 DEF RunBroadcast, ingest
  <2>2. Cardinality(RepeatsIn(broadcast')) <= C /\ broadcast' \in Seq(BroadcastMsgs)
    BY <1>1, <2>1, RepeatsTaken, TakenTyped
  <2>3. PendingRepeats' = PendingRepeats /\ Cardinality(RepeatsIn(broadcast')) \in Nat
    BY <2>1, <2>2, RepeatsFinite DEF PendingRepeats
  <2>4. Cardinality(RepeatsIn(broadcast')) + P <= half - 1 + Cardinality(Workers)
    <3> HIDE DEF half, C, P
    <3> QED
      BY <1>1, <1>2, <1>3, <2>2, <2>3
  <2> QED
    BY <1>4, <2>2, <2>3, <2>4
<1>10. ASSUME NEW c \in Clients, Handler(c)
       PROVE  RepeatsBounded'
  BY <1>5, <1>10 DEF Handler, NewClient, CallNewClient, Remove, CallRemove, TakeEvent, ReceiveEvent, TakeLagged, ReceiveLagged, RemoveScope, CallRemoveScope, AddScope, CallAddScope,
     Configure, CallConfigure, ingest, queues
<1>11. CASE RunSubscribe \/ RunUnsubscribe \/ RunRemove
  BY <1>5, <1>11 DEF RunSubscribe, RunRegister, RunConfigure, RunAddScope, RunUnsubscribe,
     RunRemove, ingest
<1>12. CASE FanOut
  BY <1>5, <1>12 DEF FanOut, Deliver, Evict, Resend, SendLagged, ingest, queues
<1>13. CASE UNCHANGED hubVars
  BY <1>5, <1>13 DEF hubVars, queues, ingest
<1> QED
  BY <1>6, <1>7, <1>8, <1>9, <1>10, <1>11, <1>12, <1>13 DEF Next, RunStep, Select, Ingest

\* Repeats never take more than half of the broadcast channel by more than
\* the workers that raced past the length check, however many workers there
\* are and however their checks and sends interleave.
THEOREM RepeatsAlwaysBounded == Spec => []RepeatsBounded
<1>1. Init => RepeatsBounded
  <2>1. ASSUME Init
        PROVE  QueuedRepeats = {} /\ PendingRepeats = {}
    BY <2>1 DEF Init, QueuedRepeats, PendingRepeats
  <2>2. Cardinality(Workers) \in Nat \ {0} /\ BroadcastCap \div 2 \in Nat
    BY PendingFinite, Capacities
  <2> QED
    BY <2>1, <2>2, FS_EmptySet DEF RepeatsBounded
<1>2. HubInv /\ RepeatsBounded /\ [Next]_hubVars => RepeatsBounded'
  BY RepeatsStep DEF HubInv
<1> QED
  BY <1>1, <1>2, HubInvariant, PTL DEF Spec

-----------------------------------------------------------------------------
(* Type correctness.                                                       *)

LEMMA HubStepKeepsWs == HubStep => UNCHANGED wsVars
BY DEF HubStep

LEMMA WsNextType == WsTypeOK /\ [WsNext]_wsAll => WsTypeOK'
<1> SUFFICES ASSUME WsTypeOK, [WsNext]_wsAll PROVE WsTypeOK'
  OBVIOUS
<1>1. ASSUME UNCHANGED wsVars PROVE WsTypeOK'
  BY <1>1 DEF wsVars, WsTypeOK
<1>2. ASSUME NEW c \in Clients, HandlerStep(c) PROVE WsTypeOK'
  <2>1. CASE Acquire(c)
    BY <2>1, WsAssumption DEF Acquire, Go, WsTypeOK, HandlerStates
  <2>2. CASE Connect(c) \/ HelloFails(c) \/ ReadFails(c) \/ Deregister(c) \/ Ping(c)
    BY <2>2 DEF Connect, HelloFails, ReadFails, Deregister, Ping, Go, WsTypeOK, HandlerStates
  <2>3. CASE HelloSent(c) \/ Cancel(c)
    BY <2>3 DEF HelloSent, Cancel, Go, WsTypeOK, HandlerStates
  <2>4. ASSUME NEW id \in SubIds, NEW s \in Scopes, Subscribe(c, id, s) PROVE WsTypeOK'
    BY <2>4 DEF Subscribe, Go, WsTypeOK, HandlerStates
  <2>5. ASSUME NEW id \in SubIds, Unsubscribe(c, id) PROVE WsTypeOK'
    BY <2>5 DEF Unsubscribe, Go, WsTypeOK, HandlerStates
  <2>6. ASSUME NEW o \in OptionSets, ConfigureClient(c, o) PROVE WsTypeOK'
    BY <2>6 DEF ConfigureClient, Go, WsTypeOK, HandlerStates
  <2>7. CASE Reply(c)
    <3>1. /\ known' \in [Clients -> SUBSET SubIds]
          /\ dropped' \in [Clients -> SUBSET SubIds]
      <4>1. CASE UNCHANGED <<known, dropped>>
        BY <4>1 DEF WsTypeOK
      <4>2. /\ replying[c].kind = "subscribed" => replying[c].id \in SubIds
            /\ replying[c].kind = "unsubscribed" => replying[c].id \in SubIds
        BY DEF WsTypeOK
      <4>3. CASE ~UNCHANGED <<known, dropped>>
        <5>1. /\ known' = [known EXCEPT ![c] = IF replying[c].kind = "subscribed"
                                               THEN @ \cup {replying[c].id} ELSE @]
              /\ dropped' = [dropped EXCEPT ![c] = IF replying[c].kind = "unsubscribed"
                                                   THEN @ \cup {replying[c].id} ELSE @]
          BY <2>7, <4>3 DEF Reply
        <5> QED
          BY <4>2, <5>1 DEF WsTypeOK
      <4> QED
        BY <4>1, <4>3
    <3>2. replying' = [replying EXCEPT ![c] = NoReply]
      BY <2>7 DEF Reply
    <3>3. /\ replying' \in [Clients -> [id : SubIds \cup {"none"},
                                       kind : {"none", "subscribed", "unsubscribed"}]]
          /\ \A d \in Clients : replying'[d].kind # "none" => replying'[d].id \in SubIds
      BY <3>2 DEF NoReply, WsTypeOK
    <3> QED
      BY <2>7, <3>1, <3>3 DEF Reply, Go, WsTypeOK, HandlerStates
  <2>8. CASE Release(c)
    <3>1. \A k \in 0..MaxConnsPerIp : (IF k <= 1 THEN 0 ELSE k - 1) \in 0..MaxConnsPerIp
      BY WsAssumption
    <3>2. count' \in [Ips -> 0..MaxConnsPerIp]
      BY <2>8, <3>1, WsAssumption DEF Release, WsTypeOK
    <3> QED
      BY <2>8, <3>2 DEF Release, Go, WsTypeOK, HandlerStates
  <2> QED
    BY <1>2, <2>1, <2>2, <2>3, <2>4, <2>5, <2>6, <2>7, <2>8 DEF HandlerStep
<1>3. ASSUME NEW c \in Clients, PumpStep(c) PROVE WsTypeOK'
  BY <1>3 DEF PumpStep, PumpTakes, PumpWrites, PumpWriteFails, PumpStops, WsTypeOK
<1> QED
  BY <1>1, <1>2, <1>3, HubStepKeepsWs DEF WsNext, wsAll

LEMMA WsInitType == WsInit => WsTypeOK
BY WsAssumption DEF WsInit, NoReply, WsTypeOK, HandlerStates

\* Types of the endpoint's state; the limiter's counts stay within 0 and the
\* limit (ipLimiter.acquire, release).
THEOREM WsTypeCorrect == WsSpec => []WsTypeOK
BY WsInitType, WsNextType, PTL DEF WsSpec

-----------------------------------------------------------------------------
(* The limiter.                                                            *)

LEMMA HoldersFinite == \A ip \in Ips : IsFiniteSet(Holders(ip)) /\ Cardinality(Holders(ip)) \in Nat
<1>1. \A ip \in Ips : Holders(ip) \subseteq Clients
  BY DEF Holders
<1> QED
  BY <1>1, HubAssumption, FS_Subset, FS_CardinalityType

LEMMA CountsTyped == WsTypeOK => count \in [Ips -> Nat]
<1>1. \A k \in 0..MaxConnsPerIp : k \in Nat
  BY WsAssumption
<1> QED
  BY <1>1 DEF WsTypeOK

LEMMA AcquireExact ==
  ASSUME WsTypeOK, LimiterExact, NEW c \in Clients, Acquire(c)
  PROVE  LimiterExact'
<1>1. /\ pc \in [Clients -> HandlerStates] /\ count \in [Ips -> Nat] /\ IpOf[c] \in Ips
      /\ pc[c] = "dialing"
  BY CountsTyped, WsAssumption DEF WsTypeOK, Acquire, Go
<1>2. CASE count[IpOf[c]] >= MaxConnsPerIp
  <2>1. pc' = [pc EXCEPT ![c] = "done"] /\ count' = count
    BY <1>2 DEF Acquire, Go
  <2>2. \A ip \in Ips : Holders(ip)' = Holders(ip)
    BY <1>1, <2>1 DEF Holders
  <2> QED
    BY <2>1, <2>2 DEF LimiterExact
<1>3. CASE ~(count[IpOf[c]] >= MaxConnsPerIp)
  <2>1. /\ pc' = [pc EXCEPT ![c] = "admitted"]
        /\ count' = [count EXCEPT ![IpOf[c]] = @ + 1]
    BY <1>3 DEF Acquire, Go
  <2>2. \A ip \in Ips \ {IpOf[c]} : Holders(ip)' = Holders(ip) /\ count'[ip] = count[ip]
    BY <1>1, <2>1 DEF Holders
  <2>3. Holders(IpOf[c])' = Holders(IpOf[c]) \cup {c} /\ c \notin Holders(IpOf[c])
    BY <1>1, <2>1 DEF Holders
  <2>4. Cardinality(Holders(IpOf[c])') = Cardinality(Holders(IpOf[c])) + 1
    BY <1>1, <2>3, HoldersFinite, FS_AddElement
  <2>5. count'[IpOf[c]] = Cardinality(Holders(IpOf[c])')
    BY <1>1, <2>1, <2>4 DEF LimiterExact
  <2> QED
    BY <2>2, <2>5 DEF LimiterExact
<1> QED
  BY <1>2, <1>3

LEMMA ReleaseExact ==
  ASSUME WsTypeOK, LimiterExact, NEW c \in Clients, Release(c)
  PROVE  LimiterExact'
<1>1. /\ pc \in [Clients -> HandlerStates] /\ count \in [Ips -> Nat] /\ IpOf[c] \in Ips
      /\ pc[c] = "releasing" /\ pc' = [pc EXCEPT ![c] = "done"]
      /\ count' = [count EXCEPT ![IpOf[c]] = IF @ <= 1 THEN 0 ELSE @ - 1]
  BY CountsTyped, WsAssumption DEF WsTypeOK, Release, Go
<1>2. \A ip \in Ips \ {IpOf[c]} : Holders(ip)' = Holders(ip) /\ count'[ip] = count[ip]
  BY <1>1 DEF Holders
<1>3. Holders(IpOf[c])' = Holders(IpOf[c]) \ {c} /\ c \in Holders(IpOf[c])
  BY <1>1 DEF Holders
<1>4. /\ Cardinality(Holders(IpOf[c])') = Cardinality(Holders(IpOf[c])) - 1
      /\ Cardinality(Holders(IpOf[c])) \in Nat /\ Cardinality(Holders(IpOf[c])') \in Nat
  <2>1. IsFiniteSet(Holders(IpOf[c])) /\ Cardinality(Holders(IpOf[c])) \in Nat
    BY <1>1, HoldersFinite
  <2>2. Cardinality(Holders(IpOf[c]) \ {c}) = Cardinality(Holders(IpOf[c])) - 1
    BY <1>3, <2>1, FS_RemoveElement
  <2>3. Cardinality(Holders(IpOf[c]) \ {c}) \in Nat
    BY <2>1, FS_RemoveElement, FS_CardinalityType
  <2> QED
    BY <1>3, <2>1, <2>2, <2>3
<1>5. count'[IpOf[c]] = Cardinality(Holders(IpOf[c])')
  BY <1>1, <1>4 DEF LimiterExact
<1> QED
  BY <1>2, <1>5 DEF LimiterExact

\* Holding a slot is not affected by the steps in between.
LEMMA SlotKept ==
  ASSUME LimiterExact, UNCHANGED count,
         \A c \in Clients : pc'[c] \in {"dialing", "done"} <=> pc[c] \in {"dialing", "done"}
  PROVE  LimiterExact'
<1>1. \A ip \in Ips : Holders(ip)' = Holders(ip)
  BY DEF Holders
<1> QED
  BY <1>1 DEF LimiterExact

LEMMA NextLimiter == WsTypeOK /\ LimiterExact /\ [WsNext]_wsAll => LimiterExact'
<1> SUFFICES ASSUME WsTypeOK, LimiterExact, [WsNext]_wsAll PROVE LimiterExact'
  OBVIOUS
<1>1. pc \in [Clients -> HandlerStates]
  BY DEF WsTypeOK
<1>2. ASSUME UNCHANGED <<count, pc>> PROVE LimiterExact'
  BY <1>2, SlotKept
<1>3. ASSUME NEW c \in Clients, HandlerStep(c) PROVE LimiterExact'
  <2>1. ASSUME NEW from, NEW to, Go(c, from, to), UNCHANGED count,
               from \notin {"dialing", "done"}, to \notin {"dialing", "done"}
        PROVE  LimiterExact'
    BY <1>1, <2>1, SlotKept DEF Go
  <2>2. CASE Connect(c) \/ HelloSent(c) \/ HelloFails(c) \/ Ping(c) \/ Reply(c)
               \/ ReadFails(c) \/ Cancel(c) \/ Deregister(c)
    BY <2>1, <2>2 DEF Connect, HelloSent, HelloFails, Ping, Reply, ReadFails, Cancel, Deregister
  <2>3. CASE \E id \in SubIds : Unsubscribe(c, id) \/ \E s \in Scopes : Subscribe(c, id, s)
    BY <2>1, <2>3 DEF Unsubscribe, Subscribe
  <2>4. CASE \E o \in OptionSets : ConfigureClient(c, o)
    BY <2>1, <2>4 DEF ConfigureClient
  <2> QED
    BY <1>3, <2>2, <2>3, <2>4, AcquireExact, ReleaseExact DEF HandlerStep
<1>4. ASSUME NEW c \in Clients, PumpStep(c) PROVE LimiterExact'
  BY <1>2, <1>4 DEF PumpStep, PumpTakes, PumpWrites, PumpWriteFails, PumpStops
<1> QED
  BY <1>2, <1>3, <1>4, HubStepKeepsWs DEF WsNext, wsAll, wsVars

LEMMA InitLimiter == WsInit => LimiterExact
<1> SUFFICES ASSUME WsInit PROVE LimiterExact
  OBVIOUS
<1>1. \A ip \in Ips : Holders(ip) = {} /\ count[ip] = 0
  BY DEF WsInit, Holders
<1> QED
  BY <1>1, FS_EmptySet DEF LimiterExact

\* No way out of a handler leaks a slot or frees one twice, for any number of
\* connections and addresses.
THEOREM LimiterAlwaysExact == WsSpec => []LimiterExact
BY InitLimiter, WsInitType, WsNextType, NextLimiter, PTL DEF WsSpec

-----------------------------------------------------------------------------
(* The endpoint keeps the hub's contract.                                  *)

LiveStates == {"hello", "reading", "replying", "returning", "removing"}

\* What the handler's and the pump's own program counters say of the calls
\* they made: the hub has the connection exactly between hello and the
\* deferred removal, and there is no pump before.
Contract ==
  /\ conn \in [Clients -> {"none", "live", "gone"}]
  /\ \A c \in Clients :
       /\ pc[c] \in {"dialing", "admitted"} => conn[c] = "none"
       /\ pc[c] \in LiveStates => conn[c] = "live"
       /\ pc[c] \in {"releasing", "done"} => conn[c] # "live"
       /\ pump[c] # "off" => conn[c] # "none"

LEMMA InitContract == WsInit => Contract
BY DEF WsInit, Init, Contract, LiveStates

LEMMA HandlerContract ==
  ASSUME WsTypeOK, Contract, NEW c \in Clients, HandlerStep(c)
  PROVE  Contract'
<1>1. pc \in [Clients -> HandlerStates]
  BY DEF WsTypeOK
<1>2. ASSUME NEW from, NEW to, Go(c, from, to), UNCHANGED <<conn, pump>>,
             \/ from = "dialing" /\ to \in {"admitted", "done"}
             \/ from \in LiveStates /\ to \in LiveStates
             \/ from = "releasing" /\ to = "done"
      PROVE  Contract'
  BY <1>1, <1>2 DEF Go, Contract, LiveStates
<1>3. CASE Acquire(c) \/ HelloFails(c) \/ Ping(c) \/ Reply(c) \/ ReadFails(c) \/ Cancel(c)
             \/ Release(c)
  BY <1>2, <1>3 DEF Acquire, HelloFails, Ping, Reply, ReadFails, Cancel, Release, LiveStates,
                    hubVars
<1>4. CASE \E id \in SubIds : Unsubscribe(c, id) \/ \E s \in Scopes : Subscribe(c, id, s)
  BY <1>2, <1>4 DEF Unsubscribe, Subscribe, CallRemoveScope, CallAddScope, LiveStates
<1>5. CASE \E o \in OptionSets : ConfigureClient(c, o)
  BY <1>2, <1>5 DEF ConfigureClient, CallConfigure, LiveStates
<1>6. CASE HelloSent(c)
  BY <1>1, <1>6 DEF HelloSent, Go, Contract, LiveStates, hubVars, WsTypeOK
<1>7. CASE Connect(c)
  BY <1>1, <1>7 DEF Connect, CallNewClient, Go, Contract, LiveStates
<1>8. CASE Deregister(c)
  BY <1>1, <1>8 DEF Deregister, CallRemove, Go, Contract, LiveStates
<1> QED
  BY <1>3, <1>4, <1>5, <1>6, <1>7, <1>8 DEF HandlerStep

LEMMA PumpContract ==
  ASSUME WsTypeOK, Contract, NEW c \in Clients, PumpStep(c)
  PROVE  Contract'
<1>1. UNCHANGED <<conn, pc>> /\ pump[c] # "off" /\ \E to : pump' = [pump EXCEPT ![c] = to]
  BY DEF PumpStep, PumpTakes, ReceiveEvent, ReceiveLagged, PumpWrites, PumpWriteFails,
         PumpStops, hubVars
<1> QED
  BY <1>1 DEF Contract, WsTypeOK

LEMMA NextContract == WsTypeOK /\ Contract /\ [WsNext]_wsAll => Contract'
<1> SUFFICES ASSUME WsTypeOK, Contract, [WsNext]_wsAll PROVE Contract'
  OBVIOUS
<1>1. ASSUME UNCHANGED <<conn, pc, pump>> PROVE Contract'
  BY <1>1 DEF Contract
<1>2. CASE HubStep
  <2>1. UNCHANGED conn
    BY <1>2 DEF HubStep, RunStep, Select, RunSubscribe, RunRegister, RunConfigure, RunAddScope,
                RunUnsubscribe, RunRemove, RunBroadcast, FanOut, Deliver, Evict, Resend,
                SendLagged, Ingest, Broadcast, CheckRepeat, SendRepeat
  <2> QED
    BY <1>1, <1>2, <2>1 DEF HubStep, wsVars
<1> QED
  BY <1>1, <1>2, HandlerContract, PumpContract DEF WsNext, wsAll, wsVars, hubVars

LEMMA ContractKept == WsSpec => []Contract
BY InitContract, WsTypeCorrect, NextContract, PTL DEF WsSpec

\* Each call is made in a state in which the hub's contract allows it.
LEMMA HandlerUsesHub ==
  ASSUME Contract, NEW c \in Clients, HandlerStep(c) \/ PumpStep(c)
  PROVE  Handler(c) \/ UNCHANGED hubVars
<1>1. CASE Connect(c)
  BY <1>1 DEF Connect, Go, Contract, Handler, NewClient
<1>2. CASE Deregister(c)
  BY <1>2 DEF Deregister, Go, Contract, LiveStates, Handler, Remove
<1>3. ASSUME NEW id \in SubIds, NEW s \in Scopes, Subscribe(c, id, s) PROVE Handler(c)
  BY <1>3 DEF Subscribe, Go, Contract, LiveStates, Handler, AddScope
<1>4. ASSUME NEW id \in SubIds, Unsubscribe(c, id) PROVE Handler(c)
  BY <1>4 DEF Unsubscribe, Go, Contract, LiveStates, Handler, RemoveScope
<1>5. ASSUME NEW o \in OptionSets, ConfigureClient(c, o) PROVE Handler(c)
  BY <1>5 DEF ConfigureClient, Go, Contract, LiveStates, Handler, Configure
<1>6. CASE PumpTakes(c)
  BY <1>6 DEF PumpTakes, Contract, Handler, TakeEvent, TakeLagged
<1> QED
  BY <1>1, <1>2, <1>3, <1>4, <1>5, <1>6
  DEF HandlerStep, PumpStep, Acquire, HelloSent, HelloFails, Ping, Reply, ReadFails, Cancel,
      Release, PumpWrites, PumpWriteFails, PumpStops

LEMMA StepUsesHub == Contract /\ [WsNext]_wsAll => [Next]_hubVars
<1> SUFFICES ASSUME Contract, [WsNext]_wsAll PROVE [Next]_hubVars
  OBVIOUS
<1>1. CASE HubStep
  BY <1>1 DEF HubStep, Next
<1>2. ASSUME NEW c \in Clients, HandlerStep(c) \/ PumpStep(c) PROVE [Next]_hubVars
  BY <1>2, HandlerUsesHub DEF Next
<1>3. CASE UNCHANGED wsAll
  BY <1>3 DEF wsAll
<1> QED
  BY <1>1, <1>2, <1>3 DEF WsNext

\* The endpoint registers, asks and removes only as the hub's contract allows,
\* though the calls themselves check nothing: with any number of connections,
\* and whichever of hello, read, reply and write fails, its behaviours are
\* behaviours of the hub's specification.
THEOREM EndpointRespectsHub == WsSpec => HubRespected
<1>1. WsInit => Init
  BY DEF WsInit
<1> QED
  BY <1>1, ContractKept, StepUsesHub, PTL DEF WsSpec, Spec, HubRespected

-----------------------------------------------------------------------------
(* Live clients.                                                           *)

LEMMA LiveWithin ==
  ASSUME WsTypeOK, LimiterExact, Contract
  PROVE  LiveClientsWithinLimit
<1> SUFFICES ASSUME NEW ip \in Ips
             PROVE  Cardinality({c \in Clients : IpOf[c] = ip /\ conn[c] = "live"})
                      <= MaxConnsPerIp
  BY DEF LiveClientsWithinLimit
<1> DEFINE live == {c \in Clients : IpOf[c] = ip /\ conn[c] = "live"}
<1>1. live \subseteq Holders(ip)
  BY DEF Contract, LiveStates, WsTypeOK, HandlerStates, Holders
<1>2. Cardinality(live) <= Cardinality(Holders(ip)) /\ Cardinality(live) \in Nat
  BY <1>1, HoldersFinite, FS_Subset, FS_CardinalityType
<1>3. Cardinality(Holders(ip)) <= MaxConnsPerIp
  BY DEF LimiterExact, WsTypeOK
<1> QED
  BY <1>2, <1>3, HoldersFinite, WsAssumption

\* An address never has more live clients in the hub's eyes than its limit,
\* because the slot is freed after the removal was handed over.
THEOREM LiveWithinLimit == WsSpec => []LiveClientsWithinLimit
BY ContractKept, WsTypeCorrect, LimiterAlwaysExact, LiveWithin, PTL
=============================================================================
