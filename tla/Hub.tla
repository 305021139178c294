--------------------------------- MODULE Hub ---------------------------------
(***************************************************************************)
(* The event broker of beacon-server (internal/hub/hub.go).                *)
(*                                                                         *)
(* One goroutine, Run, owns the client map and reads four buffered         *)
(* channels with a select, which has no order between channels.  WebSocket *)
(* handlers put registrations, subscriptions, options and removals into    *)
(* three of them; ingest workers put events into the fourth.  Run fans an  *)
(* event out to the matching clients with non-blocking sends, racing each  *)
(* client's write pump.                                                    *)
(***************************************************************************)
EXTENDS Integers, Sequences, FiniteSets

CONSTANTS
  Clients,        \* WebSocket connections over the process's life
  SubIds,         \* subscription ids, uuids in the code
  Scopes,         \* the subscription scopes clients ask for
  Events,         \* the events ingest broadcasts, each at most once (the bound)
  OptionSets,     \* the ClientOptions a configure message may carry
  Workers,        \* ingest goroutines calling Broadcast / BroadcastRepeat
  SubscribeCap, UnsubscribeCap, RemoveCap, BroadcastCap,  \* channel capacities
  SendCap, LaggedCap,      \* capacities of a client's two channels
  NoEvent, NoClient

Payloads == {"plain", "resolved", "withKey", "resolvedWithKey"}
ClientOptions ==
  [resolvePath : BOOLEAN, includeObserverKey : BOOLEAN, includeRepeats : BOOLEAN]
NoOptions ==
  [resolvePath |-> FALSE, includeObserverKey |-> FALSE, includeRepeats |-> FALSE]

ASSUME HubAssumption ==
  /\ IsFiniteSet(Clients)
  /\ OptionSets \subseteq ClientOptions
  /\ {SubscribeCap, UnsubscribeCap, RemoveCap, BroadcastCap, SendCap, LaggedCap}
       \subseteq Nat \ {0}
  /\ NoEvent \notin Events
  /\ NoClient \notin Clients

\* A queue worker runs at least one lane.
ASSUME WorkersAssumption == IsFiniteSet(Workers) /\ Workers # {}

VARIABLES
  subscribe,           \* channel of registrations, scopes and options
  unsubscribe,         \* channel of <<client, subscription id>>
  remove,              \* channel of clients
  broadcast,           \* channel of [event, repeat]
  clients,             \* Run's local map of registered clients
  subscriptions,       \* client -> set of <<subscription id, scope>>
  options,             \* client -> its connection-wide options
  send, lagged,        \* client -> contents of its two channels
  closed,              \* clients whose two channels Run has closed
  observerKeyClients,  \* atomic counters ingest reads
  repeatClients,
  repeatDrops,
  run,                 \* where Run is in its loop
  worker,              \* worker -> the repeat it is about to send
  conn,                \* history: client -> NewClient called ("live"), Remove called ("gone")
  issued,              \* events already given to the hub
  latest,              \* history: the last event fanned out to a client
  wrote,               \* history: the last event its write pump took
  unannounced          \* history: clients that lost an event since the last notice

queues == <<subscribe, unsubscribe, remove, broadcast>>
registry == <<clients, subscriptions, options, closed, observerKeyClients, repeatClients>>
delivery == <<send, lagged, run, latest, wrote, unannounced>>
ingest == <<repeatDrops, worker, issued>>
hubVars == <<queues, registry, delivery, ingest, conn>>

Register(c) == [kind |-> "register", client |-> c]
AddMsg(c, id, s) == [kind |-> "scope", client |-> c, id |-> id, scope |-> s]
ConfigureMsg(c, o) == [kind |-> "configure", client |-> c, options |-> o]

SubscribeMsgs ==
  [kind : {"register"}, client : Clients]
    \cup [kind : {"scope"}, client : Clients, id : SubIds, scope : Scopes]
    \cup [kind : {"configure"}, client : Clients, options : ClientOptions]
BroadcastMsgs == [event : Events, repeat : BOOLEAN]
Deliveries == [event : Events, payload : Payloads]
Idle == [pc |-> "select", msg |-> [event |-> NoEvent, repeat |-> FALSE], todo |-> {},
         cur |-> NoClient, dropped |-> 0]

-----------------------------------------------------------------------------
(* Matching and the payload variants.                                      *)

\* An empty filter lets everything through; a filter on a field the event's
\* type does not have is ignored.
ScopeMatches(s, e) ==
  LET passes(filter, v) == filter = {} \/ v \in filter IN
  /\ passes(s.events, e.type)
  /\ passes(s.iatas, e.iata)
  /\ passes(s.payloadTypes, e.payloadType)
  /\ e.type = "channelMessage" => passes(s.channelHashes, e.channelHash)
  /\ e.type = "packetObservation" => passes(s.routeTypes, e.routeType)
  /\ e.type \in {"packetObservation", "observerStatus"} => passes(s.observerIds, e.observerId)

Matches(c, e) == \E sub \in subscriptions[c] : ScopeMatches(sub[2], e)

\* The richest variant the client asked for that the event carries.
PayloadFor(o, e) ==
  LET want == IF o.includeObserverKey
              THEN IF o.resolvePath THEN "resolvedWithKey" ELSE "withKey"
              ELSE "plain"
  IN CASE want # "plain" /\ want \in e.variants -> want
       [] ~(want # "plain" /\ want \in e.variants)
            /\ o.resolvePath /\ "resolved" \in e.variants -> "resolved"
       [] OTHER -> "plain"

-----------------------------------------------------------------------------
HasRoom(channel, cap) == Len(channel) < cap

Init ==
  /\ subscribe = <<>> /\ unsubscribe = <<>> /\ remove = <<>> /\ broadcast = <<>>
  /\ clients = {}
  /\ subscriptions = [c \in Clients |-> {}]
  /\ options = [c \in Clients |-> NoOptions]
  /\ send = [c \in Clients |-> <<>>]
  /\ lagged = [c \in Clients |-> <<>>]
  /\ closed = {}
  /\ observerKeyClients = 0 /\ repeatClients = 0 /\ repeatDrops = 0
  /\ run = Idle
  /\ worker = [w \in Workers |-> NoEvent]
  /\ conn = [c \in Clients |-> "none"]
  /\ issued = {}
  /\ latest = [c \in Clients |-> NoEvent]
  /\ wrote = [c \in Clients |-> NoEvent]
  /\ unannounced = {}

-----------------------------------------------------------------------------
(* What a connection's handler and its pump call.  A send to a full channel *)
(* blocks.  The calls check nothing about their caller: any goroutine may   *)
(* make them at any time, and conn only records which were made.            *)

CallNewClient(c) ==
  /\ HasRoom(subscribe, SubscribeCap)
  /\ subscribe' = Append(subscribe, Register(c))
  /\ conn' = [conn EXCEPT ![c] = "live"]
  /\ UNCHANGED <<unsubscribe, remove, broadcast, registry, delivery, ingest>>

CallAddScope(c, id, s) ==
  /\ HasRoom(subscribe, SubscribeCap)
  /\ subscribe' = Append(subscribe, AddMsg(c, id, s))
  /\ UNCHANGED <<unsubscribe, remove, broadcast, registry, delivery, ingest, conn>>

CallRemoveScope(c, id) ==
  /\ HasRoom(unsubscribe, UnsubscribeCap)
  /\ unsubscribe' = Append(unsubscribe, <<c, id>>)
  /\ UNCHANGED <<subscribe, remove, broadcast, registry, delivery, ingest, conn>>

\* A configure channel of its own, which select may read before subscribe.
CallConfigureOvertaking(c, o) ==
  /\ HasRoom(subscribe, SubscribeCap)
  /\ subscribe' = <<ConfigureMsg(c, o)>> \o subscribe
  /\ UNCHANGED <<unsubscribe, remove, broadcast, registry, delivery, ingest, conn>>

CallConfigure(c, o) ==
  /\ HasRoom(subscribe, SubscribeCap)
  /\ subscribe' = Append(subscribe, ConfigureMsg(c, o))
  /\ UNCHANGED <<unsubscribe, remove, broadcast, registry, delivery, ingest, conn>>

CallRemove(c) ==
  /\ HasRoom(remove, RemoveCap)
  /\ remove' = Append(remove, c)
  /\ conn' = [conn EXCEPT ![c] = "gone"]
  /\ UNCHANGED <<subscribe, unsubscribe, broadcast, registry, delivery, ingest>>

\* The write pump receives from either channel, in any order.
ReceiveEvent(c) ==
  /\ send[c] # <<>>
  /\ wrote' = [wrote EXCEPT ![c] = Head(send[c]).event]
  /\ send' = [send EXCEPT ![c] = Tail(@)]
  /\ UNCHANGED <<queues, registry, lagged, run, latest, unannounced, ingest, conn>>

ReceiveLagged(c) ==
  /\ lagged[c] # <<>>
  /\ lagged' = [lagged EXCEPT ![c] = Tail(@)]
  /\ unannounced' = unannounced \ {c}
  /\ UNCHANGED <<queues, registry, send, run, latest, wrote, ingest, conn>>

\* The hub's contract with a client: it registers once, calls nothing before
\* that and nothing but the pump's receives after its one removal.
NewClient(c) == conn[c] = "none" /\ CallNewClient(c)
AddScope(c, id, s) == conn[c] = "live" /\ CallAddScope(c, id, s)
RemoveScope(c, id) == conn[c] = "live" /\ CallRemoveScope(c, id)
Configure(c, o) == conn[c] = "live" /\ CallConfigure(c, o)
Remove(c) == conn[c] = "live" /\ CallRemove(c)
TakeEvent(c) == conn[c] # "none" /\ ReceiveEvent(c)
TakeLagged(c) == conn[c] # "none" /\ ReceiveLagged(c)

-----------------------------------------------------------------------------
(* What ingest calls; neither call ever blocks.                            *)

Broadcast(w, e) ==
  /\ worker[w] = NoEvent
  /\ e \notin issued
  /\ issued' = issued \cup {e}
  /\ broadcast' = IF HasRoom(broadcast, BroadcastCap)
                  THEN Append(broadcast, [event |-> e, repeat |-> FALSE])
                  ELSE broadcast
  /\ UNCHANGED <<subscribe, unsubscribe, remove, registry, delivery, repeatDrops, worker, conn>>

\* The length is read first; other workers may send before this one does.
BusyWhenFull == Len(broadcast) >= BroadcastCap
Busy == Len(broadcast) >= BroadcastCap \div 2

CheckRepeat(w, e) ==
  /\ worker[w] = NoEvent
  /\ e \notin issued
  /\ issued' = issued \cup {e}
  /\ IF Busy
     THEN repeatDrops' = repeatDrops + 1 /\ UNCHANGED worker
     ELSE worker' = [worker EXCEPT ![w] = e] /\ UNCHANGED repeatDrops
  /\ UNCHANGED <<queues, registry, delivery, conn>>

SendRepeat(w) ==
  /\ worker[w] # NoEvent
  /\ worker' = [worker EXCEPT ![w] = NoEvent]
  /\ IF HasRoom(broadcast, BroadcastCap)
     THEN /\ broadcast' = Append(broadcast, [event |-> worker[w], repeat |-> TRUE])
          /\ UNCHANGED repeatDrops
     ELSE repeatDrops' = repeatDrops + 1 /\ UNCHANGED broadcast
  /\ UNCHANGED <<subscribe, unsubscribe, remove, registry, delivery, issued, conn>>

-----------------------------------------------------------------------------
(* Run.  Each select case handles its message in one step: the client map, *)
(* the subscriptions and the options are Run's own.                        *)

DeltaUnconditional(was, is) == IF is THEN 1 ELSE -1
Delta(was, is) == IF was = is THEN 0 ELSE IF is THEN 1 ELSE -1

RunRegister ==
  /\ run.pc = "select" /\ subscribe # <<>> /\ Head(subscribe).kind = "register"
  /\ subscribe' = Tail(subscribe)
  /\ clients' = clients \cup {Head(subscribe).client}
  /\ UNCHANGED <<unsubscribe, remove, broadcast, subscriptions, options, closed,
                 observerKeyClients, repeatClients, delivery, ingest, conn>>

RunConfigure ==
  /\ run.pc = "select" /\ subscribe # <<>> /\ Head(subscribe).kind = "configure"
  /\ subscribe' = Tail(subscribe)
  /\ LET c == Head(subscribe).client
         o == Head(subscribe).options
     IN IF c \in clients
        THEN /\ observerKeyClients' = observerKeyClients
                  + Delta(options[c].includeObserverKey, o.includeObserverKey)
             /\ repeatClients' = repeatClients
                  + Delta(options[c].includeRepeats, o.includeRepeats)
             /\ options' = [options EXCEPT ![c] = o]
        ELSE UNCHANGED <<observerKeyClients, repeatClients, options>>
  /\ UNCHANGED <<unsubscribe, remove, broadcast, clients, subscriptions, closed,
                 delivery, ingest, conn>>

RunAddScope ==
  /\ run.pc = "select" /\ subscribe # <<>> /\ Head(subscribe).kind = "scope"
  /\ subscribe' = Tail(subscribe)
  /\ LET m == Head(subscribe) IN
     subscriptions' =
       IF m.client \in clients
       THEN [subscriptions EXCEPT ![m.client] =
               {sub \in @ : sub[1] # m.id} \cup {<<m.id, m.scope>>}]
       ELSE subscriptions
  /\ UNCHANGED <<unsubscribe, remove, broadcast, clients, options, closed,
                 observerKeyClients, repeatClients, delivery, ingest, conn>>

RunUnsubscribe ==
  /\ run.pc = "select" /\ unsubscribe # <<>>
  /\ unsubscribe' = Tail(unsubscribe)
  /\ LET c == Head(unsubscribe)[1]
         id == Head(unsubscribe)[2]
     IN subscriptions' =
          IF c \in clients
          THEN [subscriptions EXCEPT ![c] = {sub \in @ : sub[1] # id}]
          ELSE subscriptions
  /\ UNCHANGED <<subscribe, remove, broadcast, clients, options, closed,
                 observerKeyClients, repeatClients, delivery, ingest, conn>>

RemovableAlways(c) == TRUE
Removable(c) == c \in clients

RunRemove ==
  /\ run.pc = "select" /\ remove # <<>>
  /\ remove' = Tail(remove)
  /\ LET c == Head(remove) IN
     IF Removable(c)
     THEN /\ clients' = clients \ {c}
          /\ observerKeyClients' = observerKeyClients
               - (IF options[c].includeObserverKey THEN 1 ELSE 0)
          /\ repeatClients' = repeatClients - (IF options[c].includeRepeats THEN 1 ELSE 0)
          /\ closed' = closed \cup {c}
     ELSE UNCHANGED <<clients, observerKeyClients, repeatClients, closed>>
  /\ UNCHANGED <<subscribe, unsubscribe, broadcast, subscriptions, options,
                 delivery, ingest, conn>>

\* The recipients are settled when Run takes the event: nothing they depend
\* on changes before the fan-out ends.
RunBroadcast ==
  /\ run.pc = "select" /\ broadcast # <<>>
  /\ broadcast' = Tail(broadcast)
  /\ LET m == Head(broadcast)
         recipients == {c \in clients : /\ m.repeat => options[c].includeRepeats
                                        /\ Matches(c, m.event)}
     IN run' = IF recipients = {} THEN run
               ELSE [run EXCEPT !.pc = "fanout", !.msg = m, !.todo = recipients]
  /\ UNCHANGED <<subscribe, unsubscribe, remove, registry, send, lagged, latest, wrote,
                 unannounced, ingest, conn>>

Served(c) ==
  IF run.todo = {c} THEN Idle
  ELSE [pc |-> "fanout", msg |-> run.msg, todo |-> run.todo \ {c}, cur |-> NoClient,
        dropped |-> 0]

Out(c) == [event |-> run.msg.event, payload |-> PayloadFor(options[c], run.msg.event)]

\* The first try; a full buffer leads to the eviction below.
DeliverBlocking(c) ==
  /\ run.pc = "fanout" /\ c \in run.todo
  /\ HasRoom(send[c], SendCap)
  /\ latest' = [latest EXCEPT ![c] = run.msg.event]
  /\ send' = [send EXCEPT ![c] = Append(@, Out(c))]
  /\ run' = Served(c)
  /\ UNCHANGED <<queues, registry, lagged, wrote, unannounced, ingest, conn>>

Deliver(c) ==
  /\ run.pc = "fanout" /\ c \in run.todo
  /\ latest' = [latest EXCEPT ![c] = run.msg.event]
  /\ IF HasRoom(send[c], SendCap)
     THEN /\ send' = [send EXCEPT ![c] = Append(@, Out(c))]
          /\ run' = Served(c)
     ELSE /\ run' = [run EXCEPT !.pc = "evict", !.cur = c, !.dropped = 1]
          /\ UNCHANGED send
  /\ UNCHANGED <<queues, registry, lagged, wrote, unannounced, ingest, conn>>

\* Evict the oldest, unless the pump has emptied the buffer meanwhile.
EvictNothing ==
  /\ run.pc = "evict"
  /\ run' = [run EXCEPT !.pc = "resend"]
  /\ UNCHANGED <<queues, registry, send, lagged, latest, wrote, unannounced, ingest, conn>>

Evict ==
  /\ run.pc = "evict"
  /\ run' = [run EXCEPT !.pc = "resend"]
  /\ IF send[run.cur] # <<>>
     THEN /\ send' = [send EXCEPT ![run.cur] = Tail(@)]
          /\ unannounced' = unannounced \cup {run.cur}
     ELSE UNCHANGED <<send, unannounced>>
  /\ UNCHANGED <<queues, registry, lagged, latest, wrote, ingest, conn>>

Resend ==
  /\ run.pc = "resend"
  /\ LET c == run.cur IN
     IF HasRoom(send[c], SendCap)
     THEN /\ send' = [send EXCEPT ![c] = Append(@, Out(c))]
          /\ run' = [run EXCEPT !.pc = "lag"]
          /\ UNCHANGED unannounced
     ELSE /\ run' = [run EXCEPT !.pc = "lag", !.dropped = 2]
          /\ unannounced' = unannounced \cup {c}
          /\ UNCHANGED send
  /\ UNCHANGED <<queues, registry, lagged, latest, wrote, ingest, conn>>

\* A full lagged channel swallows the notice.
NoticeIfNewestLost == HasRoom(lagged[run.cur], LaggedCap) /\ run.dropped = 2
NoticeFits == HasRoom(lagged[run.cur], LaggedCap)

SendLagged ==
  /\ run.pc = "lag"
  /\ lagged' = IF NoticeFits
               THEN [lagged EXCEPT ![run.cur] = Append(@, run.dropped)]
               ELSE lagged
  /\ run' = Served(run.cur)
  /\ UNCHANGED <<queues, registry, send, latest, wrote, unannounced, ingest, conn>>

-----------------------------------------------------------------------------
RunSubscribe == RunRegister \/ RunConfigure \/ RunAddScope
Select == RunSubscribe \/ RunUnsubscribe \/ RunRemove \/ RunBroadcast
FanOut == (\E c \in Clients : Deliver(c)) \/ Evict \/ Resend \/ SendLagged
RunStep == Select \/ FanOut

Handler(c) ==
  \/ NewClient(c) \/ Remove(c) \/ TakeEvent(c) \/ TakeLagged(c)
  \/ \E id \in SubIds : RemoveScope(c, id) \/ \E s \in Scopes : AddScope(c, id, s)
  \/ \E o \in OptionSets : Configure(c, o)

Ingest(w) == SendRepeat(w) \/ \E e \in Events : Broadcast(w, e) \/ CheckRepeat(w, e)

Next ==
  \/ RunStep
  \/ \E c \in Clients : Handler(c)
  \/ \E w \in Workers : Ingest(w)

Spec == Init /\ [][Next]_hubVars

\* Run is a goroutine that never blocks; select chooses at random among the
\* ready channels, so a channel ready again and again is read again and again.
\* Nothing is assumed of the handlers, the pumps and the workers.
Fairness ==
  /\ WF_hubVars(FanOut)
  /\ SF_hubVars(RunSubscribe) /\ SF_hubVars(RunUnsubscribe)
  /\ SF_hubVars(RunRemove) /\ SF_hubVars(RunBroadcast)

FairSpec == Spec /\ Fairness

-----------------------------------------------------------------------------
(* Properties.                                                             *)

\* Every variable stays in its type and every channel within its capacity.
QueuesOK ==
  /\ subscribe \in Seq(SubscribeMsgs) /\ Len(subscribe) <= SubscribeCap
  /\ unsubscribe \in Seq(Clients \X SubIds) /\ Len(unsubscribe) <= UnsubscribeCap
  /\ remove \in Seq(Clients) /\ Len(remove) <= RemoveCap
  /\ broadcast \in Seq(BroadcastMsgs) /\ Len(broadcast) <= BroadcastCap
RegistryOK ==
  /\ clients \in SUBSET Clients
  /\ subscriptions \in [Clients -> SUBSET (SubIds \X Scopes)]
  /\ options \in [Clients -> ClientOptions]
  /\ closed \in SUBSET Clients
  /\ observerKeyClients \in Int /\ repeatClients \in Int
BuffersOK ==
  /\ send \in [Clients -> Seq(Deliveries)]
  /\ lagged \in [Clients -> Seq({1, 2})]
  /\ \A c \in Clients : Len(send[c]) <= SendCap /\ Len(lagged[c]) <= LaggedCap
RunStates ==
  [pc : {"select", "fanout", "evict", "resend", "lag"},
   msg : [event : Events \cup {NoEvent}, repeat : BOOLEAN],
   todo : SUBSET Clients, cur : Clients \cup {NoClient}, dropped : {0, 1, 2}]
RunTypeOK == run \in RunStates
CallersOK ==
  /\ repeatDrops \in Nat
  /\ worker \in [Workers -> Events \cup {NoEvent}]
  /\ conn \in [Clients -> {"none", "live", "gone"}]
  /\ issued \in SUBSET Events
HistoryOK ==
  /\ latest \in [Clients -> Events \cup {NoEvent}]
  /\ wrote \in [Clients -> Events \cup {NoEvent}]
  /\ unannounced \in SUBSET Clients
TypeOK == QueuesOK /\ RegistryOK /\ BuffersOK /\ RunTypeOK /\ CallersOK /\ HistoryOK

KeyClients == {c \in clients : options[c].includeObserverKey}
RepeatClients == {c \in clients : options[c].includeRepeats}

\* The two counters ingest reads to skip work (ObserverKeyWanted,
\* RepeatsWanted) agree with the registered clients' options, whatever the
\* order of reconfigurations, removals and messages of removed clients.
CountersExact ==
  /\ observerKeyClients = Cardinality(KeyClients)
  /\ repeatClients = Cardinality(RepeatClients)

\* A client whose channels Run has closed is never in the client map nor
\* among the recipients of the event in hand: Run neither sends on a closed
\* channel nor closes one twice, either of which panics the process.
NoSendOnClosed ==
  /\ closed \cap clients = {}
  /\ closed \cap run.todo = {}

\* The reason registrations, scopes and options share one channel: a message
\* of a connection whose Remove has not been called is never handled before
\* that connection's registration, so it is never a silent no-op.
ConfigureFollowsRegistration ==
  subscribe # <<>> =>
    LET m == Head(subscribe) IN
    m.kind # "register" /\ conn[m.client] = "live" => m.client \in clients

\* An event lost to a full buffer is always followed by a lagged notice: one
\* is waiting in the lagged channel, or Run is about to send it.  This holds
\* although a full lagged channel swallows the notice.
DropsAnnounced ==
  \A c \in unannounced :
    lagged[c] # <<>> \/ (run.pc \in {"resend", "lag"} /\ run.cur = c)

\* "Evict the oldest so the newest still goes out": once Run is done with a
\* client, the newest event that matched it is the last in its buffer or the
\* last its write pump took, however the pump interleaves.
NewestSurvives ==
  \A c \in Clients :
    \/ latest[c] = NoEvent
    \/ run.pc \in {"evict", "resend"} /\ run.cur = c
    \/ IF send[c] = <<>> THEN wrote[c] = latest[c]
       ELSE send[c][Len(send[c])].event = latest[c]

\* Run is the only sender, so after an eviction the second try always finds
\* room: a notice reports exactly one drop.
OneDropPerNotice ==
  \A c \in Clients : \A i \in DOMAIN lagged[c] : lagged[c][i] = 1

\* "Repeats never crowd out first hearings": workers race between the length
\* check and the send, so repeats may pass half the channel, by at most one
\* per worker but the first.
QueuedRepeats == {i \in DOMAIN broadcast : broadcast[i].repeat}
PendingRepeats == {w \in Workers : worker[w] # NoEvent}
RepeatsBounded ==
  Cardinality(QueuedRepeats) + Cardinality(PendingRepeats)
    <= (BroadcastCap \div 2) - 1 + Cardinality(Workers)

\* A client that stops reading never stalls the hub: Run keeps returning to
\* its select, and a handler or worker blocked on a full channel gets room.
NeverStalls ==
  /\ []<>(run.pc = "select")
  /\ []<>(Len(subscribe) < SubscribeCap)
  /\ []<>(Len(unsubscribe) < UnsubscribeCap)
  /\ []<>(Len(remove) < RemoveCap)
  /\ []<>(Len(broadcast) < BroadcastCap)

\* What hub.go says of Remove, "deregisters a client": once Remove was called
\* and no message of the client is left, the client is not in the map.
\* The code breaks this: select may take the removal first.
RemoveDeregisters ==
  \A c \in Clients :
    (/\ conn[c] = "gone" /\ run.pc = "select"
     /\ \A i \in DOMAIN subscribe : subscribe[i].client # c
     /\ \A i \in DOMAIN remove : remove[i] # c) => c \notin clients
==============================================================================
