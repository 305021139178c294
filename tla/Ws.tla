--------------------------------- MODULE Ws ----------------------------------
(***************************************************************************)
(* The WebSocket endpoint (internal/ws/handler.go, limiter.go) on top of   *)
(* the hub.  Each connection is a handler goroutine, which registers, says *)
(* hello, then reads one client message at a time, and a write pump that   *)
(* forwards events and lagged notices.  The two share a context; deferred  *)
(* calls cancel it, remove the client from the hub and free the            *)
(* connection's slot in the per-address limiter, in that order.            *)
(***************************************************************************)
EXTENDS Hub

CONSTANTS
  Ips,           \* remote addresses
  IpOf,          \* connection -> its address
  MaxConnsPerIp

ASSUME WsAssumption ==
  /\ IpOf \in [Clients -> Ips]
  /\ MaxConnsPerIp \in Nat \ {0}

VARIABLES
  pc,          \* connection -> where its handler is
  pump,        \* connection -> where its write pump is
  cancelled,   \* connections whose context is cancelled
  count,       \* the limiter's count of connections per address
  replying,    \* connection -> the subscription id of the reply being written
  used,        \* subscription ids handed out
  known,       \* connection -> ids its client was told in "subscribed" replies
  dropped      \* connection -> ids its client was told are unsubscribed

wsVars == <<pc, pump, cancelled, count, replying, used, known, dropped>>
wsAll == <<hubVars, wsVars>>

NoReply == [id |-> "none", kind |-> "none"]
Go(c, from, to) == pc[c] = from /\ pc' = [pc EXCEPT ![c] = to]

WsInit ==
  /\ Init
  /\ pc = [c \in Clients |-> "dialing"]
  /\ pump = [c \in Clients |-> "off"]
  /\ cancelled = {}
  /\ count = [ip \in Ips |-> 0]
  /\ replying = [c \in Clients |-> NoReply]
  /\ used = {}
  /\ known = [c \in Clients |-> {}]
  /\ dropped = [c \in Clients |-> {}]

-----------------------------------------------------------------------------
(* The handler goroutine.                                                  *)

\* The limiter admits or refuses an accepted socket under its mutex.
Acquire(c) ==
  /\ IF count[IpOf[c]] >= MaxConnsPerIp
     THEN Go(c, "dialing", "done") /\ UNCHANGED count
     ELSE Go(c, "dialing", "admitted") /\ count' = [count EXCEPT ![IpOf[c]] = @ + 1]
  /\ UNCHANGED <<hubVars, pump, cancelled, replying, used, known, dropped>>

Connect(c) ==
  /\ Go(c, "admitted", "hello")
  /\ CallNewClient(c)
  /\ UNCHANGED <<pump, cancelled, count, replying, used, known, dropped>>

HelloSent(c) ==
  /\ Go(c, "hello", "reading")
  /\ pump' = [pump EXCEPT ![c] = "waiting"]
  /\ UNCHANGED <<hubVars, cancelled, count, replying, used, known, dropped>>

HelloFailsRemoves(c) ==
  /\ Go(c, "hello", "returning")
  /\ CallRemove(c)
  /\ UNCHANGED <<pump, cancelled, count, replying, used, known, dropped>>

HelloFails(c) ==
  /\ Go(c, "hello", "returning")
  /\ UNCHANGED <<hubVars, pump, cancelled, count, replying, used, known, dropped>>

\* A fresh id per subscribe message, answered after the hub was told.
Subscribe(c, id, s) ==
  /\ Go(c, "reading", "replying")
  /\ id \notin used /\ used' = used \cup {id}
  /\ CallAddScope(c, id, s)
  /\ replying' = [replying EXCEPT ![c] = [id |-> id, kind |-> "subscribed"]]
  /\ UNCHANGED <<pump, cancelled, count, known, dropped>>

Unsubscribe(c, id) ==
  /\ Go(c, "reading", "replying")
  /\ id \in known[c]
  /\ CallRemoveScope(c, id)
  /\ replying' = [replying EXCEPT ![c] = [id |-> id, kind |-> "unsubscribed"]]
  /\ UNCHANGED <<pump, cancelled, count, used, known, dropped>>

ConfigureClient(c, o) ==
  /\ Go(c, "reading", "replying")
  /\ CallConfigure(c, o)
  /\ UNCHANGED <<pump, cancelled, count, replying, used, known, dropped>>

\* A ping only has a reply.  A message the handler cannot use has none, and
\* changes nothing.
Ping(c) ==
  /\ Go(c, "reading", "replying")
  /\ UNCHANGED <<hubVars, pump, cancelled, count, replying, used, known, dropped>>

\* A failed reply is only logged: the next read notices the lost connection.
Reply(c) ==
  /\ Go(c, "replying", "reading")
  /\ \/ /\ known' = [known EXCEPT ![c] =
                       IF replying[c].kind = "subscribed" THEN @ \cup {replying[c].id} ELSE @]
        /\ dropped' = [dropped EXCEPT ![c] =
                       IF replying[c].kind = "unsubscribed" THEN @ \cup {replying[c].id} ELSE @]
     \/ UNCHANGED <<known, dropped>>
  /\ replying' = [replying EXCEPT ![c] = NoReply]
  /\ UNCHANGED <<hubVars, pump, cancelled, count, used>>

\* The peer closed, 90 s passed without a message, or the context is cancelled.
ReadFails(c) ==
  /\ Go(c, "reading", "returning")
  /\ UNCHANGED <<hubVars, pump, cancelled, count, replying, used, known, dropped>>

\* The deferred calls, last deferred first.  A hello that failed returns
\* through the same ones.
CancelFreesSlot(c) ==
  /\ Go(c, "returning", "removing")
  /\ cancelled' = cancelled \cup {c}
  /\ count' = [count EXCEPT ![IpOf[c]] = IF @ <= 1 THEN 0 ELSE @ - 1]
  /\ UNCHANGED <<hubVars, pump, replying, used, known, dropped>>

Cancel(c) ==
  /\ Go(c, "returning", "removing")
  /\ cancelled' = cancelled \cup {c}
  /\ UNCHANGED <<hubVars, pump, count, replying, used, known, dropped>>

Deregister(c) ==
  /\ Go(c, "removing", "releasing")
  /\ CallRemove(c)
  /\ UNCHANGED <<pump, cancelled, count, replying, used, known, dropped>>

ReleaseKeepsSlot(c) ==
  /\ Go(c, "releasing", "done")
  /\ UNCHANGED <<hubVars, pump, cancelled, count, replying, used, known, dropped>>

Release(c) ==
  /\ Go(c, "releasing", "done")
  /\ count' = [count EXCEPT ![IpOf[c]] = IF @ <= 1 THEN 0 ELSE @ - 1]
  /\ UNCHANGED <<hubVars, pump, cancelled, replying, used, known, dropped>>

-----------------------------------------------------------------------------
(* The write pump.                                                         *)

PumpTakes(c) ==
  /\ pump[c] = "waiting"
  /\ ReceiveEvent(c) \/ ReceiveLagged(c)
  /\ pump' = [pump EXCEPT ![c] = "writing"]
  /\ UNCHANGED <<pc, cancelled, count, replying, used, known, dropped>>

PumpWrites(c) ==
  /\ pump[c] = "writing"
  /\ pump' = [pump EXCEPT ![c] = "waiting"]
  /\ UNCHANGED <<hubVars, pc, cancelled, count, replying, used, known, dropped>>

\* A write fails when the peer is gone or the context is cancelled; nothing
\* else bounds it.
PumpWriteFailsAlone(c) ==
  /\ pump[c] = "writing"
  /\ pump' = [pump EXCEPT ![c] = "exited"]
  /\ UNCHANGED <<hubVars, pc, cancelled, count, replying, used, known, dropped>>

PumpWriteFails(c) ==
  /\ pump[c] = "writing"
  /\ pump' = [pump EXCEPT ![c] = "exited"]
  /\ cancelled' = cancelled \cup {c}
  /\ UNCHANGED <<hubVars, pc, count, replying, used, known, dropped>>

\* The context is done, or the hub closed a channel that is now empty.
PumpStops(c) ==
  /\ pump[c] = "waiting"
  /\ \/ c \in cancelled
     \/ c \in closed /\ (send[c] = <<>> \/ lagged[c] = <<>>)
  /\ pump' = [pump EXCEPT ![c] = "exited"]
  /\ UNCHANGED <<hubVars, pc, cancelled, count, replying, used, known, dropped>>

-----------------------------------------------------------------------------
HandlerStep(c) ==
  \/ Acquire(c) \/ Connect(c) \/ HelloSent(c) \/ HelloFails(c)
  \/ \E id \in SubIds : Unsubscribe(c, id) \/ \E s \in Scopes : Subscribe(c, id, s)
  \/ \E o \in OptionSets : ConfigureClient(c, o)
  \/ Ping(c) \/ Reply(c) \/ ReadFails(c) \/ Cancel(c) \/ Deregister(c) \/ Release(c)

PumpStep(c) == PumpTakes(c) \/ PumpWrites(c) \/ PumpWriteFails(c) \/ PumpStops(c)

HubStep == (RunStep \/ \E w \in Workers : Ingest(w)) /\ UNCHANGED wsVars

WsNext == HubStep \/ \E c \in Clients : HandlerStep(c) \/ PumpStep(c)

WsSpec == WsInit /\ [][WsNext]_wsAll

\* Deferred calls run, a read or a write under a cancelled context returns,
\* and a goroutine whose select has a ready case runs.  A healthy read or
\* write may take forever.
WsFairness ==
  /\ Fairness
  /\ \A c \in Clients :
       /\ WF_wsAll(Cancel(c)) /\ WF_wsAll(Release(c))
       /\ SF_wsAll(Deregister(c))
       /\ WF_wsAll(c \in cancelled /\ Reply(c))
       /\ SF_wsAll(c \in cancelled /\ ReadFails(c))
       /\ SF_wsAll(c \in cancelled /\ PumpWriteFails(c))
       /\ SF_wsAll(c \in cancelled /\ PumpStops(c))

WsFairSpec == WsSpec /\ WsFairness

-----------------------------------------------------------------------------
(* Properties.                                                             *)

HandlerStates == {"dialing", "admitted", "hello", "reading", "replying", "returning",
                  "removing", "releasing", "done"}

\* Types of the endpoint's own state.
WsTypeOK ==
  /\ pc \in [Clients -> HandlerStates]
  /\ pump \in [Clients -> {"off", "waiting", "writing", "exited"}]
  /\ cancelled \in SUBSET Clients
  /\ count \in [Ips -> 0..MaxConnsPerIp]
  /\ replying \in [Clients -> [id : SubIds \cup {"none"},
                               kind : {"none", "subscribed", "unsubscribed"}]]
  /\ \A c \in Clients : replying[c].kind # "none" => replying[c].id \in SubIds
  /\ used \in SUBSET SubIds
  /\ known \in [Clients -> SUBSET SubIds] /\ dropped \in [Clients -> SUBSET SubIds]

Holders(ip) == {c \in Clients : IpOf[c] = ip /\ pc[c] \notin {"dialing", "done"}}

\* The limiter counts exactly the handlers between admission and return, so
\* no path out of a handler leaks a slot or frees one twice.
LimiterExact == \A ip \in Ips : count[ip] = Cardinality(Holders(ip))

\* An address never has more clients the hub was not told to remove than its
\* limit: the slot is freed only after the removal was handed to the hub.
LiveClientsWithinLimit ==
  \A ip \in Ips :
    Cardinality({c \in Clients : IpOf[c] = ip /\ conn[c] = "live"}) <= MaxConnsPerIp

\* A connection whose pump fails to write gives its slot back, although its
\* handler is blocked reading and its removal has to wait for the hub; and no
\* write pump outlives its handler for ever.
ConnectionsEnd ==
  \A c \in Clients :
    /\ pump[c] = "exited" ~> pc[c] = "done"
    /\ pc[c] = "done" ~> pump[c] \in {"off", "exited"}

\* The endpoint keeps the hub's contract, though the hub checks none of it:
\* on every way through handler and pump a connection registers before any
\* other call, is removed exactly once, and calls nothing but its pump's
\* receives after that. So what is true of every behaviour of Hub is true here.
HubRespected == Spec

\* What the protocol says of "unsubscribed": once the client was told, and no
\* message about the id is left, the id is not among its subscriptions.
\* The code breaks this: select may take the unsubscription first.
UnsubscribeSticks ==
  \A c \in Clients : \A id \in dropped[c] :
    (\A i \in DOMAIN subscribe : subscribe[i].kind = "scope" => subscribe[i].id # id)
      => \A sub \in subscriptions[c] : sub[1] # id
        \/ \E i \in DOMAIN unsubscribe : unsubscribe[i] = <<c, id>>
==============================================================================
