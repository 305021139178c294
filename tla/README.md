# Beacon: a TLA+ model of the server

Beacon collects what MeshCore radio observers hear. Observers publish every
packet they receive to one or two MQTT brokers; `beacon-server` (Go) stores the
packets in PostgreSQL, keeps hourly statistics and streams live events to
browsers over WebSockets; `beacon-web` (TypeScript) shows them.

This directory models the concurrent core of the server: what happens between
an MQTT message and a row, an event or a statistic, what a cached reader is
told of it, and how the server asks MeshMapper for lists and keys. Every definition is
translated from the source; the `map` of `PROJECT.json` names the lines.

## The system

Source paths are under `src/beacon-server/` unless they say otherwise.

| Component | State | Operations | Talks to |
| --- | --- | --- | --- |
| Ingest queue, `internal/ingest/queue.go`, `Worker.Start` | eight lanes, a byte budget, a drop counter, one context | enqueue, handle, report, close and drain | MQTT callback in, packet pipeline out |
| Packet pipeline, `internal/ingest/packet.go`, `side_effects.go` | rows of packets, observations, nodes, channels, routes, traces | `handlePacket` | coalescer, database, hub, key store |
| Status handler, `internal/ingest/status.go` | observer rows, telemetry | `handleStatus` | coalescer, cache, hub |
| Presence coalescer, `internal/presence/coalescer.go` | identity cache, bumps per observer, broker pair and packet | upsert, flush, prune | workers, flush loop, cleanup task, main |
| Sent-path memory, `internal/hub/sent.go` | paths seen, oldest first, with a TTL and a size | mark | packet pipeline |
| Event hub, `internal/hub/hub.go` | four channels, the client map, two option counters | register, subscribe, configure, remove, broadcast | WebSocket handlers in, write pumps out |
| WebSocket endpoint, `internal/ws/` | per connection a handler and a pump, per address a count | accept, read, reply, pump, leave | hub |
| Rollup and cleanup, `internal/background/`, `db/rollup.go` | an hour's status, dirty hours, the raw-deletion mark, revision | register, roll, re-roll, delete | database, cache |
| Channel keys and backfill, `internal/keystore`, `ingest/backfill.go` | keys in use, packets not decrypted, messages | set keys, decrypt, backfill | packet pipeline, channel import, rollup |
| MeshMapper directory, `internal/meshmapper/directory.go` | per country a zone list in memory and its row, a flag for the fetch under way | list, fetch, restore | the importers' tasks, MeshMapper, database |
| MeshMapper channel import, `internal/meshmapper/channels.go` | per region the last good list, its rows, its members, the published keys | refresh, save, publish, restore | directory, MeshMapper, database, key store |
| MeshMapper scopes and regions, `scopes.go`, `zones.go`, `groups.go` | last good snapshot, region rows | refresh, apply | directory, database, cache |
| Response cache, `internal/cache/` | Redis entries with a TTL, shared fetches under way, the remembered revision | get or fetch, invalidate by key and by prefix | API readers, importers, rollup's revision |
| Background scheduler, `internal/background/background.go` | a ticker per task | run | all tasks |
| HTTP API, middleware, configuration, backup, geography, logging | nothing shared but a busy flag and library counters | | |
| Web live connection, `src/beacon-web/src/api/ws-manager.ts` | socket, wanted and acknowledged subscriptions, backoff | connect, subscribe, reconnect | WebSocket endpoint |
| Web lists and views, `src/beacon-web/src/features/` | fetched pages merged with live events | | live connection, HTTP API |

What is hard here:

- **Channels without an order between them.** The hub's `select` reads four
  channels; what one handler sends first need not be handled first.
- **Two brokers carry the same hearing.** Two workers handle copies of one
  packet and interleave between any two statements.
- **State read under a lock and used after it**: identities, suppressed hashes,
  a flush's batch, the hub's counters.
- **Bounded buffers that drop**: lanes, the broadcast channel, send buffers,
  the sent-path memory; each has to say what it dropped, or to forget safely.
- **Shutdown**: one context is cancelled under workers, flush loop and tasks.
- **Time**: TTLs, clamps and retention windows decided at different moments.
- **Two copies of one state**: a list in memory and its row, an entry in Redis
  and the rows it was read from, a key in use and the packets stored without it.
  Any write may fail, with or without its effect, and any process may end
  between two of them.

## The plan

In order of importance; all but the web client (11) are done.

1. `Hub`: the event broker. 2. `Ws`: the endpoint composed with it; `Hub` is
   the abstract specification it implements. 3. `MessageQueue`. 4. `Hearings`:
   the pipeline's concurrency. 5. `Presence`. 6. `Rollup`: hours, re-rolls and
   raw deletion. 7. `ResponseCache`, an implementation of `StaleReads`.
   8. `Directory` and 9. `ChannelImport`, implementations of `RateLimit`.
   10. `ChannelKeys`: the live path, the backfills and the keys.
11. `LiveClient`: `ws-manager.ts` against the endpoint, and the packet list.
12. Theorems about every safety property the runs check.

Three specifications are abstract. `StaleReads` says how old an answer may be,
`RateLimit` how often MeshMapper may be asked, and `Hub` is what a connection
may do to the hub; `ResponseCache`, `Directory` and `ChannelImport`, and `Ws`
implement them, which the runs check and TLAPS proves.

## Modules

### Hub

One goroutine, `Run`, owns `clients`, `subscriptions`, `options` and closes
channels; handlers only send on `subscribe`, `unsubscribe` and `remove`, workers
on `broadcast`. `NewClient`, `AddScope`, `RemoveScope`, `Configure`, `Remove`
are the calls of a handler, and block on a full channel; `Broadcast` and
`CheckRepeat`/`SendRepeat` are the calls of a worker, and never block. Each
`select` case is one action, since all it touches belongs to `Run`; a fan-out is
one action per channel operation (`Deliver`, `Evict`, `Resend`, `SendLagged`),
because the write pump races it. `TakeEvent` and `TakeLagged` are the pump.
The bare calls (`CallNewClient`, `CallAddScope`, ...) do what the code does
whoever calls and whenever; the handler's actions of `Hub`'s specification are
these calls by a connection that is in the right state (registered once, not
removed yet). That order is the hub's contract with its callers, which `Ws` has
to keep.

`latest`, `wrote` and `unannounced` are history. The queues hold messages as
records; a payload is only the name of its variant.

### Ws

`Ws` EXTENDS `Hub` and makes its bare calls, without their contract, from a
program counter per connection, `pc`: admission by the limiter, registration, hello, the read loop
with one reply at a time, and the deferred calls in their order (cancel, remove,
release). `pump` is the write pump, `cancelled` the shared context. A reply that
cannot be written is only logged, as in the code; a client knows a subscription
by the reply (`known`). The library's per-minute limiter and the pings are left
out, and a region only widens a scope. That the endpoint uses the hub as the
contract says is `HubRespected`; nothing in `Ws` stops a call out of order, and
a handler that removes its client when the hello fails and again in the deferred
call, as in the mutant, violates it.

### MessageQueue

`Accept`, `Drop` and `Ignore` are the MQTT callback under the queue's mutex;
`Take`, `Handle`, `Credit` and `Exit` are a lane's goroutine; `ReportDrops`, `Close`,
`Drained`, `DrainTimeout`, `Stopped` and `LastReport` are `Worker.Start`. A
handler that panics is recovered and credited like one that returns. Messages
refused after the close, and those discarded when the drain times out, are not
counted by the code and not by the model.

### Hearings

One call of `handlePacket` per link, a (broker, observer) pair, because a worker
handles an observer's messages in order. Its steps are its statements:
`UpsertPacket` (or `Suppress`, answered from memory), `Remember`,
`InsertObservation`, `MarkSent`, `Broadcast` or `BroadcastRepeat`. A hub whose
channel is full drops the event of either, in calm behaviours too; what
`Broadcast` loses so is kept in `lost` (history). `calm` is
chosen at the start: without it a report may miss a broker and any statement may
fail or time out with or without its effect. The lock of the sent-path memory
makes `MarkSent` one step; hash collisions are left out; packets are not deleted
(their retention is days, the memory's minutes).

### Presence

The observer half of the coalescer. `Hit` is an upsert answered from the
identity cache, `Miss`/`WriteThrough`/`Remember` one written through, with the
mutex given up in between; `Status`/`DropIdentity` a status update. Three
flushers take the bumps and write them later: the loop (`RunTake`, `RunWrites`,
`RunFinalTake`), the prune (`Prune`, `PruneWrites`, `PruneDeletes`) and main
(`MainTake`, `MainFlushes`), and each write may fail. `Cancel` and `Drain` are
main's shutdown. `Tick` keeps a call within its 30 s timeout. Broker pairs and
IATA codes are coalesced the same way and left out. A status update that timed
out may have changed the row; the cached identity then stays.

### Rollup

The hourly statistics, statement by statement, because four tasks meet in the
database: ingest (`UpsertPacket`, `InsertObservation`, `LiveText`), the backfill
after a key was imported (`ListUndecrypted`, `BackfillText`), the pass
(`RegisterHours` to `ListDirty`, and `RollHour` as a snapshot, `RollBegins`, and
a commit, `RollCommits`) and the cleanup (`HoldBack`, `DeleteBatchOf`,
`SnapshotOldRollups` and `DeleteOldRollups`). An advisory lock admits one pass. `RollHour` runs under
REPEATABLE READ: it rolls what `RollBegins` saw, deletes the dirty entry only if
it saw it, and fails (`Conflict`) if the backfill rewrote that entry meanwhile.
Every statement may fail; a restart is all failing actions together.

A packet is a group text, an observation the hour it was heard in, an hour's
rollup rows the packets and texts they count. `heard`, `untold` and `waited` are
history. Time moves in half hours, one unit of the clamp.

The deletion of old rollups is one READ COMMITTED statement, here a snapshot and
an end. It waits for the roll that holds an hour's row and deletes the row as
the roll left it, but not the rollup rows the roll inserted after the snapshot
(`cleanup.rewritten`), nor a dirty entry deleted and written again. These
rollup rows stay without a row of their hour until the next cleanup. Readers
that join the complete hours (`series.sql`) never see them and are what `Told`
models; `GetScopeByName` sums them all the same (see `SummedMoves` below).

Telemetry, nodes and IATA tables, deleted by the same cleanup, and the early
restart of a pass whose budget ran out are left out. So is the coalescer's
delay of a known packet's `last_heard_at`: `UpsertPacket` writes it at once.

### StaleReads and ResponseCache

`StaleReads` is what a reader of the cache is promised, without a cache in it:
an answer is a version of its source that was still current `Bound` before the
request. `ResponseCache` is `getOrSet`, `fetchShared`, `del`, `delPrefix` and
`revisionMemo` of `internal/cache`: `Get` a hit, a miss or a direct read with
Redis failing, `Join` the shared fetch, `FillRead`, `FillStore` and `FillFail`
its steps on a context of its own, `CommitRows`, `Delete`, `Scan` and
`DeleteFound` an importer's commit and the invalidation that follows it, one
Redis command after the other and any of them failing. A stats request first
takes the revision, remembered or read under the memo's mutex (`UseMemo`,
`ReadRevision`, `KeepRevision`), and its key carries it. The data of a source is
its version, the number of commits so far. `view`, which `StaleReads` sees, is
the last request and its answer; the refinement mapping is in `Promise`.

One invalidation is under way at a time: a second import's would only drop more.
A request cannot give up while it waits for the memo's mutex, as in the code.
The cached observer is dropped before `UpdateObserverStatus` is called
(`status.go:185`), so an answer cached between the two is old from the start;
the promise covers it because it promises no more than an entry's life.

### RateLimit, Directory and ChannelImport

`RateLimit` says that successive requests are at least `Allowance` apart.
`Directory` is one country's zone list: `Begin` a task's tick, `Serve`,
`BackOff` and `Claim` the decision of `List` under the mutex, then `fetch`
without it: the attempt is saved before the request (`SaveAttempt`, `Request`),
memory takes the answer (`NewList`, `NotModified`, `Problem`) before the row
does (`SaveResult`), and the deferred reset is `Done`. A save that fails may have
been applied. `Restart` is `Restore` of the row, decoded or not.

`ChannelImport` is one region's channel list, which may move between sites,
each with a row of its own: `Start` chooses the ETag to send (`TagAt`), the
save is three writes, `DeleteMembers`, `AddMembers` and the row, and then memory
and the published keys (`SaveRow`). `Disable` is a boot with the import turned
off. Both assume that MeshMapper never gives an old ETag to a new list; ETags
that are hashes of the content would break `ConfirmedIsHeld` when a list is
changed back after a failed save.

### ChannelKeys

A group text is stored first and decrypted after it: `Hear`, `Observe`, then
`Look`, `Insert`, `Flag` and `Tell`, the statements of `DecryptGroupText` and
of the worker around it. The backfills (`List`, `NextPacket`, then the same
`Look`, `Insert`, `Flag`) run at boot before ingestion and whenever `Publish`
puts keys in use that were not. `Save` and `Publish` are the import, of which
`ChannelImport` has the rest. `Restart` may change the configuration. A key
opens the packets of its channel and no others (the two-byte MAC's false
positives are left out), and channels may share their one-byte hash. A
`SetPacketDecrypted` that fails leaves the packet among those every backfill
lists, for good: its message is found and nothing more happens. A backfill that
wins the race against a worker leaves the message without its live event.

## What is checked

Twelve runs, each a question of its own. Bounds are in the `.cfg` files.

| Run | Shows | Bounds, and why they are enough |
| --- | --- | --- |
| `hub` | no subscribe or configure of a live connection is handled before its registration; a lost event is always announced, the newest survives; repeats stay within half the channel and one per racing worker | one client, two workers, three events, channels of one or two: every channel is full and empty in turn, and drops follow drops. Clients do not interact but through the counters, which `ws_safety` checks with two |
| `ws_safety` | two connections share an address with one slot: counters exact, no send on a closed channel, the slot neither leaked nor freed early | two connections contend for every channel of one |
| `ws_live` | the endpoint implements `Hub`!`Spec`; the hub never stalls; a lost connection is released and every pump ends | one connection suffices: the only thing connections share is the hub, which is free to be busy |
| `queue` | order per observer, exact byte accounting, clean close, drop reports, and progress | four messages fill a lane of two and a budget of four, with two observers on one lane |
| `hearings_safety` | at most one `first` event per packet and no count streamed twice; copies not streamed within the TTL; each stored hearing's count streamed or dropped by a full hub, never both | two observers, both brokers, two paths, a TRACE, two hearings of up to four copies (a copy over the other broker is what hearing it again would be), a memory that expires and overflows |
| `presence_safety` | counts conserved, freshness and newest IATA kept by late flushes, no dead id cached, no active observer deleted, nothing left in memory at exit | two workers against three flushers; time spans the retention of two ticks twice |
| `rollup` | a complete hour counts all its observations; no backfilled message is left uncounted and unqueued; missing hours hold deletion back for all of the cap; the cache key moves with every change that readers of the hours see | two packets, each heard in up to two hours, one worker, budgets and batches of one, so every list is cut short; six half hours with a retention of four (rollups five) let an hour be rolled, re-rolled, overtaken by deletion and deleted |
| `cache` | the cache implements `StaleReads`; an invalidation that no fetch raced with is final | two requests, so that one joins the other's fetch; one commit, an entry's life of two and a fetch of one, which allow an answer about rows an age of three; four ticks, so that an older one can be told (three for the stats, whose limit is one). Keys share nothing but the clock: `subject` gives each behaviour one key, named, found by prefix or keyed by revision. The view leaves out what no step looks at again: what an answered request was told, which its next question overwrites, and a revision too old to be used. A revision read is instant (`ReadLimit = 0`); the proof has it take any time |
| `directory` | the directory implements `RateLimit`; a fetch in flight ends; the last good list stays | two tasks, one new list; five ticks, which is a fresh list of three and a retry after it |
| `channels` | the import implements `RateLimit`; a source without an error holds the list of its last good answer | two sites with three lists each, five ticks with an interval of three: a move to the other site and back, a failed save in between |
| `keys` | every heard packet of a known channel has its message or somebody has yet to try it; a mark means a message; a message is announced at most once; history fills | two packets whose channels share a hash, two workers, the boot backfill and one more, two lists (a key that comes and goes), one restart with another configuration |
| `hub_ghost` | violated: a removal overtakes its registration, and the dead client stays for good | |

`hub_ghost` is a disagreement between the code and its comment; `findings`
quotes it. Seven more have a `.cfg` of their own, which is no run of the project
but shows its counterexample with `tlc -config <cfg> <module>`:

| Configuration | The source says | The code |
| --- | --- | --- |
| `MCWs_unsubscribe.cfg`, module `MCWs`, `UnsubscribeSticks` | `hub.go:232` "RemoveScope removes a single subscription by ID." | an unsubscription overtakes its subscription, which then stays although the client was told "unsubscribed" |
| `MCHearings_unannounced.cfg`, `MCHearings`, `NewPacketAnnounced` | `api-contract.md:760` "`isFirstObservation: true` means the packet is new, so add a row" | broker A's worker inserts the packet, broker B's the observation, and no event says the packet is new (`packet.go:890`) |
| `MCPresence_stale_name.cfg`, `MCPresence`, `CachedNameCurrent` | `coalescer.go:201` "drops the cached identity, since a status message can set the display name" | an identity read before a renaming is cached after it (`coalescer.go:126`) |
| `MCPresence_shutdown.cfg`, `MCPresence`, `CleanShutdownLosesNothing` | `coalescer.go:237` "so a clean shutdown loses nothing" | a flush that meets the cancelled context drops its bumps (`coalescer.go:245`) |
| `MCDirectory_stale.cfg`, `MCDirectory`, `ServedFresh` | `directory.go:92` "List returns the country's fresh zone list" | memory takes a new list and its ETag before the row (158, 177). When that save fails, the next 304 saves the new ETag and time over the old payload (164-168), and after a restart the old list is served as fresh and every 304 confirms it |
| `MCRollup_orphans.cfg`, `MCRollup`, `SummedMoves` | `rollup.sql:274` the sum "changes whenever rolled content or coverage does" | a roll commits while the cleanup's statement waits for its hour (`rollup.sql:278-295`): the hour goes and the roll's rows stay; the next cleanup deletes them and, with no hour to delete, moves neither counter. `GetScopeByName` (`queries.sql:75-91`) sums them without joining the hours and is cached under that sum |
| `MCChannelImport_members.cfg`, `MCChannelImport`, `MembersMatch` | `api-contract.md:388`, the IATA filter lists the channels MeshMapper lists there | a boot with the import turned off clears the members (`channels.go:71-76`); a later boot with it on restores list and ETag, the 304 saves neither, and the members stay empty until the list changes |

Smaller ones met on the way:

- `api-contract.md:829` allows a `droppedCount` of 1 or 2 per notice; the hub is
  the only sender, so 2 cannot happen (`OneDropPerNotice`, proved). The count can
  over-report, when the pump empties the buffer between the failed send and the
  eviction.
- If a report misses one broker, or an insert fails, the workers may take
  different paths for a pair's first, and a stored path is streamed again as a
  repeat (`CopiesNotStreamed` is stated for calm behaviours).
- `observationCount` is read by the insert and streamed after more queries, so
  the events of two observers may carry their counts out of order.
- `tasks.go:56` says ingest clamps `heard_at` to 30 minutes of `last_heard_at`;
  it clamps to a clock read later. An hour whose row was heard beyond that is
  not reached by `raw_deleted_before` when the row is deleted, and a re-roll of
  it counts less. `WholeHours` excepts these hours (`untold`).
- A text stored live queues no re-roll. It belongs to the hour just heard,
  which is not rolled yet, but a hearing of the same packet hours earlier,
  stored before its key was known, is not counted there; hence
  `BackfilledCounted` speaks of backfilled messages only.
- A prune whose flush fails has already cleared the identity cache; what it knew
  of cached activity is gone.
- A caller that asks after an invalidation may join a shared fetch that read
  before it, and the entry it stores lives a whole TTL more: `StaleReads` bounds
  rows by an entry's life plus one fetch, and no tighter bound holds.

**Fairness.** `Hub`: `Run` never blocks, so its fan-out is weakly fair, and a
`select` that chooses at random among ready channels is strongly fair to each.
Nothing is assumed of clients, pumps or workers. `Ws` adds that deferred calls
run and that reads, writes and pumps under a cancelled context return; a healthy
read or write may take for ever. `MessageQueue`: a lane's goroutine runs, a
handler returns because its context has a 30 s timeout, the drain has one of
20 s; nobody has to stop the worker. `Directory`: a fetch that was started goes on,
because its context ends after two minutes at the latest. `ChannelKeys`: a
worker's handler and a backfill go on once they run, since each is a goroutine
whose statements return; no packet has to arrive and no key to be added. The
other runs check safety only.

## What is proved

With TLAPS, for all values of the constants within the named assumptions:

- `HubProofs`, the hub: the type invariant; `NoSendOnClosed`; `ConfigureFollowsRegistration`;
  `CountersExact`; `DropsAnnounced`; `OneDropPerNotice`; `NewestSurvives`;
  `RepeatsBounded`. The inductive invariant
  `HubInv` adds to the types that a connection registers once (a registration in
  the channel excludes the map, the closed clients and a second registration)
  and that no message of a connection precedes its registration in the channel.
  From there the counters are exact because an option set in the map changes
  only through `RunConfigure`, whose `Delta` compares with the stored option.
  `DropsAnnounced` rests on a full `lagged` channel being itself a notice,
  `OneDropPerNotice` on `Run` being the only sender. `NewestSurvives` needs
  that during an eviction the event in hand is the client's newest and that the
  second send finds room. `RepeatsBounded` is inductive: a worker passes the
  check only with fewer than half the places taken, and all others can at most
  be waiting to send.
- `HubProofs`, the endpoint: it implements the hub (`HubRespected`), so the hub's
  theorems hold under it. The invariant is `Contract`: a handler's program
  counter and the state of its connection agree, so that every bare call is
  made when the hub allows it. Then its types; `LimiterExact`; `LiveClientsWithinLimit`,
  from the invariant that a live client's handler still holds its slot.
- `IngestProofs`, the queue: types and budget; `InArrivalOrder`, from the
  invariant that arrival numbers ascend along a lane, its hand and each
  observer's last (`OrderInv`); `CleanCloseLosesNothing`, from where an accepted
  message can be (`ShutdownInv`); `DropsReported`; `BytesExact`. The budget is a
  sum over the messages queued or in hand, which the property states as the size
  of a set, their bytes; the invariant (`ByteInv`) adds that no message is in two
  places, so that a callback's charge adds a disjoint set and a credit takes one
  away.
- `IngestProofs`, the storing half (`Hearings`): `NumberedOnce` and
  `StoredIsStreamedOrLost` rest on one account of a packet's numbers (`Numbers`,
  `LostNumbers`, `AllNumbered`): what was streamed, what a full hub dropped and
  what a worker still owes are different numbers from 1 to the row's count, and
  in a calm behaviour all of them.
  `Announced` says the same of the worker that found the packet new.
  `CopiesNotStreamed` needs more (`Copying`). The two brokers' workers see an
  observer's reports in one order, and what one has marked before the other is
  stored (`Aligned`). Whatever was or will be streamed is either remembered for
  the TTL, or is the pair's first hearing, which no worker has marked and every
  worker will mark with that path before any other (`AllGuarded`). Events and
  events still due keep their distance (`Spaced`). The theorem assumes that the
  memory always has room for two keys more (`Room`): a full memory forgets a
  hearing before its TTL, by design, and the property need not hold then (with
  `SentMax = 3` TLC finds a copy sent). Nothing in the code keeps it so: the
  memory's size is fixed and keys are not bounded.
- `PresenceProofs`: `CountConserved`, `NewestHearingKept`, `CachedIdLives`,
  `NothingLeftBehind` and the action property `ActiveObserverKept`, from one
  invariant (`Inv`). Its core follows an observer's hearings from the bump in
  memory through a flush's batch to the row, so that a statement moves
  a part of the sum and never copies it. What a `GREATEST` may not undo is that
  the newest time is in the row, in memory or in a batch. `RowsHeld` is what the
  prune rests on: whoever holds the id of a row, or is about to cache it, has
  made the row too young for the cutoff under way, because a call that began
  before the cutoff was chosen ends within its timeout.
- `RollupProofs`: types, with which a complete hour has its rollup rows and
  others only where retention was overtaken by a roll; `WholeHours`, from the invariant that an hour is
  registered only when no call can still store into it (`Delay` covers hour,
  clamp and handler timeout) and that until deletion has reached an hour its
  rows are those ever heard (`WholeInv`); `BackfilledCounted`, where an open
  roll either saw every message or will leave or fail on the dirty entry
  (`RerollInv`); `PartialOnlyAfterCap`, where the mark and the cutoff under way
  stay behind every waiting hour until the cap is spent (`HoldInv`);
  `RevisionMoves`: rows left behind belong to an hour too old to be registered
  again, so that no later roll can give them back to a complete hour unnoticed.
- `CacheProofs`: `ResponseCache` implements `StaleReads` (`KeepsPromise`). The
  invariant (`CacheInv`) follows a version from where it was read to where it is
  told: an entry was current within a fetch of being stored, a fetch's version
  since the fetch began, the remembered revision within a read of being stored,
  and a stats key's version is at least the revision it carries, so that the age
  of an answer is the sum of the limits it passed. `InvalidationHolds`, from
  `FloorInv`: after an undisturbed invalidation no fetch on its way to the key
  has read less.
- `DirectoryProofs`: `Directory` implements `RateLimit` (`KeepsAllowance`), by
  `BudgetInv`: only the task that set `fetching` sends, and at every moment the
  next attempt is an allowance away in memory and, once the attempt is saved, in
  the row a restart would read; and `LastGoodKept`.
- `ChannelImportProofs`: the same for the channel import, and `ConfirmedIsHeld`
  and `PublishedIsSaved`, from one invariant: an ETag in memory, in the row of a
  site or in a request belongs to the list beside it.
- `ChannelKeysProofs`: `KnownIsDecrypted`, where the invariant says that a key is
  put in use in the same step that gives its hashes to a backfill, and a packet's
  row precedes its observation, so that whoever comes second sees the other;
  `MarkedHasMessage`; `ToldOnce`, because only the job whose insert found no
  message goes on to tell.

Assumptions are those named in the modules (`HubAssumption`,
`WorkersAssumption`, `WsAssumption`, `QueueAssumption`, `HearingsAssumption`,
`PresenceAssumption`, `RollupAssumption`,
`CacheAssumption`, `DirectoryAssumption`, `ChannelAssumption`,
`KeysAssumption`): capacities are positive, there is a worker, the hash maps
observers to lanes, the placeholder values are no real ones; a coalescer's call
ends before the observers' retention is over, as 30 seconds and the example's 30 days
do (the configuration would accept less, which the theorems leave out); the rollup's delay
and margin cover the clamp and a handler's timeout as 95, 35, 30 and half a
minute do; an allowance and a refresh's timeout fit into the time a list is
fresh, or a failed import waits, as MeshMapper's daily allowance, two minutes
and the configured intervals do.

Only model-checked: liveness and fairness, out of the prover's reach
(`NeverStalls`, `ConnectionsEnd`, `AcceptedIsHandled`, `ShutdownEnds`,
`FlightEnds`, `HistoryFills`). Every other property of the passing runs is a
theorem.

## What is not modelled

Everything `components` lists as not modelled, with its reason there: library
code (MQTT, rate limiters, decoding), generated code, stateless request
handlers, rendering, and the web client, which the plan leaves to the last. Of
the importers, `scopes.go` refreshes as `channels.go` does, without members and
retries, and the grouping of zones into regions is a pure function of the list.
Inside the modelled components: payload contents, wording, logging, and the
tables that no modelled decision reads.
