----------------------------- MODULE ChannelKeys -----------------------------
(***************************************************************************)
(* Channel messages: the live path that decrypts a group text as it is     *)
(* heard (internal/ingest/packet.go, side_effects.go), the backfills that  *)
(* decrypt stored ones when a key appears (internal/ingest/backfill.go,    *)
(* cmd/beacon/main.go) and the keys, which the configuration fixes at boot *)
(* and an import replaces at any time (internal/keystore/keystore.go).     *)
(*                                                                         *)
(* A key opens the packets of its channel and no others; channels share a  *)
(* one-byte hash.  Which lists are imported, when and from where is the    *)
(* matter of ChannelImport.                                                *)
(***************************************************************************)
EXTENDS Integers

CONSTANTS
  Keys, Packets,
  Configs, Lists,             \* the sets of keys the file and the lists may hold
  HashOf,                     \* key -> its channel hash
  KeyOf,                      \* packet -> the key of its channel
  Workers,                    \* the broker workers
  Scans, Boot,                \* the backfills, Boot the one before ingestion
  None,
  MaxHeard, MaxLists, MaxRestarts    \* the bounds on hearings, imports and restarts

ASSUME KeysAssumption ==
  /\ Configs \cup Lists \subseteq SUBSET Keys /\ DOMAIN HashOf = Keys
  /\ KeyOf \in [Packets -> Keys]
  /\ Boot \in Scans /\ Workers \cap Scans = {}
  /\ None \notin Packets
  /\ MaxHeard \in Nat /\ MaxLists \in Nat /\ MaxRestarts \in Nat

Jobs == Workers \cup Scans
Hash(p) == HashOf[KeyOf[p]]

VARIABLES
  config, imported,     \* the keys in use, from the file and from the lists
  saved,                \* the keys of the lists in the database
  packets,              \* group texts in the packets table
  observed,             \* those with a stored observation
  decrypted,            \* those whose row says decrypted
  messages,             \* those with a channel message
  channels,             \* channel rows: of keys, and of hashes alone
  job,                  \* what each worker and backfill is doing
  told,                 \* history: channelMessage events broadcast, by packet
  missed,               \* history: packets a failed statement gave up in this process
  heard, lists, restarts

keys == <<config, imported, saved>>
tables == <<packets, observed, decrypted, messages, channels>>
counters == <<heard, lists, restarts>>
vars == <<keys, tables, job, told, missed, counters>>

Known == config \cup imported

Job(at, packet, todo, hashes) == [at |-> at, packet |-> packet, todo |-> todo, hashes |-> hashes]
Idle == Job("idle", None, {}, {})
Scan(hashes) == Job("list", None, {}, hashes)
AllHashes == {HashOf[k] : k \in Keys}
Booting == [j \in Jobs |-> IF j = Boot THEN Scan(AllHashes) ELSE Idle]

Ingesting == job[Boot].at = "idle"

Init ==
  /\ config \in Configs /\ imported = {} /\ saved = {}
  /\ packets = {} /\ observed = {} /\ decrypted = {} /\ messages = {} /\ channels = {}
  /\ job = Booting
  /\ told = [p \in Packets |-> 0]
  /\ missed = {}
  /\ heard = 0 /\ lists = 0 /\ restarts = 0

Goto(j, at) == job' = [job EXCEPT ![j].at = at]

\* A worker returns; a backfill goes on with its next packet.
Done(j) ==
  job' = [job EXCEPT ![j] = IF j \in Workers THEN Idle ELSE [@ EXCEPT !.at = "next", !.packet = None]]

(***************************************************************************)
(* handlePacket: the packet's row, then the observation.  A duplicate is   *)
(* of a hearing already stored, and only a new one goes further.           *)
(***************************************************************************)

Hear(w, p) ==
  /\ Ingesting /\ job[w].at = "idle"
  /\ heard < MaxHeard /\ heard' = heard + 1
  /\ packets' = packets \cup {p}
  /\ job' = [job EXCEPT ![w] = Job("observe", p, {}, {})]
  /\ UNCHANGED <<keys, observed, decrypted, messages, channels, told, missed, lists, restarts>>

Observe(w) ==
  /\ job[w].at = "observe"
  /\ observed' = observed \cup {job[w].packet}
  /\ Goto(w, "look")
  /\ UNCHANGED <<keys, packets, decrypted, messages, channels, told, missed, counters>>

Duplicate(w) ==
  /\ job[w].at = "observe" /\ job[w].packet \in observed
  /\ Done(w)
  /\ UNCHANGED <<keys, tables, told, missed, counters>>

\* The insert fails, applied or not: the hearing ends there.
ObserveFails(w) ==
  /\ job[w].at = "observe"
  /\ \/ UNCHANGED observed /\ UNCHANGED missed
     \/ observed' = observed \cup {job[w].packet} /\ missed' = missed \cup {job[w].packet}
  /\ Done(w)
  /\ UNCHANGED <<keys, packets, decrypted, messages, channels, told, counters>>

(***************************************************************************)
(* DecryptGroupText, of workers and backfills alike.                       *)
(***************************************************************************)

\* Mutant: the packet is marked before its message is stored.
LookFlags(j) ==
  /\ job[j].at = "look"
  /\ IF KeyOf[job[j].packet] \in Known THEN Goto(j, "insert") /\ decrypted' = decrypted \cup {job[j].packet}
     ELSE IF j \in Workers THEN Goto(j, "hash") /\ decrypted' = decrypted
     ELSE Done(j) /\ decrypted' = decrypted
  /\ UNCHANGED <<keys, packets, observed, messages, channels, told, missed, counters>>

\* Mutant: only one of the hash's keys is tried.
LookOnce(j) ==
  LET p == job[j].packet
      tried == CHOOSE k \in Known : HashOf[k] = Hash(p) IN
  /\ job[j].at = "look"
  /\ IF KeyOf[p] \in Known /\ KeyOf[p] = tried THEN Goto(j, "insert")
     ELSE IF j \in Workers THEN Goto(j, "hash")
     ELSE Done(j)
  /\ UNCHANGED <<keys, tables, told, missed, counters>>

Look(j) ==
  /\ job[j].at = "look"
  /\ IF KeyOf[job[j].packet] \in Known THEN Goto(j, "insert")
     ELSE IF j \in Workers THEN Goto(j, "hash")
     ELSE Done(j)
  /\ UNCHANGED <<keys, tables, told, missed, counters>>

\* Mutant: the insert updates the message that is there, and returns it.
InsertUpdates(j) ==
  LET p == job[j].packet IN
  /\ job[j].at = "insert"
  /\ channels' = channels \cup {KeyOf[p]}
  /\ messages' = messages \cup {p} /\ Goto(j, "flag")
  /\ UNCHANGED <<keys, packets, observed, decrypted, told, missed, counters>>

\* UpsertChannel and InsertChannelMessage: one message of a packet is inserted.
Insert(j) ==
  LET p == job[j].packet IN
  /\ job[j].at = "insert"
  /\ channels' = channels \cup {KeyOf[p]}
  /\ messages' = messages \cup {p}
  /\ IF p \in messages THEN Done(j) ELSE Goto(j, "flag")
  /\ UNCHANGED <<keys, packets, observed, decrypted, told, missed, counters>>

\* Either statement fails, applied or not.
InsertFails(j) ==
  LET p == job[j].packet IN
  /\ job[j].at = "insert"
  /\ \/ UNCHANGED <<channels, messages>>
     \/ channels' = channels \cup {KeyOf[p]} /\ messages' \in {messages, messages \cup {p}}
  /\ missed' = missed \cup {p}
  /\ Done(j)
  /\ UNCHANGED <<keys, packets, observed, decrypted, told, counters>>

\* SetPacketDecrypted, whose failure is only logged.
Flag(j) ==
  /\ job[j].at = "flag"
  /\ decrypted' \in {decrypted, decrypted \cup {job[j].packet}}
  /\ IF j \in Workers THEN Goto(j, "tell") ELSE Done(j)
  /\ UNCHANGED <<keys, packets, observed, messages, channels, told, missed, counters>>

Tell(w) ==
  /\ job[w].at = "tell"
  /\ told' = [told EXCEPT ![job[w].packet] = @ + 1]
  /\ Done(w)
  /\ UNCHANGED <<keys, tables, missed, counters>>

\* UpsertChannelHashOnly, whose failure is ignored.
HashOnly(w) ==
  /\ job[w].at = "hash"
  /\ channels' \in {channels, channels \cup {Hash(job[w].packet)}}
  /\ Done(w)
  /\ UNCHANGED <<keys, packets, observed, decrypted, messages, told, missed, counters>>

(***************************************************************************)
(* BackfillChannelMessages, BackfillChannelHashes.                         *)
(***************************************************************************)

Listed(hashes) == {p \in packets \ decrypted : Hash(p) \in hashes}

List(s) ==
  /\ job[s].at = "list"
  /\ job' = [job EXCEPT ![s] = Job("next", None, Listed(job[s].hashes), {})]
  /\ UNCHANGED <<keys, tables, told, missed, counters>>

ListFails(s) ==
  /\ job[s].at = "list"
  /\ missed' = missed \cup Listed(job[s].hashes)
  /\ job' = [job EXCEPT ![s] = Idle]
  /\ UNCHANGED <<keys, tables, told, counters>>

NextPacket(s) ==
  /\ job[s].at = "next"
  /\ \E p \in job[s].todo :
       job' = [job EXCEPT ![s].at = "look", ![s].packet = p, ![s].todo = @ \ {p}]
  /\ UNCHANGED <<keys, tables, told, missed, counters>>

End(s) ==
  /\ job[s].at = "next" /\ job[s].todo = {}
  /\ job' = [job EXCEPT ![s] = Idle]
  /\ UNCHANGED <<keys, tables, told, missed, counters>>

(***************************************************************************)
(* An import: the list is saved, then its keys are published.  Keys that   *)
(* were not in use start a backfill of their hashes.                       *)
(***************************************************************************)

Imported == saved \ config

Save(list) ==
  /\ Ingesting /\ imported = Imported
  /\ lists < MaxLists /\ lists' = lists + 1
  /\ saved' = list
  /\ UNCHANGED <<config, imported, tables, job, told, missed, heard, restarts>>

\* Mutant: a hash that has a key is not new.
AddedHashes == {HashOf[k] : k \in Imported \ imported} \ {HashOf[k] : k \in config \cup imported}

Added == {HashOf[k] : k \in Imported \ imported}

Publish ==
  /\ Ingesting /\ imported # Imported
  /\ imported' = Imported
  /\ IF Added = {} THEN job' = job
     ELSE \E s \in Scans \ {Boot} : job[s].at = "idle" /\ job' = [job EXCEPT ![s] = Scan(Added)]
  /\ UNCHANGED <<config, saved, tables, told, missed, counters>>

\* The process ends anywhere; the next one may have other keys configured.
Restart ==
  /\ restarts < MaxRestarts /\ restarts' = restarts + 1
  /\ config' \in Configs /\ imported' = saved \ config'
  /\ job' = Booting
  /\ missed' = {}
  /\ UNCHANGED <<saved, tables, told, heard, lists>>

Decrypt(j) == Look(j) \/ Insert(j) \/ InsertFails(j) \/ Flag(j)

Handle(w) == Observe(w) \/ Duplicate(w) \/ ObserveFails(w) \/ Decrypt(w) \/ Tell(w) \/ HashOnly(w)

Backfill(s) == List(s) \/ ListFails(s) \/ NextPacket(s) \/ Decrypt(s) \/ End(s)

Next ==
  \/ \E w \in Workers : (\E p \in Packets : Hear(w, p)) \/ Handle(w)
  \/ \E s \in Scans : Backfill(s)
  \/ \E list \in Lists : Save(list)
  \/ Publish \/ Restart

Spec == Init /\ [][Next]_vars

FairSpec ==
  /\ Spec
  /\ \A w \in Workers : WF_vars(Handle(w))
  /\ \A s \in Scans : WF_vars(Backfill(s))

(***************************************************************************)
(* Properties.                                                             *)
(***************************************************************************)

\* j has yet to try p with the keys in use, or is about to store its message.
Due(j, p) ==
  \/ job[j].packet = p /\ job[j].at \in {"look", "insert"}
  \/ p \in job[j].todo
  \/ job[j].at = "list" /\ Hash(p) \in job[j].hashes

\* A packet that was heard and whose key is in use has its message, or somebody has
\* yet to try it, or a statement failed: a key published while the packet is being
\* stored undecrypted is missed by the live path or by the backfill, never by both.
KnownIsDecrypted ==
  \A p \in observed :
    KeyOf[p] \in Known => p \in messages \cup missed \/ \E j \in Jobs : Due(j, p)

\* A packet marked decrypted, which no backfill lists again, has its message.
MarkedHasMessage == decrypted \subseteq messages

\* A message is broadcast at most once, whatever hears or backfills its packet.
ToldOnce == \A p \in Packets : told[p] <= 1 /\ (told[p] = 1 => p \in messages)

\* A packet whose key is in use gets its message, unless a statement fails or the
\* key is dropped again ("history is backfilled when a key first appears").
HistoryFills ==
  \A p \in Packets :
    (p \in observed /\ KeyOf[p] \in Known) ~> (p \in messages \cup missed \/ KeyOf[p] \notin Known)
=============================================================================
