-------------------------- MODULE ChannelKeysProofs --------------------------
(***************************************************************************)
(* Proofs about ChannelKeys, for any keys, hashes, packets, workers and    *)
(* backfills: no packet falls between the live path and the backfills, a   *)
(* mark means a message, and no message is broadcast twice.                *)
(***************************************************************************)
EXTENDS ChannelKeys, TLAPS

Ats == {"idle", "list", "next", "observe", "look", "insert", "flag", "tell", "hash"}

JobRec == [at : Ats, packet : Packets \cup {None}, todo : SUBSET Packets, hashes : SUBSET AllHashes]

Types ==
  /\ job \in [Jobs -> JobRec]
  /\ told \in [Packets -> Nat]
  /\ observed \subseteq packets /\ packets \subseteq Packets

\* A call works on a stored packet, and marks or tells one that has its message.
JobOK(j) ==
  /\ job[j].at \notin {"idle", "list", "next"} => job[j].packet \in packets
  /\ job[j].todo \subseteq packets
  /\ job[j].at \in {"idle", "list"} => job[j].todo = {}
  /\ j \in Workers => job[j].todo = {} /\ job[j].at # "list"
  /\ job[j].at \in {"flag", "tell"} => job[j].packet \in messages

\* w inserted p's message and has yet to broadcast it.
Teller(w, p) == w \in Workers /\ job[w].packet = p /\ job[w].at \in {"flag", "tell"}

ToldOK(p) ==
  /\ told[p] \in {0, 1}
  /\ told[p] = 1 => p \in messages
  /\ \A w \in Workers : Teller(w, p) => told[p] = 0
  /\ \A v, w \in Workers : Teller(v, p) /\ Teller(w, p) => v = w

Inv ==
  /\ Types
  /\ \A j \in Jobs : JobOK(j)
  /\ KnownIsDecrypted
  /\ MarkedHasMessage
  /\ \A p \in Packets : ToldOK(p)

(***************************************************************************)
(* What a step does to the job it is of.                                   *)
(***************************************************************************)

LEMMA RecFields ==
  ASSUME NEW r \in JobRec
  PROVE  /\ r.at \in Ats /\ r.packet \in Packets \cup {None}
         /\ r.todo \subseteq Packets /\ r.hashes \subseteq AllHashes
BY DEF JobRec

LEMMA RecIs ==
  ASSUME NEW a \in Ats, NEW p \in Packets \cup {None}, NEW t \in SUBSET Packets, NEW h \in SUBSET AllHashes
  PROVE  /\ Job(a, p, t, h) \in JobRec
         /\ Job(a, p, t, h).at = a /\ Job(a, p, t, h).packet = p
         /\ Job(a, p, t, h).todo = t /\ Job(a, p, t, h).hashes = h
BY DEF JobRec, Job

LEMMA IdleFields ==
  /\ Idle \in JobRec /\ Idle.at = "idle" /\ Idle.packet = None /\ Idle.todo = {}
<1>1. {} \in SUBSET Packets /\ {} \in SUBSET AllHashes /\ "idle" \in Ats
  BY DEF Ats
<1> QED
  BY <1>1, RecIs DEF Idle

LEMMA ScanFields ==
  ASSUME NEW h \in SUBSET AllHashes
  PROVE  /\ Scan(h) \in JobRec /\ Scan(h).at = "list" /\ Scan(h).packet = None
         /\ Scan(h).todo = {} /\ Scan(h).hashes = h
<1>1. {} \in SUBSET Packets /\ "list" \in Ats
  BY DEF Ats
<1> QED
  BY <1>1, RecIs DEF Scan

LEMMA JobStep ==
  ASSUME Types, NEW j \in Jobs, NEW r \in JobRec, job' = [job EXCEPT ![j] = r]
  PROVE  /\ job' \in [Jobs -> JobRec] /\ job'[j] = r
         /\ \A i \in Jobs \ {j} : job'[i] = job[i]
<1> HIDE DEF JobRec
<1> QED
  BY DEF Types

LEMMA GotoStep ==
  ASSUME Types, NEW j \in Jobs, NEW at \in Ats, Goto(j, at)
  PROVE  /\ job' \in [Jobs -> JobRec]
         /\ job'[j].at = at /\ job'[j].packet = job[j].packet /\ job'[j].todo = job[j].todo
         /\ \A i \in Jobs \ {j} : job'[i] = job[i]
<1> DEFINE r == [job[j] EXCEPT !.at = at]
<1>1. job[j] \in JobRec
  BY DEF Types
<1>2. r \in JobRec /\ r.at = at /\ r.packet = job[j].packet /\ r.todo = job[j].todo
  BY <1>1 DEF JobRec
<1>3. job' = [job EXCEPT ![j] = r]
  BY DEF Goto
<1> HIDE DEF r
<1> QED
  BY <1>2, <1>3, JobStep

LEMMA DoneStep ==
  ASSUME Types, NEW j \in Jobs, Done(j)
  PROVE  /\ job' \in [Jobs -> JobRec]
         /\ job'[j].at = (IF j \in Workers THEN "idle" ELSE "next") /\ job'[j].packet = None
         /\ job'[j].todo = (IF j \in Workers THEN {} ELSE job[j].todo)
         /\ \A i \in Jobs \ {j} : job'[i] = job[i]
<1>1. job[j] \in JobRec
  BY DEF Types
<1>2. CASE j \in Workers
  <2>1. job' = [job EXCEPT ![j] = Idle]
    BY <1>2 DEF Done
  <2> QED
    BY <1>2, <2>1, IdleFields, JobStep
<1>3. CASE j \notin Workers
  <2> DEFINE r == [job[j] EXCEPT !.at = "next", !.packet = None]
  <2>1. r \in JobRec /\ r.at = "next" /\ r.packet = None /\ r.todo = job[j].todo
    BY <1>1 DEF JobRec, Ats
  <2>2. job' = [job EXCEPT ![j] = r]
    BY <1>3 DEF Done
  <2> HIDE DEF r
  <2> QED
    BY <1>3, <2>1, <2>2, JobStep
<1> QED
  BY <1>2, <1>3

(***************************************************************************)
(* What is enough for a step of one job to keep the invariant.             *)
(***************************************************************************)

Others(j) == \A i \in Jobs \ {j} : job'[i] = job[i]

LEMMA JobsKept ==
  ASSUME NEW j \in Jobs, Others(j), \A i \in Jobs : JobOK(i), JobOK(j)',
         packets \subseteq packets', messages \subseteq messages'
  PROVE  \A i \in Jobs : JobOK(i)'
<1>1. ASSUME NEW i \in Jobs, i # j PROVE JobOK(i)'
  BY <1>1 DEF Others, JobOK
<1> QED
  BY <1>1

LEMMA KnownKept ==
  ASSUME NEW j \in Jobs, Others(j), KnownIsDecrypted, Known' = Known,
         messages \subseteq messages', missed \subseteq missed',
         \A q \in observed' : KeyOf[q] \in Known /\ (q \notin observed \/ Due(j, q)) =>
           q \in messages' \cup missed' \/ Due(j, q)'
  PROVE  KnownIsDecrypted'
<1> SUFFICES ASSUME NEW q \in observed', KeyOf[q] \in Known
             PROVE  q \in messages' \cup missed' \/ \E i \in Jobs : Due(i, q)'
  BY DEF KnownIsDecrypted
<1>1. CASE q \notin observed \/ Due(j, q)
  BY <1>1
<1>2. CASE q \in observed /\ ~Due(j, q)
  <2>1. CASE q \in messages \cup missed
    BY <2>1
  <2>2. ASSUME NEW i \in Jobs, Due(i, q) PROVE Due(i, q)'
    <3>1. i # j
      BY <1>2, <2>2
    <3>2. job'[i] = job[i]
      BY <3>1 DEF Others
    <3> QED
      BY <2>2, <3>2 DEF Due
  <2>3. q \in messages \cup missed \/ \E i \in Jobs : Due(i, q)
    BY <1>2 DEF KnownIsDecrypted
  <2> QED
    BY <2>1, <2>2, <2>3
<1> QED
  BY <1>1, <1>2

LEMMA ToldKept ==
  ASSUME NEW j \in Jobs, Others(j), \A p \in Packets : ToldOK(p), UNCHANGED told,
         messages \subseteq messages', \A p \in Packets : Teller(j, p)' => Teller(j, p)
  PROVE  \A p \in Packets : ToldOK(p)'
<1> SUFFICES ASSUME NEW p \in Packets PROVE ToldOK(p)'
  OBVIOUS
<1>1. ASSUME NEW w \in Workers, Teller(w, p)' PROVE Teller(w, p)
  <2>1. CASE w = j
    BY <1>1, <2>1
  <2>2. CASE w # j
    <3>1. job'[w] = job[w]
      BY <2>2 DEF Others, Jobs
    <3> QED
      BY <1>1, <3>1 DEF Teller
  <2> QED
    BY <2>1, <2>2
<1> QED
  BY <1>1 DEF ToldOK

(***************************************************************************)
(* The initial state and the steps.                                        *)
(***************************************************************************)

LEMMA HashKnown == ASSUME NEW p \in Packets PROVE KeyOf[p] \in Keys /\ Hash(p) \in AllHashes
<1>1. KeyOf[p] \in Keys
  BY KeysAssumption
<1> QED
  BY <1>1 DEF Hash, AllHashes

LEMMA BootingJobs ==
  /\ Booting \in [Jobs -> JobRec] /\ Boot \in Jobs
  /\ Booting[Boot] = Scan(AllHashes) /\ \A j \in Jobs \ {Boot} : Booting[j] = Idle
<1>1. Boot \in Jobs /\ Scan(AllHashes) \in JobRec /\ Idle \in JobRec
  BY ScanFields, IdleFields, KeysAssumption DEF Jobs
<1> HIDE DEF JobRec
<1> QED
  BY <1>1 DEF Booting

\* Of a process that starts: every packet that was heard is due.
LEMMA BootInv ==
  ASSUME job' = Booting, told' \in [Packets -> Nat], observed' \subseteq packets', packets' \subseteq Packets,
         MarkedHasMessage',
         \A p \in Packets : told'[p] \in {0, 1} /\ (told'[p] = 1 => p \in messages')
  PROVE  Inv'
<1>1. Types'
  BY BootingJobs DEF Types
<1>2. ASSUME NEW j \in Jobs PROVE JobOK(j)' /\ job'[j].packet = None
  <2>1. CASE j = Boot
    <3>1. job'[j].at = "list" /\ job'[j].todo = {} /\ job'[j].packet = None
      BY <2>1, BootingJobs, ScanFields
    <3> QED
      BY <2>1, <3>1, KeysAssumption DEF JobOK
  <2>2. CASE j # Boot
    <3>1. job'[j].at = "idle" /\ job'[j].todo = {} /\ job'[j].packet = None
      BY <2>2, BootingJobs, IdleFields
    <3> QED
      BY <3>1 DEF JobOK
  <2> QED
    BY <2>1, <2>2
<1>3. KnownIsDecrypted'
  <2>1. ASSUME NEW q \in observed' PROVE Due(Boot, q)'
    <3>1. job'[Boot].at = "list" /\ job'[Boot].hashes = AllHashes
      BY BootingJobs, ScanFields
    <3> QED
      BY <3>1, HashKnown DEF Due
  <2> QED
    BY <2>1, BootingJobs DEF KnownIsDecrypted
<1>4. ASSUME NEW p \in Packets PROVE ToldOK(p)'
  <2>1. ASSUME NEW w \in Workers PROVE ~Teller(w, p)'
    BY <1>2, KeysAssumption DEF Teller, Jobs
  <2> QED
    BY <2>1 DEF ToldOK
<1> QED
  BY <1>1, <1>2, <1>3, <1>4 DEF Inv

LEMMA InitInv == Init => Inv
<1> SUFFICES ASSUME Init PROVE Inv
  OBVIOUS
<1>1. job = Booting /\ told = [p \in Packets |-> 0] /\ observed = {} /\ packets = {} /\ decrypted = {}
  BY DEF Init
<1>2. Types
  BY <1>1, BootingJobs DEF Types
<1>3. ASSUME NEW j \in Jobs PROVE JobOK(j) /\ job[j].packet = None
  <2>1. CASE j = Boot
    <3>1. job[j].at = "list" /\ job[j].todo = {} /\ job[j].packet = None
      BY <1>1, <2>1, BootingJobs, ScanFields
    <3> QED
      BY <2>1, <3>1, KeysAssumption DEF JobOK
  <2>2. CASE j # Boot
    <3>1. job[j].at = "idle" /\ job[j].todo = {} /\ job[j].packet = None
      BY <1>1, <2>2, BootingJobs, IdleFields
    <3> QED
      BY <3>1 DEF JobOK
  <2> QED
    BY <2>1, <2>2
<1>4. ASSUME NEW p \in Packets PROVE ToldOK(p)
  <2>1. ASSUME NEW w \in Workers PROVE ~Teller(w, p)
    BY <1>3, KeysAssumption DEF Teller, Jobs
  <2> QED
    BY <1>1, <2>1 DEF ToldOK
<1> QED
  BY <1>1, <1>2, <1>3, <1>4 DEF Inv, KnownIsDecrypted, MarkedHasMessage

LEMMA RestartInv == ASSUME Inv, Restart PROVE Inv'
<1>1. job' = Booting /\ UNCHANGED <<tables, told>>
  BY DEF Restart
<1> QED
  BY <1>1, BootInv DEF Inv, Types, MarkedHasMessage, ToldOK, tables

LEMMA OneJob ==
  ASSUME Inv, NEW j \in Jobs, job' \in [Jobs -> JobRec], Others(j), Known' = Known,
         observed' \subseteq packets', packets \subseteq packets', packets' \subseteq Packets,
         messages \subseteq messages', missed \subseteq missed', MarkedHasMessage', JobOK(j)',
         \A q \in observed' : KeyOf[q] \in Known /\ (q \notin observed \/ Due(j, q)) =>
           q \in messages' \cup missed' \/ Due(j, q)',
         told' \in [Packets -> Nat], \A p \in Packets : ToldOK(p)'
  PROVE  Inv'
<1>1. Types'
  BY DEF Types
<1>2. \A i \in Jobs : JobOK(i)'
  BY JobsKept DEF Inv
<1>3. KnownIsDecrypted'
  BY KnownKept DEF Inv
<1> QED
  BY <1>1, <1>2, <1>3 DEF Inv

LEMMA Silent ==
  ASSUME Inv, NEW j \in Jobs, job' \in [Jobs -> JobRec], Others(j), Known' = Known,
         observed' \subseteq packets', packets \subseteq packets', packets' \subseteq Packets,
         messages \subseteq messages', missed \subseteq missed', MarkedHasMessage', JobOK(j)',
         \A q \in observed' : KeyOf[q] \in Known /\ (q \notin observed \/ Due(j, q)) =>
           q \in messages' \cup missed' \/ Due(j, q)',
         UNCHANGED told, \A p \in Packets : Teller(j, p)' => Teller(j, p)
  PROVE  Inv'
<1>1. \A p \in Packets : ToldOK(p)'
  BY ToldKept DEF Inv
<1>2. told' \in [Packets -> Nat]
  BY DEF Inv, Types
<1> QED
  BY <1>1, <1>2, OneJob

LEMMA Kinds == Workers \subseteq Jobs /\ Scans \subseteq Jobs /\ (\A s \in Scans : s \notin Workers) /\ None \notin Packets
BY KeysAssumption DEF Jobs

LEMMA HearInv == ASSUME Inv, NEW w \in Workers, NEW p \in Packets, Hear(w, p) PROVE Inv'
<1>1. /\ job[w].at = "idle" /\ packets' = packets \cup {p} /\ w \in Jobs
      /\ job' = [job EXCEPT ![w] = Job("observe", p, {}, {})]
      /\ UNCHANGED <<config, imported, observed, decrypted, messages, told, missed>>
  BY Kinds DEF Hear, keys
<1>2. /\ Job("observe", p, {}, {}) \in JobRec
      /\ Job("observe", p, {}, {}).at = "observe" /\ Job("observe", p, {}, {}).packet = p
      /\ Job("observe", p, {}, {}).todo = {}
  <2>1. {} \in SUBSET Packets /\ {} \in SUBSET AllHashes /\ "observe" \in Ats
    BY DEF Ats
  <2> QED
    BY <2>1, RecIs
<1>3. /\ job' \in [Jobs -> JobRec] /\ Others(w)
      /\ job'[w].at = "observe" /\ job'[w].packet = p /\ job'[w].todo = {}
  BY <1>1, <1>2, JobStep DEF Inv, Others
<1>4. JobOK(w)'
  BY <1>1, <1>3 DEF JobOK
<1>5. \A q : ~Due(w, q)
  <2>1. job[w].todo = {}
    BY <1>1 DEF Inv, JobOK
  <2> QED
    BY <1>1, <2>1 DEF Due
<1>6. \A q : ~Teller(w, q)'
  BY <1>3 DEF Teller
<1> QED
  BY <1>1, <1>3, <1>4, <1>5, <1>6, Silent DEF Inv, Types, Known, MarkedHasMessage

LEMMA DoneOK == ASSUME Inv, NEW j \in Jobs, Done(j), packets \subseteq packets' PROVE JobOK(j)'
<1>1. /\ job'[j].at = (IF j \in Workers THEN "idle" ELSE "next")
      /\ job'[j].todo = (IF j \in Workers THEN {} ELSE job[j].todo)
  BY DoneStep DEF Inv
<1>2. CASE j \in Workers
  BY <1>1, <1>2 DEF JobOK
<1>3. CASE j \notin Workers
  <2>1. job[j].todo \subseteq packets
    BY DEF Inv, JobOK
  <2> QED
    BY <1>1, <1>3, <2>1 DEF JobOK
<1> QED
  BY <1>2, <1>3

\* A worker or a backfill that gives up p.
LEMMA GivesUp ==
  ASSUME Inv, NEW j \in Jobs, NEW p, job[j].packet = p, job[j].at \notin {"list", "idle"}, Done(j),
         Known' = Known, observed' \subseteq packets', UNCHANGED <<packets, told>>,
         messages \subseteq messages', missed \subseteq missed', decrypted' \subseteq messages',
         observed' \subseteq observed \cup {p},
         \/ KeyOf[p] \notin Known \/ p \in messages' \cup missed'
         \/ job[j].at \notin {"look", "insert"} /\ observed' = observed
  PROVE  Inv'
<1>1. /\ job' \in [Jobs -> JobRec] /\ Others(j)
      /\ job'[j].at \in {"idle", "next"}
      /\ job'[j].todo = (IF j \in Workers THEN {} ELSE job[j].todo)
  BY DoneStep DEF Inv, Others
<1>2. JobOK(j)'
  BY DoneOK
<1>3. ASSUME NEW q \in observed', KeyOf[q] \in Known, q \notin observed \/ Due(j, q)
      PROVE  q \in messages' \cup missed' \/ Due(j, q)'
  <2>1. CASE q \in job[j].todo
    <3>1. j \notin Workers
      BY <2>1 DEF Inv, JobOK
    <3> QED
      BY <1>1, <2>1, <3>1 DEF Due
  <2>2. CASE q \notin job[j].todo
    <3>1. q = p
      BY <1>3, <2>2 DEF Due
    <3>2. job[j].at \in {"look", "insert"} \/ q \notin observed
      BY <1>3, <2>2 DEF Due
    <3> QED
      BY <1>3, <3>1, <3>2
  <2> QED
    BY <2>1, <2>2
<1>4. \A q \in Packets : ~Teller(j, q)'
  BY <1>1 DEF Teller
<1>5. packets' \subseteq Packets
  BY DEF Inv, Types
<1>6. MarkedHasMessage'
  BY DEF MarkedHasMessage
<1> QED
  BY <1>1, <1>2, <1>3, <1>4, <1>5, <1>6, Silent

\* Its packet is stored, and it has nothing else to do than it had.
LEMMA Working ==
  ASSUME Inv, NEW j \in Jobs, job[j].at \notin {"idle", "list", "next"}
  PROVE  job[j].packet \in packets /\ job[j].packet \in Packets
BY DEF Inv, JobOK, Types

LEMMA MovesOn ==
  ASSUME Inv, NEW j \in Jobs, job[j].at \notin {"list", "idle", "next"},
         NEW at \in {"look", "insert", "hash", "flag", "tell"}, Goto(j, at),
         at \in {"flag", "tell"} => job[j].packet \in messages', packets' = packets, messages \subseteq messages'
  PROVE  /\ job' \in [Jobs -> JobRec] /\ Others(j) /\ JobOK(j)'
         /\ job'[j].at = at /\ job'[j].packet = job[j].packet /\ job'[j].todo = job[j].todo
<1>1. at \in Ats
  BY DEF Ats
<1>2. /\ job' \in [Jobs -> JobRec] /\ Others(j)
      /\ job'[j].at = at /\ job'[j].packet = job[j].packet /\ job'[j].todo = job[j].todo
  BY <1>1, GotoStep DEF Inv, Others
<1>3. JobOK(j)
  BY DEF Inv
<1>4. JobOK(j)'
  BY <1>2, <1>3 DEF JobOK
<1> QED
  BY <1>2, <1>4

LEMMA ObserveInv == ASSUME Inv, NEW w \in Workers, Observe(w) PROVE Inv'
<1>1. /\ job[w].at = "observe" /\ observed' = observed \cup {job[w].packet} /\ Goto(w, "look") /\ w \in Jobs
      /\ UNCHANGED <<config, imported, packets, decrypted, messages, told, missed>>
  BY Kinds DEF Observe, keys
<1>2. /\ job' \in [Jobs -> JobRec] /\ Others(w) /\ JobOK(w)'
      /\ job'[w].at = "look" /\ job'[w].packet = job[w].packet /\ job'[w].todo = job[w].todo
  BY <1>1, MovesOn
<1>3. job[w].packet \in packets
  BY <1>1, Working
<1>4. \A q : q \in observed' /\ (q \notin observed \/ Due(w, q)) => Due(w, q)'
  BY <1>1, <1>2 DEF Due
<1>5. \A q : ~Teller(w, q)'
  BY <1>2 DEF Teller
<1> QED
  BY <1>1, <1>2, <1>3, <1>4, <1>5, Silent DEF Inv, Types, Known, MarkedHasMessage

LEMMA DuplicateInv == ASSUME Inv, NEW w \in Workers, Duplicate(w) PROVE Inv'
BY Kinds, GivesUp DEF Duplicate, keys, tables, Known, Inv, Types, MarkedHasMessage

LEMMA ObserveFailsInv == ASSUME Inv, NEW w \in Workers, ObserveFails(w) PROVE Inv'
<1>1. /\ job[w].at = "observe" /\ Done(w) /\ w \in Jobs
      /\ UNCHANGED <<config, imported, packets, decrypted, messages, told>>
      /\ missed \subseteq missed' /\ observed' \subseteq observed \cup {job[w].packet}
      /\ job[w].packet \in missed' \/ observed' = observed
  BY Kinds DEF ObserveFails, keys
<1>2. job[w].packet \in packets
  BY <1>1, Working
<1> QED
  BY <1>1, <1>2, GivesUp DEF Known, Inv, Types, MarkedHasMessage

LEMMA LookInv == ASSUME Inv, NEW j \in Jobs, Look(j) PROVE Inv'
<1>1. /\ job[j].at = "look"
      /\ UNCHANGED <<config, imported, observed, packets, decrypted, messages, told, missed>>
  BY DEF Look, keys, tables
<1>2. CASE KeyOf[job[j].packet] \in Known
  <2>1. Goto(j, "insert")
    BY <1>2 DEF Look
  <2>2. /\ job' \in [Jobs -> JobRec] /\ Others(j) /\ JobOK(j)'
        /\ job'[j].at = "insert" /\ job'[j].packet = job[j].packet /\ job'[j].todo = job[j].todo
    BY <1>1, <2>1, MovesOn
  <2>3. \A q : Due(j, q) => Due(j, q)'
    BY <1>1, <2>2 DEF Due
  <2>4. \A q : ~Teller(j, q)'
    BY <2>2 DEF Teller
  <2> QED
    BY <1>1, <2>2, <2>3, <2>4, Silent DEF Inv, Types, Known, MarkedHasMessage
<1>3. CASE KeyOf[job[j].packet] \notin Known /\ j \in Workers
  <2>1. Goto(j, "hash")
    BY <1>3 DEF Look
  <2>2. /\ job' \in [Jobs -> JobRec] /\ Others(j) /\ JobOK(j)'
        /\ job'[j].at = "hash" /\ job'[j].packet = job[j].packet /\ job'[j].todo = job[j].todo
    BY <1>1, <2>1, MovesOn
  <2>3. \A q : Due(j, q) /\ KeyOf[q] \in Known => Due(j, q)'
    BY <1>1, <1>3, <2>2 DEF Due
  <2>4. \A q : ~Teller(j, q)'
    BY <2>2 DEF Teller
  <2> QED
    BY <1>1, <2>2, <2>3, <2>4, Silent DEF Inv, Types, Known, MarkedHasMessage
<1>4. CASE KeyOf[job[j].packet] \notin Known /\ j \notin Workers
  <2>1. Done(j)
    BY <1>4 DEF Look
  <2> QED
    BY <1>1, <1>4, <2>1, GivesUp DEF Inv, Types, Known, MarkedHasMessage
<1> QED
  BY <1>2, <1>3, <1>4

LEMMA InsertInv == ASSUME Inv, NEW j \in Jobs, Insert(j) PROVE Inv'
<1> DEFINE p == job[j].packet
<1>1. /\ job[j].at = "insert" /\ messages' = messages \cup {p}
      /\ UNCHANGED <<config, imported, observed, packets, decrypted, told, missed>>
  BY DEF Insert, keys
<1>2. CASE p \in messages
  <2>1. Done(j)
    BY <1>2 DEF Insert
  <2> QED
    BY <1>1, <2>1, GivesUp DEF Inv, Types, Known, MarkedHasMessage
<1>3. CASE p \notin messages
  <2>1. Goto(j, "flag")
    BY <1>3 DEF Insert
  <2>2. /\ job' \in [Jobs -> JobRec] /\ Others(j) /\ JobOK(j)'
        /\ job'[j].at = "flag" /\ job'[j].packet = p /\ job'[j].todo = job[j].todo
    BY <1>1, <2>1, MovesOn
  <2>3. \A q : Due(j, q) => q \in messages' \/ Due(j, q)'
    BY <1>1, <2>2 DEF Due
  <2>4. ASSUME NEW q \in Packets PROVE ToldOK(q)'
    <3>1. ToldOK(q)
      BY DEF Inv
    <3>2. CASE q # p
      <4>1. ASSUME NEW w \in Workers, Teller(w, q)' PROVE Teller(w, q)
        <5>1. w # j
          BY <2>2, <3>2, <4>1 DEF Teller
        <5>2. job'[w] = job[w]
          BY <2>2, <5>1, Kinds DEF Others
        <5> QED
          BY <4>1, <5>2 DEF Teller
      <4> QED
        BY <1>1, <3>1, <4>1 DEF ToldOK
    <3>3. CASE q = p
      <4>1. told[q] = 0
        BY <1>3, <3>1, <3>3 DEF ToldOK
      <4>2. ASSUME NEW w \in Workers, Teller(w, q)' PROVE w = j
        <5>1. SUFFICES ASSUME w # j PROVE FALSE
          OBVIOUS
        <5>2. job'[w] = job[w]
          BY <2>2, <5>1, Kinds DEF Others
        <5>3. Teller(w, q)
          BY <4>2, <5>2 DEF Teller
        <5>4. q \in messages
          BY <5>3, Kinds DEF Inv, JobOK, Teller
        <5> QED
          BY <1>3, <3>3, <5>4
      <4> QED
        BY <1>1, <3>1, <4>1, <4>2 DEF ToldOK
    <3> QED
      BY <3>2, <3>3
  <2> QED
    BY <1>1, <2>2, <2>3, <2>4, OneJob DEF Inv, Types, Known, MarkedHasMessage
<1> QED
  BY <1>2, <1>3

LEMMA InsertFailsInv == ASSUME Inv, NEW j \in Jobs, InsertFails(j) PROVE Inv'
<1>1. /\ job[j].at = "insert" /\ Done(j) /\ messages \subseteq messages'
      /\ missed' = missed \cup {job[j].packet}
      /\ UNCHANGED <<config, imported, observed, packets, decrypted, told>>
  BY DEF InsertFails, keys
<1> QED
  BY <1>1, GivesUp DEF Inv, Types, Known, MarkedHasMessage

LEMMA FlagInv == ASSUME Inv, NEW j \in Jobs, Flag(j) PROVE Inv'
<1>1. /\ job[j].at = "flag" /\ decrypted' \subseteq decrypted \cup {job[j].packet}
      /\ UNCHANGED <<config, imported, observed, packets, messages, told, missed>>
  BY DEF Flag, keys
<1>2. job[j].packet \in messages
  BY <1>1 DEF Inv, JobOK
<1>3. decrypted' \subseteq messages
  BY <1>1, <1>2 DEF Inv, MarkedHasMessage
<1>4. CASE j \in Workers
  <2>1. Goto(j, "tell")
    BY <1>4 DEF Flag
  <2>2. /\ job' \in [Jobs -> JobRec] /\ Others(j) /\ JobOK(j)'
        /\ job'[j].at = "tell" /\ job'[j].packet = job[j].packet /\ job'[j].todo = job[j].todo
    BY <1>1, <1>2, <2>1, MovesOn
  <2>3. \A q : Due(j, q) => Due(j, q)'
    BY <1>1, <2>2 DEF Due
  <2>4. \A q : Teller(j, q)' => Teller(j, q)
    BY <1>1, <2>2 DEF Teller
  <2> QED
    BY <1>1, <1>3, <2>2, <2>3, <2>4, Silent DEF Inv, Types, Known, MarkedHasMessage
<1>5. CASE j \notin Workers
  <2>1. Done(j)
    BY <1>5 DEF Flag
  <2> QED
    BY <1>1, <1>3, <2>1, GivesUp DEF Inv, Types, Known
<1> QED
  BY <1>4, <1>5

LEMMA HashOnlyInv == ASSUME Inv, NEW w \in Workers, HashOnly(w) PROVE Inv'
BY Kinds, GivesUp DEF HashOnly, keys, Known, Inv, Types, MarkedHasMessage

LEMMA TellInv == ASSUME Inv, NEW w \in Workers, Tell(w) PROVE Inv'
<1> DEFINE p == job[w].packet
<1>1. /\ job[w].at = "tell" /\ Done(w) /\ told' = [told EXCEPT ![p] = @ + 1] /\ w \in Jobs
      /\ UNCHANGED <<config, imported, observed, packets, decrypted, messages, missed>>
  BY Kinds DEF Tell, keys, tables
<1>2. p \in Packets /\ p \in messages
  BY <1>1, Working DEF Inv, JobOK
<1>3. Teller(w, p)
  BY <1>1 DEF Teller
<1>4. ToldOK(p) /\ told[p] = 0
  BY <1>2, <1>3 DEF Inv, ToldOK
<1>5. /\ told' \in [Packets -> Nat] /\ told'[p] = 1
      /\ \A q \in Packets \ {p} : told'[q] = told[q]
  BY <1>1, <1>2, <1>4 DEF Inv, Types
<1>6. job' \in [Jobs -> JobRec] /\ Others(w) /\ JobOK(w)' /\ job'[w].at = "idle" /\ job'[w].todo = {}
  BY <1>1, DoneStep, DoneOK DEF Inv, Others
<1>7. ASSUME NEW v \in Workers, NEW q, Teller(v, q)' PROVE Teller(v, q) /\ v # w
  <2>1. v # w
    BY <1>6, <1>7 DEF Teller
  <2>2. job'[v] = job[v]
    BY <1>6, <2>1, Kinds DEF Others
  <2> QED
    BY <1>7, <2>1, <2>2 DEF Teller
<1>8. ASSUME NEW q \in Packets PROVE ToldOK(q)'
  <2>1. ToldOK(q)
    BY DEF Inv
  <2>2. CASE q = p
    <3>1. \A v \in Workers : ~Teller(v, q)'
      BY <1>3, <1>7, <2>1, <2>2 DEF ToldOK
    <3> QED
      BY <1>1, <1>2, <1>5, <2>2, <3>1 DEF ToldOK
  <2>3. CASE q # p
    BY <1>1, <1>5, <1>7, <2>1, <2>3 DEF ToldOK
  <2> QED
    BY <2>2, <2>3
<1>9. \A q : ~Due(w, q)
  <2>1. job[w].todo = {}
    BY <1>1 DEF Inv, JobOK
  <2> QED
    BY <1>1, <2>1 DEF Due
<1> QED
  BY <1>1, <1>5, <1>6, <1>8, <1>9, OneJob DEF Inv, Types, Known, MarkedHasMessage

(***************************************************************************)
(* Backfills and imports.                                                  *)
(***************************************************************************)

\* A backfill's job is replaced by one whose todo has what was due.
LEMMA Replaced ==
  ASSUME Inv, NEW s \in Scans, NEW r \in JobRec, job' = [job EXCEPT ![s] = r],
         UNCHANGED <<config, imported, packets, observed, decrypted, messages, told>>, missed \subseteq missed',
         r.at \in {"idle", "next"}, r.at = "idle" => r.todo = {}, r.todo \subseteq packets,
         \A q \in observed : Due(s, q) => q \in messages \cup missed' \cup r.todo
  PROVE  Inv'
<1>1. s \in Jobs /\ s \notin Workers
  BY Kinds
<1>2. job' \in [Jobs -> JobRec] /\ Others(s) /\ job'[s] = r
  BY <1>1, JobStep DEF Inv, Others
<1>3. JobOK(s)'
  BY <1>1, <1>2 DEF JobOK
<1>4. \A q \in r.todo : Due(s, q)'
  BY <1>2 DEF Due
<1>5. \A q : ~Teller(s, q)'
  BY <1>1 DEF Teller
<1> QED
  BY <1>1, <1>2, <1>3, <1>4, <1>5, Silent DEF Inv, Types, Known, MarkedHasMessage

LEMMA ListedDue ==
  ASSUME Inv, NEW s \in Scans, job[s].at = "list", NEW q \in observed, Due(s, q)
  PROVE  q \in messages \cup Listed(job[s].hashes)
<1>1. job[s].todo = {}
  BY Kinds DEF Inv, JobOK
<1>2. Hash(q) \in job[s].hashes
  BY <1>1 DEF Due
<1> QED
  BY <1>2 DEF Inv, Types, MarkedHasMessage, Listed

LEMMA ListInv == ASSUME Inv, NEW s \in Scans, List(s) PROVE Inv'
<1> DEFINE t == Listed(job[s].hashes)
<1>1. /\ job[s].at = "list" /\ job' = [job EXCEPT ![s] = Job("next", None, t, {})]
      /\ UNCHANGED <<config, imported, packets, observed, decrypted, messages, told, missed>>
  BY DEF List, keys, tables
<1>2. t \in SUBSET Packets /\ {} \in SUBSET AllHashes /\ "next" \in Ats
  BY DEF Listed, Inv, Types, Ats
<1>3. t \subseteq packets /\ \A q \in observed : Due(s, q) => q \in messages \cup t
  BY <1>1, ListedDue DEF Listed
<1> HIDE DEF t
<1>4. Job("next", None, t, {}) \in JobRec /\ Job("next", None, t, {}).at = "next" /\ Job("next", None, t, {}).todo = t
  BY <1>2, RecIs
<1> QED
  BY <1>1, <1>3, <1>4, Replaced

LEMMA ListFailsInv == ASSUME Inv, NEW s \in Scans, ListFails(s) PROVE Inv'
<1>1. /\ job[s].at = "list" /\ job' = [job EXCEPT ![s] = Idle] /\ missed' = missed \cup Listed(job[s].hashes)
      /\ UNCHANGED <<config, imported, packets, observed, decrypted, messages, told>>
  BY DEF ListFails, keys, tables
<1>2. \A q \in observed : Due(s, q) => q \in messages \cup missed'
  BY <1>1, ListedDue
<1> QED
  BY <1>1, <1>2, IdleFields, Replaced

LEMMA EndInv == ASSUME Inv, NEW s \in Scans, End(s) PROVE Inv'
<1>1. /\ job[s].at = "next" /\ job[s].todo = {} /\ job' = [job EXCEPT ![s] = Idle]
      /\ UNCHANGED <<config, imported, packets, observed, decrypted, messages, told, missed>>
  BY DEF End, keys, tables
<1>2. \A q : ~Due(s, q)
  BY <1>1 DEF Due
<1> QED
  BY <1>1, <1>2, IdleFields, Replaced

LEMMA NextPacketInv == ASSUME Inv, NEW s \in Scans, NextPacket(s) PROVE Inv'
<1>1. /\ job[s].at = "next"
      /\ UNCHANGED <<config, imported, packets, observed, decrypted, messages, told, missed>>
  BY DEF NextPacket, keys, tables
<1>2. PICK p \in job[s].todo : job' = [job EXCEPT ![s].at = "look", ![s].packet = p, ![s].todo = @ \ {p}]
  BY DEF NextPacket
<1>3. s \in Jobs /\ s \notin Workers
  BY Kinds
<1> DEFINE r == [job[s] EXCEPT !.at = "look", !.packet = p, !.todo = @ \ {p}]
<1>4. job[s] \in JobRec
  BY <1>3 DEF Inv, Types
<1>5. p \in Packets
  BY <1>2, <1>4, RecFields
<1>6. r \in JobRec /\ r.at = "look" /\ r.packet = p /\ r.todo = job[s].todo \ {p}
  BY <1>4, <1>5 DEF JobRec, Ats
<1>7. job' = [job EXCEPT ![s] = r]
  BY <1>2
<1> HIDE DEF r
<1>8. job' \in [Jobs -> JobRec] /\ Others(s) /\ job'[s] = r
  BY <1>3, <1>6, <1>7, JobStep DEF Inv, Others
<1>9. \A q : Due(s, q) => Due(s, q)'
  BY <1>1, <1>6, <1>8 DEF Due
<1>10. \A q : ~Teller(s, q)'
  BY <1>3 DEF Teller
<1>11. JobOK(s)'
  <2>1. job[s].todo \subseteq packets
    BY <1>3 DEF Inv, JobOK
  <2> QED
    BY <1>1, <1>2, <1>3, <1>6, <1>8, <2>1 DEF JobOK
<1> QED
  BY <1>1, <1>3, <1>8, <1>9, <1>10, <1>11, Silent DEF Inv, Types, Known, MarkedHasMessage

LEMMA SaveInv == ASSUME Inv, NEW list, Save(list) PROVE Inv'
<1>1. UNCHANGED <<config, imported, packets, observed, decrypted, messages, job, told, missed>>
  BY DEF Save, tables
<1> QED
  BY <1>1 DEF Inv, Types, JobOK, KnownIsDecrypted, Known, Due, MarkedHasMessage, ToldOK, Teller

\* A key that was not in use starts a backfill of its hash.
LEMMA PublishInv == ASSUME Inv, saved \subseteq Keys, Publish PROVE Inv'
<1>1. imported' = Imported /\ UNCHANGED <<config, packets, observed, decrypted, messages, told, missed>>
  BY DEF Publish, tables
<1>2. ASSUME NEW q \in observed, KeyOf[q] \in Known', KeyOf[q] \notin Known PROVE Hash(q) \in Added
  BY <1>1, <1>2 DEF Known, Added, Hash
<1>3. CASE Added = {}
  <2>1. job' = job
    BY <1>3 DEF Publish
  <2>2. KnownIsDecrypted'
    BY <1>1, <1>2, <1>3, <2>1 DEF Inv, KnownIsDecrypted, Due
  <2> QED
    BY <1>1, <2>1, <2>2 DEF Inv, Types, JobOK, MarkedHasMessage, ToldOK, Teller
<1>4. CASE Added # {}
  <2>1. PICK s \in Scans \ {Boot} : job[s].at = "idle" /\ job' = [job EXCEPT ![s] = Scan(Added)]
    BY <1>4 DEF Publish
  <2>2. s \in Jobs /\ s \notin Workers
    BY <2>1, Kinds
  <2>4. Added \in SUBSET AllHashes
    BY DEF Added, AllHashes, Imported
  <2>5. /\ Scan(Added) \in JobRec /\ Scan(Added).at = "list" /\ Scan(Added).packet = None
        /\ Scan(Added).todo = {} /\ Scan(Added).hashes = Added
    BY <2>4, ScanFields
  <2>6. job' \in [Jobs -> JobRec] /\ Others(s) /\ job'[s] = Scan(Added)
    BY <2>1, <2>2, <2>5, JobStep DEF Inv, Others
  <2>7. \A i \in Jobs : JobOK(i)'
    <3>1. JobOK(s)'
      BY <2>2, <2>5, <2>6 DEF JobOK
    <3> QED
      BY <1>1, <2>2, <2>6, <3>1, JobsKept DEF Inv
  <2>8. KnownIsDecrypted'
    <3>1. SUFFICES ASSUME NEW q \in observed, KeyOf[q] \in Known'
                   PROVE  q \in messages \cup missed \/ \E i \in Jobs : Due(i, q)'
      BY <1>1 DEF KnownIsDecrypted
    <3>2. CASE KeyOf[q] \notin Known
      <4>1. Due(s, q)'
        BY <1>2, <2>5, <2>6, <3>1, <3>2 DEF Due
      <4> QED
        BY <2>2, <4>1
    <3>3. CASE KeyOf[q] \in Known
      <4>1. ~Due(s, q)
        BY <2>1, <2>2 DEF Due, Inv, JobOK
      <4>2. ASSUME NEW i \in Jobs, Due(i, q) PROVE Due(i, q)'
        <5>1. job'[i] = job[i]
          BY <2>6, <4>1, <4>2 DEF Others
        <5> QED
          BY <4>2, <5>1 DEF Due
      <4> QED
        BY <3>1, <3>3, <4>2 DEF Inv, KnownIsDecrypted
    <3> QED
      BY <3>2, <3>3
  <2>9. \A p \in Packets : ToldOK(p)'
    <3>1. \A q : ~Teller(s, q)'
      BY <2>2 DEF Teller
    <3> QED
      BY <1>1, <2>2, <2>6, <3>1, ToldKept DEF Inv
  <2> QED
    BY <1>1, <2>6, <2>7, <2>8, <2>9 DEF Inv, Types, MarkedHasMessage
<1> QED
  BY <1>3, <1>4

LEMMA StepInv == ASSUME Inv, saved \subseteq Keys, Next PROVE Inv'
<1>1. ASSUME NEW j \in Jobs, Decrypt(j) PROVE Inv'
  BY <1>1, LookInv, InsertInv, InsertFailsInv, FlagInv DEF Decrypt
<1>2. ASSUME NEW w \in Workers, (\E p \in Packets : Hear(w, p)) \/ Handle(w) PROVE Inv'
  BY <1>1, <1>2, Kinds, HearInv, ObserveInv, DuplicateInv, ObserveFailsInv, TellInv, HashOnlyInv DEF Handle
<1>3. ASSUME NEW s \in Scans, Backfill(s) PROVE Inv'
  BY <1>1, <1>3, Kinds, ListInv, ListFailsInv, NextPacketInv, EndInv DEF Backfill
<1>4. ASSUME NEW list \in Lists, Save(list) PROVE Inv'
  BY <1>4, SaveInv
<1> QED
  BY <1>2, <1>3, <1>4, PublishInv, RestartInv DEF Next

LEMMA SavedKeys == Spec => [](saved \subseteq Keys)
<1>1. Init => saved \subseteq Keys
  BY DEF Init
<1>2. ASSUME saved \subseteq Keys, [Next]_vars PROVE (saved \subseteq Keys)'
  <2>1. CASE saved' = saved
    BY <1>2, <2>1
  <2>2. ASSUME NEW list \in Lists, Save(list) PROVE saved' \subseteq Keys
    BY <2>2, KeysAssumption DEF Save
  <2> QED
    BY <1>2, <2>1, <2>2
    DEF Next, Hear, Handle, Observe, Duplicate, ObserveFails, Decrypt, Look, Insert, InsertFails, Flag, Tell,
        HashOnly, Backfill, List, ListFails, NextPacket, End, Publish, Restart, vars, keys
<1> QED
  BY <1>1, <1>2, PTL DEF Spec

LEMMA Invariant == Spec => []Inv
<1>1. ASSUME Inv, UNCHANGED vars PROVE Inv'
  BY <1>1 DEF vars, keys, tables, Inv, Types, JobOK, KnownIsDecrypted, Known, Due, MarkedHasMessage, ToldOK, Teller
<1>2. ASSUME Inv, saved \subseteq Keys, [Next]_vars PROVE Inv'
  BY <1>1, <1>2, StepInv
<1> QED
  BY <1>2, InitInv, SavedKeys, PTL DEF Spec

(***************************************************************************)
(* The theorems.                                                           *)
(***************************************************************************)

\* A packet that was heard and whose key is in use has its message, is due to be
\* tried, or was given up by a failed statement (SetImported, the order of the row
\* and GetKey in handlePacket, the order of the keys and the listing in the backfill).
THEOREM KnownAreDecrypted == Spec => []KnownIsDecrypted
<1>1. Inv => KnownIsDecrypted
  BY DEF Inv
<1> QED
  BY <1>1, Invariant, PTL

\* A packet marked decrypted has its message (DecryptGroupText).
THEOREM MarksAreTrue == Spec => []MarkedHasMessage
<1>1. Inv => MarkedHasMessage
  BY DEF Inv
<1> QED
  BY <1>1, Invariant, PTL

\* No message is broadcast twice (InsertChannelMessage returns it once).
THEOREM ToldAtMostOnce == Spec => []ToldOnce
<1>1. Inv => ToldOnce
  BY DEF Inv, ToldOK, ToldOnce
<1> QED
  BY <1>1, Invariant, PTL
=============================================================================
