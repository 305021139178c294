------------------------- MODULE ChannelImportProofs -------------------------
(***************************************************************************)
(* Proofs about ChannelImport, for any sites and any times that satisfy    *)
(* ChannelAssumption: MeshMapper's allowance is kept, a source without an  *)
(* error holds the list of its last good answer, and only saved lists are  *)
(* published.                                                              *)
(***************************************************************************)
EXTENDS ChannelImport, TLAPS

ListAt(u, v) == [site |-> u, version |-> v]

Types ==
  /\ clock \in Nat /\ mem.next \in Nat
  /\ DOMAIN rows = Sites /\ DOMAIN version = Sites
  /\ \A u \in Sites : version[u] \in Nat
  /\ site \in Sites \cup {None}

\* A row says to wait for its attempt's sake, and its ETag is its list's.
RowTime(u) ==
  rows[u].attempted # None =>
    /\ rows[u].attempted \in Nat /\ rows[u].attempted <= clock
    /\ rows[u].next \in Nat /\ rows[u].attempted + Retry <= rows[u].next

RowTag(u) ==
  rows[u].payload # None =>
    /\ rows[u].payload.version \in Nat /\ rows[u].payload.version <= version[u]
    /\ rows[u].payload = ListAt(u, rows[u].payload.version)
    /\ rows[u].etag \notin {None, NoTag} => rows[u].etag = rows[u].payload.version

RowOK(u) == RowTime(u) /\ RowTag(u)

\* The last request was recorded before it was sent.
Recorded ==
  last # None =>
    /\ last \in Nat
    /\ \E w \in Sites : rows[w].attempted # None /\ last <= rows[w].attempted + CallLimit

\* Memory waits for every attempt's sake, and its ETag is its list's, which the
\* row has too, or a newer one.
MemOK ==
  /\ enabled => \A u \in Sites : rows[u].attempted # None => rows[u].attempted + Retry <= mem.next
  /\ mem.payload # None /\ mem.etag # NoTag =>
       /\ mem.url \in Sites /\ mem.etag \in Nat
       /\ mem.payload = ListAt(mem.url, mem.etag)
       /\ rows[mem.url].payload # None /\ mem.etag <= rows[mem.url].payload.version

Asking == call.at \in {"attempt", "request"}
Recording == call.at \in {"request", "sent", "delete", "add", "save"}
Saving == call.at \in {"delete", "add", "save"}

Apart(t) == last = None \/ last + Allowance <= t

\* Between Start and the return.
InTime ==
  /\ enabled /\ mem.url \in Sites
  /\ call.now \in Nat /\ call.now <= clock /\ clock <= call.now + CallLimit
  /\ mem.next = call.now + Retry
  /\ call.save.attempted = call.now
  /\ call.save.next \in Nat /\ call.now + Retry <= call.save.next

Newest ==
  \A u \in Sites : rows[u].attempted # None =>
    rows[u].attempted <= call.now /\ (u # mem.url => rows[u].attempted < call.now)

CallOK ==
  /\ call.at # "idle" => InTime /\ Newest
  /\ call.at # "idle" /\ call.etag # NoTag => call.etag = mem.etag /\ mem.payload # None
  /\ Asking => Apart(call.now) /\ call.save.err = "no response"
               /\ call.save.payload = None /\ call.save.etag = None
  /\ Recording => /\ rows[mem.url].attempted = call.now
                  /\ rows[mem.url].err = "no response" /\ mem.err = "no response"

\* What is being saved is the answer's list, or confirms it.
SaveOK ==
  LET s == call.save IN
  Saving =>
    /\ s.payload # None =>
         /\ s.payload.version \in Nat /\ s.payload.version <= version[mem.url]
         /\ s.payload = ListAt(mem.url, s.payload.version)
         /\ s.etag \in {s.payload.version, NoTag}
         /\ rows[mem.url].payload # None => rows[mem.url].payload.version <= s.payload.version
    /\ s.payload = None /\ s.etag # None =>
         /\ s.etag = mem.etag /\ mem.payload # None
         /\ rows[mem.url].payload = ListAt(mem.url, s.etag)
    /\ s.err = "" => answer = Or(s.payload, rows[mem.url].payload) /\ answer = Or(s.payload, mem.payload)

\* What reports no error is the answer's list, after a restart too.
ErrOK ==
  /\ mem.err = "" => mem.payload = answer
  /\ \A u \in Sites : IsLatest(u) /\ rows[u].err = "" => rows[u].payload = answer

Inv ==
  /\ Types /\ (\A u \in Sites : RowOK(u)) /\ Recorded
  /\ MemOK /\ CallOK /\ SaveOK /\ ErrOK

LEMMA Later == ASSUME NEW a \in Nat, NEW b \in Nat, NEW c \in Nat, NEW d \in Nat, a <= b, c <= d
               PROVE  a + c <= b + d
OBVIOUS

LEMMA NotBoth == ASSUME NEW a \in Nat, NEW b \in Nat, a < b, b <= a PROVE FALSE
OBVIOUS

LEMMA NatSome == ASSUME NEW n \in Nat PROVE n # None
BY ChannelAssumption

LEMMA Through == ASSUME NEW a \in Nat, NEW b \in Nat, NEW c \in Nat, NEW d \in Nat, a + b <= c, c <= d
                 PROVE  a + b <= d
OBVIOUS

LEMMA NatTag == ASSUME NEW n \in Nat PROVE n # NoTag
BY DEF NoTag

LEMMA Itself == ASSUME NEW n \in Nat PROVE n <= n
OBVIOUS

LEMMA Same == ASSUME NEW a \in Nat, NEW b \in Nat, a <= b, b <= a PROVE a = b
OBVIOUS

LEMMA Soon == ASSUME NEW n \in Nat PROVE n + Interval \in Nat /\ n + Retry <= n + Interval
BY ChannelAssumption

LEMMA InitInv == Init => Inv
<1> SUFFICES ASSUME Init PROVE Inv
  OBVIOUS
<1>1. \A u \in Sites : rows[u].attempted = None /\ rows[u].payload = None
  BY DEF Init, NoRow
<1>2. mem.payload = None /\ mem.next = 0 /\ mem.err = "none" /\ call.at = "idle" /\ last = None /\ clock = 0
  BY DEF Init, NoMem, NoCall
<1>3. Types
  BY <1>2 DEF Init, Types
<1>4. ASSUME NEW u \in Sites PROVE RowOK(u)
  BY <1>1 DEF RowOK, RowTime, RowTag
<1>5. Recorded /\ MemOK /\ CallOK /\ SaveOK
  BY <1>1, <1>2 DEF Recorded, MemOK, CallOK, SaveOK, Asking, Recording, Saving
<1>6. ErrOK
  BY <1>1, <1>2 DEF ErrOK, IsLatest
<1> QED
  BY <1>3, <1>4, <1>5, <1>6 DEF Inv

(***************************************************************************)
(* The environment.                                                        *)
(***************************************************************************)

LEMMA TickInv == ASSUME Inv, Tick PROVE Inv'
<1>1. /\ clock' = clock + 1 /\ clock \in Nat
      /\ UNCHANGED <<version, site, enabled, mem, rows, members, published, call, last, asked, answer>>
  BY DEF Tick, Inv, Types
<1>2. Types' /\ Recorded' /\ MemOK'
  BY <1>1 DEF Inv, Types, Recorded, MemOK
<1>5. SaveOK' /\ ErrOK'
  BY <1>1 DEF Inv, SaveOK, Saving, ErrOK, IsLatest, Or
<1>3. ASSUME NEW u \in Sites PROVE RowOK(u)'
  <2>1. RowOK(u)
    BY DEF Inv
  <2> QED
    BY <1>1, <2>1 DEF RowOK, RowTime, RowTag
<1>4. CallOK'
  <2>1. CallOK
    BY DEF Inv
  <2>2. ASSUME call.at # "idle" PROVE InTime'
    <3>1. InTime /\ clock < call.now + CallLimit
      BY <2>1, <2>2 DEF CallOK, Tick
    <3>2. clock + 1 <= call.now + CallLimit /\ call.now <= clock + 1
      BY <1>1, <3>1, ChannelAssumption DEF InTime
    <3> QED
      BY <1>1, <3>1, <3>2 DEF InTime
  <2>3. ASSUME call.at # "idle" PROVE Newest'
    BY <1>1, <2>1, <2>3 DEF CallOK, Newest
  <2> QED
    BY <1>1, <2>1, <2>2, <2>3 DEF CallOK, Asking, Recording, Apart
<1> QED
  BY <1>2, <1>3, <1>4, <1>5 DEF Inv

LEMMA ReplaceInv == ASSUME Inv, NEW w \in Sites, Replace(w) PROVE Inv'
<1>1. /\ version' = [version EXCEPT ![w] = @ + 1]
      /\ UNCHANGED <<clock, site, enabled, mem, rows, members, published, call, last, asked, answer>>
  BY DEF Replace
<1>2. DOMAIN version' = Sites /\ \A u \in Sites : version[u] \in Nat /\ version'[u] \in Nat /\ version[u] <= version'[u]
  BY <1>1 DEF Inv, Types
<1>3. Types' /\ Recorded' /\ MemOK' /\ CallOK' /\ ErrOK'
  BY <1>1, <1>2 DEF Inv, Types, Recorded, MemOK, CallOK, InTime, Newest, Asking, Recording, Apart, ErrOK, IsLatest
<1>4. ASSUME NEW u \in Sites PROVE RowOK(u)'
  <2>1. RowOK(u) /\ version[u] \in Nat /\ version'[u] \in Nat /\ version[u] <= version'[u]
    BY <1>2 DEF Inv
  <2> QED
    BY <1>1, <2>1 DEF RowOK, RowTime, RowTag
<1>5. SaveOK'
  <2>1. Saving => mem.url \in Sites
    BY DEF Inv, CallOK, InTime, Saving
  <2>2. Saving => version[mem.url] \in Nat /\ version'[mem.url] \in Nat /\ version[mem.url] <= version'[mem.url]
    BY <1>2, <2>1
  <2>3. SaveOK
    BY DEF Inv
  <2> SUFFICES ASSUME Saving PROVE SaveOK'
    BY <1>1 DEF SaveOK, Saving
  <2>4. call.save.payload # None => call.save.payload.version <= version'[mem.url]
    <3> SUFFICES ASSUME call.save.payload # None PROVE call.save.payload.version <= version'[mem.url]
      OBVIOUS
    <3>1. call.save.payload.version \in Nat /\ call.save.payload.version <= version[mem.url]
      BY <2>3 DEF SaveOK
    <3> QED
      BY <2>2, <3>1
  <2> QED
    BY <1>1, <2>3, <2>4 DEF SaveOK, Saving, Or
<1> QED
  BY <1>3, <1>4, <1>5 DEF Inv

LEMMA RelistInv == ASSUME Inv, NEW u \in Sites \cup {None}, Relist(u) PROVE Inv'
BY DEF Relist, Inv, Types, RowOK, RowTime, RowTag, Recorded, MemOK, CallOK, InTime, Newest, Asking, Recording, Apart, SaveOK, Saving, ErrOK, IsLatest

(***************************************************************************)
(* Refresh.                                                                *)
(***************************************************************************)

LEMMA NotListedInv == ASSUME Inv, NotListed PROVE Inv'
<1>1. /\ call.at = "idle" /\ clock \in Nat /\ clock + Interval \in Nat
      /\ mem'.next = clock + Interval /\ mem'.err = "not listed"
      /\ mem'.payload = mem.payload /\ mem'.etag = mem.etag /\ mem'.url = mem.url
      /\ UNCHANGED <<clock, version, site, enabled, rows, call, last, answer>>
  BY ChannelAssumption DEF NotListed, Due, Inv, Types
<1>2. Types' /\ Recorded' /\ CallOK' /\ SaveOK'
  BY <1>1 DEF Inv, Types, Recorded, CallOK, SaveOK, Saving, Asking, Recording
<1>3. \A u \in Sites : RowOK(u)'
  BY <1>1 DEF Inv, RowOK, RowTime, RowTag
<1>4. MemOK'
  <2>1. ASSUME NEW u \in Sites, rows[u].attempted # None PROVE rows[u].attempted + Retry <= clock + Interval
    <3>1. rows[u].attempted \in Nat /\ rows[u].attempted <= clock
      BY <2>1 DEF Inv, RowOK, RowTime, RowTag
    <3>2. Retry \in Nat /\ Interval \in Nat /\ Retry <= Interval
      BY ChannelAssumption
    <3> QED
      BY <1>1, <3>1, <3>2, Later
  <2>2. MemOK
    BY DEF Inv
  <2> QED
    BY <1>1, <2>1, <2>2 DEF MemOK
<1>5. ErrOK'
  BY <1>1 DEF Inv, ErrOK, IsLatest
<1> QED
  BY <1>2, <1>3, <1>4, <1>5 DEF Inv

LEMMA StartInv == ASSUME Inv, Start PROVE Inv'
<1>1. /\ clock \in Nat /\ enabled /\ call.at = "idle" /\ clock >= mem.next /\ site \in Sites
      /\ mem' = [mem EXCEPT !.url = site, !.etag = TagAt(site), !.next = clock + Retry]
      /\ call' = [at |-> "attempt", now |-> clock, save |-> Attempt,
                  etag |-> IF mem.payload = None THEN NoTag ELSE TagAt(site)]
      /\ UNCHANGED <<clock, version, site, enabled, rows, last, answer>>
  BY DEF Start, Due, Inv, Types
<1>2. /\ mem'.url = site /\ mem'.etag = TagAt(site) /\ mem'.next = clock + Retry
      /\ mem'.payload = mem.payload /\ mem'.err = mem.err
  BY <1>1
<1>3. /\ Attempt.attempted = clock /\ Attempt.next = clock + Retry /\ Attempt.err = "no response"
      /\ Attempt.payload = None /\ Attempt.etag = None
  BY DEF Attempt, NoRow
<1>4. clock + Retry \in Nat
  BY <1>1, ChannelAssumption
<1>5. ASSUME NEW u \in Sites, rows[u].attempted # None
      PROVE rows[u].attempted \in Nat /\ rows[u].attempted + Retry <= clock
  <2>1. rows[u].attempted \in Nat /\ rows[u].attempted + Retry <= mem.next /\ mem.next \in Nat
    BY <1>1, <1>5 DEF Inv, RowOK, RowTime, RowTag, MemOK, Types
  <2> QED
    BY <1>1, <2>1, ChannelAssumption
<1>6. Apart(clock)
  <2> SUFFICES ASSUME last # None PROVE last + Allowance <= clock
    BY DEF Apart
  <2>1. PICK w \in Sites : rows[w].attempted # None /\ last <= rows[w].attempted + CallLimit
    BY DEF Inv, Recorded
  <2>2. last \in Nat
    BY DEF Inv, Recorded
  <2> QED
    BY <1>1, <1>5, <2>1, <2>2, ChannelAssumption
<1>7. Types' /\ Recorded' /\ SaveOK' /\ ErrOK'
  BY <1>1, <1>2, <1>4 DEF Inv, Types, Recorded, SaveOK, Saving, ErrOK, IsLatest
<1>8. \A u \in Sites : RowOK(u)'
  BY <1>1 DEF Inv, RowOK, RowTime, RowTag
<1>9. MemOK'
  <2>1. \A u \in Sites : rows[u].attempted # None => rows[u].attempted + Retry <= clock + Retry
    <3>1. ASSUME NEW u \in Sites, rows[u].attempted # None PROVE rows[u].attempted + Retry <= clock + Retry
      BY <1>1, <1>5, <3>1, ChannelAssumption
    <3> QED
      BY <3>1
  <2>2. TagAt(site) # NoTag => mem.url = site /\ TagAt(site) = mem.etag
    BY DEF TagAt
  <2>3. MemOK
    BY DEF Inv
  <2> QED
    BY <1>1, <1>2, <2>1, <2>2, <2>3 DEF MemOK
<1>10. CallOK'
  <2>1. call'.at = "attempt" /\ call'.now = clock /\ call'.save = Attempt
        /\ call'.etag = (IF mem.payload = None THEN NoTag ELSE TagAt(site))
    BY <1>1
  <2>2. InTime'
    <3>1. clock <= clock + CallLimit /\ clock <= clock /\ clock + Retry <= clock + Retry
      BY <1>1, ChannelAssumption
    <3> QED
      BY <1>1, <1>2, <1>3, <1>4, <2>1, <3>1 DEF InTime
  <2>3. Newest'
    <3>1. ASSUME NEW u \in Sites, rows[u].attempted # None PROVE rows[u].attempted <= clock /\ rows[u].attempted < clock
      BY <1>1, <1>5, <3>1, ChannelAssumption
    <3> QED
      BY <1>1, <2>1, <3>1 DEF Newest
  <2>4. Apart(call.now)'
    BY <1>1, <1>6, <2>1 DEF Apart
  <2>5. call'.etag # NoTag => call'.etag = mem'.etag /\ mem'.payload # None
    BY <1>2, <2>1
  <2> QED
    BY <1>3, <2>1, <2>2, <2>3, <2>4, <2>5 DEF CallOK, Asking, Recording
<1> QED
  BY <1>7, <1>8, <1>9, <1>10 DEF Inv

(***************************************************************************)
(* What a save does to the rows.                                           *)
(***************************************************************************)

\* A save of one list's payload and ETag, or of an ETag for the row's list.
GoodSave(s) ==
  /\ s.payload # None =>
       /\ s.payload.version \in Nat /\ s.payload.version <= version[mem.url]
       /\ s.payload = ListAt(mem.url, s.payload.version)
       /\ s.etag \in {s.payload.version, NoTag}
       /\ rows[mem.url].payload # None => rows[mem.url].payload.version <= s.payload.version
  /\ s.payload = None /\ s.etag # None => rows[mem.url].payload = ListAt(mem.url, s.etag)

LEMMA SavedRow ==
  ASSUME Inv, call.at # "idle", rows' = Saved(call.save)
  PROVE  /\ DOMAIN rows' = Sites /\ mem.url \in Sites
         /\ \A u \in Sites : u # mem.url => rows'[u] = rows[u]
         /\ rows'[mem.url].payload = Or(call.save.payload, rows[mem.url].payload)
         /\ rows'[mem.url].etag = Or(call.save.etag, rows[mem.url].etag)
         /\ rows'[mem.url].attempted = call.now /\ call.now # None
         /\ rows'[mem.url].next = call.save.next /\ rows'[mem.url].err = call.save.err
<1>1. mem.url \in Sites /\ DOMAIN rows = Sites /\ call.save.attempted = call.now /\ call.now \in Nat
  BY DEF Inv, CallOK, InTime, Types
<1> QED
  BY <1>1, ChannelAssumption DEF Saved

LEMMA SavedRowsOK ==
  ASSUME Inv, call.at # "idle", GoodSave(call.save), UNCHANGED <<clock, version, last>>,
         rows' \in {rows, Saved(call.save)}
  PROVE  DOMAIN rows' = Sites /\ (\A u \in Sites : RowOK(u)') /\ Recorded'
<1> DEFINE s == call.save
<1>1. CASE rows' = rows
  BY <1>1 DEF Inv, RowOK, RowTime, RowTag, Recorded, Types
<1>2. CASE rows' = Saved(s)
  <2>1. /\ DOMAIN rows' = Sites /\ mem.url \in Sites
        /\ \A u \in Sites : u # mem.url => rows'[u] = rows[u]
        /\ rows'[mem.url].payload = Or(s.payload, rows[mem.url].payload)
        /\ rows'[mem.url].etag = Or(s.etag, rows[mem.url].etag)
        /\ rows'[mem.url].attempted = call.now /\ call.now # None /\ rows'[mem.url].next = s.next
    BY <1>2, SavedRow
  <2>2. call.now \in Nat /\ call.now <= clock /\ s.next \in Nat /\ call.now + Retry <= s.next
    BY DEF Inv, CallOK, InTime
  <2>3. ASSUME NEW u \in Sites, u # mem.url PROVE RowOK(u)'
    <3>1. RowOK(u) /\ rows'[u] = rows[u]
      BY <2>1, <2>3 DEF Inv
    <3> QED
      BY <3>1 DEF RowOK, RowTime, RowTag
  <2>5. ASSUME NEW u \in Sites, u = mem.url PROVE RowOK(u)'
    <3>0. RowTag(u)
      BY DEF Inv, RowOK
    <3>1. RowTime(u)'
      BY <2>1, <2>2, <2>5 DEF RowTime
    <3>2. CASE s.payload # None
      <4>1. s.payload.version \in Nat /\ s.etag \in {s.payload.version, NoTag}
        BY <3>2 DEF GoodSave
      <4>2. s.etag # None
        BY <4>1, ChannelAssumption DEF NoTag
      <4>3. rows'[u].payload = s.payload /\ rows'[u].etag \in {s.payload.version, NoTag}
        BY <2>1, <2>5, <3>2, <4>1, <4>2 DEF Or
      <4> QED
        BY <2>5, <3>1, <3>2, <4>3 DEF RowOK, RowTag, GoodSave
    <3>3. CASE s.payload = None /\ s.etag = None
      <4>1. rows'[u].payload = rows[u].payload /\ rows'[u].etag = rows[u].etag
        BY <2>1, <2>5, <3>3 DEF Or
      <4> QED
        BY <3>0, <3>1, <4>1 DEF RowOK, RowTag
    <3>4. CASE s.payload = None /\ s.etag # None
      <4>1. rows'[u].payload = rows[u].payload /\ rows'[u].etag = s.etag /\ rows[u].payload = ListAt(u, s.etag)
        BY <2>1, <2>5, <3>4 DEF Or, GoodSave
      <4>2. rows[u].payload.version = s.etag
        BY <4>1 DEF ListAt
      <4> QED
        BY <3>0, <3>1, <4>1, <4>2 DEF RowOK, RowTag
    <3> QED
      BY <3>2, <3>3, <3>4
  <2>6. Recorded'
    <3> SUFFICES ASSUME last # None
        PROVE last \in Nat /\ \E w \in Sites : rows'[w].attempted # None /\ last <= rows'[w].attempted + CallLimit
      BY DEF Recorded
    <3>1. PICK w \in Sites : rows[w].attempted # None /\ last <= rows[w].attempted + CallLimit
      BY DEF Inv, Recorded
    <3>2. last \in Nat
      BY DEF Inv, Recorded
    <3>3. CASE w # mem.url
      BY <2>1, <3>1, <3>2, <3>3
    <3>4. CASE w = mem.url
      <4>1. rows[w].attempted \in Nat /\ rows[w].attempted <= call.now
        BY <3>1 DEF Inv, RowOK, RowTime, RowTag, CallOK, Newest
      <4>2. last <= call.now + CallLimit
        BY <2>2, <3>1, <3>2, <4>1, ChannelAssumption
      <4> QED
        BY <2>1, <3>2, <4>2
    <3> QED
      BY <3>3, <3>4
  <2> QED
    BY <2>1, <2>3, <2>5, <2>6
<1> QED
  BY <1>1, <1>2

\* Memory that keeps its list stays in order.
LEMMA SavedMemOK ==
  ASSUME Inv, call.at # "idle", GoodSave(call.save), enabled' = enabled,
         rows' \in {rows, Saved(call.save)},
         mem'.payload = mem.payload, mem'.etag = mem.etag, mem'.url = mem.url,
         mem'.next \in Nat, call.now + Retry <= mem'.next
  PROVE  MemOK'
<1> DEFINE s == call.save
<1>0. call.now \in Nat
  BY DEF Inv, CallOK, InTime
<1>1. ASSUME NEW u \in Sites, rows'[u].attempted # None PROVE rows'[u].attempted + Retry <= mem'.next
  <2>1. rows'[u].attempted \in Nat /\ rows'[u].attempted <= call.now
    <3>1. CASE rows'[u] = rows[u]
      BY <1>1, <3>1 DEF Inv, RowOK, RowTime, RowTag, CallOK, Newest
    <3>2. CASE rows'[u] # rows[u]
      <4>1. rows' = Saved(s)
        BY <3>2
      <4>2. u = mem.url /\ rows'[u].attempted = call.now
        BY <3>2, <4>1, SavedRow
      <4> QED
        BY <1>0, <4>2
    <3> QED
      BY <3>1, <3>2
  <2> QED
    BY <1>0, <2>1, ChannelAssumption
<1>2. ASSUME mem.payload # None, mem.etag # NoTag
      PROVE  rows'[mem.url].payload # None /\ mem.etag <= rows'[mem.url].payload.version
  <2>1. /\ mem.url \in Sites /\ mem.etag \in Nat
        /\ rows[mem.url].payload # None /\ mem.etag <= rows[mem.url].payload.version
    BY <1>2 DEF Inv, MemOK
  <2>2. CASE rows' = rows
    BY <2>1, <2>2
  <2>3. CASE rows' = Saved(s)
    <3>1. rows'[mem.url].payload = Or(s.payload, rows[mem.url].payload)
      BY <2>3, SavedRow
    <3>2. CASE s.payload = None
      BY <2>1, <3>1, <3>2 DEF Or
    <3>3. CASE s.payload # None
      <4>1. s.payload.version \in Nat /\ rows[mem.url].payload.version <= s.payload.version
        BY <2>1, <3>3 DEF GoodSave
      <4>2. rows[mem.url].payload.version \in Nat
        BY <2>1 DEF Inv, RowOK, RowTime, RowTag
      <4>3. mem.etag <= s.payload.version
        BY <2>1, <4>1, <4>2
      <4> QED
        BY <3>1, <3>3, <4>3 DEF Or
    <3> QED
      BY <3>2, <3>3
  <2> QED
    BY <2>2, <2>3
<1>3. MemOK
  BY DEF Inv
<1> QED
  BY <1>1, <1>2, <1>3 DEF MemOK

\* The row saved last is the latest.
LEMMA SavedErrOK ==
  ASSUME Inv, call.at # "idle", rows' \in {rows, Saved(call.save)}, answer' = answer,
         call.save.err = "" => answer = Or(call.save.payload, rows[mem.url].payload)
  PROVE  \A u \in Sites : IsLatest(u)' /\ rows'[u].err = "" => rows'[u].payload = answer'
<1> SUFFICES ASSUME NEW u \in Sites, IsLatest(u)', rows'[u].err = "" PROVE rows'[u].payload = answer
  OBVIOUS
<1>1. CASE rows' = rows
  BY <1>1 DEF Inv, ErrOK, IsLatest
<1>2. CASE rows' = Saved(call.save)
  <2>1. /\ mem.url \in Sites
        /\ \A w \in Sites : w # mem.url => rows'[w] = rows[w]
        /\ rows'[mem.url].payload = Or(call.save.payload, rows[mem.url].payload)
        /\ rows'[mem.url].attempted = call.now /\ call.now # None /\ rows'[mem.url].err = call.save.err
    BY <1>2, SavedRow
  <2>2. u = mem.url
    <3> SUFFICES ASSUME u # mem.url PROVE FALSE
      OBVIOUS
    <3>1. rows[u].attempted # None /\ call.now <= rows[u].attempted
      BY <2>1 DEF IsLatest
    <3>2. rows[u].attempted < call.now /\ rows[u].attempted \in Nat /\ call.now \in Nat
      BY <3>1 DEF Inv, RowOK, RowTime, RowTag, CallOK, Newest, InTime
    <3> QED
      BY <3>1, <3>2, NotBoth
  <2> QED
    BY <2>1, <2>2
<1> QED
  BY <1>1, <1>2

(***************************************************************************)
(* refresh.                                                                *)
(***************************************************************************)

LEMMA Ended == ASSUME call' = NoCall PROVE CallOK' /\ SaveOK'
BY DEF NoCall, CallOK, SaveOK, Asking, Recording, Saving

LEMMA CallTo ==
  ASSUME NEW step, call' = [call EXCEPT !.at = step]
  PROVE  call'.at = step /\ call'.now = call.now /\ call'.etag = call.etag /\ call'.save = call.save
OBVIOUS

LEMMA CallToSave ==
  ASSUME NEW step, NEW s, ToSave(step, s)
  PROVE  call'.at = step /\ call'.now = call.now /\ call'.etag = call.etag /\ call'.save = s
BY DEF ToSave

LEMMA MemErr ==
  ASSUME NEW e, mem' = [mem EXCEPT !.err = e]
  PROVE  /\ mem'.payload = mem.payload /\ mem'.etag = mem.etag /\ mem'.url = mem.url
         /\ mem'.next = mem.next /\ mem'.err = e
OBVIOUS

LEMMA SaveAttemptInv == ASSUME Inv, SaveAttempt PROVE Inv'
<1>1. /\ call.at = "attempt" /\ rows' \in {rows, Saved(call.save)}
      /\ UNCHANGED <<clock, version, site, enabled, last, answer>>
  BY DEF SaveAttempt
<1>2. /\ InTime /\ Newest /\ Apart(call.now)
      /\ call.save.err = "no response" /\ call.save.payload = None /\ call.save.etag = None
      /\ call.etag # NoTag => call.etag = mem.etag /\ mem.payload # None
  BY <1>1 DEF Inv, CallOK, Asking
<1>3. GoodSave(call.save)
  BY <1>2 DEF GoodSave
<1>4. /\ mem'.payload = mem.payload /\ mem'.etag = mem.etag /\ mem'.url = mem.url /\ mem'.next = mem.next
      /\ mem'.err \in {mem.err, "no response"}
  <2>1. CASE mem' = mem
    BY <2>1
  <2>2. CASE mem' = [mem EXCEPT !.err = "no response"]
    BY <2>2, MemErr
  <2> QED
    BY <2>1, <2>2 DEF SaveAttempt
<1>5. mem.next \in Nat /\ call.now + Retry <= mem.next
  <2>1. mem.next \in Nat /\ call.now \in Nat /\ mem.next = call.now + Retry
    BY <1>2 DEF Inv, Types, InTime
  <2> QED
    BY <2>1, ChannelAssumption
<1>6. DOMAIN rows' = Sites /\ (\A u \in Sites : RowOK(u)') /\ Recorded'
  BY <1>1, <1>3, SavedRowsOK
<1>7. MemOK'
  BY <1>1, <1>3, <1>4, <1>5, SavedMemOK
<1>8. ErrOK'
  <2>1. \A u \in Sites : IsLatest(u)' /\ rows'[u].err = "" => rows'[u].payload = answer'
    BY <1>1, <1>2, SavedErrOK
  <2> QED
    BY <1>1, <1>4, <2>1 DEF ErrOK, Inv
<1>9. Types'
  BY <1>1, <1>4, <1>5, <1>6 DEF Inv, Types
<1>10. CASE call' = NoCall
  BY <1>6, <1>7, <1>8, <1>9, <1>10, Ended DEF Inv
<1>11. CASE rows' = Saved(call.save) /\ mem'.err = "no response" /\ call' = [call EXCEPT !.at = "request"]
  <2>1. /\ call'.at = "request" /\ call'.now = call.now /\ call'.etag = call.etag /\ call'.save = call.save
    BY <1>11, CallTo
  <2>2. /\ mem.url \in Sites /\ \A u \in Sites : u # mem.url => rows'[u] = rows[u]
        /\ rows'[mem.url].attempted = call.now /\ call.now # None /\ rows'[mem.url].err = "no response"
    BY <1>1, <1>2, <1>11, SavedRow
  <2>3. InTime'
    BY <1>1, <1>2, <1>4, <2>1 DEF InTime
  <2>4. Newest'
    <3>0. call.now \in Nat
      BY <1>2 DEF InTime
    <3>1. call.now <= call.now
      BY <3>0
    <3> QED
      BY <1>2, <1>4, <2>1, <2>2, <3>1 DEF Newest
  <2>5. CallOK'
    BY <1>1, <1>2, <1>4, <1>11, <2>1, <2>2, <2>3, <2>4 DEF CallOK, Asking, Recording, Apart
  <2>6. SaveOK'
    BY <2>1 DEF SaveOK, Saving
  <2> QED
    BY <1>6, <1>7, <1>8, <1>9, <2>5, <2>6 DEF Inv
<1>12. call' = NoCall \/ (rows' = Saved(call.save) /\ mem'.err = "no response" /\ call' = [call EXCEPT !.at = "request"])
  <2>1. CASE mem' = [mem EXCEPT !.err = "no response"]
    BY <2>1, MemErr DEF SaveAttempt
  <2>2. CASE call' = NoCall
    BY <2>2
  <2> QED
    BY <2>1, <2>2 DEF SaveAttempt
<1> QED
  BY <1>10, <1>11, <1>12

\* The request is allowed: every attempt so far was put off long enough.
LEMMA RequestInv == ASSUME Inv, Request PROVE Inv' /\ Apart(clock)
<1>1. /\ call.at = "request" /\ last' = clock
      /\ call'.at = "sent" /\ call'.now = call.now /\ call'.etag = call.etag /\ call'.save = call.save
      /\ UNCHANGED <<clock, version, site, enabled, mem, rows, answer>>
  BY DEF Request
<1>2. /\ InTime /\ Newest /\ Apart(call.now) /\ clock \in Nat /\ rows[mem.url].attempted = call.now
      /\ rows[mem.url].err = "no response" /\ mem.err = "no response"
      /\ call.etag # NoTag => call.etag = mem.etag /\ mem.payload # None
  BY <1>1 DEF Inv, CallOK, Asking, Recording, Types
<1>3. Apart(clock)
  <2> SUFFICES ASSUME last # None PROVE last + Allowance <= clock
    BY DEF Apart
  <2>1. last \in Nat /\ last + Allowance <= call.now
    BY <1>2 DEF Apart, Inv, Recorded
  <2>2. call.now \in Nat /\ call.now <= clock
    BY <1>2 DEF InTime
  <2>3. Allowance \in Nat /\ clock \in Nat
    BY <1>2, ChannelAssumption
  <2> QED
    BY <2>1, <2>2, <2>3, Through
<1>4. Recorded'
  <2>1. mem.url \in Sites /\ call.now # None /\ clock <= call.now + CallLimit
    <3>1. mem.url \in Sites /\ call.now \in Nat /\ clock <= call.now + CallLimit
      BY <1>2 DEF InTime
    <3> QED
      BY <3>1, NatSome
  <2> QED
    BY <1>1, <1>2, <2>1 DEF Recorded
<1>5. Types' /\ MemOK' /\ ErrOK' /\ \A u \in Sites : RowOK(u)'
  BY <1>1 DEF Inv, Types, MemOK, ErrOK, IsLatest, RowOK, RowTime, RowTag
<1>6. CallOK'
  <2>1. InTime' /\ Newest'
    BY <1>1, <1>2 DEF InTime, Newest
  <2> QED
    BY <1>1, <1>2, <2>1 DEF CallOK, Asking, Recording
<1>7. SaveOK'
  BY <1>1 DEF SaveOK, Saving
<1> QED
  BY <1>3, <1>4, <1>5, <1>6, <1>7 DEF Inv

LEMMA NoAnswerInv == ASSUME Inv, NoAnswer PROVE Inv'
<1>1. call' = NoCall /\ UNCHANGED <<clock, version, site, enabled, mem, rows, last, answer>>
  BY DEF NoAnswer
<1>2. Types' /\ Recorded' /\ MemOK' /\ ErrOK' /\ \A u \in Sites : RowOK(u)'
  BY <1>1 DEF Inv, Types, Recorded, MemOK, ErrOK, IsLatest, RowOK, RowTime, RowTag
<1> QED
  BY <1>1, <1>2, Ended DEF Inv

\* What an answer leaves to show: only the call and the history change.
LEMMA AnswerInv ==
  ASSUME Inv, call.at = "sent", UNCHANGED <<clock, version, site, enabled, mem, rows, last>>,
         NEW s, NEW step \in {"delete", "save"}, ToSave(step, s),
         s.attempted = call.now, s.next \in Nat, call.now + Retry <= s.next, SaveOK',
         answer' = answer \/ mem.err # ""
  PROVE  Inv'
<1>1. call'.at = step /\ call'.now = call.now /\ call'.etag = call.etag /\ call'.save = s
  BY CallToSave
<1>2. /\ InTime /\ Newest /\ rows[mem.url].attempted = call.now
      /\ rows[mem.url].err = "no response" /\ mem.err = "no response"
      /\ call.etag # NoTag => call.etag = mem.etag /\ mem.payload # None
  BY DEF Inv, CallOK, Recording
<1>3. Types' /\ Recorded' /\ MemOK' /\ \A u \in Sites : RowOK(u)'
  BY DEF Inv, Types, Recorded, MemOK, RowOK, RowTime, RowTag
<1>4. CallOK'
  <2>1. InTime' /\ Newest'
    BY <1>1, <1>2 DEF InTime, Newest
  <2> QED
    BY <1>1, <1>2, <2>1 DEF CallOK, Asking, Recording
<1>5. ErrOK'
  <2> SUFFICES ASSUME NEW u \in Sites, IsLatest(u), rows[u].err = "" PROVE FALSE
    BY <1>2 DEF ErrOK, IsLatest
  <2>1. u # mem.url
    BY <1>2
  <2>2. mem.url \in Sites /\ call.now \in Nat /\ call.now # None
    <3>1. mem.url \in Sites /\ call.now \in Nat /\ clock <= call.now + CallLimit
      BY <1>2 DEF InTime
    <3> QED
      BY <3>1, NatSome
  <2>3. rows[u].attempted # None /\ call.now <= rows[u].attempted
    BY <1>2, <2>2 DEF IsLatest
  <2>4. rows[u].attempted < call.now /\ rows[u].attempted \in Nat
    BY <1>2, <2>1, <2>3 DEF Newest, Inv, RowOK, RowTime
  <2> QED
    BY <2>2, <2>3, <2>4, NotBoth
<1> QED
  BY <1>3, <1>4, <1>5 DEF Inv

LEMMA SentState ==
  ASSUME Inv, call.at = "sent"
  PROVE  /\ mem.url \in Sites /\ version[mem.url] \in Nat /\ RowTag(mem.url)
         /\ call.now \in Nat /\ mem.err = "no response"
         /\ call.etag # NoTag => call.etag = mem.etag /\ mem.payload # None
BY DEF Inv, Types, RowOK, CallOK, InTime, Recording

LEMMA NewListInv == ASSUME Inv, NewList PROVE Inv'
<1>1. PICK etag \in {version[mem.url], NoTag} : ToSave("delete", Good(ListOf(mem.url), etag))
  BY DEF NewList
<1> DEFINE l == ListOf(mem.url)
<1> DEFINE s == Good(l, etag)
<1>2. /\ call.at = "sent" /\ answer' = l
      /\ UNCHANGED <<clock, version, site, enabled, mem, rows, last>>
  BY DEF NewList
<1>3. /\ mem.url \in Sites /\ version[mem.url] \in Nat /\ RowTag(mem.url) /\ call.now \in Nat
      /\ mem.err = "no response"
  BY <1>2, SentState
<1>4. l = ListAt(mem.url, version[mem.url]) /\ l.version = version[mem.url] /\ l # None
  <2>1. l \in [site : Sites, version : Nat]
    BY <1>3 DEF ListOf
  <2> QED
    BY <2>1, ChannelAssumption DEF ListOf, ListAt
<1>5. s.payload = l /\ s.etag = etag /\ s.attempted = call.now /\ s.next = call.now + Interval /\ s.err = ""
  BY DEF Good
<1>6. s.next \in Nat /\ call.now + Retry <= s.next
  BY <1>3, <1>5, Soon
<1>7. call'.save = s
  BY <1>1, CallToSave
<1>8. SaveOK'
  <2>1. version[mem.url] <= version[mem.url]
    BY <1>3, Itself
  <2>2. rows[mem.url].payload # None => rows[mem.url].payload.version <= l.version
    BY <1>3, <1>4 DEF RowTag
  <2> HIDE DEF l, s
  <2> QED
    BY <1>1, <1>2, <1>3, <1>4, <1>5, <1>7, <2>1, <2>2 DEF SaveOK, Or
<1> HIDE DEF s
<1> QED
  BY <1>1, <1>2, <1>3, <1>5, <1>6, <1>8, AnswerInv DEF s

LEMMA NotModifiedInv == ASSUME Inv, NotModified PROVE Inv'
<1> DEFINE s == Good(None, mem.etag)
<1>1. /\ call.at = "sent" /\ call.etag = version[mem.url] /\ ToSave("save", s) /\ answer' = ListOf(mem.url)
      /\ UNCHANGED <<clock, version, site, enabled, mem, rows, last>>
  BY DEF NotModified
<1>2. /\ mem.url \in Sites /\ version[mem.url] \in Nat /\ RowTag(mem.url) /\ call.now \in Nat
      /\ mem.err = "no response"
  BY <1>1, SentState
<1>3. mem.etag = version[mem.url] /\ mem.payload # None /\ mem.etag # NoTag
  BY <1>1, <1>2, SentState, NatTag
<1>4. /\ mem.payload = ListAt(mem.url, mem.etag) /\ rows[mem.url].payload # None
      /\ mem.etag <= rows[mem.url].payload.version
  BY <1>3 DEF Inv, MemOK
<1>5. rows[mem.url].payload = ListAt(mem.url, mem.etag)
  <2>1. /\ rows[mem.url].payload.version \in Nat /\ rows[mem.url].payload.version <= mem.etag
        /\ rows[mem.url].payload = ListAt(mem.url, rows[mem.url].payload.version)
    BY <1>2, <1>3, <1>4 DEF RowTag
  <2>2. rows[mem.url].payload.version = mem.etag
    BY <1>2, <1>3, <1>4, <2>1, Same
  <2> QED
    BY <2>1, <2>2
<1>6. answer' = ListAt(mem.url, mem.etag)
  BY <1>1, <1>3 DEF ListOf, ListAt
<1>7. s.payload = None /\ s.etag = mem.etag /\ s.attempted = call.now /\ s.next = call.now + Interval /\ s.err = ""
  BY DEF Good
<1>8. s.next \in Nat /\ call.now + Retry <= s.next
  BY <1>2, <1>7, Soon
<1>9. call'.save = s
  BY <1>1, CallToSave
<1>10. SaveOK'
  <2> HIDE DEF s
  <2> QED
    BY <1>1, <1>3, <1>4, <1>5, <1>6, <1>7, <1>9 DEF SaveOK, Or
<1> HIDE DEF s
<1> QED
  BY <1>1, <1>2, <1>7, <1>8, <1>10, AnswerInv

LEMMA ProblemInv == ASSUME Inv, Problem PROVE Inv'
<1>1. PICK next \in {call.now + Retry, Latest(call.now + Retry, call.now + RetryAfter)} :
        ToSave("save", [NoRow EXCEPT !.attempted = call.now, !.next = next, !.err = "problem"])
  BY DEF Problem
<1> DEFINE s == [NoRow EXCEPT !.attempted = call.now, !.next = next, !.err = "problem"]
<1>2. /\ call.at = "sent" /\ answer' = answer
      /\ UNCHANGED <<clock, version, site, enabled, mem, rows, last>>
  BY DEF Problem
<1>3. call.now \in Nat
  BY <1>2, SentState
<1>4. s.payload = None /\ s.etag = None /\ s.attempted = call.now /\ s.next = next /\ s.err = "problem"
  BY DEF NoRow
<1>5. next \in Nat /\ call.now + Retry <= next
  BY <1>1, <1>3, ChannelAssumption DEF Latest
<1>6. call'.save = s
  BY <1>1, CallToSave
<1>7. SaveOK'
  <2> HIDE DEF s
  <2> QED
    BY <1>4, <1>6 DEF SaveOK
<1>8. ToSave("save", s)
  BY <1>1
<1> HIDE DEF s
<1> QED
  BY <1>2, <1>4, <1>5, <1>7, <1>8, AnswerInv

(***************************************************************************)
(* SaveChannelCatalogue.                                                   *)
(***************************************************************************)

LEMMA SavingState ==
  ASSUME Inv, Saving
  PROVE  /\ call.at # "idle" /\ InTime /\ Newest /\ SaveOK /\ GoodSave(call.save) /\ mem.err = "no response"
         /\ rows[mem.url].attempted = call.now /\ rows[mem.url].err = "no response"
         /\ call.etag # NoTag => call.etag = mem.etag /\ mem.payload # None
<1>1. call.at # "idle" /\ Recording
  BY DEF Saving, Recording
<1>2. InTime /\ Newest /\ SaveOK
  BY <1>1 DEF Inv, CallOK
<1>3. GoodSave(call.save)
  BY <1>2 DEF SaveOK, GoodSave
<1> QED
  BY <1>1, <1>2, <1>3 DEF Inv, CallOK

\* A save that failed, applied or not, leaves memory with the old list.
LEMMA SaveFailedInv ==
  ASSUME Inv, Saving, rows' \in {rows, Saved(call.save)}, SaveFailed,
         UNCHANGED <<clock, version, site, enabled, last, answer>>
  PROVE  Inv'
<1>1. /\ call.at # "idle" /\ InTime /\ SaveOK /\ GoodSave(call.save) /\ mem.err = "no response"
  BY SavingState
<1>2. /\ call' = NoCall /\ mem'.next = call.save.next
      /\ mem'.payload = mem.payload /\ mem'.etag = mem.etag /\ mem'.url = mem.url /\ mem'.err = mem.err
  BY DEF SaveFailed
<1>3. call.save.next \in Nat /\ call.now + Retry <= call.save.next
  BY <1>1 DEF InTime
<1>4. DOMAIN rows' = Sites /\ (\A u \in Sites : RowOK(u)') /\ Recorded'
  BY <1>1, SavedRowsOK
<1>5. MemOK'
  BY <1>1, <1>2, <1>3, SavedMemOK
<1>6. ErrOK'
  <2>1. call.save.err = "" => answer = Or(call.save.payload, rows[mem.url].payload)
    BY <1>1 DEF SaveOK
  <2>2. \A u \in Sites : IsLatest(u)' /\ rows'[u].err = "" => rows'[u].payload = answer'
    BY <1>1, <2>1, SavedErrOK
  <2> QED
    BY <1>1, <1>2, <2>2 DEF ErrOK
<1>7. Types'
  BY <1>2, <1>3, <1>4 DEF Inv, Types
<1> QED
  BY <1>2, <1>4, <1>5, <1>6, <1>7, Ended DEF Inv

LEMMA MembersInv == ASSUME Inv, DeleteMembers \/ AddMembers PROVE Inv'
<1>1. /\ call.at \in {"delete", "add"} /\ Saving
      /\ UNCHANGED <<clock, version, site, enabled, rows, last, answer>>
  BY DEF DeleteMembers, AddMembers, Saving
<1>2. CASE SaveFailed
  BY <1>1, <1>2, SaveFailedInv
<1>3. ASSUME NEW step \in {"add", "save"}, call' = [call EXCEPT !.at = step], mem' = mem PROVE Inv'
  <2>1. call'.at = step /\ call'.now = call.now /\ call'.etag = call.etag /\ call'.save = call.save
    BY <1>3, CallTo
  <2>2. Types' /\ Recorded' /\ MemOK' /\ ErrOK' /\ \A u \in Sites : RowOK(u)'
    BY <1>1, <1>3 DEF Inv, Types, Recorded, MemOK, ErrOK, IsLatest, RowOK, RowTime, RowTag
  <2>3. /\ InTime /\ Newest /\ SaveOK /\ mem.err = "no response"
        /\ rows[mem.url].attempted = call.now /\ rows[mem.url].err = "no response"
        /\ call.etag # NoTag => call.etag = mem.etag /\ mem.payload # None
    BY <1>1, SavingState
  <2>4. CallOK'
    <3>1. InTime' /\ Newest'
      BY <1>1, <1>3, <2>1, <2>3 DEF InTime, Newest
    <3> QED
      BY <1>1, <1>3, <2>1, <2>3, <3>1 DEF CallOK, Asking, Recording
  <2>5. SaveOK'
    BY <1>1, <1>3, <2>1, <2>3 DEF SaveOK, Or
  <2> QED
    BY <2>2, <2>4, <2>5 DEF Inv
<1> QED
  BY <1>2, <1>3 DEF DeleteMembers, AddMembers

LEMMA SaveRowInv == ASSUME Inv, SaveRow PROVE Inv'
<1> DEFINE s == call.save
<1>1. /\ call.at = "save" /\ Saving
      /\ UNCHANGED <<clock, version, site, enabled, last, answer>>
  BY DEF SaveRow, Saving
<1>2. CASE rows' \in {rows, Saved(s)} /\ SaveFailed
  BY <1>1, <1>2, SaveFailedInv
<1>3. CASE /\ rows' = Saved(s) /\ call' = NoCall
           /\ mem' = [mem EXCEPT !.payload = Or(s.payload, @), !.etag = Or(s.etag, @), !.next = s.next, !.err = s.err]
  <2>1. /\ mem'.payload = Or(s.payload, mem.payload) /\ mem'.etag = Or(s.etag, mem.etag)
        /\ mem'.next = s.next /\ mem'.err = s.err /\ mem'.url = mem.url
    BY <1>3
  <2>2. /\ call.at # "idle" /\ InTime /\ Newest /\ SaveOK /\ GoodSave(s)
    BY <1>1, SavingState
  <2>3. /\ call.now \in Nat /\ s.next \in Nat /\ call.now + Retry <= s.next /\ mem.url \in Sites
    BY <2>2 DEF InTime
  <2>4. DOMAIN rows' = Sites /\ (\A u \in Sites : RowOK(u)') /\ Recorded'
    BY <1>1, <1>3, <2>2, SavedRowsOK
  <2>5. Types'
    BY <1>1, <2>1, <2>3, <2>4 DEF Inv, Types
  <2>6. /\ \A u \in Sites : u # mem.url => rows'[u] = rows[u]
        /\ rows'[mem.url].payload = Or(s.payload, rows[mem.url].payload)
        /\ rows'[mem.url].attempted = call.now
    BY <1>3, <2>2, SavedRow
  <2>7. MemOK'
    <3>1. ASSUME NEW u \in Sites, rows'[u].attempted # None PROVE rows'[u].attempted + Retry <= s.next
      <4>1. CASE u = mem.url
        BY <2>3, <2>6, <4>1
      <4>2. CASE u # mem.url
        <5>1. rows[u].attempted \in Nat /\ rows[u].attempted <= call.now /\ rows'[u] = rows[u]
          BY <2>2, <2>6, <3>1, <4>2 DEF Newest, Inv, RowOK, RowTime
        <5> QED
          BY <2>3, <5>1, ChannelAssumption
      <4> QED
        BY <4>1, <4>2
    <3>2. ASSUME mem'.payload # None, mem'.etag # NoTag
          PROVE  /\ mem'.etag \in Nat /\ mem'.payload = ListAt(mem.url, mem'.etag)
                 /\ rows'[mem.url].payload # None /\ mem'.etag <= rows'[mem.url].payload.version
      <4>1. CASE s.payload # None
        <5>1. mem'.payload = s.payload /\ rows'[mem.url].payload = s.payload
          BY <2>1, <2>6, <4>1 DEF Or
        <5>2. /\ s.payload.version \in Nat /\ s.payload = ListAt(mem.url, s.payload.version)
              /\ s.etag \in {s.payload.version, NoTag}
          BY <2>2, <4>1 DEF GoodSave
        <5>3. s.etag # None
          BY <5>2, NatSome, ChannelAssumption DEF NoTag
        <5>4. mem'.etag = s.payload.version
          BY <2>1, <3>2, <5>2, <5>3 DEF Or
        <5> QED
          BY <4>1, <5>1, <5>2, <5>4, Itself
      <4>2. CASE s.payload = None
        <5>1. mem'.payload = mem.payload /\ rows'[mem.url].payload = rows[mem.url].payload
          BY <2>1, <2>6, <4>2 DEF Or
        <5>2. mem'.etag = mem.etag
          BY <2>1, <2>2, <1>1, <4>2 DEF Or, SaveOK
        <5> QED
          BY <3>2, <5>1, <5>2 DEF Inv, MemOK
      <4> QED
        BY <4>1, <4>2
    <3> QED
      BY <2>1, <2>3, <3>1, <3>2 DEF MemOK
  <2>8. ErrOK'
    <3>1. s.err = "" => answer = Or(s.payload, rows[mem.url].payload) /\ answer = Or(s.payload, mem.payload)
      BY <1>1, <2>2 DEF SaveOK
    <3>2. \A u \in Sites : IsLatest(u)' /\ rows'[u].err = "" => rows'[u].payload = answer'
      BY <1>1, <1>3, <2>2, <3>1, SavedErrOK
    <3> QED
      BY <1>1, <2>1, <3>1, <3>2 DEF ErrOK
  <2> QED
    BY <1>3, <2>4, <2>5, <2>7, <2>8, Ended DEF Inv
<1> QED
  BY <1>2, <1>3 DEF SaveRow

(***************************************************************************)
(* A new process.                                                          *)
(***************************************************************************)

Unreadable(u) == [Restored(u) EXCEPT !.payload = None, !.etag = NoTag, !.err = "invalid"]

LEMMA RestoredFields ==
  ASSUME NEW u, NEW m, m = Restored(u)
  PROVE  /\ m.url = u /\ m.next = rows[u].next /\ m.payload = rows[u].payload
         /\ m.err = rows[u].err /\ m.etag = Or(rows[u].etag, NoTag)
<1> DEFINE etag == Or(rows[u].etag, NoTag)
<1>1. m = [url |-> u, payload |-> rows[u].payload, etag |-> etag, next |-> rows[u].next, err |-> rows[u].err]
  BY DEF Restored
<1> HIDE DEF etag
<1>2. /\ m.url = u /\ m.next = rows[u].next /\ m.payload = rows[u].payload
      /\ m.err = rows[u].err /\ m.etag = etag
  BY <1>1
<1> QED
  BY <1>2 DEF etag

LEMMA UnreadableFields ==
  ASSUME NEW u, NEW m, m = Unreadable(u)
  PROVE  m.url = u /\ m.next = rows[u].next /\ m.payload = None /\ m.err = "invalid"
<1> DEFINE etag == Or(rows[u].etag, NoTag)
<1>1. m = [[url |-> u, payload |-> rows[u].payload, etag |-> etag, next |-> rows[u].next, err |-> rows[u].err]
             EXCEPT !.payload = None, !.etag = NoTag, !.err = "invalid"]
  BY DEF Restored, Unreadable
<1> HIDE DEF etag
<1> QED
  BY <1>1

LEMMA RestartInv == ASSUME Inv, Restart PROVE Inv'
<1>1. call' = NoCall /\ UNCHANGED <<clock, version, site, rows, last, answer>>
  BY DEF Restart
<1>2. Recorded' /\ \A u \in Sites : RowOK(u)'
  BY <1>1 DEF Inv, Recorded, RowOK, RowTime, RowTag
<1>3. CASE mem' = NoMem /\ \A u \in Sites : rows[u].attempted = None
  <2>1. mem'.payload = None /\ mem'.next = 0 /\ mem'.err = "none"
    BY <1>3 DEF NoMem
  <2>2. MemOK'
    BY <1>1, <1>3, <2>1 DEF MemOK
  <2>3. Types'
    BY <1>1, <2>1 DEF Inv, Types
  <2>4. ErrOK'
    BY <1>1, <1>3, <2>1 DEF ErrOK, IsLatest
  <2> QED
    BY <1>1, <1>2, <2>2, <2>3, <2>4, Ended DEF Inv
<1>4. ASSUME NEW u \in Sites, IsLatest(u),
             \/ mem' = Restored(u)
             \/ mem' = Unreadable(u)
      PROVE  Inv'
  <2>1. mem'.next = rows[u].next /\ mem'.url = u
    BY <1>4, RestoredFields, UnreadableFields
  <2>2. /\ rows[u].attempted # None /\ rows[u].attempted \in Nat /\ rows[u].next \in Nat
        /\ rows[u].attempted + Retry <= rows[u].next
    BY <1>4 DEF IsLatest, Inv, RowOK, RowTime
  <2>3. ASSUME NEW w \in Sites, rows[w].attempted # None PROVE rows[w].attempted + Retry <= rows[u].next
    <3>1. rows[w].attempted \in Nat /\ rows[w].attempted <= rows[u].attempted
      BY <1>4, <2>3 DEF IsLatest, Inv, RowOK, RowTime
    <3> QED
      BY <2>2, <3>1, ChannelAssumption
  <2>4. \/ mem'.payload = None /\ mem'.err = "invalid"
        \/ /\ mem'.payload = rows[u].payload /\ mem'.err = rows[u].err
           /\ mem'.etag = Or(rows[u].etag, NoTag)
    BY <1>4, RestoredFields, UnreadableFields
  <2>5. MemOK'
    <3>1. ASSUME mem'.payload # None, mem'.etag # NoTag
          PROVE  /\ mem'.etag \in Nat /\ mem'.payload = ListAt(u, mem'.etag)
                 /\ rows[u].payload # None /\ mem'.etag <= rows[u].payload.version
      <4>1. mem'.payload = rows[u].payload /\ mem'.etag = rows[u].etag /\ rows[u].etag \notin {None, NoTag}
        BY <2>4, <3>1 DEF Or
      <4>2. RowTag(u)
        BY DEF Inv, RowOK
      <4> QED
        BY <3>1, <4>1, <4>2, Itself DEF RowTag
    <3> QED
      BY <1>1, <2>1, <2>3, <3>1 DEF MemOK
  <2>6. ErrOK'
    BY <1>1, <1>4, <2>4 DEF Inv, ErrOK, IsLatest
  <2>7. Types'
    BY <1>1, <2>1, <2>2 DEF Inv, Types
  <2> QED
    BY <1>1, <1>2, <2>5, <2>6, <2>7, Ended DEF Inv
<1> QED
  BY <1>3, <1>4 DEF Restart, Unreadable

LEMMA DisableInv == ASSUME Inv, Disable PROVE Inv'
<1>1. /\ enabled' = FALSE /\ call' = NoCall /\ UNCHANGED <<clock, version, site, rows, last, answer>>
      /\ mem'.payload = None /\ mem'.next = 0 /\ mem'.err = "none"
  BY DEF Disable, NoMem
<1>2. Recorded' /\ \A u \in Sites : RowOK(u)'
  BY <1>1 DEF Inv, Recorded, RowOK, RowTime, RowTag
<1>3. Types'
  BY <1>1 DEF Inv, Types
<1>4. MemOK'
  BY <1>1 DEF MemOK
<1>5. ErrOK'
  BY <1>1 DEF Inv, ErrOK, IsLatest
<1> QED
  BY <1>1, <1>2, <1>3, <1>4, <1>5, Ended DEF Inv

LEMMA StepInv == ASSUME Inv, Next PROVE Inv'
BY TickInv, ReplaceInv, RelistInv, NotListedInv, StartInv, SaveAttemptInv, RequestInv, NoAnswerInv, NewListInv,
   NotModifiedInv, ProblemInv, MembersInv, SaveRowInv, RestartInv, DisableInv
DEF Next, Refresh, Answer, Save, Boot

LEMMA Invariant == Spec => []Inv
<1>1. Init => Inv
  BY InitInv
<1>2. ASSUME Inv, UNCHANGED vars PROVE Inv'
  BY <1>2 DEF vars, Inv, Types, RowOK, RowTime, RowTag, Recorded, MemOK, CallOK, InTime, Newest, Asking,
              Recording, Apart, SaveOK, Saving, ErrOK, IsLatest
<1>3. ASSUME Inv, [Next]_vars PROVE Inv'
  BY <1>2, <1>3, StepInv
<1> QED
  BY <1>1, <1>3, PTL DEF Spec

(***************************************************************************)
(* The theorems.                                                           *)
(***************************************************************************)

\* A source that reports no error holds the list of its last good answer: its
\* ETag never speaks for another list (Refresh, refresh, NewChannels).
THEOREM ConfirmedHeld == Spec => []ConfirmedIsHeld
<1>1. Inv => ConfirmedIsHeld
  BY DEF Inv, ErrOK, ConfirmedIsHeld
<1> QED
  BY <1>1, Invariant, PTL

\* Only a saved list is published ("never publish uncommitted keys").
OnlySaved == published' \notin {published, None} => \E u \in Sites : rows'[u].payload = published'

THEOREM SavedIsPublished == Spec => PublishedIsSaved
<1>1. ASSUME Inv, Next PROVE OnlySaved
  <2>1. CASE SaveRow
    <3>1. CASE published' = published
      BY <3>1 DEF OnlySaved
    <3>2. CASE published' # published
      <4>1. call.at = "save" /\ Saving /\ rows' = Saved(call.save) /\ published' = Or(call.save.payload, published)
        BY <2>1, <3>2 DEF SaveRow, Saving
      <4>2. published' = call.save.payload /\ call.save.payload # None
        BY <3>2, <4>1 DEF Or
      <4>3. mem.url \in Sites /\ rows'[mem.url].payload = Or(call.save.payload, rows[mem.url].payload)
        BY <1>1, <4>1, SavedRow
      <4> QED
        BY <4>2, <4>3 DEF OnlySaved, Or
    <3> QED
      BY <3>1, <3>2
  <2>2. CASE Restart
    <3>1. published' = mem'.payload /\ rows' = rows
      BY <2>2 DEF Restart
    <3>2. mem'.payload = None \/ \E u \in Sites : mem'.payload = rows[u].payload
      <4>1. mem' = NoMem \/ \E u \in Sites : mem' = Restored(u) \/ mem' = Unreadable(u)
        BY <2>2 DEF Restart, Unreadable
      <4>2. CASE mem' = NoMem
        BY <4>2 DEF NoMem
      <4>3. ASSUME NEW u \in Sites, mem' = Restored(u) \/ mem' = Unreadable(u)
            PROVE  mem'.payload = None \/ mem'.payload = rows[u].payload
        BY <4>3, RestoredFields, UnreadableFields
      <4> QED
        BY <4>1, <4>2, <4>3
    <3> QED
      BY <3>1, <3>2 DEF OnlySaved
  <2>3. CASE Disable
    BY <2>3 DEF Disable, OnlySaved
  <2>4. CASE UNCHANGED published
    BY <2>4 DEF OnlySaved
  <2> QED
    BY <1>1, <2>1, <2>2, <2>3, <2>4
    DEF Next, Tick, Replace, Relist, Refresh, NotListed, Start, SaveAttempt, Request, Answer, NoAnswer, NewList,
        NotModified, Problem, Save, DeleteMembers, AddMembers, Boot
<1>2. ASSUME UNCHANGED vars PROVE OnlySaved
  BY <1>2 DEF vars, OnlySaved
<1> QED
  BY <1>1, <1>2, Invariant, PTL DEF Spec, PublishedIsSaved, OnlySaved

\* Every step is a tick, an allowed request, or nothing to RateLimit.
LEMMA StepKeepsTerms == ASSUME Inv, [Next]_vars PROVE [Terms!Next]_(Terms!vars)
<1>1. CASE Tick
  BY <1>1 DEF Tick, Terms!Next, Terms!Tick
<1>2. CASE Request
  <2>1. Apart(clock) /\ clock \in Nat
    BY <1>2, RequestInv DEF Inv, Types
  <2>2. last = None \/ clock >= last + Allowance
    BY <2>1, ChannelAssumption DEF Apart, Inv, Recorded
  <2> QED
    BY <1>2, <2>2 DEF Request, Terms!Next, Terms!Request, Terms!Allowed
<1>3. CASE UNCHANGED Terms!vars
  BY <1>3
<1>4. CASE UNCHANGED vars
  BY <1>4 DEF vars, Terms!vars
<1> QED
  BY <1>1, <1>2, <1>3, <1>4
  DEF Next, Replace, Relist, Refresh, NotListed, Start, SaveAttempt, Answer, NoAnswer, NewList,
      NotModified, Problem, Save, DeleteMembers, AddMembers, SaveRow, Boot, Restart, Disable, Terms!vars

\* MeshMapper's allowance for the region is kept (refresh, NewChannels): the attempt
\* is in its row before the request, and every new process waits for the latest one.
THEOREM AllowanceKept == Spec => KeepsAllowance
<1>1. Init => Terms!Init
  BY DEF Init, Terms!Init
<1>2. ASSUME Inv, [Next]_vars PROVE [Terms!Next]_(Terms!vars)
  BY <1>2, StepKeepsTerms
<1> QED
  BY <1>1, <1>2, Invariant, PTL DEF Spec, KeepsAllowance, Terms!Spec
=============================================================================
