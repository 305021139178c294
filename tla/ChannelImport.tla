--------------------------- MODULE ChannelImport ----------------------------
(***************************************************************************)
(* One region's imported channel list (internal/meshmapper/channels.go):   *)
(* the task that refreshes it, the rows it is kept in, one per site it was *)
(* read from, and the region's channel members, which are rows of their    *)
(* own.  What the task publishes are the keys of the list.                 *)
(*                                                                         *)
(* MeshMapper, the zone directory and the database are the environment.  A *)
(* site's list is told by the site and a version that is never used again; *)
(* the version is the list's ETag.                                         *)
(***************************************************************************)
EXTENDS Integers

CONSTANTS
  Sites,              \* the site URLs the directory may give for the region
  Interval, Retry,    \* when to ask again, after a success and after a failure
  CallLimit,          \* refreshTimeout
  Allowance,          \* MeshMapper allows one request per region in this time
  RetryAfter,         \* what a 429 or 503 may ask for
  None,
  MaxVersion, MaxClock   \* the bounds on new lists and on time

\* Validate keeps the interval from being shorter than Retry.
ASSUME ChannelAssumption ==
  /\ CallLimit \in Nat /\ Allowance \in Nat /\ Retry \in Nat \ {0} /\ Interval \in Nat /\ RetryAfter \in Nat
  /\ Allowance + CallLimit <= Retry /\ Retry <= Interval
  /\ MaxVersion \in Nat /\ MaxClock \in Nat
  /\ None \notin Int \cup Sites /\ None \notin [site : Sites, version : Nat]

NoTag == -1           \* an empty ETag, which is not NULL

VARIABLES
  clock,
  version,            \* site -> the version of the list it has
  site,               \* where the directory lists the region, or None
  enabled,            \* whether this process imports channels
  mem,                \* the task's source: its site, list, ETag and next attempt
  rows,               \* site -> its row of meshmapper_channel_catalogues
  members,            \* the region's channel members
  published,          \* the list whose keys are published, or None
  call,               \* the task's refresh
  last, asked,        \* when the region was last asked for, and how often
  answer              \* history: the list the last good answer was about

vars == <<clock, version, site, enabled, mem, rows, members, published, call, last, asked, answer>>

ListOf(u) == [site |-> u, version |-> version[u]]

\* Two successive lists of a site share a channel.
Fingerprints(l) == {[site |-> l.site, key |-> k] : k \in {l.version, l.version + 1}}

NoMem == [url |-> None, payload |-> None, etag |-> NoTag, next |-> 0, err |-> "none"]
NoRow == [payload |-> None, etag |-> None, attempted |-> None, next |-> 0, err |-> "none"]
NoCall == [at |-> "idle", now |-> 0, etag |-> NoTag, save |-> NoRow]

Init ==
  /\ clock = 0
  /\ version = [u \in Sites |-> 0]
  /\ site \in Sites \cup {None}
  /\ enabled = TRUE
  /\ mem = NoMem
  /\ rows = [u \in Sites |-> NoRow]
  /\ members = {}
  /\ published = None
  /\ call = NoCall
  /\ last = None /\ asked = 0
  /\ answer = None

Latest(a, b) == IF a > b THEN a ELSE b

Or(a, b) == IF a # None THEN a ELSE b

\* SaveChannelCatalogue's last statement: what the update leaves NULL stays.
Saved(s) ==
  [rows EXCEPT ![mem.url] =
     [payload |-> Or(s.payload, @.payload), etag |-> Or(s.etag, @.etag),
      attempted |-> s.attempted, next |-> s.next, err |-> s.err]]

(***************************************************************************)
(* The environment.                                                        *)
(***************************************************************************)

Tick ==
  /\ clock < MaxClock
  /\ call.at # "idle" => clock < call.now + CallLimit
  /\ clock' = clock + 1
  /\ UNCHANGED <<version, site, enabled, mem, rows, members, published, call, last, asked, answer>>

Replace(u) ==
  /\ version[u] < MaxVersion
  /\ version' = [version EXCEPT ![u] = @ + 1]
  /\ UNCHANGED <<clock, site, enabled, mem, rows, members, published, call, last, asked, answer>>

Relist(u) ==
  /\ u # site /\ site' = u
  /\ UNCHANGED <<clock, version, enabled, mem, rows, members, published, call, last, asked, answer>>

(***************************************************************************)
(* Refresh.  A tick that finds the directory busy does nothing.            *)
(***************************************************************************)

Due == enabled /\ call.at = "idle" /\ clock >= mem.next

NotListed ==
  /\ Due /\ site = None
  /\ mem' = [mem EXCEPT !.next = clock + Interval, !.err = "not listed"]
  /\ UNCHANGED <<clock, version, site, enabled, rows, members, published, call, last, asked, answer>>

\* Mutant: a site that moved keeps its ETag.
TagAtAny(u) == mem.etag

\* A site's ETag says nothing of another site's list.
TagAt(u) == IF mem.url = u THEN mem.etag ELSE NoTag

Attempt == [NoRow EXCEPT !.attempted = clock, !.next = clock + Retry, !.err = "no response"]

Start ==
  /\ Due /\ site # None
  /\ mem' = [mem EXCEPT !.url = site, !.etag = TagAt(site), !.next = clock + Retry]
  /\ call' = [at |-> "attempt", now |-> clock, save |-> Attempt,
              etag |-> IF mem.payload = None THEN NoTag ELSE TagAt(site)]
  /\ UNCHANGED <<clock, version, site, enabled, rows, members, published, last, asked, answer>>

(***************************************************************************)
(* refresh.  A statement that fails may have been applied.                 *)
(***************************************************************************)

\* Mutant: the attempt is only recorded in memory.
NoAttempt ==
  /\ call.at = "attempt"
  /\ mem' = [mem EXCEPT !.err = "no response"] /\ call' = [call EXCEPT !.at = "request"]
  /\ UNCHANGED <<clock, version, site, enabled, rows, members, published, last, asked, answer>>

SaveAttempt ==
  /\ call.at = "attempt"
  /\ \/ /\ rows' = Saved(call.save)
        /\ mem' = [mem EXCEPT !.err = "no response"] /\ call' = [call EXCEPT !.at = "request"]
     \/ rows' \in {rows, Saved(call.save)} /\ call' = NoCall /\ mem' = mem
  /\ UNCHANGED <<clock, version, site, enabled, members, published, last, asked, answer>>

Request ==
  /\ call.at = "request"
  /\ last' = clock /\ asked' = asked + 1
  /\ call' = [call EXCEPT !.at = "sent"]
  /\ UNCHANGED <<clock, version, site, enabled, mem, rows, members, published, answer>>

\* The context ends before an answer.
NoAnswer ==
  /\ call.at = "sent"
  /\ call' = NoCall
  /\ UNCHANGED <<clock, version, site, enabled, mem, rows, members, published, last, asked, answer>>

ToSave(step, s) == call' = [call EXCEPT !.at = step, !.save = s]

Good(payload, etag) ==
  [payload |-> payload, etag |-> etag, attempted |-> call.now, next |-> call.now + Interval, err |-> ""]

\* A new list, with an ETag or without.
NewList ==
  /\ call.at = "sent"
  /\ \E etag \in {version[mem.url], NoTag} : ToSave("delete", Good(ListOf(mem.url), etag))
  /\ answer' = ListOf(mem.url)
  /\ UNCHANGED <<clock, version, site, enabled, mem, rows, members, published, last, asked>>

\* A 304 confirms the list whose ETag was sent.
NotModified ==
  /\ call.at = "sent" /\ call.etag = version[mem.url]
  /\ ToSave("save", Good(None, mem.etag))
  /\ answer' = ListOf(mem.url)
  /\ UNCHANGED <<clock, version, site, enabled, mem, rows, members, published, last, asked>>

\* Anything else is a problem; a 429 or 503 may put off the next attempt.
Problem ==
  /\ call.at = "sent"
  /\ \E next \in {call.now + Retry, Latest(call.now + Retry, call.now + RetryAfter)} :
       ToSave("save", [NoRow EXCEPT !.attempted = call.now, !.next = next, !.err = "problem"])
  /\ UNCHANGED <<clock, version, site, enabled, mem, rows, members, published, last, asked, answer>>

(***************************************************************************)
(* SaveChannelCatalogue, with a payload: the members first.                *)
(***************************************************************************)

SaveFailed == mem' = [mem EXCEPT !.next = call.save.next] /\ call' = NoCall

DeleteMembers ==
  LET kept == members \cap Fingerprints(call.save.payload) IN
  /\ call.at = "delete"
  /\ \/ members' = kept /\ call' = [call EXCEPT !.at = "add"] /\ mem' = mem
     \/ members' \in {members, kept} /\ SaveFailed
  /\ UNCHANGED <<clock, version, site, enabled, rows, published, last, asked, answer>>

AddMembers ==
  LET all == members \cup Fingerprints(call.save.payload) IN
  /\ call.at = "add"
  /\ \/ members' = all /\ call' = [call EXCEPT !.at = "save"] /\ mem' = mem
     \/ members' \in {members, all} /\ SaveFailed
  /\ UNCHANGED <<clock, version, site, enabled, rows, published, last, asked, answer>>

\* The task takes over what was saved, and publishes a new list.
SaveRow ==
  LET s == call.save IN
  /\ call.at = "save"
  /\ \/ /\ rows' = Saved(s)
        /\ mem' = [mem EXCEPT !.payload = Or(s.payload, @), !.etag = Or(s.etag, @), !.next = s.next, !.err = s.err]
        /\ published' = Or(s.payload, published)
        /\ call' = NoCall
     \/ rows' \in {rows, Saved(s)} /\ SaveFailed /\ published' = published
  /\ UNCHANGED <<clock, version, site, enabled, members, last, asked, answer>>

(***************************************************************************)
(* A new process.                                                          *)
(***************************************************************************)

IsLatest(u) ==
  /\ rows[u].attempted # None
  /\ \A w \in Sites : rows[w].attempted # None => rows[w].attempted <= rows[u].attempted

Restored(u) ==
  [url |-> u, payload |-> rows[u].payload, etag |-> Or(rows[u].etag, NoTag),
   next |-> rows[u].next, err |-> rows[u].err]

\* NewChannels: the latest attempt wins, without a list it cannot decode.
Restart ==
  /\ enabled' = TRUE
  /\ \/ mem' = NoMem /\ \A u \in Sites : rows[u].attempted = None
     \/ \E u \in Sites :
          /\ IsLatest(u)
          /\ \/ mem' = Restored(u)
             \/ /\ rows[u].payload # None
                /\ mem' = [Restored(u) EXCEPT !.payload = None, !.etag = NoTag, !.err = "invalid"]
  /\ published' = mem'.payload
  /\ call' = NoCall
  /\ UNCHANGED <<clock, version, site, rows, members, last, asked, answer>>

\* NewChannels, channels turned off in the configuration.
Disable ==
  /\ enabled' = FALSE
  /\ mem' = NoMem /\ published' = None /\ call' = NoCall
  /\ members' = {}
  /\ UNCHANGED <<clock, version, site, rows, last, asked, answer>>

Boot == Restart \/ Disable

Refresh == NotListed \/ Start \/ SaveAttempt \/ Request

Answer == NoAnswer \/ NewList \/ NotModified \/ Problem

Save == DeleteMembers \/ AddMembers \/ SaveRow

Next ==
  \/ Tick \/ (\E u \in Sites : Replace(u)) \/ (\E u \in Sites \cup {None} : Relist(u))
  \/ Refresh \/ Answer \/ Save
  \/ Boot

Spec == Init /\ [][Next]_vars

(***************************************************************************)
(* Properties.                                                             *)
(***************************************************************************)

Terms == INSTANCE RateLimit

\* The region is never asked for twice within MeshMapper's allowance, through
\* failed saves, problems, moves of the site and restarts (refresh, NewChannels).
KeepsAllowance == Terms!Spec

\* A source that reports no error holds the very list its last good answer was
\* about: a 304 never confirms another list, at whichever site, from whichever row
\* it was restored (Refresh clears a moved site's ETag; the row keeps what a 304
\* or an error leaves NULL).
ConfirmedIsHeld == mem.err = "" => mem.payload = answer

\* The keys of a list are published only once its row has it ("never publish
\* uncommitted keys").
PublishedIsSaved ==
  [][published' \notin {published, None} => \E u \in Sites : rows'[u].payload = published']_vars

\* A source that reports no error has its list's channels as the region's members
\* ("An IATA filter lists channels MeshMapper lists there").
MembersMatch ==
  call.at = "idle" /\ mem.err = "" => members = Fingerprints(mem.payload)
=============================================================================
