--------------------------- MODULE DirectoryProofs ---------------------------
(***************************************************************************)
(* MeshMapper's allowance for a country is kept, for any tasks and any     *)
(* times that satisfy DirectoryAssumption: Spec implements RateLimit.      *)
(***************************************************************************)
EXTENDS Directory, TLAPS

InFlight(t) == call[t].at \in {"attempt", "request", "sent", "save", "done"}

\* What the argument needs of the types.
Shape ==
  /\ clock \in Nat /\ last \in Nat \cup {None}
  /\ list.next \in Nat /\ list.fetching \in BOOLEAN /\ row.next \in Nat
  /\ DOMAIN call = Tasks
  /\ \A t \in Tasks : call[t].now \in Nat /\ call[t].now <= clock /\ call[t].save.next \in Nat

\* Whatever says when to try again is at least an allowance after the last request.
Apart(n) == last = None \/ last + Allowance <= n

\* The request in flight is the only one, may still be sent, and neither memory
\* nor the row lets anyone else ask too early after it.
CallOK(t) ==
  /\ call[t].at # "idle" => clock <= call[t].now + CallLimit
  /\ InFlight(t) => list.fetching
  /\ call[t].at \in {"attempt", "request"} =>
       /\ Apart(call[t].now)
       /\ call[t].now + Fresh <= list.next /\ call[t].now + Fresh <= call[t].save.next
  /\ call[t].at = "request" => call[t].now + Fresh <= row.next
  /\ call[t].at = "save" => Apart(call[t].save.next)

OneFlight == \A t, u \in Tasks : InFlight(t) /\ InFlight(u) => t = u

BudgetInv ==
  /\ Shape
  /\ Apart(list.next) /\ Apart(row.next)
  /\ OneFlight
  /\ \A t \in Tasks : CallOK(t)

LEMMA InitBudget == Init => BudgetInv
BY DirectoryAssumption
DEF Init, BudgetInv, Shape, Apart, OneFlight, CallOK, InFlight, NoList, NoRow, NoCall

\* A task's step changes nobody else's call.
Others(t) == \A u \in Tasks : u # t => call'[u] = call[u]

LEMMA OneCall ==
  ASSUME BudgetInv, NEW t \in Tasks, Others(t),
         call'[t].now \in Nat, call'[t].now <= clock, call'[t].save.next \in Nat
  PROVE  \A u \in Tasks : call'[u].now \in Nat /\ call'[u].now <= clock /\ call'[u].save.next \in Nat
<1> SUFFICES ASSUME NEW u \in Tasks
    PROVE call'[u].now \in Nat /\ call'[u].now <= clock /\ call'[u].save.next \in Nat
  OBVIOUS
<1>1. CASE u = t
  BY <1>1
<1>2. CASE u # t
  <2>1. call'[u] = call[u]
    BY <1>2 DEF Others
  <2> QED
    BY <2>1 DEF BudgetInv, Shape
<1> QED
  BY <1>1, <1>2

LEMMA StepBudget ==
  ASSUME BudgetInv, NEW t \in Tasks, clock' = clock, last' = last,
         Shape', Others(t), Apart(list.next)', Apart(row.next)',
         list.fetching' = list.fetching \/ ~(\E u \in Tasks \ {t} : InFlight(u)),
         \A u \in Tasks \ {t} : InFlight(u) => list.next' = list.next /\ row.next' = row.next,
         InFlight(t)' => InFlight(t) \/ ~(\E u \in Tasks : InFlight(u)),
         CallOK(t)'
  PROVE  BudgetInv'
<1>1. OneFlight'
  BY DEF BudgetInv, OneFlight, InFlight, Others
<1>2. ASSUME NEW u \in Tasks PROVE CallOK(u)'
  <2>1. CASE u = t
    BY <2>1
  <2>2. CASE u # t /\ InFlight(u)
    <3>1. call'[u] = call[u] /\ CallOK(u) /\ list.fetching' = list.fetching
          /\ list.next' = list.next /\ row.next' = row.next
      BY <2>2 DEF Others, BudgetInv
    <3> QED
      BY <3>1 DEF CallOK, InFlight, Apart
  <2>3. CASE u # t /\ ~InFlight(u)
    <3>1. call'[u] = call[u] /\ CallOK(u)
      BY <2>3 DEF Others, BudgetInv
    <3> QED
      BY <2>3, <3>1 DEF CallOK, InFlight, Apart
  <2> QED
    BY <2>1, <2>2, <2>3
<1> QED
  BY <1>1, <1>2 DEF BudgetInv

LEMMA Elsewhere ==
  ASSUME BudgetInv, NEW t \in Tasks, InFlight(t)
  PROVE  ~(\E u \in Tasks \ {t} : InFlight(u))
BY DEF BudgetInv, OneFlight

LEMMA ListBudget ==
  ASSUME BudgetInv, NEW t \in Tasks, Begin(t) \/ List(t)
  PROVE  BudgetInv'
<1> DEFINE now == call[t].now
<1>0. /\ clock \in Nat /\ now \in Nat /\ now <= clock /\ list.next \in Nat
      /\ DOMAIN call = Tasks /\ CallOK(t)
  BY DEF BudgetInv, Shape
<1>1. CASE Begin(t)
  <2>1. /\ call' = [call EXCEPT ![t] = [NoCall EXCEPT !.at = "list", !.now = clock]]
        /\ ~InFlight(t) /\ UNCHANGED <<clock, last, list, row>>
    BY <1>1 DEF Begin, InFlight
  <2>2. /\ Others(t) /\ DOMAIN call' = Tasks
        /\ call'[t].at = "list" /\ call'[t].now = clock /\ call'[t].save.next = 0
    BY <1>0, <2>1 DEF Others, NoCall, NoRow
  <2>3. Shape'
    <3>1. \A u \in Tasks : call'[u].now \in Nat /\ call'[u].now <= clock /\ call'[u].save.next \in Nat
      BY <1>0, <2>2, OneCall
    <3> QED
      BY <2>1, <2>2, <3>1 DEF BudgetInv, Shape
  <2>4. CallOK(t)' /\ ~InFlight(t)'
    BY <1>0, <2>1, <2>2, DirectoryAssumption DEF CallOK, InFlight
  <2> QED
    BY <2>1, <2>2, <2>3, <2>4, StepBudget DEF BudgetInv, Apart
<1>2. CASE Serve(t) \/ BackOff(t)
  <2>5. call' \in {call, [call EXCEPT ![t] = NoCall]} /\ UNCHANGED <<clock, last, list, row>> /\ ~InFlight(t)
    BY <1>2 DEF Serve, BackOff, GoesOn, InFlight
  <2>6. CASE call' = call
    BY <2>5, <2>6 DEF BudgetInv, Shape, Apart, OneFlight, CallOK, InFlight
  <2> SUFFICES ASSUME call' = [call EXCEPT ![t] = NoCall] PROVE BudgetInv'
    BY <2>5, <2>6
  <2>1. call' = [call EXCEPT ![t] = NoCall] /\ UNCHANGED <<clock, last, list, row>> /\ ~InFlight(t)
    BY <2>5
  <2>2. call'[t] = NoCall /\ Others(t)
    BY <1>0, <2>1 DEF Others
  <2>3. Shape'
    BY <2>1, <2>2 DEF BudgetInv, Shape, Others, NoCall, NoRow
  <2>4. CallOK(t)' /\ ~InFlight(t)'
    BY <2>2 DEF CallOK, InFlight, NoCall
  <2> QED
    BY <2>1, <2>2, <2>3, <2>4, StepBudget DEF BudgetInv, Apart
<1>3. CASE Claim(t)
  <2> DEFINE s == [NoRow EXCEPT !.next = now + Fresh]
  <2> DEFINE c == [call[t] EXCEPT !.at = "attempt", !.etag = list.etag, !.save = s]
  <2>0. now + Fresh \in Nat
    BY <1>0, DirectoryAssumption
  <2>1. call'[t] = [call[t] EXCEPT !.at = "attempt", !.etag = list.etag, !.save = s] /\ Others(t)
    BY <1>0, <1>3 DEF Claim, Others
  <2>2. list.next' = now + Fresh /\ list.fetching' = TRUE /\ UNCHANGED <<clock, last, row>>
    BY <1>3 DEF Claim
  <2>3. ~list.fetching /\ list.next <= now /\ call[t].at = "list"
    BY <1>0, <1>3 DEF Claim, MustWait
  <2>4. call'[t].at = "attempt" /\ call'[t].now = now /\ call'[t].save.next = now + Fresh
    BY <1>0, <1>3 DEF Claim, NoRow
  <2>5. ~(\E u \in Tasks : InFlight(u))
    BY <2>3 DEF BudgetInv, CallOK
  <2>6. Shape'
    <3>1. \A u \in Tasks : call'[u].now \in Nat /\ call'[u].now <= clock /\ call'[u].save.next \in Nat
      BY <1>0, <2>1, <2>4, <2>0, OneCall
    <3>2. DOMAIN call' = Tasks
      BY <1>0, <1>3 DEF Claim
    <3> QED
      BY <2>0, <2>2, <3>1, <3>2 DEF BudgetInv, Shape
  <2>7. Apart(now) /\ Apart(now + Fresh)
    BY <1>0, <2>3, DirectoryAssumption DEF BudgetInv, Shape, Apart
  <2>8. CallOK(t)'
    BY <1>0, <2>2, <2>3, <2>4, <2>7, DirectoryAssumption DEF CallOK, InFlight, Apart
  <2>9. Apart(list.next)' /\ Apart(row.next)'
    BY <2>2, <2>7 DEF Apart, BudgetInv
  <2> QED
    BY <2>1, <2>2, <2>5, <2>6, <2>8, <2>9, StepBudget DEF InFlight
<1> QED
  BY <1>1, <1>2, <1>3 DEF List

\* A fetch's step other than the request itself.
LEMMA FetchBudget ==
  ASSUME BudgetInv, NEW t \in Tasks, Fetch(t), ~Request(t)
  PROVE  BudgetInv'
<1> DEFINE now == call[t].now
<1> DEFINE save == call[t].save
<1>0. /\ clock \in Nat /\ now \in Nat /\ now <= clock /\ list.next \in Nat /\ row.next \in Nat
      /\ save.next \in Nat /\ DOMAIN call = Tasks /\ CallOK(t)
      /\ Apart(list.next) /\ Apart(row.next)
  BY DEF BudgetInv, Shape
<1>1. InFlight(t) /\ list.fetching
  BY <1>0 DEF Fetch, SaveAttempt, Answer, NoAnswer, NewList, NotModified, Problem, SaveResult, Done,
              Request, InFlight, CallOK
<1>2. ~(\E u \in Tasks \ {t} : InFlight(u))
  BY <1>1, Elsewhere
<1>3. clock' = clock /\ last' = last
  BY DEF Fetch, SaveAttempt, Answer, NoAnswer, NewList, NotModified, Problem, SaveResult, Done, Request
<1>4. Saved(save).next = save.next
  BY DEF Saved
<1>5. ASSUME list.next' \in Nat, list.fetching' \in BOOLEAN, row.next' \in Nat,
             Apart(list.next)', Apart(row.next)',
             Others(t), DOMAIN call' = Tasks,
             call'[t].now \in Nat, call'[t].now <= clock, call'[t].save.next \in Nat, CallOK(t)'
      PROVE  BudgetInv'
  <2>1. Shape'
    BY <1>0, <1>3, <1>5 DEF BudgetInv, Shape, Others
  <2> QED
    BY <1>1, <1>2, <1>3, <1>5, <2>1, StepBudget
<1>6. CASE SaveAttempt(t)
  <2>1. UNCHANGED list /\ row' \in {row, Saved(save)} /\ call[t].at = "attempt"
    BY <1>6 DEF SaveAttempt
  <2>2. Apart(now) /\ now + Fresh <= list.next /\ now + Fresh <= save.next
    BY <1>0, <2>1 DEF CallOK
  <2>3. row.next' \in Nat /\ Apart(row.next)'
    BY <1>0, <1>3, <1>4, <2>1, <2>2, DirectoryAssumption DEF Apart, BudgetInv, Shape
  <2>4. CASE row' = Saved(save) /\ call' = [call EXCEPT ![t].at = "request"]
    <3>1. Others(t) /\ call'[t].at = "request" /\ call'[t].now = now /\ call'[t].save = save
          /\ DOMAIN call' = Tasks
      BY <1>0, <2>4 DEF Others
    <3>2. CallOK(t)'
      BY <1>0, <1>1, <1>3, <1>4, <2>1, <2>2, <2>4, <3>1 DEF CallOK, InFlight, Apart
    <3> QED
      BY <1>0, <1>1, <1>3, <1>5, <2>1, <2>3, <3>1, <3>2 DEF Apart
  <2>5. CASE call' = [call EXCEPT ![t].at = "done"]
    <3>1. Others(t) /\ call'[t].at = "done" /\ call'[t].now = now /\ call'[t].save = save
          /\ DOMAIN call' = Tasks
      BY <1>0, <2>5 DEF Others
    <3>2. CallOK(t)'
      BY <1>0, <1>1, <1>3, <2>1, <3>1 DEF CallOK, InFlight
    <3> QED
      BY <1>0, <1>1, <1>3, <1>5, <2>1, <2>3, <3>1, <3>2 DEF Apart
  <2> QED
    BY <1>6, <2>4, <2>5 DEF SaveAttempt
<1>7. CASE NoAnswer(t) \/ SaveResult(t)
  <2>1. UNCHANGED list /\ call' = [call EXCEPT ![t].at = "done"]
    BY <1>7 DEF NoAnswer, SaveResult
  <2>2. Others(t) /\ call'[t].at = "done" /\ call'[t].now = now /\ call'[t].save = save
        /\ DOMAIN call' = Tasks
    BY <1>0, <2>1 DEF Others
  <2>3. row.next' \in Nat /\ Apart(row.next)'
    <3>1. CASE NoAnswer(t)
      BY <1>0, <1>3, <3>1 DEF NoAnswer, Apart
    <3>2. CASE SaveResult(t)
      <4>1. row' \in {row, Saved(save)} /\ Apart(save.next)
        BY <1>0, <3>2 DEF SaveResult, CallOK
      <4> QED
        BY <1>0, <1>3, <1>4, <4>1 DEF Apart
    <3> QED
      BY <1>7, <3>1, <3>2
  <2>4. CallOK(t)'
    BY <1>0, <1>1, <1>3, <2>1, <2>2 DEF CallOK, InFlight
  <2> QED
    BY <1>0, <1>1, <1>3, <1>5, <2>1, <2>2, <2>3, <2>4 DEF Apart
<1>8. CASE NewList(t) \/ NotModified(t) \/ Problem(t)
  <2>0. PICK n \in Nat : \E s :
          /\ list.next <= n /\ list.next' = n /\ list.fetching' = list.fetching
          /\ s.next = n /\ ToSave(t, s) /\ row' = row
    <3>1. CASE NewList(t)
      BY <1>0, <3>1 DEF NewList
    <3>2. CASE NotModified(t)
      BY <1>0, <3>2 DEF NotModified
    <3>3. CASE Problem(t)
      <4>1. PICK n \in {list.next, Latest(list.next, now + RetryAfter)} :
              /\ list' = [list EXCEPT !.next = n]
              /\ ToSave(t, [NoRow EXCEPT !.next = n]) /\ row' = row
        BY <3>3 DEF Problem
      <4>2. n \in Nat /\ list.next <= n
        BY <1>0, <4>1, DirectoryAssumption DEF Latest
      <4>3. [NoRow EXCEPT !.next = n].next = n
        BY DEF NoRow
      <4>4. list.next' = n /\ list.fetching' = list.fetching
        BY <3>3, <4>1 DEF BudgetInv, Shape
      <4> QED
        BY <4>1, <4>2, <4>3, <4>4
    <3> QED
      BY <1>8, <3>1, <3>2, <3>3
  <2>1. PICK s :
          /\ list.next <= n /\ list.next' = n /\ list.fetching' = list.fetching
          /\ s.next = n /\ ToSave(t, s) /\ row' = row
    BY <2>0
  <2>2. Others(t) /\ call'[t].at = "save" /\ call'[t].now = now /\ call'[t].save = s
        /\ DOMAIN call' = Tasks
    BY <1>0, <2>1 DEF Others, ToSave
  <2>3. Apart(n)
    BY <1>0, <2>1, DirectoryAssumption DEF Apart, BudgetInv, Shape
  <2>4. CallOK(t)'
    BY <1>0, <1>1, <1>3, <2>1, <2>2, <2>3 DEF CallOK, InFlight, Apart
  <2> QED
    BY <1>0, <1>1, <1>3, <1>5, <2>1, <2>2, <2>3, <2>4 DEF Apart
<1>9. CASE Done(t)
  <2>1. /\ list.next' = list.next /\ list.fetching' = FALSE /\ row' = row
        /\ call' = [call EXCEPT ![t] = NoCall]
    BY <1>9 DEF Done, BudgetInv, Shape
  <2>2. Others(t) /\ call'[t] = NoCall /\ DOMAIN call' = Tasks
    BY <1>0, <2>1 DEF Others
  <2>3. Shape'
    <3>1. call'[t].now = 0 /\ call'[t].save.next = 0
      BY <2>2 DEF NoCall, NoRow
    <3>2. \A u \in Tasks : call'[u].now \in Nat /\ call'[u].now <= clock /\ call'[u].save.next \in Nat
      BY <1>0, <2>2, <3>1, OneCall
    <3> QED
      BY <1>3, <2>1, <2>2, <3>2 DEF BudgetInv, Shape
  <2>4. CallOK(t)' /\ ~InFlight(t)'
    BY <2>2 DEF CallOK, InFlight, NoCall
  <2>5. Apart(list.next)' /\ Apart(row.next)'
    BY <1>0, <1>3, <2>1 DEF Apart
  <2> QED
    BY <1>2, <1>3, <2>1, <2>2, <2>3, <2>4, <2>5, StepBudget
<1> QED
  BY <1>6, <1>7, <1>8, <1>9 DEF Fetch, Answer

\* The request is allowed, and what was written ahead of it puts off the next one.
LEMMA RequestBudget ==
  ASSUME BudgetInv, NEW t \in Tasks, Request(t)
  PROVE  BudgetInv' /\ (last = None \/ clock >= last + Allowance)
<1> DEFINE now == call[t].now
<1>0. /\ clock \in Nat /\ now \in Nat /\ now <= clock /\ list.next \in Nat /\ row.next \in Nat
      /\ last \in Nat \cup {None}
      /\ call[t].save.next \in Nat /\ DOMAIN call = Tasks /\ CallOK(t) /\ call[t].at = "request"
  BY DEF BudgetInv, Shape, Request
<1>1. /\ call' = [call EXCEPT ![t].at = "sent"] /\ last' = clock
      /\ UNCHANGED <<clock, list, row>>
  BY DEF Request
<1>2. InFlight(t) /\ ~(\E u \in Tasks \ {t} : InFlight(u))
  BY <1>0, Elsewhere DEF InFlight
<1>3. /\ Apart(now) /\ clock <= now + CallLimit
      /\ now + Fresh <= list.next /\ now + Fresh <= row.next
  BY <1>0 DEF CallOK
<1>4. clock + Allowance <= list.next /\ clock + Allowance <= row.next
  BY <1>0, <1>3, DirectoryAssumption
<1>5. /\ Others(t) /\ DOMAIN call' = Tasks
      /\ call'[t].at = "sent" /\ call'[t].now = now /\ call'[t].save = call[t].save
  BY <1>0, <1>1 DEF Others
<1>6. Shape'
  <2>1. \A u \in Tasks : call'[u].now \in Nat /\ call'[u].now <= clock /\ call'[u].save.next \in Nat
    BY <1>0, <1>5, OneCall
  <2> QED
    BY <1>0, <1>1, <1>5, <2>1 DEF BudgetInv, Shape
<1>7. Apart(list.next)' /\ Apart(row.next)'
  BY <1>1, <1>4 DEF Apart
<1>8. OneFlight'
  BY <1>2, <1>5 DEF OneFlight, InFlight, Others
<1>9. ASSUME NEW u \in Tasks PROVE CallOK(u)'
  <2>1. CASE u = t
    BY <2>1, <1>0, <1>1, <1>2, <1>3, <1>5 DEF CallOK, InFlight
  <2>2. CASE u # t
    <3>1. call'[u] = call[u] /\ CallOK(u) /\ ~InFlight(u)
      BY <2>2, <1>2, <1>5 DEF Others, BudgetInv
    <3> QED
      BY <1>1, <3>1 DEF CallOK, InFlight
  <2> QED
    BY <2>1, <2>2
<1>10. last = None \/ clock >= last + Allowance
  BY <1>0, <1>3, DirectoryAssumption DEF Apart
<1> QED
  BY <1>6, <1>7, <1>8, <1>9, <1>10 DEF BudgetInv

LEMMA TickBudget == ASSUME BudgetInv, Tick PROVE BudgetInv'
<1>1. clock' = clock + 1 /\ UNCHANGED <<list, row, call, last>>
  BY DEF Tick
<1>2. Shape'
  BY <1>1 DEF BudgetInv, Shape
<1>3. ASSUME NEW t \in Tasks PROVE CallOK(t)'
  <2>1. CallOK(t) /\ clock \in Nat /\ call[t].now \in Nat
    BY DEF BudgetInv, Shape
  <2>2. call[t].at # "idle" => clock + 1 <= call[t].now + CallLimit
    BY <2>1, DirectoryAssumption DEF Tick
  <2> QED
    BY <1>1, <2>1, <2>2 DEF CallOK, InFlight, Apart
<1>4. OneFlight' /\ Apart(list.next)' /\ Apart(row.next)'
  BY <1>1 DEF BudgetInv, OneFlight, InFlight, Apart
<1> QED
  BY <1>2, <1>3, <1>4 DEF BudgetInv

\* A restart remembers what the row says of the next attempt.
LEMMA RestartBudget == ASSUME BudgetInv, Restart PROVE BudgetInv'
<1>1. /\ list.next' = row.next /\ list.fetching' = FALSE
      /\ UNCHANGED <<clock, row, last>> /\ call' = [t \in Tasks |-> NoCall]
  BY DEF Restart, NoList
<1>2. \A t \in Tasks : call'[t].at = "idle" /\ call'[t].now = 0 /\ call'[t].save.next = 0
  BY <1>1 DEF NoCall, NoRow
<1>3. Shape'
  <2>1. clock \in Nat /\ last \in Nat \cup {None} /\ row.next \in Nat
    BY DEF BudgetInv, Shape
  <2>2. DOMAIN call' = Tasks
    BY <1>1
  <2>3. \A t \in Tasks : call'[t].now \in Nat /\ call'[t].now <= clock' /\ call'[t].save.next \in Nat
    BY <1>1, <1>2, <2>1
  <2>4. clock' \in Nat /\ last' \in Nat \cup {None} /\ row'.next \in Nat
        /\ list'.next \in Nat /\ list'.fetching \in BOOLEAN
    BY <1>1, <2>1
  <2> QED
    BY <2>2, <2>3, <2>4 DEF Shape
<1>4. OneFlight' /\ (\A t \in Tasks : CallOK(t)')
  BY <1>2 DEF OneFlight, CallOK, InFlight
<1>5. Apart(list.next)' /\ Apart(row.next)'
  BY <1>1 DEF BudgetInv, Apart
<1> QED
  BY <1>3, <1>4, <1>5 DEF BudgetInv

LEMMA Budget == Spec => []BudgetInv
<1>1. Init => BudgetInv
  BY InitBudget
<1>2. ASSUME BudgetInv, [Next]_vars PROVE BudgetInv'
  <2>1. CASE Tick
    BY <1>2, <2>1, TickBudget
  <2>2. CASE Replace \/ UNCHANGED vars
    BY <1>2, <2>2 DEF Replace, vars, BudgetInv, Shape, Apart, OneFlight, CallOK, InFlight
  <2>3. CASE Restart
    BY <1>2, <2>3, RestartBudget
  <2>4. ASSUME NEW t \in Tasks, Begin(t) \/ List(t) PROVE BudgetInv'
    BY <1>2, <2>4, ListBudget
  <2>5. ASSUME NEW t \in Tasks, Fetch(t) PROVE BudgetInv'
    <3>1. CASE Request(t)
      BY <1>2, <3>1, RequestBudget
    <3>2. CASE ~Request(t)
      BY <1>2, <2>5, <3>2, FetchBudget
    <3> QED
      BY <3>1, <3>2
  <2> HIDE DEF BudgetInv
  <2> QED
    BY <1>2, <2>1, <2>2, <2>3, <2>4, <2>5 DEF Next
<1> QED
  BY <1>1, <1>2, PTL DEF Spec

\* Every step is a tick, an allowed request, or nothing to RateLimit.
LEMMA StepKeepsTerms ==
  ASSUME BudgetInv, [Next]_vars
  PROVE  [Terms!Next]_(Terms!vars)
<1>1. CASE Tick
  BY <1>1 DEF Tick, Terms!Next, Terms!Tick
<1>2. CASE Replace \/ Restart \/ UNCHANGED vars
  BY <1>2 DEF Replace, Restart, vars, Terms!vars
<1>3. ASSUME NEW t \in Tasks, Begin(t) \/ List(t) PROVE UNCHANGED Terms!vars
  BY <1>3 DEF Begin, List, Serve, BackOff, Claim, Terms!vars
<1>4. ASSUME NEW t \in Tasks, Fetch(t) PROVE [Terms!Next]_(Terms!vars)
  <2>1. CASE Request(t)
    BY <2>1, RequestBudget DEF Request, Terms!Next, Terms!Request, Terms!Allowed
  <2>2. CASE ~Request(t)
    BY <1>4, <2>2 DEF Fetch, SaveAttempt, Answer, NoAnswer, NewList, NotModified, Problem, SaveResult, Done,
                      Terms!vars
  <2> QED
    BY <2>1, <2>2
<1> QED
  BY <1>1, <1>2, <1>3, <1>4 DEF Next

\* MeshMapper's allowance for the country is kept (List, fetch, Restore): a fetch
\* writes the next attempt to memory and to the row before it asks, further away
\* than the allowance and its own time limit together.
THEOREM AllowanceKept == Spec => KeepsAllowance
<1>1. Init => Terms!Init
  BY DEF Init, Terms!Init
<1>2. ASSUME BudgetInv, [Next]_vars PROVE [Terms!Next]_(Terms!vars)
  BY <1>2, StepKeepsTerms
<1> QED
  BY <1>1, <1>2, Budget, PTL DEF Spec, KeepsAllowance, Terms!Spec

KeepsLastGood ==
  /\ row.payload # None => row'.payload # None
  /\ list.zones # None /\ list'.zones = None => ~list'.fetching /\ \A t \in Tasks : call'[t] = NoCall

Versions == clock \in Nat /\ replaced \in Seq(Nat)

LEMMA Versioned == Spec => []Versions
<1>1. Init => Versions
  BY DEF Init, Versions
<1>2. Versions /\ [Next]_vars => Versions'
  <2> SUFFICES ASSUME Versions, [Next]_vars PROVE Versions'
    OBVIOUS
  <2>1. CASE Tick \/ Replace \/ Restart \/ UNCHANGED vars
    BY <2>1 DEF Tick, Replace, Restart, vars, Versions
  <2>2. ASSUME NEW t \in Tasks, Begin(t) \/ List(t) \/ Fetch(t) PROVE UNCHANGED <<clock, replaced>>
    BY <2>2 DEF Begin, List, Serve, BackOff, Claim, Fetch, SaveAttempt, Request, Answer, NoAnswer, NewList,
                NotModified, Problem, SaveResult, Done
  <2> QED
    BY <2>1, <2>2 DEF Next, Versions
<1> QED
  BY <1>1, <1>2, PTL DEF Spec

\* What a failed refresh, a failed save or a restart can do to the stored list
\* (SaveZoneList, Restore): nothing but a restart that cannot decode it.
THEOREM LastGoodIsKept == Spec => LastGoodKept
<1>1. ASSUME Versions, Next PROVE KeepsLastGood
  <2>1. CASE Tick \/ Replace
    BY <2>1 DEF Tick, Replace, KeepsLastGood
  <2>2. CASE Restart
    <3>1. list'.fetching = FALSE /\ row' = row /\ call' = [t \in Tasks |-> NoCall]
      BY <2>2 DEF Restart, NoList
    <3> QED
      BY <3>1 DEF KeepsLastGood
  <2>3. ASSUME NEW t \in Tasks, Begin(t) \/ List(t) PROVE KeepsLastGood
    <3>1. row' = row
      BY <2>3 DEF Begin, List, Serve, BackOff, Claim
    <3>2. CASE Claim(t)
      BY <3>1, <3>2 DEF Claim, KeepsLastGood
    <3>3. CASE Begin(t) \/ Serve(t) \/ BackOff(t)
      BY <3>1, <3>3 DEF Begin, Serve, BackOff, KeepsLastGood
    <3> QED
      BY <2>3, <3>2, <3>3 DEF List
  <2>4. ASSUME NEW t \in Tasks, Fetch(t) PROVE KeepsLastGood
    <3>1. row' \in {row, Saved(call[t].save)}
      BY <2>4 DEF Fetch, SaveAttempt, Request, Answer, NoAnswer, NewList, NotModified, Problem, SaveResult, Done
    <3>2. row.payload # None => row'.payload # None
      BY <3>1 DEF Saved, Or
    <3>3. Current # None
      BY <1>1, DirectoryAssumption DEF Current, Versions
    <3>4. list'.zones \in {list.zones, Current}
      <4>1. CASE SaveAttempt(t) \/ Request(t) \/ NoAnswer(t) \/ SaveResult(t)
        BY <4>1 DEF SaveAttempt, Request, NoAnswer, SaveResult
      <4>2. CASE NewList(t)
        BY <4>2 DEF NewList
      <4>3. CASE NotModified(t)
        <5>1. list' = [list EXCEPT !.fetched = call[t].now]
          BY <4>3 DEF NotModified
        <5> QED
          BY <5>1
      <4>5. CASE Done(t)
        BY <4>5 DEF Done
      <4>4. CASE Problem(t)
        BY <4>4 DEF Problem
      <4> QED
        BY <2>4, <4>1, <4>2, <4>3, <4>4, <4>5 DEF Fetch, Answer
    <3> QED
      BY <3>2, <3>3, <3>4 DEF KeepsLastGood
  <2> QED
    BY <1>1, <2>1, <2>2, <2>3, <2>4 DEF Next
<1>2. ASSUME UNCHANGED vars PROVE KeepsLastGood
  BY <1>2 DEF vars, KeepsLastGood
<1> QED
  BY <1>1, <1>2, Versioned, PTL DEF Spec, LastGoodKept, KeepsLastGood
=============================================================================
