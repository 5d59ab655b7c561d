------------------------- MODULE TaskRequestsProofs -------------------------
(***************************************************************************)
(* Proofs about TaskRequests and RequestHistory, for any tasks, cross-team *)
(* requests and HTTP requests in flight: the numbers of tasks first, then  *)
(* the fate of a cross-team request that no two calls held at once.        *)
(***************************************************************************)
EXTENDS RequestHistory, SequenceTheorems, TLAPS

-----------------------------------------------------------------------------
(***************************************************************************)
(* The inductive invariant.  Whoever has a number has the lock, and the    *)
(* number is the counter itself: it cannot move while the lock is held.    *)
(* Drawn: no two requests are about to make one task, none makes a task    *)
(* that is there.                                                          *)
(***************************************************************************)
Minting == {"create", "file", "fulfil"}

HasNumber(q) == q.stage = "numbered" \/ (q.stage = "loaded" /\ q.call = "fulfil")

Slots == \A r \in Requests :
  /\ req[r].stage = "waiting" => req[r].call \in Minting
  /\ req[r].stage = "numbered" => req[r].call \in Minting
  /\ req[r].stage = "checked" => req[r].call = "reject"
  /\ req[r].call \in Minting => req[r].task \in Tasks
  /\ req[r].call \in {"file", "fulfil", "reject"} => req[r].entry \in Inbox

Locked == \A r \in Requests :
  /\ HasNumber(req[r]) <=> req[r].number # 0
  /\ HasNumber(req[r]) => req[r].number = counter /\ holder = r

Drawn == \A r \in Requests : req[r].task \in Tasks =>
  /\ seq[req[r].task] = 0
  /\ \A s \in Requests \ {r} : req[s].task # req[r].task

NoTwins == \A t, u \in Tasks : seq[t] # 0 /\ seq[t] = seq[u] => t = u

Inv == TypeOK /\ Slots /\ Locked /\ Drawn /\ NoTwins /\ NoGaps

LEMMA IndexFree == Inv => IndexAllows(counter)
<1> SUFFICES ASSUME Inv, NEW t \in Tasks, seq[t] = counter PROVE FALSE
  BY DEF IndexAllows
<1>1. counter \in Nat \ {0} /\ seq[t] \in Nat
  BY DEF Inv, TypeOK
<1>2. seq[t] \in {seq[u] : u \in Created}
  BY <1>1 DEF Created
<1>3. seq[t] \in 1 .. (counter - 1)
  BY <1>2 DEF Inv, NoGaps
<1> QED
  BY <1>1, <1>3

LEMMA Collisions == Inv => NumbersNeverCollide
BY IndexFree DEF Inv, Locked, NumbersNeverCollide, Numbered

-----------------------------------------------------------------------------
(***************************************************************************)
(* Requests and rows.                                                      *)
(***************************************************************************)

LEMMA IdleType ==
  /\ Idle \in Request /\ Idle.stage = "idle" /\ Idle.call = "none"
  /\ Idle.task = None /\ Idle.number = 0 /\ NoEntry \in Entry
BY DEF Idle, Request, NoEntry, Entry

LEMMA FulfilledType ==
  ASSUME NEW stored \in Entry, NEW q \in Request
  PROVE  Fulfilled(stored, q) \in Entry
<1> PICK s : s = Column(stored.status, q.loaded.status, "FULFILLED")
  OBVIOUS
<1> PICK t : t = Column(stored.task, q.loaded.task, q.task)
  OBVIOUS
<1>1. s \in {"absent", "PENDING", "FULFILLED", "REJECTED"}
  BY DEF Column, Entry
<1>2. t \in Tasks \cup {None}
  BY DEF Column, Entry, Request
<1>3. [stored EXCEPT !.status = s, !.task = t] \in Entry
  BY <1>1, <1>2 DEF Entry
<1> QED
  BY <1>3 DEF Fulfilled

LEMMA RejectedType ==
  ASSUME NEW stored \in Entry, NEW q \in Request
  PROVE  Rejected(stored, q) \in Entry
<1> PICK s : s = Column(stored.status, q.loaded.status, "REJECTED")
  OBVIOUS
<1> PICK t : t = Column(stored.reason, q.loaded.reason, q.reason)
  OBVIOUS
<1>1. s \in {"absent", "PENDING", "FULFILLED", "REJECTED"}
  BY DEF Column, Entry
<1>2. t \in BOOLEAN
  BY DEF Column, Entry, Request
<1>3. [stored EXCEPT !.status = s, !.reason = t] \in Entry
  BY <1>1, <1>2 DEF Entry
<1> QED
  BY <1>3 DEF Rejected

\* Nothing but the inbox changes.
LEMMA InboxMoved ==
  ASSUME Inv, UNCHANGED <<counter, holder, seq, mintedFor, req>>,
         inbox' \in [Inbox -> Entry]
  PROVE  Inv'
BY DEF Inv, TypeOK, Slots, Locked, HasNumber, Drawn, NoTwins, NoGaps, Created

LEMMA StartInv ==
  ASSUME Inv, NEW r \in Requests, NEW stage \in {"waiting", "checked"},
         NEW call \in {"create", "file", "fulfil", "reject"},
         NEW t \in Tasks \cup {None}, NEW i \in Inbox \cup {None}, NEW reason \in BOOLEAN,
         Start(r, stage, call, t, i, reason),
         stage = "waiting" <=> call \in Minting,
         call \in Minting => t \in Tasks /\ Fresh(t),
         call = "reject" => t = None,
         call # "create" => i \in Inbox
  PROVE  Inv'
<1> PICK q : q = [Idle EXCEPT !.stage = stage, !.call = call, !.task = t,
                              !.entry = i, !.reason = reason]
  OBVIOUS
<1>1. /\ q \in Request /\ q.stage = stage /\ q.call = call /\ q.task = t
      /\ q.entry = i /\ q.number = 0
  BY DEF Idle, Request, NoEntry, Entry
<1>2. req' = [req EXCEPT ![r] = q] /\ UNCHANGED <<counter, holder, seq, mintedFor, inbox>>
  BY DEF Start
<1>3. req' \in [Requests -> Request] /\ \A s \in Requests : req'[s] = IF s = r THEN q ELSE req[s]
  BY <1>1, <1>2 DEF Inv, TypeOK
<1>4. ~HasNumber(q)
  BY <1>1 DEF HasNumber
<1>5. Slots'
  BY <1>1, <1>3 DEF Inv, Slots, Minting
<1>6. Locked'
  BY <1>1, <1>2, <1>3, <1>4 DEF Inv, Locked, HasNumber
<1>7. Drawn'
  <2>1. t \in Tasks => Fresh(t)
    BY NoneAssumption DEF Minting
  <2>2. t \in Tasks => seq[t] = 0 /\ \A s \in Requests : req[s].task # t
    BY <2>1 DEF Fresh
  <2> QED
    BY <1>1, <1>2, <1>3, <2>2 DEF Inv, Drawn
<1>8. TypeOK' /\ NoTwins' /\ NoGaps'
  BY <1>2, <1>3 DEF Inv, TypeOK, NoTwins, NoGaps, Created
<1> QED
  BY <1>5, <1>6, <1>7, <1>8 DEF Inv

LEMMA CheckStepInv ==
  ASSUME Inv, NEW r \in Requests, CheckStep(r)
  PROVE  Inv'
<1>1. ASSUME NEW t \in Tasks, CheckCreate(r, t) PROVE Inv'
  BY <1>1, StartInv DEF CheckCreate, Minting
<1>2. ASSUME NEW t \in Tasks, NEW i \in Inbox, CheckFile(r, t, i) PROVE Inv'
  BY <1>2, StartInv DEF CheckFile, Minting
<1>3. ASSUME NEW t \in Tasks, NEW i \in Inbox, CheckFulfil(r, t, i) PROVE Inv'
  BY <1>3, StartInv DEF CheckFulfil, Minting
<1>4. ASSUME NEW i \in Inbox, NEW reason \in BOOLEAN, CheckReject(r, i, reason) PROVE Inv'
  BY <1>4, StartInv DEF CheckReject, Minting
<1> QED
  BY <1>1, <1>2, <1>3, <1>4 DEF CheckStep

-----------------------------------------------------------------------------
(***************************************************************************)
(* Steps on the way, and the end of a request.                             *)
(***************************************************************************)

LEMMA TakeNumberInv ==
  ASSUME Inv, NEW r \in Requests, TakeNumber(r)
  PROVE  Inv'
<1> PICK q : q = [req[r] EXCEPT !.stage = "numbered", !.number = counter]
  OBVIOUS
<1>1. req[r] \in Request /\ counter \in Nat /\ counter # 0
  BY DEF Inv, TypeOK
<1>2. /\ q \in Request /\ q.stage = "numbered" /\ q.number = counter
      /\ q.call = req[r].call /\ q.task = req[r].task /\ q.entry = req[r].entry
  BY <1>1 DEF Request
<1>3. /\ req' = [req EXCEPT ![r] = q] /\ holder = None /\ holder' = r
      /\ req[r].stage = "waiting" /\ UNCHANGED <<counter, seq, mintedFor, inbox>>
  BY DEF TakeNumber, NextNumber, Inv, TypeOK
<1>4. req' \in [Requests -> Request] /\ \A s \in Requests : req'[s] = IF s = r THEN q ELSE req[s]
  BY <1>2, <1>3 DEF Inv, TypeOK
<1>5. Slots'
  BY <1>2, <1>3, <1>4 DEF Inv, Slots
<1>6. \A s \in Requests : ~HasNumber(req[s])
  BY <1>3, NoneAssumption DEF Inv, Locked
<1>7. Locked'
  BY <1>1, <1>2, <1>3, <1>4, <1>6 DEF Inv, Locked, HasNumber
<1>8. Drawn'
  BY <1>2, <1>3, <1>4 DEF Inv, Drawn
<1>9. TypeOK' /\ NoTwins' /\ NoGaps'
  BY <1>3, <1>4 DEF Inv, TypeOK, NoTwins, NoGaps, Created
<1> QED
  BY <1>5, <1>7, <1>8, <1>9 DEF Inv

LEMMA LoadInv ==
  ASSUME Inv, NEW r \in Requests, Load(r)
  PROVE  Inv'
<1> PICK old : old = req[r]
  OBVIOUS
<1> PICK row : row = inbox[old.entry]
  OBVIOUS
<1> PICK q : q = [old EXCEPT !.stage = "loaded", !.loaded = row]
  OBVIOUS
<1>1. /\ old \in Request /\ old.entry \in Inbox
      /\ \/ old.stage = "numbered" /\ old.call = "fulfil"
         \/ old.stage = "checked" /\ old.call = "reject"
  BY DEF Load, Inv, TypeOK, Slots, Minting
<1>2. row \in Entry
  BY <1>1 DEF Inv, TypeOK
<1>3. /\ q \in Request /\ q.stage = "loaded" /\ q.number = old.number
      /\ q.call = old.call /\ q.task = old.task /\ q.entry = old.entry
  BY <1>1, <1>2 DEF Request
<1>4. /\ req' = [req EXCEPT ![r] = q]
      /\ UNCHANGED <<counter, holder, seq, mintedFor, inbox>>
  BY DEF Load, Inv, TypeOK
<1>5. req' \in [Requests -> Request] /\ \A s \in Requests : req'[s] = IF s = r THEN q ELSE req[s]
  BY <1>3, <1>4 DEF Inv, TypeOK
<1>6. Slots'
  <2>1. /\ old.call \in Minting => old.task \in Tasks
        /\ q.stage # "waiting" /\ q.stage # "numbered" /\ q.stage # "checked"
    BY <1>1, <1>3 DEF Inv, Slots
  <2>2. ASSUME NEW s \in Requests
        PROVE  /\ req'[s].stage = "waiting" => req'[s].call \in Minting
               /\ req'[s].stage = "numbered" => req'[s].call \in Minting
               /\ req'[s].stage = "checked" => req'[s].call = "reject"
               /\ req'[s].call \in Minting => req'[s].task \in Tasks
               /\ req'[s].call \in {"file", "fulfil", "reject"} => req'[s].entry \in Inbox
    <3>1. CASE s = r
      BY <1>1, <1>3, <1>5, <2>1, <3>1
    <3>2. CASE s # r
      BY <1>5, <3>2 DEF Inv, Slots
    <3> QED
      BY <3>1, <3>2
  <2> QED
    BY <2>2 DEF Slots
<1>7. HasNumber(q) <=> HasNumber(old)
  BY <1>1, <1>3 DEF HasNumber
<1>8. Locked'
  BY <1>3, <1>4, <1>5, <1>7 DEF Inv, Locked
<1>9. Drawn'
  BY <1>3, <1>4, <1>5 DEF Inv, Drawn
<1>10. TypeOK' /\ NoTwins' /\ NoGaps'
  BY <1>4, <1>5 DEF Inv, TypeOK, NoTwins, NoGaps, Created
<1> QED
  BY <1>6, <1>8, <1>9, <1>10 DEF Inv

\* Rollback and the commit of a rejection: a slot is freed.
LEMMA FreedInv ==
  ASSUME Inv, NEW r \in Requests, req' = [req EXCEPT ![r] = Idle],
         holder' = Released(r), UNCHANGED <<counter, seq, mintedFor>>,
         inbox' \in [Inbox -> Entry]
  PROVE  Inv'
<1>1. req' \in [Requests -> Request] /\ \A s \in Requests : req'[s] = IF s = r THEN Idle ELSE req[s]
  BY IdleType DEF Inv, TypeOK
<1>2. Slots'
  BY <1>1, IdleType DEF Inv, Slots, Minting
<1>3. ~HasNumber(Idle)
  BY IdleType DEF HasNumber
<1>4. Locked'
  BY <1>1, <1>3, IdleType DEF Inv, Locked, Released
<1>5. Drawn'
  BY <1>1, IdleType, NoneAssumption DEF Inv, Drawn
<1>6. TypeOK' /\ NoTwins' /\ NoGaps'
  BY <1>1 DEF Inv, TypeOK, NoTwins, NoGaps, Created, Released
<1> QED
  BY <1>2, <1>4, <1>5, <1>6 DEF Inv

LEMMA AbandonInv ==
  ASSUME Inv, NEW r \in Requests, Abandon(r)
  PROVE  Inv'
<1>1. inbox' \in [Inbox -> Entry]
  BY DEF Abandon, Inv, TypeOK
<1> QED
  BY <1>1, FreedInv DEF Abandon, CounterAfterRollback

LEMMA CommitRejectInv ==
  ASSUME Inv, NEW r \in Requests, CommitReject(r)
  PROVE  Inv'
<1> PICK q : q = req[r]
  OBVIOUS
<1> PICK i : i = q.entry
  OBVIOUS
<1> PICK row : row = Rejected(inbox[i], q)
  OBVIOUS
<1>1. q \in Request /\ i \in Inbox /\ ~HasNumber(q)
  BY DEF CommitReject, HasNumber, Inv, TypeOK, Slots
<1>2. row \in Entry
  BY <1>1, RejectedType DEF Inv, TypeOK
<1>3. inbox' = [inbox EXCEPT ![i] = row]
  BY DEF CommitReject
<1>4. inbox' \in [Inbox -> Entry]
  BY <1>2, <1>3 DEF Inv, TypeOK
<1>5. /\ req' = [req EXCEPT ![r] = Idle]
      /\ UNCHANGED <<counter, holder, seq, mintedFor>>
  BY DEF CommitReject
<1>6. CASE holder # r
  BY <1>4, <1>5, <1>6, FreedInv DEF Released
<1>7. CASE holder = r
  <2>1. \A s \in Requests : ~HasNumber(req[s])
    BY <1>1, <1>7 DEF Inv, Locked
  <2>2. req' \in [Requests -> Request] /\ \A s \in Requests : req'[s] = IF s = r THEN Idle ELSE req[s]
    BY <1>5, IdleType DEF Inv, TypeOK
  <2>3. Slots'
    BY <2>2, IdleType DEF Inv, Slots, Minting
  <2>4. Locked'
    BY <2>1, <2>2, IdleType DEF Inv, Locked, HasNumber
  <2>5. Drawn'
    BY <1>5, <2>2, IdleType, NoneAssumption DEF Inv, Drawn
  <2>6. TypeOK' /\ NoTwins' /\ NoGaps'
    BY <1>4, <1>5, <2>2 DEF Inv, TypeOK, NoTwins, NoGaps, Created
  <2> QED
    BY <2>3, <2>4, <2>5, <2>6 DEF Inv
<1> QED
  BY <1>6, <1>7

LEMMA SurroundingsInv ==
  ASSUME Inv, Surroundings
  PROVE  Inv'
<1>1. ASSUME NEW i \in Inbox, StagePending(i) PROVE Inv'
  <2>1. [NoEntry EXCEPT !.status = "PENDING", !.team = TRUE] \in Entry
    BY DEF NoEntry, Entry
  <2>2. inbox' \in [Inbox -> Entry]
    BY <1>1, <2>1 DEF StagePending, Inv, TypeOK
  <2> QED
    BY <1>1, <2>2, InboxMoved DEF StagePending
<1>2. ASSUME NEW i \in Inbox, DropTeam(i) PROVE Inv'
  <2>1. [inbox[i] EXCEPT !.team = FALSE] \in Entry
    BY DEF Inv, TypeOK, Entry
  <2>2. inbox' \in [Inbox -> Entry]
    BY <1>2, <2>1 DEF DropTeam, Inv, TypeOK
  <2> QED
    BY <1>2, <2>2, InboxMoved DEF DropTeam
<1> QED
  BY <1>1, <1>2 DEF Surroundings

-----------------------------------------------------------------------------
(***************************************************************************)
(* A task is made.                                                         *)
(***************************************************************************)

\* What the three commits that make a task have in common.
LEMMA MintFacts ==
  ASSUME Inv, NEW r \in Requests, NEW call \in Minting, Mint(r, call), HasNumber(req[r])
  PROVE  /\ req[r].task \in Tasks /\ seq[req[r].task] = 0
         /\ seq' = [seq EXCEPT ![req[r].task] = counter]
         /\ counter' = counter + 1
         /\ call # "create" => req[r].entry \in Inbox
         /\ inbox' \in [Inbox -> Entry] => Inv'
<1> PICK q : q = req[r]
  OBVIOUS
<1> PICK t : t = q.task
  OBVIOUS
<1>1. /\ q \in Request /\ q.call = call /\ t \in Tasks /\ q.number = counter /\ holder = r
      /\ call # "create" => q.entry \in Inbox
  BY DEF Mint, Inv, TypeOK, Slots, Locked, Minting
<1>2. seq[t] = 0 /\ \A s \in Requests \ {r} : req[s].task # t
  BY <1>1 DEF Inv, Drawn
<1>3. /\ seq' = [seq EXCEPT ![t] = counter] /\ counter' = counter + 1
      /\ mintedFor' = [mintedFor EXCEPT ![t] = q.entry]
      /\ holder' = None /\ req' = [req EXCEPT ![r] = Idle]
  BY <1>1 DEF Mint, Released
<1>4. counter \in Nat /\ counter # 0 /\ seq \in [Tasks -> Nat]
  BY DEF Inv, TypeOK
<1>5. /\ req' \in [Requests -> Request]
      /\ \A s \in Requests : req'[s] = IF s = r THEN Idle ELSE req[s]
  BY <1>3, IdleType DEF Inv, TypeOK
<1>6. seq' \in [Tasks -> Nat] /\ \A u \in Tasks : seq'[u] = IF u = t THEN counter ELSE seq[u]
  BY <1>1, <1>3, <1>4
<1>7. \A u \in Tasks : seq[u] # counter
  BY IndexFree DEF IndexAllows
<1>8. Slots'
  BY <1>5, IdleType DEF Inv, Slots, Minting
<1>9. Locked'
  <2>1. \A s \in Requests \ {r} : ~HasNumber(req[s])
    BY <1>1 DEF Inv, Locked
  <2> QED
    BY <1>5, <2>1, IdleType DEF Inv, Locked, HasNumber
<1>10. Drawn'
  BY <1>2, <1>5, <1>6, IdleType, NoneAssumption DEF Inv, Drawn
<1>11. NoTwins'
  BY <1>6, <1>7 DEF Inv, NoTwins
<1>12. NoGaps'
  <2>1. Created' = Created \cup {t}
    BY <1>1, <1>4, <1>6 DEF Created
  <2>2. {seq'[u] : u \in Created \cup {t}} = {seq[u] : u \in Created} \cup {counter}
    <3>1. t \notin Created /\ Created \subseteq Tasks
      BY <1>2 DEF Created
    <3> QED
      BY <1>1, <1>6, <3>1
  <2>3. (1 .. (counter - 1)) \cup {counter} = 1 .. counter
    BY <1>4
  <2>4. counter' - 1 = counter
    BY <1>3, <1>4
  <2> QED
    BY <2>1, <2>2, <2>3, <2>4 DEF Inv, NoGaps
<1>13. ASSUME inbox' \in [Inbox -> Entry] PROVE TypeOK'
  <2>1. mintedFor' \in [Tasks -> Inbox \cup {None}]
    BY <1>1, <1>3 DEF Inv, TypeOK, Request
  <2> QED
    BY <1>3, <1>4, <1>5, <1>6, <1>13, <2>1 DEF TypeOK
<1> QED
  BY <1>1, <1>2, <1>3, <1>8, <1>9, <1>10, <1>11, <1>12, <1>13 DEF Inv

\* The commits that make a task, as one.
Mints(r) == CommitCreate(r) \/ CommitFile(r) \/ CommitFulfil(r)

LEMMA MintsFacts ==
  ASSUME Inv, NEW r \in Requests, Mints(r)
  PROVE  /\ Inv'
         /\ req[r].task \in Tasks /\ seq[req[r].task] = 0
         /\ seq' = [seq EXCEPT ![req[r].task] = counter]
         /\ counter' = counter + 1
<1> PICK q : q = req[r]
  OBVIOUS
<1> PICK i : i = q.entry
  OBVIOUS
<1>1. q \in Request
  BY DEF Inv, TypeOK
<1>2. CASE CommitCreate(r)
  <2>1. HasNumber(q) /\ Mint(r, "create") /\ inbox' \in [Inbox -> Entry]
    BY <1>2 DEF CommitCreate, HasNumber, Inv, TypeOK
  <2> QED
    BY <2>1, MintFacts DEF Minting
<1>3. CASE CommitFile(r)
  <2> PICK row : row = [status |-> "FULFILLED", task |-> q.task, reason |-> FALSE, team |-> TRUE]
    OBVIOUS
  <2>1. HasNumber(q) /\ Mint(r, "file") /\ inbox' = [inbox EXCEPT ![i] = row]
    BY <1>3 DEF CommitFile, HasNumber
  <2>2. row \in Entry
    BY <1>1 DEF Entry, Request
  <2>3. inbox' \in [Inbox -> Entry]
    BY <2>1, <2>2 DEF Inv, TypeOK
  <2> QED
    BY <2>1, <2>3, MintFacts DEF Minting
<1>4. CASE CommitFulfil(r)
  <2> PICK row : row = Fulfilled(inbox[i], q)
    OBVIOUS
  <2>1. /\ q.call = "fulfil" /\ HasNumber(q) /\ Mint(r, "fulfil")
        /\ inbox' = [inbox EXCEPT ![i] = row]
    BY <1>4 DEF CommitFulfil, Mint, HasNumber
  <2>2. i \in Inbox
    BY <2>1 DEF Inv, Slots
  <2>3. row \in Entry
    BY <1>1, <2>2, FulfilledType DEF Inv, TypeOK
  <2>4. inbox' \in [Inbox -> Entry]
    BY <2>1, <2>3 DEF Inv, TypeOK
  <2> QED
    BY <2>1, <2>4, MintFacts DEF Minting
<1> QED
  BY <1>2, <1>3, <1>4 DEF Mints

-----------------------------------------------------------------------------
(***************************************************************************)
(* The invariant holds.                                                    *)
(***************************************************************************)

LEMMA InitInv == Init => Inv
<1> SUFFICES ASSUME Init PROVE Inv
  OBVIOUS
<1>1. TypeOK
  BY IdleType DEF Init, TypeOK
<1>2. \A r \in Requests : req[r] = Idle
  BY DEF Init
<1>3. Slots /\ Locked /\ Drawn
  BY <1>2, IdleType, NoneAssumption DEF Slots, Locked, Drawn, HasNumber, Minting
<1>4. Created = {}
  BY DEF Init, Created
<1>5. NoTwins /\ NoGaps
  BY <1>4 DEF Init, NoTwins, NoGaps
<1> QED
  BY <1>1, <1>3, <1>5 DEF Inv

\* A step makes a task, or leaves counter and numbers alone.
Idles == UNCHANGED <<counter, seq>>

LEMMA StepInv ==
  ASSUME Inv, [Next]_vars
  PROVE  Inv' /\ (Idles \/ \E r \in Requests : Mints(r))
<1>1. CASE Surroundings
  <2>1. Inv'
    BY <1>1, SurroundingsInv DEF Surroundings
  <2>2. Idles
    BY <1>1 DEF Surroundings, StagePending, DropTeam, Idles
  <2> QED
    BY <2>1, <2>2
<1>2. ASSUME NEW r \in Requests, CheckStep(r) PROVE Inv' /\ Idles
  BY <1>2, CheckStepInv DEF CheckStep, CheckCreate, CheckFile, CheckFulfil, CheckReject, Start, Idles
<1>3. ASSUME NEW r \in Requests, TakeNumber(r) PROVE Inv' /\ Idles
  BY <1>3, TakeNumberInv DEF TakeNumber, Idles
<1>4. ASSUME NEW r \in Requests, Load(r) PROVE Inv' /\ Idles
  BY <1>4, LoadInv DEF Load, Idles
<1>5. ASSUME NEW r \in Requests, Mints(r) PROVE Inv'
  BY <1>5, MintsFacts
<1>6. ASSUME NEW r \in Requests, CommitReject(r) PROVE Inv' /\ Idles
  BY <1>6, CommitRejectInv DEF CommitReject, Idles
<1>7. ASSUME NEW r \in Requests, Abandon(r) PROVE Inv' /\ Idles
  BY <1>7, AbandonInv DEF Abandon, CounterAfterRollback, Idles
<1>8. CASE UNCHANGED vars
  <2>1. UNCHANGED <<counter, holder, seq, mintedFor, req>> /\ inbox' \in [Inbox -> Entry]
    BY <1>8 DEF vars, Inv, TypeOK
  <2> QED
    BY <2>1, InboxMoved DEF Idles
<1> QED
  BY <1>1, <1>2, <1>3, <1>4, <1>5, <1>6, <1>7, <1>8 DEF Next, CommitStep, Mints

LEMMA Invariant == Spec => []Inv
<1>1. Init => Inv
  BY InitInv
<1>2. Inv /\ [Next]_vars => Inv'
  BY StepInv
<1> QED
  BY <1>1, <1>2, PTL DEF Spec

-----------------------------------------------------------------------------
(***************************************************************************)
(* The book of tasks.                                                      *)
(***************************************************************************)

LEMMA BookFacts ==
  ASSUME Inv
  PROVE  /\ counter \in Nat \ {0}
         /\ Book \in Seq(Tasks) /\ Len(Book) = counter - 1
         /\ DOMAIN Book = 1 .. (counter - 1)
         /\ \A n \in 1 .. (counter - 1) : Book[n] = TaskAt(n) /\ seq[Book[n]] = n
<1>1. counter \in Nat /\ counter # 0
  BY DEF Inv, TypeOK
<1>2. ASSUME NEW n \in 1 .. (counter - 1) PROVE TaskAt(n) \in Tasks /\ seq[TaskAt(n)] = n
  <2>1. n \in {seq[t] : t \in Created}
    BY DEF Inv, NoGaps
  <2>2. \E t \in Tasks : seq[t] = n
    BY <2>1 DEF Created
  <2> QED
    BY <2>2 DEF TaskAt
<1>3. \A n \in 1 .. (counter - 1) : Book[n] = TaskAt(n)
  BY DEF Book
<1>4. Book \in [1 .. (counter - 1) -> Tasks]
  BY <1>2 DEF Book
<1>5. counter - 1 \in Nat
  BY <1>1
<1>6. Book \in Seq(Tasks) /\ Len(Book) = counter - 1
  BY <1>4, <1>5
<1> QED
  BY <1>1, <1>2, <1>3, <1>4, <1>6

LEMMA BookGrows ==
  ASSUME Inv, NEW r \in Requests, Mints(r)
  PROVE  \E t \in Tasks \ Numbers!Listed : Book' = Append(Book, t)
<1> PICK t : t = req[r].task
  OBVIOUS
<1> PICK c : c = counter
  OBVIOUS
<1> PICK b : b = Book
  OBVIOUS
<1>1. /\ Inv' /\ t \in Tasks /\ seq[t] = 0
      /\ seq' = [seq EXCEPT ![t] = c] /\ counter' = c + 1
  BY MintsFacts
<1>2. /\ c \in Nat \ {0} /\ b \in Seq(Tasks) /\ Len(b) = c - 1
      /\ DOMAIN b = 1 .. (c - 1)
      /\ \A n \in 1 .. (c - 1) : b[n] \in Tasks /\ seq[b[n]] = n
  BY BookFacts
<1>3. t \notin Numbers!Listed
  BY <1>1, <1>2 DEF Numbers!Listed
<1>4. /\ \A n \in 1 .. c : TaskAt(n)' \in Tasks /\ seq'[TaskAt(n)'] = n
      /\ Book' = [n \in 1 .. c |-> TaskAt(n)']
  <2>1. counter' - 1 = c
    BY <1>1, <1>2
  <2>2. \A n \in 1 .. (counter' - 1) : TaskAt(n)' \in Tasks /\ seq'[TaskAt(n)'] = n
    <3> SUFFICES ASSUME NEW n \in 1 .. (counter' - 1)
                 PROVE  TaskAt(n)' \in Tasks /\ seq'[TaskAt(n)'] = n
      OBVIOUS
    <3>1. n \in {seq'[u] : u \in Created'}
      BY <1>1 DEF Inv, NoGaps
    <3>2. \E u \in Tasks : seq'[u] = n
      BY <3>1 DEF Created
    <3> QED
      BY <3>2 DEF TaskAt
  <2> QED
    BY <2>1, <2>2 DEF Book
<1>5. \A u \in Tasks : seq'[u] = IF u = t THEN c ELSE seq[u]
  BY <1>1 DEF Inv, TypeOK
<1>6. \A u, v \in Tasks : seq'[u] # 0 /\ seq'[u] = seq'[v] => u = v
  BY <1>1 DEF Inv, NoTwins
<1>7. TaskAt(c)' = t
  BY <1>1, <1>2, <1>4, <1>5, <1>6
<1>8. \A n \in 1 .. (c - 1) : TaskAt(n)' = b[n]
  BY <1>1, <1>2, <1>4, <1>5, <1>6
<1>9. Append(b, t) = [n \in 1 .. c |-> TaskAt(n)']
  <2>1. /\ Append(b, t) \in Seq(Tasks) /\ Len(Append(b, t)) = c
        /\ \A n \in 1 .. (c - 1) : Append(b, t)[n] = b[n]
        /\ Append(b, t)[c] = t
    BY <1>1, <1>2, AppendProperties
  <2>2. \A n \in 1 .. c : Append(b, t)[n] = TaskAt(n)'
    BY <1>2, <1>7, <1>8, <2>1
  <2>3. Append(b, t) = [n \in 1 .. c |-> Append(b, t)[n]]
    BY <2>1
  <2> QED
    BY <2>2, <2>3
<1> QED
  BY <1>1, <1>3, <1>4, <1>9

-----------------------------------------------------------------------------
(***************************************************************************)
(* The theorems.                                                           *)
(***************************************************************************)

(***************************************************************************)
(* Type correctness, in every interleaving.                                *)
(***************************************************************************)
THEOREM TypeCorrect == Spec => []TypeOK
<1>1. Inv => TypeOK
  BY DEF Inv
<1> QED
  BY <1>1, Invariant, PTL

(***************************************************************************)
(* Numbers have no gap and no creation is turned down for its number,      *)
(* whatever creations overlap and roll back.                               *)
(***************************************************************************)
THEOREM NumbersAreSound == Spec => [](NumbersNeverCollide /\ NoGaps)
<1>1. Inv => NumbersNeverCollide /\ NoGaps
  BY Collisions DEF Inv
<1> QED
  BY <1>1, Invariant, PTL

(***************************************************************************)
(* The creations implement the abstract list of tasks: the first state is  *)
(* the empty list, a commit that makes a task appends it, every other step *)
(* leaves the list alone.                                                  *)
(***************************************************************************)
THEOREM Implements == Spec => ImplementsNumbering
<1>1. Init => Numbers!Init
  BY DEF Init, Numbers!Init, Book
<1>2. Inv /\ [Next]_vars => [Numbers!Next]_Book
  <2> SUFFICES ASSUME Inv, [Next]_vars PROVE Numbers!Next \/ UNCHANGED Book
    OBVIOUS
  <2>1. CASE Idles
    BY <2>1 DEF Idles, Book, TaskAt
  <2>2. ASSUME NEW r \in Requests, Mints(r) PROVE Numbers!Next
    BY <2>2, BookGrows DEF Numbers!Next
  <2> QED
    BY <2>1, <2>2, StepInv
<1> QED
  BY <1>1, <1>2, Invariant, PTL DEF Spec, ImplementsNumbering, Numbers!Spec

-----------------------------------------------------------------------------
(***************************************************************************)
(* What is known of a request, and of a call that holds it.  As long as    *)
(* only one call holds a request, the PENDING it checked is still what is  *)
(* stored when it commits, and so is the row it has loaded; a request      *)
(* being filed has no row yet.  Once the request is resolved, nobody holds *)
(* it, and no check lets anybody take it again.                            *)
(***************************************************************************)
Holds(q, i) ==
  /\ q.call \in {"file", "fulfil", "reject"}
  /\ q.call = "file" => inbox[i].status = "absent"
  /\ q.call # "file" =>
       /\ inbox[i].status = "PENDING"
       /\ q.stage = "loaded" =>
            q.loaded.status = "PENDING" /\ q.loaded.task = None /\ ~q.loaded.reason

Fate(i) ==
  /\ inbox[i].status = "FULFILLED" <=> inbox[i].task # None
  /\ inbox[i].reason => inbox[i].status = "REJECTED"
  /\ \A t \in Tasks : mintedFor[t] = i => inbox[i].task = t

Sound(i) == Fate(i) /\ \A r \in Requests : req[r].entry = i => Holds(req[r], i)

Alone(i) == \A r, s \in Requests : req[r].entry = i /\ req[s].entry = i => r = s

Fates ==
  /\ Inv
  /\ HeldTwice \subseteq contested
  /\ \A i \in Uncontested : Sound(i)

LEMMA AloneUnlessContested ==
  ASSUME NEW i \in Inbox, i \notin HeldTwice
  PROVE  Alone(i)
BY DEF HeldTwice, Alone

LEMMA IdleHolds == \A i \in Inbox : Idle.entry # i
BY NoneAssumption DEF Idle

(***************************************************************************)
(* Steps that leave the request alone.                                     *)
(***************************************************************************)
Same(i) ==
  /\ inbox'[i].status = inbox[i].status
  /\ inbox'[i].task = inbox[i].task
  /\ inbox'[i].reason = inbox[i].reason

LEMMA Still ==
  ASSUME NEW i \in Inbox, Sound(i), Same(i),
         \A t \in Tasks : mintedFor'[t] = i => mintedFor[t] = i,
         \A s \in Requests : req'[s].entry = i =>
           /\ req[s].entry = i /\ req'[s].call = req[s].call
           /\ req'[s].stage = "loaded" =>
                req[s].stage = "loaded" /\ req'[s].loaded = req[s].loaded
  PROVE  Sound(i)'
BY DEF Sound, Fate, Holds, Same

LEMMA HoldersSound ==
  ASSUME NEW i \in Inbox, Sound(i), NEW r \in Requests, NEW q, Holds(q, i),
         \A s \in Requests : req'[s] = IF s = r THEN q ELSE req[s],
         UNCHANGED <<mintedFor, inbox>>
  PROVE  Sound(i)'
<1>1. Fate(i)'
  BY DEF Sound, Fate
<1>2. ASSUME NEW s \in Requests, req'[s].entry = i PROVE Holds(req[s], i)'
  <2>1. CASE s = r
    <3>1. req'[s] = q
      BY <2>1
    <3> QED
      BY <3>1 DEF Holds
  <2>2. CASE s # r
    <3>1. req'[s] = req[s] /\ Holds(req[s], i)
      BY <1>2, <2>2 DEF Sound
    <3> QED
      BY <3>1 DEF Holds
  <2> QED
    BY <2>1, <2>2
<1> QED
  BY <1>1, <1>2 DEF Sound

LEMMA StartSound ==
  ASSUME Inv, NEW i \in Inbox, Sound(i), NEW r \in Requests,
         NEW stage \in {"waiting", "checked"},
         NEW call \in {"create", "file", "fulfil", "reject"},
         NEW t, NEW j \in Inbox \cup {None}, NEW reason,
         Start(r, stage, call, t, j, reason),
         j \in Inbox => call # "create",
         j \in Inbox /\ call = "file" => inbox[j].status = "absent",
         j \in Inbox /\ call # "file" => inbox[j].status = "PENDING"
  PROVE  Sound(i)'
<1> PICK q : q = [Idle EXCEPT !.stage = stage, !.call = call, !.task = t,
                              !.entry = j, !.reason = reason]
  OBVIOUS
<1>1. q.stage = stage /\ q.call = call /\ q.entry = j
  BY DEF Idle
<1>2. \A s \in Requests : req'[s] = IF s = r THEN q ELSE req[s]
  BY DEF Start, Inv, TypeOK
<1>3. UNCHANGED <<mintedFor, inbox>>
  BY DEF Start
<1>4. CASE i # j
  BY <1>1, <1>2, <1>3, <1>4, Still DEF Same
<1>5. CASE i = j
  <2>1. Holds(q, i)
    BY <1>1, <1>5 DEF Holds
  <2> QED
    BY <1>2, <1>3, <2>1, HoldersSound
<1> QED
  BY <1>4, <1>5

LEMMA CheckSound ==
  ASSUME Inv, NEW i \in Inbox, Sound(i), NEW r \in Requests, CheckStep(r)
  PROVE  Sound(i)'
<1>1. ASSUME NEW t \in Tasks, CheckCreate(r, t) PROVE Sound(i)'
  BY <1>1, StartSound, NoneAssumption DEF CheckCreate
<1>2. ASSUME NEW t \in Tasks, NEW j \in Inbox, CheckFile(r, t, j) PROVE Sound(i)'
  BY <1>2, StartSound DEF CheckFile, FreshEntry
<1>3. ASSUME NEW t \in Tasks, NEW j \in Inbox, CheckFulfil(r, t, j) PROVE Sound(i)'
  BY <1>3, StartSound DEF CheckFulfil
<1>4. ASSUME NEW j \in Inbox, NEW reason \in BOOLEAN, CheckReject(r, j, reason) PROVE Sound(i)'
  BY <1>4, StartSound DEF CheckReject
<1> QED
  BY <1>1, <1>2, <1>3, <1>4 DEF CheckStep

LEMMA TakeNumberSound ==
  ASSUME Inv, NEW i \in Inbox, Sound(i), NEW r \in Requests, TakeNumber(r)
  PROVE  Sound(i)'
<1> PICK q : q = [req[r] EXCEPT !.stage = "numbered", !.number = NextNumber]
  OBVIOUS
<1>1. q.stage = "numbered" /\ q.call = req[r].call /\ q.entry = req[r].entry
  BY DEF Inv, TypeOK, Request
<1>2. \A s \in Requests : req'[s] = IF s = r THEN q ELSE req[s]
  BY DEF TakeNumber, Inv, TypeOK
<1> QED
  BY <1>1, <1>2, Still DEF TakeNumber, Same

(***************************************************************************)
(* The row that is fetched is PENDING, so it has no task and no reason.    *)
(***************************************************************************)
LEMMA LoadSound ==
  ASSUME Inv, NEW i \in Inbox, Sound(i), NEW r \in Requests, Load(r)
  PROVE  Sound(i)'
<1> PICK q : q = [req[r] EXCEPT !.stage = "loaded", !.loaded = inbox[req[r].entry]]
  OBVIOUS
<1>1. /\ q.stage = "loaded" /\ q.call = req[r].call /\ q.entry = req[r].entry
      /\ q.loaded = inbox[req[r].entry]
  BY DEF Inv, TypeOK, Request
<1>2. \A s \in Requests : req'[s] = IF s = r THEN q ELSE req[s]
  BY DEF Load, Inv, TypeOK
<1>3. UNCHANGED <<mintedFor, inbox>>
  BY DEF Load
<1>4. CASE req[r].entry # i
  BY <1>1, <1>2, <1>3, <1>4, Still DEF Same
<1>5. CASE req[r].entry = i
  <2>1. q.call # "file"
    BY <1>1 DEF Load, Inv, Slots, Minting
  <2>2. inbox[i].status = "PENDING" /\ Holds(req[r], i)
    BY <1>1, <1>5, <2>1 DEF Sound, Holds
  <2>3. inbox[i].task = None /\ ~inbox[i].reason
    BY <2>2 DEF Sound, Fate
  <2>4. Holds(q, i)
    BY <1>1, <1>5, <2>1, <2>2, <2>3 DEF Holds
  <2> QED
    BY <1>2, <1>3, <2>4, HoldersSound
<1> QED
  BY <1>4, <1>5

-----------------------------------------------------------------------------
(***************************************************************************)
(* The commits.  Whoever holds the request holds it alone.                 *)
(***************************************************************************)
LEMMA FreedSound ==
  ASSUME Inv, NEW i \in Inbox, Sound(i), NEW r \in Requests,
         req' = [req EXCEPT ![r] = Idle], Same(i),
         \A t \in Tasks : mintedFor'[t] = i => mintedFor[t] = i
  PROVE  Sound(i)'
<1>1. \A s \in Requests : req'[s] = IF s = r THEN Idle ELSE req[s]
  BY DEF Inv, TypeOK
<1> QED
  BY <1>1, IdleHolds, Still

LEMMA ClosedSound ==
  ASSUME Inv, NEW i \in Inbox, Alone(i), NEW r \in Requests, req[r].entry = i,
         req' = [req EXCEPT ![r] = Idle], Fate(i)'
  PROVE  Sound(i)'
<1>1. \A s \in Requests : req'[s] = IF s = r THEN Idle ELSE req[s]
  BY DEF Inv, TypeOK
<1>2. \A s \in Requests : req'[s].entry # i
  BY <1>1, IdleHolds DEF Alone
<1> QED
  BY <1>2 DEF Sound

LEMMA MintedFor ==
  ASSUME Inv, NEW r \in Requests, NEW call, Mint(r, call), req[r].task \in Tasks
  PROVE  \A t \in Tasks : mintedFor'[t] = IF t = req[r].task THEN req[r].entry ELSE mintedFor[t]
BY DEF Mint, Inv, TypeOK

LEMMA MintsSound ==
  ASSUME Inv, NEW i \in Inbox, Sound(i), Alone(i), NEW r \in Requests, Mints(r)
  PROVE  Sound(i)'
<1> PICK q : q = req[r]
  OBVIOUS
<1>1. q.task \in Tasks
  BY MintsFacts
<1>2. req' = [req EXCEPT ![r] = Idle]
  BY DEF Mints, CommitCreate, CommitFile, CommitFulfil, Mint
<1>3. \A t \in Tasks : mintedFor'[t] = IF t = q.task THEN q.entry ELSE mintedFor[t]
  BY <1>1, MintedFor DEF Mints, CommitCreate, CommitFile, CommitFulfil
<1>4. CASE q.entry # i
  <2>1. inbox'[i] = inbox[i]
    BY <1>4 DEF Mints, CommitCreate, CommitFile, CommitFulfil, Inv, TypeOK
  <2> QED
    BY <1>2, <1>3, <1>4, <2>1, FreedSound DEF Same
<1>5. CASE q.entry = i
  <2>1. q.call \in {"file", "fulfil"} /\ Holds(q, i)
    BY <1>5 DEF Mints, CommitCreate, CommitFile, CommitFulfil, Mint, Sound, Holds
  <2>2. inbox[i].status \in {"absent", "PENDING"} /\ ~inbox[i].reason /\ inbox[i].task = None
    BY <2>1 DEF Holds, Sound, Fate
  <2>3. /\ inbox'[i].status = "FULFILLED" /\ inbox'[i].task = q.task /\ ~inbox'[i].reason
    <3>1. CASE CommitFile(r)
      BY <1>5, <3>1 DEF CommitFile, Inv, TypeOK
    <3>2. CASE CommitFulfil(r)
      <4>1. inbox'[i] = Fulfilled(inbox[i], q)
        BY <1>5, <3>2 DEF CommitFulfil, Inv, TypeOK
      <4>2. q.call = "fulfil" /\ q.stage = "loaded"
        BY <3>2 DEF CommitFulfil, Mint
      <4>3. q.loaded.status = "PENDING" /\ q.loaded.task = None
        BY <2>1, <4>2 DEF Holds
      <4>4. inbox[i] \in Entry /\ q.task # None
        BY <1>1, NoneAssumption DEF Inv, TypeOK
      <4>5. Fulfilled(inbox[i], q) = [inbox[i] EXCEPT !.status = "FULFILLED", !.task = q.task]
        BY <4>3, <4>4 DEF Fulfilled, Column
      <4> QED
        BY <2>2, <4>1, <4>4, <4>5 DEF Entry
    <3>3. ~CommitCreate(r)
      BY <2>1 DEF CommitCreate, Mint
    <3> QED
      BY <3>1, <3>2, <3>3 DEF Mints
  <2>4. \A t \in Tasks : mintedFor[t] # i
    BY <2>2, NoneAssumption DEF Sound, Fate
  <2>5. Fate(i)'
    BY <1>1, <1>3, <2>3, <2>4, NoneAssumption DEF Fate
  <2> QED
    BY <1>2, <1>5, <2>5, ClosedSound
<1> QED
  BY <1>4, <1>5

LEMMA RejectSound ==
  ASSUME Inv, NEW i \in Inbox, Sound(i), Alone(i), NEW r \in Requests, CommitReject(r)
  PROVE  Sound(i)'
<1> PICK q : q = req[r]
  OBVIOUS
<1>1. /\ q.stage = "loaded" /\ q.call = "reject" /\ q.entry \in Inbox
      /\ inbox' = [inbox EXCEPT ![q.entry] = Rejected(@, q)]
      /\ req' = [req EXCEPT ![r] = Idle] /\ mintedFor' = mintedFor
  BY DEF CommitReject, Inv, Slots
<1>2. CASE q.entry # i
  <2>1. inbox'[i] = inbox[i]
    BY <1>1, <1>2 DEF Inv, TypeOK
  <2> QED
    BY <1>1, <2>1, FreedSound DEF Same
<1>3. CASE q.entry = i
  <2>1. Holds(q, i)
    BY <1>3 DEF Sound
  <2>2. q.loaded.status = "PENDING" /\ inbox[i].status = "PENDING" /\ ~q.loaded.reason
    BY <1>1, <2>1 DEF Holds
  <2>3. inbox[i].task = None /\ inbox[i] \in Entry
    BY <2>2 DEF Sound, Fate, Inv, TypeOK
  <2>4. inbox'[i] = Rejected(inbox[i], q)
    BY <1>1, <1>3 DEF Inv, TypeOK
  <2>5. inbox'[i].status = "REJECTED" /\ inbox'[i].task = None
    BY <2>2, <2>3, <2>4 DEF Rejected, Column, Entry
  <2>6. Fate(i)'
    BY <1>1, <2>2, <2>5, <2>3 DEF Sound, Fate
  <2> QED
    BY <1>1, <1>3, <2>6, ClosedSound
<1> QED
  BY <1>2, <1>3

LEMMA SurroundingsSound ==
  ASSUME Inv, NEW i \in Inbox, Sound(i), Surroundings
  PROVE  Sound(i)'
<1>1. UNCHANGED <<mintedFor, req>>
  BY DEF Surroundings, StagePending, DropTeam
<1>2. PICK j \in Inbox : StagePending(j) \/ DropTeam(j)
  BY DEF Surroundings
<1>3. CASE DropTeam(j) \/ i # j
  <2>1. Same(i)
    BY <1>2, <1>3 DEF StagePending, DropTeam, Inv, TypeOK, Entry, Same
  <2> QED
    BY <1>1, <2>1, Still
<1>4. CASE StagePending(j) /\ i = j
  <2>1. inbox'[i] = [NoEntry EXCEPT !.status = "PENDING", !.team = TRUE]
    BY <1>4 DEF StagePending, Inv, TypeOK
  <2>2. inbox'[i].status = "PENDING" /\ inbox'[i].task = None /\ ~inbox'[i].reason
    BY <2>1 DEF NoEntry
  <2>3. inbox[i].status = "absent" /\ \A s \in Requests : req[s].entry # i
    BY <1>4 DEF StagePending, FreshEntry
  <2>4. \A t \in Tasks : mintedFor[t] # i
    BY <2>3, NoneAssumption DEF Sound, Fate
  <2> QED
    BY <1>1, <2>2, <2>3, <2>4 DEF Sound, Fate
<1> QED
  BY <1>2, <1>3, <1>4

-----------------------------------------------------------------------------
(***************************************************************************)
(* The invariant holds.                                                    *)
(***************************************************************************)
LEMMA FatesInit == HistoryInit => Fates
<1> SUFFICES ASSUME HistoryInit PROVE Fates
  OBVIOUS
<1>1. Inv
  BY InitInv DEF HistoryInit
<1>2. \A r \in Requests : req[r] = Idle
  BY DEF HistoryInit, Init
<1>3. HeldTwice = {}
  BY <1>2, IdleHolds DEF HeldTwice
<1>4. \A i \in Inbox : Sound(i)
  BY <1>2, IdleHolds, NoneAssumption DEF HistoryInit, Init, Sound, Fate, NoEntry
<1> QED
  BY <1>1, <1>3, <1>4 DEF Fates, Uncontested

LEMMA SoundStep ==
  ASSUME Inv, [Next]_vars, NEW i \in Inbox, Sound(i), Alone(i)
  PROVE  Sound(i)'
<1>1. ASSUME NEW r \in Requests, Abandon(r) PROVE Sound(i)'
  BY <1>1, FreedSound DEF Abandon, Same
<1>2. ASSUME NEW r \in Requests,
             CheckStep(r) \/ TakeNumber(r) \/ Load(r) \/ Mints(r) \/ CommitReject(r)
      PROVE  Sound(i)'
  BY <1>2, CheckSound, TakeNumberSound, LoadSound, MintsSound, RejectSound
<1>3. CASE UNCHANGED vars
  BY <1>3 DEF vars, Sound, Fate, Holds
<1> QED
  BY <1>1, <1>2, <1>3, SurroundingsSound DEF Next, CommitStep, Mints

LEMMA FatesStep ==
  ASSUME Fates, [HistoryNext]_<<vars, contested>>
  PROVE  Fates'
<1>1. CASE HistoryNext
  <2>1. [Next]_vars /\ contested' = contested \cup HeldTwice'
    BY <1>1 DEF HistoryNext
  <2>2. Inv'
    BY <2>1, StepInv DEF Fates
  <2>3. ASSUME NEW i \in Uncontested' PROVE Sound(i)'
    <3>1. i \in Inbox /\ i \notin contested
      BY <2>1 DEF Uncontested
    <3>2. Sound(i) /\ Alone(i)
      BY <3>1, AloneUnlessContested DEF Fates, Uncontested
    <3> QED
      BY <2>1, <3>1, <3>2, SoundStep DEF Fates
  <2> QED
    BY <2>1, <2>2, <2>3 DEF Fates
<1>2. CASE UNCHANGED <<vars, contested>>
  <2>1. Inv'
    BY <1>2, StepInv DEF Fates
  <2> QED
    BY <1>2, <2>1 DEF Fates, vars, HeldTwice, Uncontested, Sound, Fate, Holds
<1> QED
  BY <1>1, <1>2

LEMMA FatesAlways == HistorySpec => []Fates
BY FatesInit, FatesStep, PTL DEF HistorySpec

(***************************************************************************)
(* A cross-team request that no two calls held at once points to the task  *)
(* minted for it, is FULFILLED exactly when it points to one, and has a    *)
(* reason only when it was rejected, whatever else overlaps.               *)
(***************************************************************************)
THEOREM OneFateEach == HistorySpec => []UncontestedFate
<1>1. Fates => UncontestedFate
  BY DEF Fates, Uncontested, Sound, Fate, UncontestedFate
<1> QED
  BY <1>1, FatesAlways, PTL

-----------------------------------------------------------------------------
(***************************************************************************)
(* A request that is resolved is held by nobody, and taken by nobody.      *)
(***************************************************************************)
LEMMA ResolvedStep ==
  ASSUME Inv, [Next]_vars, NEW i \in Inbox, Sound(i),
         inbox[i].status \in {"FULFILLED", "REJECTED"}
  PROVE  Same(i)
<1>1. \A r \in Requests : req[r].entry # i
  BY DEF Sound, Holds
<1>2. CASE UNCHANGED inbox
  BY <1>2 DEF Same
<1>3. ASSUME NEW j \in Inbox, StagePending(j) \/ DropTeam(j) PROVE Same(i)
  BY <1>3 DEF StagePending, FreshEntry, DropTeam, Inv, TypeOK, Entry, Same
<1>4. ASSUME NEW r \in Requests, CommitStep(r) PROVE Same(i)
  <2>1. CASE CommitCreate(r)
    BY <2>1 DEF CommitCreate, Same
  <2>2. CASE CommitFile(r)
    BY <1>1, <2>2 DEF CommitFile, Inv, TypeOK, Same
  <2>3. CASE CommitFulfil(r)
    BY <1>1, <2>3 DEF CommitFulfil, Inv, TypeOK, Same
  <2>4. CASE CommitReject(r)
    BY <1>1, <2>4 DEF CommitReject, Inv, TypeOK, Same
  <2> QED
    BY <1>4, <2>1, <2>2, <2>3, <2>4 DEF CommitStep
<1>5. ASSUME NEW r \in Requests, CheckStep(r) \/ TakeNumber(r) \/ Load(r) \/ Abandon(r)
      PROVE  UNCHANGED inbox
  BY <1>5 DEF CheckStep, CheckCreate, CheckFile, CheckFulfil, CheckReject, Start, TakeNumber,
     Load, Abandon
<1> QED
  BY <1>2, <1>3, <1>4, <1>5 DEF Next, Surroundings, vars

(***************************************************************************)
(* Once resolved, it stays resolved the same way.                          *)
(***************************************************************************)
THEOREM ResolvedOnce == HistorySpec => UncontestedStaysResolved
<1>1. Fates /\ [HistoryNext]_<<vars, contested>> =>
        [\A i \in Uncontested :
           inbox[i].status \in {"FULFILLED", "REJECTED"} =>
             /\ inbox'[i].status = inbox[i].status
             /\ inbox'[i].task = inbox[i].task
             /\ inbox'[i].reason = inbox[i].reason]_<<vars, contested>>
  BY ResolvedStep DEF Fates, Uncontested, HistoryNext, Same
<1> QED
  BY <1>1, FatesAlways, PTL DEF HistorySpec, UncontestedStaysResolved
=============================================================================
