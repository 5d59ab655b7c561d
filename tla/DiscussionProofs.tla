-------------------------- MODULE DiscussionProofs ---------------------------
(***************************************************************************)
(* Theorems about Discussion, for any people, any number of requests at a  *)
(* time and any changes of seats between their reads.                      *)
(*                                                                         *)
(* The heart is Heard: what a cross-team request has found so far, at each *)
(* of the statements that look for recipients.  Whoever kept a post since  *)
(* the request began has been found if that post has been looked at, and   *)
(* nobody has been found who did not lead or own at some time.             *)
(***************************************************************************)
EXTENDS Discussion, TLAPS

-----------------------------------------------------------------------------
(***************************************************************************)
(* Types.                                                                  *)
(***************************************************************************)
Asks == {"MANAGER", "LEAD", "HEAD", "head found", "led", "told"}
Kinds == {"MENTION_TASK", "MENTION_COMMENT"}

Link == [id : Nat, source : Nat, target : Nat, type : Types]

Bell ==
  [type : Kinds \cup {"CROSS_TEAM_REQUEST"}, task : Nat, comment : Nat \cup {None},
   by : People, read : BOOLEAN]

Linking == [stage : {"linking"}, source : Nat, target : Nat, type : Types]
Unlinking == [stage : {"unlinking"}, id : Nat]
Writing ==
  [stage : {"writing"}, kind : Kinds, task : Nat \cup {None}, by : People,
   mentions : SUBSET People]
Written ==
  [stage : {"written"}, kind : Kinds, task : Nat \cup {None}, by : People,
   who : SUBSET People]
Asking ==
  [stage : Asks, by : People, source : Nat, type : Types, who : SUBSET People,
   head : SUBSET People, steady : SUBSET People, led : SUBSET People, alone : BOOLEAN]

Call == Linking \cup Unlinking \cup Writing \cup Written \cup Asking \cup {Idle}

Request ==
  [task : Nat, source : Nat, type : Types, by : People, link : Nat,
   steady : SUBSET People, led : SUBSET People, alone : BOOLEAN]

TypeOK ==
  /\ seats \in [People -> Seats]
  /\ tasks \in Seq(People)
  /\ links \subseteq Link
  /\ comments \in Seq([task : Nat, by : People])
  /\ bells \in [People -> Seq(Bell)]
  /\ calls \in [Requests -> Call]
  /\ asked \subseteq Request
  /\ made \in Nat
  /\ moves \in Nat

\* A comment is about a task.
AboutTasks ==
  \A r \in Requests :
    calls[r].stage \in {"writing", "written"} /\ calls[r].kind = "MENTION_COMMENT" =>
      calls[r].task \in Nat

-----------------------------------------------------------------------------
(***************************************************************************)
(* The inductive invariant.                                                *)
(***************************************************************************)
\* Numbers are given in order, and a notification is about what there is.
BellsNumbered ==
  \A p \in People : \A i \in DOMAIN bells[p] :
    LET b == bells[p][i]
    IN  /\ b.type = "CROSS_TEAM_REQUEST" => b.comment = None
        /\ b.comment = None => b.task <= Len(tasks)
        /\ b.comment # None => b.comment <= Len(comments)

Numbered ==
  /\ BellsNumbered
  /\ \A link \in links : link.id <= made
  /\ \A a \in asked : a.task <= Len(tasks) /\ a.link <= made

\* Of SaidOnce, what is about bells.
ToldOnce ==
  \A p \in People : \A i, j \in DOMAIN bells[p] :
    i # j => <<bells[p][i].task, bells[p][i].comment>> # <<bells[p][j].task, bells[p][j].comment>>

\* A request keeps the relation it was filed with, or loses it.
Linked ==
  \A a \in asked, link \in links :
    link.id = a.link => Triple(link) = <<a.task, a.source, a.type>>

\* The posts whose holders have been looked up.
Searched(stage) ==
  {post \in Posts :
     \/ stage = "led"
     \/ post = "MANAGER" /\ stage \in {"LEAD", "HEAD", "head found"}
     \/ post = "LEAD" /\ stage \in {"HEAD", "head found"}}

Heard(q) ==
  /\ q.steady \subseteq Leaders
  /\ Leaders \cup Owners \subseteq q.led
  /\ q.who \cup q.head \subseteq q.led
  /\ \A p \in q.steady : seats[p].post \in Searched(q.stage) => p \in q.who
  /\ q.stage = "head found" => q.steady \cap Holders("HEAD") \subseteq q.head
  /\ q.stage = "told" =>
       /\ Recipients(q.steady, q.by) = {}
       /\ Recipients(q.who, q.by) = {} => q.alone

UnderWay == \A r \in Requests : calls[r].stage \in Asks => Heard(calls[r])

Inv ==
  TypeOK /\ AboutTasks /\ Numbered /\ Linked /\ UnderWay /\ SaidOnce /\ RequestsAreHeard

-----------------------------------------------------------------------------
(***************************************************************************)
(* One slot moves at a time, or seats change.                              *)
(***************************************************************************)
Moves(r, q) == calls' = [calls EXCEPT ![r] = q]

LEMMA IdleCall == Idle \in Call /\ Idle.stage = "idle"
BY DEF Idle, Call

LEMMA SeatsKept ==
  ASSUME UNCHANGED seats, NEW q, Heard(q)
  PROVE  Heard(q)'
<1>1. Leaders' = Leaders /\ Owners' = Owners /\ Holders("HEAD")' = Holders("HEAD")
  BY DEF Leaders, Owners, Holders, Here
<1> QED
  BY <1>1 DEF Heard, Recipients, Searched

LEMMA SlotMoves ==
  ASSUME NEW r \in Requests, NEW q \in Call, calls \in [Requests -> Call],
         AboutTasks, UnderWay, UNCHANGED seats, Moves(r, q),
         q.stage \in {"writing", "written"} /\ q.kind = "MENTION_COMMENT" => q.task \in Nat,
         q.stage \in Asks => Heard(q)
  PROVE  calls' \in [Requests -> Call] /\ AboutTasks' /\ UnderWay'
<1>1. calls' \in [Requests -> Call] /\ \A s \in Requests : calls'[s] = IF s = r THEN q ELSE calls[s]
  BY DEF Moves
<1>2. AboutTasks'
  BY <1>1 DEF AboutTasks
<1>3. ASSUME NEW s \in Requests, calls'[s].stage \in Asks PROVE Heard(calls[s])'
  <2> PICK c : c = calls'[s]
    OBVIOUS
  <2>1. Heard(c)
    BY <1>1, <1>3 DEF UnderWay
  <2>2. Leaders' = Leaders /\ Owners' = Owners /\ Holders("HEAD")' = Holders("HEAD")
    BY DEF Leaders, Owners, Holders, Here
  <2> QED
    BY <2>1, <2>2 DEF Heard, Recipients, Searched
<1> QED
  BY <1>1, <1>2, <1>3 DEF UnderWay

LEMMA SlotIdle ==
  ASSUME NEW r \in Requests, calls \in [Requests -> Call], AboutTasks, UnderWay,
         UNCHANGED seats, Close(r)
  PROVE  calls' \in [Requests -> Call] /\ AboutTasks' /\ UnderWay'
<1>1. Moves(r, Idle)
  BY DEF Close, Moves
<1>2. Idle.stage \notin Asks \cup {"writing", "written"}
  BY IdleCall DEF Asks
<1> QED
  BY <1>1, <1>2, IdleCall, SlotMoves

\* A step that writes no row.
LEMMA NothingWritten ==
  ASSUME Inv, UNCHANGED <<tasks, links, comments, bells, asked, made>>
  PROVE  /\ tasks' \in Seq(People) /\ links' \subseteq Link
         /\ comments' \in Seq([task : Nat, by : People])
         /\ bells' \in [People -> Seq(Bell)]
         /\ asked' \subseteq Request /\ made' \in Nat
         /\ Numbered' /\ Linked' /\ SaidOnce' /\ RequestsAreHeard'
BY DEF Inv, TypeOK, Numbered, BellsNumbered, Linked, SaidOnce, RequestsAreHeard, Told

LEMMA OpenInv ==
  ASSUME Inv, NEW r \in Requests, NEW q \in Call, Moves(r, q),
         UNCHANGED <<seats, tasks, links, comments, bells, asked, made, moves>>,
         q.stage \in {"writing", "written"} /\ q.kind = "MENTION_COMMENT" => q.task \in Nat,
         q.stage \in Asks => Heard(q)
  PROVE  Inv'
<1>1. calls' \in [Requests -> Call] /\ AboutTasks' /\ UnderWay'
  BY SlotMoves DEF Inv, TypeOK
<1> QED
  BY <1>1, NothingWritten DEF Inv, TypeOK

LEMMA SpeakInv ==
  ASSUME Inv, NEW r \in Requests, Speak(r)
  PROVE  Inv'
<1>1. DOMAIN tasks \subseteq Nat
  BY DEF Inv, TypeOK
<1>2. ASSUME NEW link \in links, CheckUnlink(r, link) PROVE Inv'
  <2> PICK q : q = [stage |-> "unlinking", id |-> link.id]
    OBVIOUS
  <2>1. q \in Call /\ q.stage = "unlinking"
    BY DEF Inv, TypeOK, Link, Call, Unlinking
  <2> QED
    BY <1>2, <2>1, OpenInv DEF CheckUnlink, Open, Moves, Asks
<1>3. ASSUME NEW t \in DOMAIN tasks, NEW s \in DOMAIN tasks, NEW type \in Types,
             CheckLink(r, s, t, type)
      PROVE  Inv'
  <2> PICK q : q = [stage |-> "linking", source |-> s, target |-> t, type |-> type]
    OBVIOUS
  <2>1. q \in Call /\ q.stage = "linking"
    BY <1>1 DEF Call, Linking
  <2> QED
    BY <1>3, <2>1, OpenInv DEF CheckLink, Open, Moves, Asks
<1>4. ASSUME NEW kind \in Kinds, NEW t \in DOMAIN tasks \cup {None}, NEW by \in People,
             NEW mentions \in Mentions, kind = "MENTION_COMMENT" => t \in DOMAIN tasks,
             Write(r, kind, t, by, mentions)
      PROVE  Inv'
  <2> PICK q : q = [stage |-> "writing", kind |-> kind, task |-> t, by |-> by,
                    mentions |-> mentions]
    OBVIOUS
  <2>1. q \in Call /\ q.stage = "writing" /\ (q.kind = "MENTION_COMMENT" => q.task \in Nat)
    BY <1>1, <1>4, DiscussionAssumption DEF Call, Writing
  <2> QED
    BY <1>4, <2>1, OpenInv DEF Write, Open, Moves, Asks
<1>5. ASSUME NEW t \in DOMAIN tasks, NEW by \in People, NEW type \in Types,
             Ask(r, by, t, type)
      PROVE  Inv'
  <2> PICK q : q = [stage |-> "MANAGER", by |-> by, source |-> t, type |-> type,
                    who |-> {}, head |-> {}, steady |-> Leaders,
                    led |-> Leaders \cup Owners, alone |-> FALSE]
    OBVIOUS
  <2>1. Leaders \subseteq People /\ Owners \subseteq People
    BY DEF Leaders, Holders, Owners, Here
  <2>2. q \in Call /\ q.stage = "MANAGER"
    BY <1>1, <2>1 DEF Call, Asking, Asks
  <2>3. Heard(q)
    BY DEF Heard, Searched
  <2> QED
    BY <1>5, <2>2, <2>3, OpenInv DEF Ask, Open, Moves
<1> QED
  BY <1>2, <1>3, <1>4, <1>5 DEF Speak, Kinds

-----------------------------------------------------------------------------
(***************************************************************************)
(* Looking for recipients.                                                 *)
(***************************************************************************)
LEMMA StagesApart ==
  ASSUME NEW call \in Call
  PROVE  /\ call.stage \in Asks => call \in Asking
         /\ call.stage = "writing" => call \in Writing
         /\ call.stage = "written" => call \in Written
         /\ call.stage = "linking" => call \in Linking
         /\ call.stage = "unlinking" => call \in Unlinking
<1>1. /\ call \in Linking => call.stage = "linking"
      /\ call \in Unlinking => call.stage = "unlinking"
  BY DEF Linking, Unlinking
<1>2. /\ call \in Writing => call.stage = "writing"
      /\ call \in Written => call.stage = "written"
  BY DEF Writing, Written
<1>3. call \in Asking => call.stage \in Asks
  BY DEF Asking
<1> QED
  BY <1>1, <1>2, <1>3, IdleCall DEF Call, Asks

LEMMA AskUnderWay ==
  ASSUME Inv, NEW r \in Requests, calls[r].stage \in Asks
  PROVE  calls[r] \in Asking /\ Heard(calls[r])
<1>1. calls[r] \in Call
  BY DEF Inv, TypeOK
<1> QED
  BY <1>1, StagesApart DEF Inv, UnderWay

LEMMA PostsOfPeople ==
  ASSUME TypeOK
  PROVE  /\ Owners \subseteq People
         /\ \A post \in Posts : Holders(post) \subseteq People /\ Holders(post) \subseteq Leaders
         /\ \A p \in Leaders : p \in Here /\ seats[p].post \in Posts
BY DEF Owners, Holders, Leaders, Here

LEMMA FoundInv ==
  ASSUME Inv, NEW r \in Requests, calls[r].stage \in Asks,
         NEW stage \in {"LEAD", "HEAD", "led"}, NEW found \in SUBSET People,
         Found(r, stage, found), found \subseteq calls[r].led,
         \A p \in calls[r].steady :
           seats[p].post \in Searched(stage) => p \in calls[r].who \cup found
  PROVE  Inv'
<1> PICK c : c = calls[r]
  OBVIOUS
<1>1. c \in Asking /\ Heard(c)
  BY AskUnderWay
<1> PICK q : q = [c EXCEPT !.stage = stage, !.who = c.who \cup found]
  OBVIOUS
<1>2. /\ q \in Asking /\ q.stage = stage /\ q.who = c.who \cup found /\ q.head = c.head
      /\ q.steady = c.steady /\ q.led = c.led /\ q.by = c.by /\ q.alone = c.alone
  BY <1>1 DEF Asking, Asks
<1>3. Heard(q)
  BY <1>1, <1>2 DEF Heard
<1>4. Moves(r, q) /\ UNCHANGED <<seats, tasks, links, comments, bells, asked, made, moves>>
  BY DEF Found, Moves
<1>5. q \in Call /\ q.stage \notin {"writing", "written"}
  BY <1>2 DEF Call
<1> QED
  BY <1>3, <1>4, <1>5, OpenInv

LEMMA ReadManagerInv ==
  ASSUME Inv, NEW r \in Requests, ReadManager(r)
  PROVE  Inv'
<1>1. calls[r].stage = "MANAGER" /\ calls[r].stage \in Asks /\ Found(r, "LEAD", Holders("MANAGER"))
  BY DEF ReadManager, Asks
<1>2. calls[r] \in Asking /\ Heard(calls[r])
  BY <1>1, AskUnderWay
<1>3. Holders("MANAGER") \subseteq People /\ Holders("MANAGER") \subseteq calls[r].led
  BY <1>2, PostsOfPeople DEF Inv, Heard, Posts
<1>4. \A p \in calls[r].steady :
        seats[p].post \in Searched("LEAD") => p \in calls[r].who \cup Holders("MANAGER")
  BY <1>2, PostsOfPeople DEF Inv, Heard, Searched, Holders, Here
<1> QED
  BY <1>1, <1>3, <1>4, FoundInv

LEMMA ReadLeadInv ==
  ASSUME Inv, NEW r \in Requests, ReadLead(r)
  PROVE  Inv'
<1>1. calls[r].stage = "LEAD" /\ calls[r].stage \in Asks /\ Found(r, "HEAD", Holders("LEAD"))
  BY DEF ReadLead, Asks
<1>2. calls[r] \in Asking /\ Heard(calls[r])
  BY <1>1, AskUnderWay
<1>3. Holders("LEAD") \subseteq People /\ Holders("LEAD") \subseteq calls[r].led
  BY <1>2, PostsOfPeople DEF Inv, Heard, Posts
<1>4. \A p \in calls[r].steady :
        seats[p].post \in Searched("HEAD") => p \in calls[r].who \cup Holders("LEAD")
  BY <1>1, <1>2, PostsOfPeople DEF Inv, Heard, Searched, Holders, Here
<1> QED
  BY <1>1, <1>3, <1>4, FoundInv

LEMMA ReadHeadIdInv ==
  ASSUME Inv, NEW r \in Requests, ReadHeadId(r)
  PROVE  Inv'
<1> PICK c : c = calls[r]
  OBVIOUS
<1>1. c.stage = "HEAD" /\ c \in Asking /\ Heard(c)
  BY AskUnderWay DEF ReadHeadId, Asks
<1>2. Holders("HEAD") \subseteq People /\ Holders("HEAD") \subseteq c.led
  BY <1>1, PostsOfPeople DEF Inv, Heard, Posts
<1> PICK q : q = [c EXCEPT !.stage = "head found", !.head = Holders("HEAD")]
  OBVIOUS
<1>3. /\ q \in Asking /\ q.stage = "head found" /\ q.who = c.who /\ q.head = Holders("HEAD")
      /\ q.steady = c.steady /\ q.led = c.led /\ q.by = c.by /\ q.alone = c.alone
  BY <1>1, <1>2 DEF Asking, Asks
<1>4. Heard(q)
  BY <1>1, <1>2, <1>3 DEF Heard, Searched
<1>5. Moves(r, q) /\ UNCHANGED <<seats, tasks, links, comments, bells, asked, made, moves>>
  BY DEF ReadHeadId, Moves
<1>6. q \in Call /\ q.stage \notin {"writing", "written"}
  BY <1>3 DEF Call
<1> QED
  BY <1>4, <1>5, <1>6, OpenInv

LEMMA ReadHeadInv ==
  ASSUME Inv, NEW r \in Requests, ReadHead(r)
  PROVE  Inv'
<1> PICK found : found = calls[r].head \cap Here
  OBVIOUS
<1>1. calls[r].stage = "head found" /\ calls[r].stage \in Asks /\ Found(r, "led", found)
  BY DEF ReadHead, Asks
<1>2. calls[r] \in Asking /\ Heard(calls[r])
  BY <1>1, AskUnderWay
<1>3. found \subseteq People /\ found \subseteq calls[r].led
  BY <1>2 DEF Heard, Here
<1>4. ASSUME NEW p \in calls[r].steady, seats[p].post \in Searched("led")
      PROVE  p \in calls[r].who \cup found
  <2>1. p \in Here
    BY <1>2, PostsOfPeople DEF Inv, Heard
  <2>2. CASE seats[p].post = "HEAD"
    BY <1>1, <1>2, <2>1, <2>2 DEF Heard, Holders
  <2>3. CASE seats[p].post \in {"MANAGER", "LEAD"}
    BY <1>1, <1>2, <2>3 DEF Heard, Searched, Posts
  <2> QED
    BY <1>4, <2>2, <2>3 DEF Searched, Posts
<1> QED
  BY <1>1, <1>3, <1>4, FoundInv

LEMMA ReadOwnersInv ==
  ASSUME Inv, NEW r \in Requests, ReadOwners(r)
  PROVE  Inv'
<1> PICK c : c = calls[r]
  OBVIOUS
<1> PICK alone : alone = (Owners \subseteq Agents \cup {c.by})
  OBVIOUS
<1>1. c.stage = "led" /\ c \in Asking /\ Heard(c) /\ Recipients(c.who, c.by) = {}
  BY AskUnderWay DEF ReadOwners, NobodyToTell, Asks
<1>2. Owners \subseteq People /\ Owners \subseteq c.led /\ alone \in BOOLEAN
  BY <1>1, PostsOfPeople DEF Inv, Heard
<1> PICK q : q = [c EXCEPT !.stage = "told", !.who = Owners, !.alone = alone]
  OBVIOUS
<1>3. /\ q \in Asking /\ q.stage = "told" /\ q.who = Owners /\ q.head = c.head
      /\ q.steady = c.steady /\ q.led = c.led /\ q.by = c.by /\ q.alone = alone
  BY <1>1, <1>2 DEF Asking, Asks
<1>4. c.steady \subseteq c.who
  BY <1>1, PostsOfPeople DEF Inv, Heard, Searched
<1>5. Recipients(c.steady, c.by) = {} /\ (Recipients(Owners, c.by) = {} => alone)
  BY <1>1, <1>4 DEF Recipients
<1>6. Heard(q)
  BY <1>1, <1>2, <1>3, <1>5 DEF Heard, Searched
<1>7. Moves(r, q) /\ UNCHANGED <<seats, tasks, links, comments, bells, asked, made, moves>>
  BY DEF ReadOwners, Moves
<1>8. q \in Call /\ q.stage \notin {"writing", "written"}
  BY <1>3 DEF Call
<1> QED
  BY <1>6, <1>7, <1>8, OpenInv

LEMMA ReadMentionedInv ==
  ASSUME Inv, NEW r \in Requests, ReadMentioned(r)
  PROVE  Inv'
<1> PICK c : c = calls[r]
  OBVIOUS
<1>1. c.stage = "writing" /\ c \in Writing
  BY StagesApart DEF ReadMentioned, Inv, TypeOK
<1> PICK q : q = [stage |-> "written", kind |-> c.kind, task |-> c.task, by |-> c.by,
                  who |-> ((c.mentions \cap Here) \ Agents) \ {c.by}]
  OBVIOUS
<1>2. q \in Call /\ q.stage = "written" /\ q.kind = c.kind /\ q.task = c.task
  BY <1>1 DEF Writing, Written, Call
<1>3. q.kind = "MENTION_COMMENT" => q.task \in Nat
  BY <1>1, <1>2 DEF Inv, AboutTasks
<1>4. Moves(r, q) /\ UNCHANGED <<seats, tasks, links, comments, bells, asked, made, moves>>
  BY DEF ReadMentioned, Moves
<1> QED
  BY <1>2, <1>3, <1>4, OpenInv DEF Asks

LEMMA ReadStepInv ==
  ASSUME Inv, NEW r \in Requests, ReadStep(r)
  PROVE  Inv'
BY ReadMentionedInv, ReadManagerInv, ReadLeadInv, ReadHeadIdInv, ReadHeadInv, ReadOwnersInv
   DEF ReadStep

-----------------------------------------------------------------------------
(***************************************************************************)
(* The bells ring, or are silenced.                                        *)
(***************************************************************************)
\* One row more for who is told, the last.
Rung(p, who, row) ==
  /\ \A j \in DOMAIN bells[p] : j \in DOMAIN bells'[p] /\ bells'[p][j] = bells[p][j]
  /\ \A j \in DOMAIN bells'[p] \ DOMAIN bells[p] :
       p \in who /\ j = Len(bells[p]) + 1 /\ bells'[p][j] = row
  /\ p \in who =>
       Len(bells[p]) + 1 \in DOMAIN bells'[p] /\ bells'[p][Len(bells[p]) + 1] = row

LEMMA BellsRung ==
  ASSUME TypeOK, NEW who \in SUBSET People, NEW row \in Bell, bells' = Notified(who, row)
  PROVE  bells' \in [People -> Seq(Bell)] /\ \A p \in People : Rung(p, who, row)
<1> SUFFICES ASSUME NEW p \in People
             PROVE  bells'[p] \in Seq(Bell) /\ Rung(p, who, row)
  BY DEF Notified
<1>1. bells[p] \in Seq(Bell) /\ bells'[p] = IF p \in who THEN Append(bells[p], row) ELSE bells[p]
  BY DEF TypeOK, Notified
<1>2. CASE p \in who
  BY <1>1, <1>2 DEF Rung
<1>3. CASE p \notin who
  BY <1>1, <1>3 DEF Rung
<1> QED
  BY <1>2, <1>3

NowTold(who, row) ==
  \A task : Told(task)' = IF row.type = "CROSS_TEAM_REQUEST" /\ row.task = task
                            THEN Told(task) \cup who ELSE Told(task)

LEMMA RungTold ==
  ASSUME TypeOK, NEW who \in SUBSET People, NEW row \in Bell, bells' = Notified(who, row)
  PROVE  NowTold(who, row)
<1> SUFFICES ASSUME NEW task
             PROVE  Told(task)' = IF row.type = "CROSS_TEAM_REQUEST" /\ row.task = task
                                    THEN Told(task) \cup who ELSE Told(task)
  BY DEF NowTold
<1> USE DEF Told
<1>1. \A p \in People : Rung(p, who, row)
  BY BellsRung
<1>2. \A p \in People : \A j \in DOMAIN bells[p] :
        j \in DOMAIN bells'[p] /\ bells'[p][j] = bells[p][j]
  BY <1>1 DEF Rung
<1>3. \A p \in People : \A j \in DOMAIN bells'[p] \ DOMAIN bells[p] :
        p \in who /\ bells'[p][j] = row
  BY <1>1 DEF Rung
<1>4. ASSUME NEW p \in Told(task) PROVE p \in Told(task)'
  <2>1. PICK k \in DOMAIN bells[p] :
          bells[p][k].type = "CROSS_TEAM_REQUEST" /\ bells[p][k].task = task
    OBVIOUS
  <2>2. k \in DOMAIN bells'[p] /\ bells'[p][k] = bells[p][k]
    BY <1>2
  <2> QED
    BY <2>1, <2>2
<1>5. ASSUME NEW p \in Told(task)', p \notin Told(task)
      PROVE  p \in who /\ row.type = "CROSS_TEAM_REQUEST" /\ row.task = task
  <2>1. PICK k \in DOMAIN bells'[p] :
          bells'[p][k].type = "CROSS_TEAM_REQUEST" /\ bells'[p][k].task = task
    OBVIOUS
  <2>2. p \in who /\ bells'[p][k] = row
    <3>1. k \notin DOMAIN bells[p]
      BY <1>2, <1>5, <2>1
    <3> QED
      BY <1>3, <2>1, <3>1
  <2> QED
    BY <2>1, <2>2
<1>6. ASSUME NEW p \in who, row.type = "CROSS_TEAM_REQUEST", row.task = task
      PROVE  p \in Told(task)'
  <2> PICK k : k = Len(bells[p]) + 1
    OBVIOUS
  <2>1. k \in DOMAIN bells'[p] /\ bells'[p][k] = row
    BY <1>1 DEF Rung
  <2> QED
    BY <1>6, <2>1
<1> QED
  BY <1>4, <1>5, <1>6

\* A bell that rings for the first time for this.
LEMMA RungOnce ==
  ASSUME TypeOK, SaidOnce, NEW who \in SUBSET People, NEW row \in Bell,
         bells' = Notified(who, row),
         \A p \in People : \A i \in DOMAIN bells[p] :
           bells[p][i].task # row.task \/ bells[p][i].comment # row.comment
  PROVE  ToldOnce'
<1> SUFFICES ASSUME NEW p \in People, NEW i \in DOMAIN bells'[p], NEW j \in DOMAIN bells'[p],
                    i # j
             PROVE  bells'[p][i].task # bells'[p][j].task
                    \/ bells'[p][i].comment # bells'[p][j].comment
  BY DEF ToldOnce
<1> PICK old : old = bells[p]
  OBVIOUS
<1> PICK new : new = bells'[p]
  OBVIOUS
<1>1. Rung(p, who, row)
  BY BellsRung
<1>2. \A k \in DOMAIN old : k \in DOMAIN new /\ new[k] = old[k]
  BY <1>1 DEF Rung
<1>3. \A k \in DOMAIN new \ DOMAIN old : k = Len(old) + 1 /\ new[k] = row
  BY <1>1 DEF Rung
<1>4. \A k \in DOMAIN old : old[k].task # row.task \/ old[k].comment # row.comment
  OBVIOUS
<1>5. \A k, l \in DOMAIN old :
        k # l => old[k].task # old[l].task \/ old[k].comment # old[l].comment
  BY DEF SaidOnce
<1> QED
  BY <1>2, <1>4, <1>5, <1>3

\* Bells whose rows are read, but no row is about anything else.
LEMMA BellsReadInv ==
  ASSUME Inv, bells' \in [People -> Seq(Bell)],
         \A p \in People :
           /\ DOMAIN bells'[p] = DOMAIN bells[p]
           /\ \A i \in DOMAIN bells[p] :
                /\ bells'[p][i].type = bells[p][i].type
                /\ bells'[p][i].task = bells[p][i].task
                /\ bells'[p][i].comment = bells[p][i].comment,
         UNCHANGED <<seats, tasks, links, comments, calls, asked, made, moves>>
  PROVE  Inv'
<1>1. \A task : Told(task)' = Told(task)
  BY DEF Told
<1>2. TypeOK' /\ AboutTasks' /\ Linked'
  <2>1. TypeOK'
    BY DEF Inv, TypeOK
  <2> QED
    BY <2>1 DEF Inv, AboutTasks, Linked
<1>3. Numbered'
  BY DEF Inv, Numbered, BellsNumbered
<1>4. UnderWay'
  BY SeatsKept DEF Inv, UnderWay
<1>5. SaidOnce'
  <2>1. \A k, l \in links' : Triple(k) = Triple(l) => k = l
    BY DEF Inv, SaidOnce
  <2>2. \A p \in People : \A i, j \in DOMAIN bells'[p] : i # j =>
          <<bells'[p][i].task, bells'[p][i].comment>> # <<bells'[p][j].task, bells'[p][j].comment>>
    BY DEF Inv, SaidOnce
  <2> QED
    BY <2>1, <2>2 DEF SaidOnce, Triple
<1>6. RequestsAreHeard'
  BY <1>1 DEF Inv, RequestsAreHeard
<1> QED
  BY <1>2, <1>3, <1>4, <1>5, <1>6 DEF Inv

LEMMA MarkReadInv ==
  ASSUME Inv, NEW p \in People, NEW i \in DOMAIN bells[p], MarkRead(p, i)
  PROVE  Inv'
<1>1. bells \in [People -> Seq(Bell)] /\ bells[p] \in Seq(Bell) /\ bells[p][i] \in Bell
  BY DEF Inv, TypeOK
<1> PICK row : row = [bells[p][i] EXCEPT !.read = TRUE]
  OBVIOUS
<1>2. /\ row \in Bell /\ row.type = bells[p][i].type /\ row.task = bells[p][i].task
      /\ row.comment = bells[p][i].comment
  BY <1>1 DEF Bell
<1>3. bells' = [bells EXCEPT ![p] = [bells[p] EXCEPT ![i] = row]]
  BY DEF MarkRead
<1>4. [bells[p] EXCEPT ![i] = row] \in Seq(Bell)
  BY <1>1, <1>2
<1> QED
  BY <1>1, <1>2, <1>3, <1>4, BellsReadInv DEF MarkRead

LEMMA MarkAllReadInv ==
  ASSUME Inv, NEW p \in People, MarkAllRead(p)
  PROVE  Inv'
<1>1. bells \in [People -> Seq(Bell)] /\ bells[p] \in Seq(Bell)
  BY DEF Inv, TypeOK
<1> PICK all : all = [i \in DOMAIN bells[p] |-> [bells[p][i] EXCEPT !.read = TRUE]]
  OBVIOUS
<1>2. bells' = [bells EXCEPT ![p] = all]
  BY DEF MarkAllRead
<1>3. ASSUME NEW i \in DOMAIN bells[p]
      PROVE  /\ all[i] \in Bell /\ all[i].type = bells[p][i].type
             /\ all[i].task = bells[p][i].task /\ all[i].comment = bells[p][i].comment
  <2>1. bells[p][i] \in Bell /\ all[i] = [bells[p][i] EXCEPT !.read = TRUE]
    BY <1>1
  <2> QED
    BY <2>1 DEF Bell
<1>4. all \in Seq(Bell) /\ DOMAIN all = DOMAIN bells[p]
  BY <1>1, <1>3
<1> QED
  BY <1>1, <1>2, <1>3, <1>4, BellsReadInv DEF MarkAllRead

-----------------------------------------------------------------------------
(***************************************************************************)
(* Commits.                                                                *)
(***************************************************************************)
LEMMA Inserted ==
  ASSUME Inv, NEW s \in Nat, NEW t \in Nat, NEW type \in Types, Insert(s, t, type)
  PROVE  /\ links' \subseteq Link /\ made' \in Nat /\ made' = made + 1
         /\ \A link \in links' :
              link \in links \/ (link.id = made' /\ Triple(link) = <<s, t, type>>)
         /\ \A link \in links' : link.id <= made'
         /\ \A k, l \in links' : Triple(k) = Triple(l) => k = l
<1> PICK new : new = [id |-> made + 1, source |-> s, target |-> t, type |-> type]
  OBVIOUS
<1>1. new \in Link /\ new.id = made + 1 /\ Triple(new) = <<s, t, type>>
  BY DEF Link, Triple, Inv, TypeOK
<1>2. links' = links \cup {new} /\ made' = made + 1 /\ made \in Nat
  BY DEF Insert, Inv, TypeOK
<1>3. links' \subseteq Link
  BY <1>1, <1>2 DEF Inv, TypeOK
<1>4. \A link \in links' : link.id <= made'
  <2>1. \A link \in links : link.id \in Nat /\ link.id <= made
    BY DEF Inv, TypeOK, Numbered, Link
  <2> QED
    BY <1>1, <1>2, <2>1
<1>5. \A link \in links : Triple(link) # Triple(new)
  BY <1>1 DEF Insert, IndexAllows
<1>6. \A k, l \in links' : Triple(k) = Triple(l) => k = l
  BY <1>2, <1>5 DEF Inv, SaidOnce
<1> QED
  BY <1>1, <1>2, <1>3, <1>4, <1>6

LEMMA CommitLinkInv ==
  ASSUME Inv, NEW r \in Requests, CommitLink(r)
  PROVE  Inv'
<1> PICK c : c = calls[r]
  OBVIOUS
<1>1. c \in Linking
  BY StagesApart DEF CommitLink, Inv, TypeOK
<1>2. /\ links' \subseteq Link /\ made' \in Nat /\ made' = made + 1
      /\ \A link \in links' :
           link \in links \/ (link.id = made' /\ Triple(link) = <<c.source, c.target, c.type>>)
      /\ \A link \in links' : link.id <= made'
      /\ \A k, l \in links' : Triple(k) = Triple(l) => k = l
  BY <1>1, Inserted DEF CommitLink, Linking
<1>3. calls' \in [Requests -> Call] /\ AboutTasks' /\ UnderWay'
  BY SlotIdle DEF CommitLink, Inv, TypeOK
<1>4. TypeOK'
  BY <1>2, <1>3 DEF CommitLink, Inv, TypeOK
<1>5. \A a \in asked : a.link \in Nat /\ a.link <= made /\ made \in Nat
  BY DEF Inv, TypeOK, Numbered, Request
<1>6. Numbered'
  <2>1. \A a \in asked' : a.task <= Len(tasks') /\ a.link <= made'
    BY <1>2, <1>5 DEF CommitLink, Inv, Numbered
  <2> QED
    BY <1>2, <2>1 DEF CommitLink, Inv, Numbered, BellsNumbered
<1>7. Linked'
  BY <1>2, <1>5 DEF CommitLink, Inv, Linked, Triple
<1>8. SaidOnce' /\ RequestsAreHeard'
  BY <1>2 DEF CommitLink, Inv, SaidOnce, RequestsAreHeard, Told, Triple
<1> QED
  BY <1>3, <1>4, <1>6, <1>7, <1>8 DEF Inv

LEMMA CommitUnlinkInv ==
  ASSUME Inv, NEW r \in Requests, CommitUnlink(r)
  PROVE  Inv'
<1>1. links' \subseteq links
  BY DEF CommitUnlink
<1>2. calls' \in [Requests -> Call] /\ AboutTasks' /\ UnderWay'
  BY SlotIdle DEF CommitUnlink, Inv, TypeOK
<1>3. TypeOK' /\ Numbered'
  BY <1>1, <1>2 DEF CommitUnlink, Inv, TypeOK, Numbered, BellsNumbered
<1>4. Linked' /\ SaidOnce' /\ RequestsAreHeard'
  BY <1>1 DEF CommitUnlink, Inv, Linked, SaidOnce, RequestsAreHeard, Told, Triple
<1> QED
  BY <1>2, <1>3, <1>4 DEF Inv

\* What is about a new comment or a new task is about nothing yet known.
LEMMA RungNumbered ==
  ASSUME Inv, NEW who \in SUBSET People, NEW row \in Bell, bells' = Notified(who, row),
         Len(tasks') \in Nat, Len(comments') \in Nat,
         Len(tasks) <= Len(tasks'), Len(comments) <= Len(comments'),
         row.type = "CROSS_TEAM_REQUEST" => row.comment = None,
         row.comment = None => row.task = Len(tasks') /\ Len(tasks') = Len(tasks) + 1,
         row.comment # None =>
           row.comment = Len(comments') /\ Len(comments') = Len(comments) + 1
  PROVE  BellsNumbered' /\ ToldOnce'
<1>1. bells \in [People -> Seq(Bell)] /\ Len(tasks) \in Nat /\ Len(comments) \in Nat
  BY DEF Inv, TypeOK
<1>2. ASSUME NEW p \in People, NEW i \in DOMAIN bells[p]
      PROVE  /\ bells[p][i].task \in Nat
             /\ bells[p][i].comment # None => bells[p][i].comment \in Nat
             /\ bells[p][i].type = "CROSS_TEAM_REQUEST" => bells[p][i].comment = None
             /\ bells[p][i].comment = None => bells[p][i].task <= Len(tasks)
             /\ bells[p][i].comment # None => bells[p][i].comment <= Len(comments)
  <2>1. bells[p][i] \in Bell
    BY <1>1
  <2> QED
    BY <2>1 DEF Inv, Numbered, BellsNumbered, Bell
<1>3. \A p \in People : \A i \in DOMAIN bells[p] :
        bells[p][i].task # row.task \/ bells[p][i].comment # row.comment
  BY <1>1, <1>2
<1>4. ASSUME NEW p \in People, NEW i \in DOMAIN bells'[p]
      PROVE  /\ bells'[p][i].type = "CROSS_TEAM_REQUEST" => bells'[p][i].comment = None
             /\ bells'[p][i].comment = None => bells'[p][i].task <= Len(tasks')
             /\ bells'[p][i].comment # None => bells'[p][i].comment <= Len(comments')
  <2>1. Rung(p, who, row)
    BY BellsRung DEF Inv
  <2>2. CASE i \in DOMAIN bells[p]
    BY <1>1, <1>2, <2>1, <2>2 DEF Rung
  <2>3. CASE i \notin DOMAIN bells[p]
    BY <2>1, <2>3 DEF Rung
  <2> QED
    BY <2>2, <2>3
<1>5. ToldOnce'
  BY <1>3, RungOnce DEF Inv
<1> QED
  BY <1>4, <1>5 DEF BellsNumbered

LEMMA CommitCommentInv ==
  ASSUME Inv, NEW r \in Requests, CommitComment(r)
  PROVE  Inv'
<1> PICK c : c = calls[r]
  OBVIOUS
<1> PICK row : row = Notification(c.kind, c.task, Len(comments'), c.by)
  OBVIOUS
<1>1. c \in Written /\ c.kind = "MENTION_COMMENT" /\ c.task \in Nat
  BY StagesApart DEF CommitComment, Inv, TypeOK, AboutTasks
<1>2. /\ tasks \in Seq(People) /\ comments \in Seq([task : Nat, by : People])
      /\ comments' \in Seq([task : Nat, by : People]) /\ Len(comments') = Len(comments) + 1
  BY <1>1 DEF CommitComment, Inv, TypeOK, Written
<1>3. /\ row \in Bell /\ row.type = "MENTION_COMMENT" /\ row.task = c.task
      /\ row.comment = Len(comments') /\ row.comment # None
  BY <1>1, <1>2, DiscussionAssumption DEF Bell, Notification, Written, Kinds
<1>4. bells' = Notified(c.who, row) /\ c.who \in SUBSET People
  BY <1>1 DEF CommitComment, Written
<1>5. calls' \in [Requests -> Call] /\ AboutTasks' /\ UnderWay'
  BY SlotIdle DEF CommitComment, Inv, TypeOK
<1>6. TypeOK'
  BY <1>2, <1>3, <1>4, <1>5, BellsRung DEF CommitComment, Inv, TypeOK
<1>7. UNCHANGED <<tasks, links, asked, made>>
  BY DEF CommitComment
<1>8. Numbered' /\ SaidOnce'
  <2>1. Len(tasks') \in Nat /\ Len(comments') \in Nat
        /\ Len(tasks) <= Len(tasks') /\ Len(comments) <= Len(comments')
    BY <1>2, <1>7
  <2>2. BellsNumbered' /\ ToldOnce'
    BY <1>2, <1>3, <1>4, <2>1, RungNumbered
  <2> QED
    BY <1>7, <2>2 DEF Inv, Numbered, ToldOnce, SaidOnce, Triple
<1>9. \A task : Told(task)' = Told(task)
  <2>1. NowTold(c.who, row)
    BY <1>3, <1>4, RungTold DEF Inv
  <2> QED
    BY <1>3, <2>1 DEF NowTold
<1>10. Linked' /\ RequestsAreHeard'
  BY <1>7, <1>9 DEF Inv, Linked, RequestsAreHeard, Triple
<1> QED
  BY <1>5, <1>6, <1>8, <1>10 DEF Inv

LEMMA CommitTaskInv ==
  ASSUME Inv, NEW r \in Requests, CommitTask(r)
  PROVE  Inv'
<1> PICK c : c = calls[r]
  OBVIOUS
<1> PICK row : row = Notification(c.kind, Len(tasks'), None, c.by)
  OBVIOUS
<1>1. c \in Written /\ c.kind = "MENTION_TASK"
  BY StagesApart DEF CommitTask, Inv, TypeOK
<1>2. /\ tasks \in Seq(People) /\ comments \in Seq([task : Nat, by : People])
      /\ tasks' \in Seq(People) /\ Len(tasks') = Len(tasks) + 1
  BY <1>1 DEF CommitTask, Inv, TypeOK, Written
<1>3. /\ row \in Bell /\ row.type = "MENTION_TASK" /\ row.task = Len(tasks')
      /\ row.comment = None
  BY <1>1, <1>2 DEF Bell, Notification, Written, Kinds
<1>4. bells' = Notified(c.who, row) /\ c.who \in SUBSET People
  BY <1>1 DEF CommitTask, Written
<1>5. calls' \in [Requests -> Call] /\ AboutTasks' /\ UnderWay'
  BY SlotIdle DEF CommitTask, Inv, TypeOK
<1>6. TypeOK'
  BY <1>2, <1>3, <1>4, <1>5, BellsRung DEF CommitTask, Inv, TypeOK
<1>7. UNCHANGED <<links, comments, asked, made>>
  BY DEF CommitTask
<1>8. Numbered' /\ SaidOnce'
  <2>1. Len(tasks') \in Nat /\ Len(comments') \in Nat
        /\ Len(tasks) <= Len(tasks') /\ Len(comments) <= Len(comments')
    BY <1>2, <1>7
  <2>2. BellsNumbered' /\ ToldOnce'
    BY <1>2, <1>3, <1>4, <2>1, RungNumbered
  <2>3. \A a \in asked : a.task \in Nat /\ a.task <= Len(tasks)
    BY DEF Inv, TypeOK, Numbered, Request
  <2>4. \A a \in asked : a.task <= Len(tasks')
    BY <1>2, <2>3
  <2> QED
    BY <1>7, <2>2, <2>4 DEF Inv, Numbered, ToldOnce, SaidOnce, Triple
<1>9. \A task : Told(task)' = Told(task)
  <2>1. NowTold(c.who, row)
    BY <1>3, <1>4, RungTold DEF Inv
  <2> QED
    BY <1>3, <2>1 DEF NowTold
<1>10. Linked' /\ RequestsAreHeard'
  BY <1>7, <1>9 DEF Inv, Linked, RequestsAreHeard, Triple
<1> QED
  BY <1>5, <1>6, <1>8, <1>10 DEF Inv

\* Whoever should hear of the request has been found by the time it is filed.
LEMMA EnoughFound ==
  ASSUME Inv, NEW r \in Requests, NEW c, c = calls[r],
         (c.stage = "led" /\ ~NobodyToTell(c)) \/ c.stage = "told"
  PROVE  /\ c \in Asking
         /\ Recipients(c.steady, c.by) \subseteq Recipients(c.who, c.by)
         /\ Recipients(c.who, c.by) \subseteq c.led \ {c.by}
         /\ Recipients(c.who, c.by) = {} => c.alone
<1>1. c \in Asking /\ Heard(c)
  BY AskUnderWay DEF Asks
<1>2. CASE c.stage = "led"
  <2>1. c.steady \subseteq c.who
    BY <1>1, <1>2, PostsOfPeople DEF Inv, Heard, Searched
  <2> QED
    BY <1>1, <1>2, <2>1 DEF Heard, Recipients, NobodyToTell
<1>3. CASE c.stage = "told"
  BY <1>1, <1>3 DEF Heard, Recipients
<1> QED
  BY <1>1, <1>2, <1>3

LEMMA CommitAskInv ==
  ASSUME Inv, NEW r \in Requests, CommitAsk(r)
  PROVE  Inv'
<1> PICK c : c = calls[r]
  OBVIOUS
<1> PICK target : target = Len(tasks) + 1
  OBVIOUS
<1> PICK told : told = Recipients(c.who, c.by)
  OBVIOUS
<1> PICK row : row = Notification("CROSS_TEAM_REQUEST", target, None, c.by)
  OBVIOUS
<1> PICK a : a = [task |-> target, source |-> c.source, type |-> c.type, by |-> c.by,
                  link |-> made', steady |-> c.steady, led |-> c.led, alone |-> c.alone]
  OBVIOUS
<1>1. /\ c \in Asking
      /\ Recipients(c.steady, c.by) \subseteq told
      /\ told \subseteq c.led \ {c.by}
      /\ told = {} => c.alone
  BY EnoughFound DEF CommitAsk
<1>2. /\ tasks \in Seq(People) /\ comments \in Seq([task : Nat, by : People])
      /\ tasks' \in Seq(People) /\ Len(tasks') = Len(tasks) + 1 /\ target \in Nat
      /\ target = Len(tasks')
  BY <1>1 DEF CommitAsk, Inv, TypeOK, Asking
<1>3. /\ row \in Bell /\ row.type = "CROSS_TEAM_REQUEST" /\ row.task = target
      /\ row.comment = None
  BY <1>1, <1>2 DEF Bell, Notification, Asking
<1>4. bells' = Notified(told, row) /\ told \in SUBSET People
  BY <1>1 DEF CommitAsk, Asking, Recipients
<1>5. calls' \in [Requests -> Call] /\ AboutTasks' /\ UnderWay'
  BY SlotIdle DEF CommitAsk, Inv, TypeOK
<1>6. /\ links' \subseteq Link /\ made' \in Nat /\ made' = made + 1
      /\ \A link \in links' :
           link \in links \/ (link.id = made' /\ Triple(link) = <<target, c.source, c.type>>)
      /\ \A link \in links' : link.id <= made'
      /\ \A k, l \in links' : Triple(k) = Triple(l) => k = l
  <2>1. Insert(target, c.source, c.type) /\ c.source \in Nat /\ c.type \in Types
    BY <1>1 DEF CommitAsk, Asking
  <2> QED
    BY <1>2, <2>1, Inserted
<1>7. a \in Request /\ asked' = asked \cup {a} /\ comments' = comments
  BY <1>1, <1>2, <1>6 DEF CommitAsk, Asking, Request
<1>8. TypeOK'
  BY <1>2, <1>3, <1>4, <1>5, <1>6, <1>7, BellsRung DEF CommitAsk, Inv, TypeOK
<1>9. \A b \in asked : /\ b.task \in Nat /\ b.task <= Len(tasks) /\ b.task # target
                       /\ b.link \in Nat /\ b.link <= made /\ b.link # made'
  BY <1>2, <1>6 DEF Inv, TypeOK, Numbered, Request
<1>10. Numbered' /\ SaidOnce'
  <2>1. Len(tasks') \in Nat /\ Len(comments') \in Nat
        /\ Len(tasks) <= Len(tasks') /\ Len(comments) <= Len(comments')
    BY <1>2, <1>7
  <2>2. BellsNumbered' /\ ToldOnce'
    BY <1>2, <1>3, <1>4, <2>1, RungNumbered
  <2>3. \A b \in asked' : b.task <= Len(tasks') /\ b.link <= made'
    <3>1. made \in Nat
      BY DEF Inv, TypeOK
    <3> QED
      BY <1>2, <1>6, <1>7, <1>9, <3>1
  <2> QED
    BY <1>6, <2>2, <2>3 DEF Numbered, ToldOnce, SaidOnce, Triple
<1>11. Linked'
  <2>1. \A b \in asked, link \in links' :
          link.id = b.link => Triple(link) = <<b.task, b.source, b.type>>
    BY <1>6, <1>9 DEF Inv, Linked
  <2>2. \A link \in links : link.id \in Nat /\ link.id <= made /\ made \in Nat
    BY DEF Inv, TypeOK, Numbered, Link
  <2>3. \A link \in links' :
          link.id = a.link => Triple(link) = <<a.task, a.source, a.type>>
    BY <1>6, <2>2
  <2> QED
    BY <1>7, <2>1, <2>3 DEF Linked, Triple
<1>12. RequestsAreHeard'
  <2>0. NowTold(told, row)
    <3>1. TypeOK
      BY DEF Inv
    <3> QED
      BY <1>3, <1>4, <3>1, RungTold
  <2>1. ASSUME NEW b \in asked PROVE Told(b.task)' = Told(b.task)
    BY <1>3, <1>9, <2>0 DEF NowTold
  <2>2. Told(target) = {}
    <3> SUFFICES ASSUME NEW p \in People, NEW i \in DOMAIN bells[p],
                        bells[p][i].type = "CROSS_TEAM_REQUEST", bells[p][i].task = target
                 PROVE  FALSE
      BY DEF Told
    <3>1. bells[p][i].task <= Len(tasks)
      BY DEF Inv, Numbered, BellsNumbered
    <3> QED
      BY <1>2, <3>1
  <2>3. Told(target)' = told
    BY <1>3, <2>0, <2>2 DEF NowTold
  <2>4. /\ (a.steady \ {a.by}) \ Agents \subseteq Told(a.task)'
        /\ Told(a.task)' \subseteq a.led \ {a.by}
        /\ Told(a.task)' = {} => a.alone
    BY <1>1, <2>3 DEF Recipients
  <2>5. \A b \in asked :
          /\ (b.steady \ {b.by}) \ Agents \subseteq Told(b.task)'
          /\ Told(b.task)' \subseteq b.led \ {b.by}
          /\ Told(b.task)' = {} => b.alone
    BY <2>1 DEF Inv, RequestsAreHeard
  <2> QED
    BY <1>7, <2>4, <2>5 DEF RequestsAreHeard
<1> QED
  BY <1>5, <1>8, <1>10, <1>11, <1>12 DEF Inv

LEMMA CommitStepInv ==
  ASSUME Inv, NEW r \in Requests, CommitStep(r)
  PROVE  Inv'
BY CommitLinkInv, CommitUnlinkInv, CommitCommentInv, CommitTaskInv, CommitAskInv DEF CommitStep

LEMMA AbandonInv ==
  ASSUME Inv, NEW r \in Requests, Abandon(r)
  PROVE  Inv'
<1>1. calls' \in [Requests -> Call] /\ AboutTasks' /\ UnderWay'
  BY SlotIdle DEF Abandon, Inv, TypeOK
<1> QED
  BY <1>1, NothingWritten DEF Abandon, Inv, TypeOK

-----------------------------------------------------------------------------
(***************************************************************************)
(* Seats change under the requests in flight.                              *)
(***************************************************************************)
Reseated(c, changed) ==
  [c EXCEPT !.steady = {p \in c.steady : changed[p].here /\ changed[p].post = seats[p].post},
            !.led = c.led \cup {p \in People : changed[p].here /\
                                  (changed[p].owner \/ changed[p].post # None)}]

LEMMA ReseatedHeard ==
  ASSUME TypeOK, NEW changed \in [People -> Seats], seats' = changed,
         NEW c \in Asking, Heard(c), NEW q, q = Reseated(c, changed)
  PROVE  q \in Asking /\ q.stage = c.stage /\ Heard(q)'
<1> PICK steady : steady = {p \in c.steady : changed[p].here /\ changed[p].post = seats[p].post}
  OBVIOUS
<1> PICK led : led = c.led \cup {p \in People : changed[p].here /\
                                  (changed[p].owner \/ changed[p].post # None)}
  OBVIOUS
<1>1. /\ q \in Asking /\ q.stage = c.stage /\ q.by = c.by /\ q.who = c.who /\ q.head = c.head
      /\ q.alone = c.alone /\ q.steady = steady /\ q.led = led
  BY DEF Reseated, Asking
<1>2. \A p \in steady : p \in c.steady /\ seats'[p].post = seats[p].post /\ seats'[p].here
  OBVIOUS
<1>3. steady \subseteq Leaders'
  <2> SUFFICES ASSUME NEW p \in steady PROVE p \in Leaders'
    OBVIOUS
  <2>1. p \in People /\ seats[p].post \in Posts
    BY <1>2, PostsOfPeople DEF Heard, Here
  <2> QED
    BY <1>2, <2>1 DEF Leaders, Holders, Here
<1>4. Leaders' \cup Owners' \subseteq led
  BY DiscussionAssumption DEF Leaders, Owners, Holders, Here
<1>5. c.who \cup c.head \subseteq led
  BY DEF Heard
<1>6. \A p \in steady : seats'[p].post \in Searched(c.stage) => p \in c.who
  BY <1>2 DEF Heard
<1>7. c.stage = "head found" => steady \cap Holders("HEAD")' \subseteq c.head
  BY <1>2, PostsOfPeople DEF Heard, Holders, Here
<1>8. c.stage = "told" => /\ Recipients(steady, c.by) = {}
                          /\ Recipients(c.who, c.by) = {} => c.alone
  BY <1>2 DEF Heard, Recipients
<1>9. Heard(q)'
  BY <1>1, <1>3, <1>4, <1>5, <1>6, <1>7, <1>8 DEF Heard, Searched, Recipients
<1> QED
  BY <1>1, <1>9

LEMMA ReseatInv ==
  ASSUME Inv, NEW changed \in [People -> Seats], Reseat(changed)
  PROVE  Inv'
<1>1. seats' = changed /\ UNCHANGED <<tasks, links, comments, bells, asked, made>>
      /\ moves' = moves + 1
  BY DEF Reseat
<1>2. ASSUME NEW r \in Requests
      PROVE  /\ calls'[r] \in Call
             /\ calls'[r].stage = calls[r].stage
             /\ calls[r].stage \notin Asks => calls'[r] = calls[r]
             /\ calls[r].stage \in Asks => Heard(calls[r])'
  <2>1. calls[r] \in Call
    BY DEF Inv, TypeOK
  <2>2. CASE calls[r].stage \in Asks
    <3>1. calls[r] \in Asking /\ Heard(calls[r])
      BY <2>2, AskUnderWay
    <3> PICK q : q = Reseated(calls[r], changed)
      OBVIOUS
    <3>2. calls'[r] = q
      BY <3>1 DEF Reseat, Reseated, Asking
    <3>3. q \in Asking /\ q.stage = calls[r].stage /\ Heard(q)'
      BY <1>1, <3>1, ReseatedHeard DEF Inv
    <3>4. Heard(calls[r])'
      BY <3>2, <3>3 DEF Heard
    <3> QED
      BY <2>2, <3>2, <3>3, <3>4 DEF Call
  <2>3. CASE calls[r].stage \notin Asks
    <3> PICK c : c = calls[r]
      OBVIOUS
    <3>0. c \in Linking \cup Unlinking \cup Writing \cup Written \cup {Idle}
      BY <2>1, <2>3 DEF Call, Asking
    <3>1. "steady" \notin DOMAIN calls[r]
      <4>1. CASE c \in Linking
        BY <4>1 DEF Linking
      <4>2. CASE c \in Unlinking
        BY <4>2 DEF Unlinking
      <4>3. CASE c \in Writing
        BY <4>3 DEF Writing
      <4>4. CASE c \in Written
        BY <4>4 DEF Written
      <4>5. CASE c = Idle
        BY <4>5 DEF Idle
      <4> QED
        BY <3>0, <4>1, <4>2, <4>3, <4>4, <4>5
    <3>2. calls'[r] = calls[r]
      BY <2>3, <3>1 DEF Reseat
    <3> QED
      BY <2>1, <2>3, <3>2
  <2> QED
    BY <2>2, <2>3
<1>3. calls' \in [Requests -> Call]
  BY <1>2 DEF Reseat
<1>4. AboutTasks'
  BY <1>2 DEF Inv, AboutTasks, Asks
<1>5. UnderWay'
  BY <1>2 DEF UnderWay
<1>6. TypeOK'
  BY <1>1, <1>3 DEF Inv, TypeOK
<1> QED
  BY <1>1, <1>4, <1>5, <1>6, NothingWritten DEF Inv

LEMMA SurroundingsInv ==
  ASSUME Inv, Surroundings
  PROVE  Inv'
<1>1. seats \in [People -> Seats]
  BY DEF Inv, TypeOK
<1>2. ASSUME NEW p \in People, NEW post \in Posts \cup {None}, Appoint(p, post) PROVE Inv'
  <2> PICK changed : changed = [q \in People |->
        IF q = p THEN [seats[p] EXCEPT !.post = post]
        ELSE IF seats[q].post = post THEN [seats[q] EXCEPT !.post = None] ELSE seats[q]]
    OBVIOUS
  <2>1. changed \in [People -> Seats]
    BY <1>1 DEF Seats
  <2> QED
    BY <1>2, <2>1, ReseatInv DEF Appoint
<1>3. ASSUME NEW p \in People, NEW owner \in BOOLEAN, SetOwner(p, owner) PROVE Inv'
  <2> PICK changed : changed = [seats EXCEPT ![p].owner = owner]
    OBVIOUS
  <2>1. changed \in [People -> Seats]
    BY <1>1 DEF Seats
  <2> QED
    BY <1>3, <2>1, ReseatInv DEF SetOwner
<1>4. ASSUME NEW p \in People, Leave(p) PROVE Inv'
  <2> PICK changed :
        changed = [seats EXCEPT ![p] = [here |-> FALSE, owner |-> FALSE, post |-> None]]
    OBVIOUS
  <2>1. changed \in [People -> Seats]
    BY <1>1 DEF Seats
  <2> QED
    BY <1>4, <2>1, ReseatInv DEF Leave
<1> QED
  BY <1>2, <1>3, <1>4 DEF Surroundings

-----------------------------------------------------------------------------
LEMMA InitInv == Init => Inv
<1> SUFFICES ASSUME Init PROVE Inv
  OBVIOUS
<1>1. seats \in [People -> Seats] /\ Founder \in People
  BY DiscussionAssumption DEF Init
<1>2. calls \in [Requests -> Call] /\ \A r \in Requests : calls[r].stage = "idle"
  BY IdleCall DEF Init
<1>3. TypeOK
  BY <1>1, <1>2 DEF Init, TypeOK
<1>4. AboutTasks /\ UnderWay
  BY <1>2 DEF AboutTasks, UnderWay, Asks
<1>5. Numbered /\ Linked /\ SaidOnce /\ RequestsAreHeard
  BY DEF Init, Numbered, BellsNumbered, Linked, SaidOnce, RequestsAreHeard
<1> QED
  BY <1>3, <1>4, <1>5 DEF Inv

LEMMA StepInv == Inv /\ [Next]_vars => Inv'
<1> SUFFICES ASSUME Inv, [Next]_vars PROVE Inv'
  OBVIOUS
<1>1. ASSUME NEW r \in Requests, Speak(r) \/ ReadStep(r) \/ CommitStep(r) \/ Abandon(r)
      PROVE  Inv'
  BY <1>1, SpeakInv, ReadStepInv, CommitStepInv, AbandonInv
<1>2. ASSUME NEW p \in People, MarkAllRead(p) \/ \E i \in DOMAIN bells[p] : MarkRead(p, i)
      PROVE  Inv'
  BY <1>2, MarkReadInv, MarkAllReadInv
<1>3. CASE Surroundings
  BY <1>3, SurroundingsInv
<1>4. CASE UNCHANGED vars
  <2>1. /\ TypeOK' /\ AboutTasks'
    BY <1>4 DEF vars, Inv, TypeOK, AboutTasks
  <2>2. UnderWay'
    BY <1>4, SeatsKept DEF vars, Inv, UnderWay
  <2> QED
    BY <1>4, <2>1, <2>2, NothingWritten DEF vars, Inv
<1> QED
  BY <1>1, <1>2, <1>3, <1>4 DEF Next

LEMMA Invariance == Spec => []Inv
BY InitInv, StepInv, PTL DEF Spec

(***************************************************************************)
(* Seats, tasks, relations, comments, bells and the calls under way are    *)
(* what the rows and the handlers' variables can be.                       *)
(***************************************************************************)
THEOREM TypeCorrect == Spec => []TypeOK
<1>1. Inv => TypeOK
  BY DEF Inv
<1> QED
  BY <1>1, Invariance, PTL

(***************************************************************************)
(* A cross-team request is heard, whoever is appointed, demoted, made an   *)
(* owner or removed between the reads that look for its recipients, and    *)
(* however many requests, comments and tasks are under way.                *)
(***************************************************************************)
THEOREM NoRequestIsInvisible == Spec => []RequestsAreHeard
<1>1. Inv => RequestsAreHeard
  BY DEF Inv
<1> QED
  BY <1>1, Invariance, PTL

(***************************************************************************)
(* Any number of calls that relate the same tasks at the same time leave   *)
(* one relation, and nobody's bell says one thing twice.                   *)
(***************************************************************************)
THEOREM NothingIsSaidTwice == Spec => []SaidOnce
<1>1. Inv => SaidOnce
  BY DEF Inv
<1> QED
  BY <1>1, Invariance, PTL

(***************************************************************************)
(* Both ends of a relation show each other, and as long as the relation of *)
(* a request is there the work asked for shows at the task it was asked    *)
(* for: no later relation takes its id and no step changes its ends.       *)
(***************************************************************************)
THEOREM RelationsShowAtBothEnds == Spec => []BothEndsShow
<1>1. ASSUME TypeOK, Linked, NEW a \in asked, NEW link \in links, link.id = a.link
      PROVE  a.task \in Grouped(a.source)[Passive[a.type]]
  <2>1. link.source = a.task /\ link.target = a.source /\ link.type = a.type
    BY <1>1 DEF Linked, Triple
  <2>2. a.type \in Types
    BY <1>1 DEF TypeOK, Request
  <2>3. a.task \in Incoming(a.source, a.type)
    BY <2>1 DEF Incoming
  <2>4. Incoming(a.source, a.type) \subseteq Grouped(a.source)[Passive[a.type]]
    BY <2>2 DEF Types, Passive, Grouped
  <2> QED
    BY <2>3, <2>4
<1>2. ASSUME NEW s \in DOMAIN tasks, NEW t \in DOMAIN tasks, NEW type \in Types
      PROVE  t \in Grouped(s)[Active[type]] <=> s \in Grouped(t)[Passive[type]]
  <2>1. \A u, v \in DOMAIN tasks : v \in Outgoing(u, type) <=> u \in Incoming(v, type)
    BY DEF Outgoing, Incoming
  <2>2. CASE type = "RELATES_TO"
    BY <2>1, <2>2 DEF Active, Passive, Grouped
  <2>3. CASE type # "RELATES_TO"
    BY <2>1, <2>3 DEF Types, Active, Passive, Grouped
  <2> QED
    BY <2>2, <2>3
<1>3. Inv => BothEndsShow
  BY <1>1, <1>2 DEF Inv, BothEndsShow
<1> QED
  BY <1>3, Invariance, PTL
=============================================================================
