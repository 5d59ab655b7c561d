------------------------------ MODULE Discussion ------------------------------
(***************************************************************************)
(* What people say about tasks and who hears of it: relations between      *)
(* tasks, comments, @mentions, the notifications of a cross-team request   *)
(* and the bell of each user, in one workspace.                            *)
(*                                                                         *)
(* A request runs in one READ COMMITTED transaction: it reads with one     *)
(* statement after another, and what it writes appears at its commit.      *)
(* Meanwhile others commit, and seats change: OrgChart and Access have the *)
(* details, here a change of post, role or membership is one step.         *)
(* Tasks and comments are numbered in the order of their commits; no       *)
(* operation deletes either.                                               *)
(***************************************************************************)
EXTENDS Naturals, Sequences, FiniteSets

CONSTANTS
  People,     \* members of the workspace
  Agents,     \* those of them who are no humans: no user, hence no bell
  Founder,    \* who signed the workspace up and created its first tasks
  Seatings,   \* how people may be seated at first
  Mentions,   \* sets of people that a text may mention
  Requests,   \* slots for HTTP requests in flight
  MaxTasks, MaxLinks, MaxComments,   \* bounds, looked at when a call begins
  MaxMoves,   \* bound: changes of seats, while somebody writes or asks
  None

Types == {"BLOCKS", "MITIGATES", "DUPLICATES", "RELATES_TO"}   \* of relations
Posts == {"MANAGER", "LEAD", "HEAD"}   \* of the one team that is asked for work
Seats == [here : BOOLEAN, owner : BOOLEAN, post : Posts \cup {None}]

ASSUME DiscussionAssumption ==
  /\ Founder \in People \ Agents
  /\ Seatings \subseteq [People -> Seats]
  /\ Mentions \subseteq SUBSET People
  /\ None \notin Nat \cup Posts

VARIABLES
  seats,      \* members: here, WORKSPACE_OWNER, post
  tasks,      \* the creators of the tasks
  links,      \* the task_relations rows
  comments,   \* the authors and tasks of the comments
  bells,      \* notifications, per user
  calls,      \* the HTTP request in each slot
  asked,      \* history: the cross-team requests that were filed
  made,       \* history: relation rows inserted so far (their ids)
  moves       \* history: changes of seats so far

vars == <<seats, tasks, links, comments, bells, calls, asked, made, moves>>

Idle == [stage |-> "idle"]

Here == {p \in People : seats[p].here}
Owners == {p \in Here : seats[p].owner}
Holders(post) == {p \in Here : seats[p].post = post}
Leaders == UNION {Holders(post) : post \in Posts}

Init ==
  /\ seats \in Seatings
  /\ tasks = <<Founder, Founder>>
  /\ links = {}
  /\ comments = <<>>
  /\ bells = [p \in People |-> <<>>]
  /\ calls = [r \in Requests |-> Idle]
  /\ asked = {}
  /\ made = 0
  /\ moves = 0

-----------------------------------------------------------------------------
(***************************************************************************)
(* Relations.                                                              *)
(***************************************************************************)
Triple(link) == <<link.source, link.target, link.type>>

\* The unique index on (source_task_id, target_task_id, relation_type).
\* Mutant: there is none.
NoIndex(s, t, type) == TRUE

IndexAllows(s, t, type) == \A link \in links : Triple(link) # <<s, t, type>>

Insert(s, t, type) ==
  /\ IndexAllows(s, t, type)
  /\ links' = links \cup {[id |-> made + 1, source |-> s, target |-> t, type |-> type]}
  /\ made' = made + 1

Open(r, call) == calls[r] = Idle /\ calls' = [calls EXCEPT ![r] = call]
Close(r) == calls' = [calls EXCEPT ![r] = Idle]

CheckLink(r, s, t, type) ==
  /\ made < MaxLinks
  /\ s # t
  /\ \A link \in links : Triple(link) # <<s, t, type>>
  /\ Open(r, [stage |-> "linking", source |-> s, target |-> t, type |-> type])
  /\ UNCHANGED <<seats, tasks, links, comments, bells, asked, made, moves>>

CommitLink(r) ==
  /\ calls[r].stage = "linking"
  /\ Insert(calls[r].source, calls[r].target, calls[r].type)
  /\ Close(r)
  /\ UNCHANGED <<seats, tasks, comments, bells, asked, moves>>

\* From the page of either end.
CheckUnlink(r, link) ==
  /\ Open(r, [stage |-> "unlinking", id |-> link.id])
  /\ UNCHANGED <<seats, tasks, links, comments, bells, asked, made, moves>>

\* DELETE by id; a row that is gone already is no error.
CommitUnlink(r) ==
  /\ calls[r].stage = "unlinking"
  /\ links' = {link \in links : link.id # calls[r].id}
  /\ Close(r)
  /\ UNCHANGED <<seats, tasks, comments, bells, asked, made, moves>>

(***************************************************************************)
(* What the detail of a task shows: the counterparts of its relations, by  *)
(* bucket.  RELATES_TO has one bucket for both ends.                       *)
(***************************************************************************)
Outgoing(t, type) == {link.target : link \in {k \in links : k.source = t /\ k.type = type}}
Incoming(t, type) == {link.source : link \in {k \in links : k.target = t /\ k.type = type}}

\* Mutant: a symmetric relation shows at its source only.
ShownAtSource(t) ==
  [blocks     |-> Outgoing(t, "BLOCKS"),     blocked_by    |-> Incoming(t, "BLOCKS"),
   mitigates  |-> Outgoing(t, "MITIGATES"),  mitigated_by  |-> Incoming(t, "MITIGATES"),
   duplicates |-> Outgoing(t, "DUPLICATES"), duplicated_by |-> Incoming(t, "DUPLICATES"),
   relates_to |-> Outgoing(t, "RELATES_TO")]

Grouped(t) ==
  [blocks     |-> Outgoing(t, "BLOCKS"),     blocked_by    |-> Incoming(t, "BLOCKS"),
   mitigates  |-> Outgoing(t, "MITIGATES"),  mitigated_by  |-> Incoming(t, "MITIGATES"),
   duplicates |-> Outgoing(t, "DUPLICATES"), duplicated_by |-> Incoming(t, "DUPLICATES"),
   relates_to |-> Outgoing(t, "RELATES_TO") \cup Incoming(t, "RELATES_TO")]

-----------------------------------------------------------------------------
(***************************************************************************)
(* The bell.                                                               *)
(***************************************************************************)
Notification(kind, task, comment, by) ==
  [type |-> kind, task |-> task, comment |-> comment, by |-> by, read |-> FALSE]

\* One row for each user, however often they were found.
Notified(who, row) ==
  [p \in People |-> IF p \in who THEN Append(bells[p], row) ELSE bells[p]]

\* UPDATE ... WHERE id, user_id, read_at IS NULL; 404 if that is no row.
MarkRead(p, i) ==
  /\ p \in Here \ Agents
  /\ i \in DOMAIN bells[p] /\ ~bells[p][i].read
  /\ bells' = [bells EXCEPT ![p][i].read = TRUE]
  /\ UNCHANGED <<seats, tasks, links, comments, calls, asked, made, moves>>

MarkAllRead(p) ==
  /\ p \in Here \ Agents
  /\ bells' = [bells EXCEPT ![p] = [i \in DOMAIN @ |-> [@[i] EXCEPT !.read = TRUE]]]
  /\ UNCHANGED <<seats, tasks, links, comments, calls, asked, made, moves>>

(***************************************************************************)
(* A comment, and a new task with a description: the members mentioned are *)
(* looked up after the row is written.  A reference to a member who is     *)
(* gone fails the transaction.                                             *)
(***************************************************************************)
Write(r, kind, task, by, mentions) ==
  /\ IF kind = "MENTION_TASK" THEN Len(tasks) < MaxTasks ELSE Len(comments) < MaxComments
  /\ by \in Here
  /\ Open(r, [stage |-> "writing", kind |-> kind, task |-> task, by |-> by,
              mentions |-> mentions])
  /\ UNCHANGED <<seats, tasks, links, comments, bells, asked, made, moves>>

\* Humans of the workspace with these handles, but for the author.
ReadMentioned(r) ==
  LET call == calls[r]
  IN  /\ call.stage = "writing"
      /\ calls' = [calls EXCEPT ![r] =
           [stage |-> "written", kind |-> call.kind, task |-> call.task, by |-> call.by,
            who |-> ((call.mentions \cap Here) \ Agents) \ {call.by}]]
      /\ UNCHANGED <<seats, tasks, links, comments, bells, asked, made, moves>>

CommitComment(r) ==
  LET call == calls[r]
  IN  /\ call.stage = "written" /\ call.kind = "MENTION_COMMENT"
      /\ call.by \in Here
      /\ comments' = Append(comments, [task |-> call.task, by |-> call.by])
      /\ bells' = Notified(call.who, Notification(call.kind, call.task, Len(comments'), call.by))
      /\ Close(r)
      /\ UNCHANGED <<seats, tasks, links, asked, made, moves>>

CommitTask(r) ==
  LET call == calls[r]
  IN  /\ call.stage = "written" /\ call.kind = "MENTION_TASK"
      /\ call.by \in Here
      /\ tasks' = Append(tasks, call.by)
      /\ bells' = Notified(call.who, Notification(call.kind, Len(tasks'), None, call.by))
      /\ Close(r)
      /\ UNCHANGED <<seats, links, comments, asked, made, moves>>

-----------------------------------------------------------------------------
(***************************************************************************)
(* Filing a cross-team request: an admin, or the creator or assignee of    *)
(* the source task.  The manager, the lead, the head's id and the head's   *)
(* row are read one after the other; the owners if that found nobody.      *)
(* steady (history) are the leaders whose post has not changed since.      *)
(***************************************************************************)
Ask(r, by, source, type) ==
  /\ Len(tasks) < MaxTasks
  /\ by \in Here
  /\ Open(r, [stage |-> "MANAGER", by |-> by, source |-> source, type |-> type,
              who |-> {}, head |-> {}, steady |-> Leaders, led |-> Leaders \cup Owners,
              alone |-> FALSE])
  /\ UNCHANGED <<seats, tasks, links, comments, bells, asked, made, moves>>

Recipients(found, by) == (found \ {by}) \ Agents

Found(r, stage, found) ==
  /\ calls' = [calls EXCEPT ![r] = [@ EXCEPT !.stage = stage, !.who = calls[r].who \cup found]]
  /\ UNCHANGED <<seats, tasks, links, comments, bells, asked, made, moves>>

ReadManager(r) == calls[r].stage = "MANAGER" /\ Found(r, "LEAD", Holders("MANAGER"))
ReadLead(r) == calls[r].stage = "LEAD" /\ Found(r, "HEAD", Holders("LEAD"))

ReadHeadId(r) ==
  /\ calls[r].stage = "HEAD"
  /\ calls' = [calls EXCEPT ![r] = [@ EXCEPT !.stage = "head found", !.head = Holders("HEAD")]]
  /\ UNCHANGED <<seats, tasks, links, comments, bells, asked, made, moves>>

ReadHead(r) ==
  calls[r].stage = "head found" /\ Found(r, "led", calls[r].head \cap Here)

\* Mutant: the owners are asked only if no leader was found, the requester included.
NobodyFound(call) == call.who = {}

NobodyToTell(call) == Recipients(call.who, call.by) = {}

ReadOwners(r) ==
  /\ calls[r].stage = "led"
  /\ NobodyToTell(calls[r])
  /\ calls' = [calls EXCEPT ![r] =
       [@ EXCEPT !.stage = "told", !.who = Owners,
                 !.alone = (Owners \subseteq Agents \cup {calls[r].by})]]
  /\ UNCHANGED <<seats, tasks, links, comments, bells, asked, made, moves>>

CommitAsk(r) ==
  LET call == calls[r]
      target == Len(tasks) + 1
      told == Recipients(call.who, call.by)
  IN  /\ \/ call.stage = "led" /\ ~NobodyToTell(call)
         \/ call.stage = "told"
      /\ call.by \in Here
      /\ tasks' = Append(tasks, call.by)
      /\ Insert(target, call.source, call.type)
      /\ bells' = Notified(told, Notification("CROSS_TEAM_REQUEST", target, None, call.by))
      /\ asked' = asked \cup
           {[task |-> target, source |-> call.source, type |-> call.type, by |-> call.by,
             link |-> made', steady |-> call.steady, led |-> call.led,
             alone |-> call.alone]}
      /\ Close(r)
      /\ UNCHANGED <<seats, comments, moves>>

\* Any refusal, failed constraint or lost connection: rollback.
Abandon(r) ==
  /\ calls[r] # Idle
  /\ Close(r)
  /\ UNCHANGED <<seats, tasks, links, comments, bells, asked, made, moves>>

-----------------------------------------------------------------------------
(***************************************************************************)
(* Seats change: a post has one holder and a member one post, an owner     *)
(* always remains, which may be an agent (Access), and who created a task  *)
(* cannot be deleted.                                                      *)
(***************************************************************************)
Reseat(changed) ==
  /\ moves < MaxMoves /\ \E r \in Requests : "by" \in DOMAIN calls[r]
  /\ moves' = moves + 1
  /\ \E p \in People : changed[p].here /\ changed[p].owner
  /\ seats' = changed
  /\ calls' = [r \in Requests |->
       IF "steady" \notin DOMAIN calls[r] THEN calls[r]
       ELSE [calls[r] EXCEPT
               !.steady = {p \in @ : changed[p].here /\ changed[p].post = seats[p].post},
               !.led = @ \cup {p \in People : changed[p].here /\
                                 (changed[p].owner \/ changed[p].post # None)}]]
  /\ UNCHANGED <<tasks, links, comments, bells, asked, made>>

Appoint(p, post) ==
  /\ p \in Here /\ seats[p].post # post
  /\ Reseat([q \in People |->
       IF q = p THEN [seats[p] EXCEPT !.post = post]
       ELSE IF seats[q].post = post THEN [seats[q] EXCEPT !.post = None] ELSE seats[q]])

SetOwner(p, owner) ==
  /\ p \in Here /\ seats[p].owner # owner
  /\ Reseat([seats EXCEPT ![p].owner = owner])

Leave(p) ==
  /\ p \in Here /\ \A t \in DOMAIN tasks : tasks[t] # p
  /\ Reseat([seats EXCEPT ![p] = [here |-> FALSE, owner |-> FALSE, post |-> None]])

Surroundings ==
  \E p \in People :
    \/ \E post \in Posts \cup {None} : Appoint(p, post)
    \/ \E owner \in BOOLEAN : SetOwner(p, owner)
    \/ Leave(p)

Speak(r) ==
  \/ \E link \in links : CheckUnlink(r, link)
  \/ \E t \in DOMAIN tasks :
       \/ \E s \in DOMAIN tasks, type \in Types : CheckLink(r, s, t, type)
       \/ \E by \in People, mentions \in Mentions :
            Write(r, "MENTION_COMMENT", t, by, mentions)
       \/ \E by \in People, type \in Types : Ask(r, by, t, type)
  \/ \E by \in People, mentions \in Mentions : Write(r, "MENTION_TASK", None, by, mentions)

ReadStep(r) ==
  \/ ReadMentioned(r)
  \/ ReadManager(r) \/ ReadLead(r) \/ ReadHeadId(r) \/ ReadHead(r) \/ ReadOwners(r)

CommitStep(r) ==
  CommitLink(r) \/ CommitUnlink(r) \/ CommitComment(r) \/ CommitTask(r) \/ CommitAsk(r)

Next ==
  \/ \E r \in Requests : Speak(r) \/ ReadStep(r) \/ CommitStep(r) \/ Abandon(r)
  \/ \E p \in People : MarkAllRead(p) \/ \E i \in DOMAIN bells[p] : MarkRead(p, i)
  \/ Surroundings

Spec == Init /\ [][Next]_vars

-----------------------------------------------------------------------------
(***************************************************************************)
(* Properties.                                                             *)
(***************************************************************************)
Told(task) ==
  {p \in People : \E i \in DOMAIN bells[p] :
     bells[p][i].type = "CROSS_TEAM_REQUEST" /\ bells[p][i].task = task}

(***************************************************************************)
(* A cross-team request is heard (_notify_cross_team_request: "a request   *)
(* to a leaderless team is never invisible"): whoever led the team from    *)
(* one post all the while is told, nobody who never led it nor owned the   *)
(* workspace is, and somebody is, unless a team that nobody else leads is  *)
(* asked in a workspace no other human owns.  (Who changes posts meanwhile *)
(* may be missed.)                                                         *)
(***************************************************************************)
RequestsAreHeard ==
  \A a \in asked :
    /\ (a.steady \ {a.by}) \ Agents \subseteq Told(a.task)
    /\ Told(a.task) \subseteq a.led \ {a.by}
    /\ Told(a.task) = {} => a.alone

(***************************************************************************)
(* Both ends of a relation show each other, the source under the active    *)
(* name of the type and the target under the passive one; and until the    *)
(* relation is removed, the work asked for shows at the task it was asked  *)
(* for (create_request: the minted task is the SOURCE of the relation).    *)
(***************************************************************************)
Active ==
  [BLOCKS |-> "blocks", MITIGATES |-> "mitigates", DUPLICATES |-> "duplicates",
   RELATES_TO |-> "relates_to"]
Passive ==
  [BLOCKS |-> "blocked_by", MITIGATES |-> "mitigated_by", DUPLICATES |-> "duplicated_by",
   RELATES_TO |-> "relates_to"]

BothEndsShow ==
  /\ \A s, t \in DOMAIN tasks :
       LET atSource == Grouped(s)
           atTarget == Grouped(t)
       IN  \A type \in Types : t \in atSource[Active[type]] <=> s \in atTarget[Passive[type]]
  /\ \A a \in asked :
       (\E link \in links : link.id = a.link) => a.task \in Grouped(a.source)[Passive[a.type]]

(***************************************************************************)
(* Two tasks are related once in one way, however many calls find them     *)
(* unrelated at the same time; and who is told of one thing is told once.  *)
(***************************************************************************)
SaidOnce ==
  /\ \A k, l \in links : Triple(k) = Triple(l) => k = l
  /\ \A p \in People : \A i, j \in DOMAIN bells[p] :
       i # j => <<bells[p][i].task, bells[p][i].comment>> # <<bells[p][j].task, bells[p][j].comment>>
=============================================================================
