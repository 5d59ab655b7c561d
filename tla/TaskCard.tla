------------------------------ MODULE TaskCard -------------------------------
(***************************************************************************)
(* The life of one task card: status, blocking, priority, assignee, links, *)
(* rating, and the activity stream that tells its story.                   *)
(*                                                                         *)
(* Every call but the creation runs in three steps: the service method     *)
(* reads the card and decides; the repository method fetches the row; the  *)
(* UPDATE, the activity rows and COMMIT are the last step.  Nothing is     *)
(* locked before the UPDATE, so other calls run in between (UnitOfWork).   *)
(*                                                                         *)
(* The stream is kept in the order of the commits.  (It is displayed by    *)
(* created_at, the time a transaction began: the same order for the calls  *)
(* about one column, unless two of them overlap.)                          *)
(*                                                                         *)
(* No call changes two cards, so one card is all there is here; how it     *)
(* comes to be is the subject of TaskRequests.  Who leads what is fixed:   *)
(* it changes in Access and OrgChart.                                      *)
(***************************************************************************)
EXTENDS Integers, FiniteSets, Functions, UnitOfWork

CONSTANTS
  Members, Teams, Projects,
  Agents,      \* members that may be deleted
  Admins,      \* OWNERs and ADMINs
  Rank,        \* members.priority, 1 the highest
  Home,        \* members.team_id
  Managers,    \* members whose team_role is MANAGER
  Leads,       \* members whose team_role is LEAD
  Heading,     \* the teams of the department a member heads
  Statuses,    \* task statuses
  Priorities,  \* task priorities
  Scores,      \* rating scores
  Requests,    \* slots for requests in flight
  None,        \* NULL
  Untold,      \* no activity row about a column
  Followed     \* bound: the columns whose activity rows are kept

ASSUME CardAssumption ==
  /\ None \notin Members \cup Teams \cup Projects
  /\ Untold \notin Members \cup Teams \cup Projects \cup {None}
  /\ Untold \notin Statuses /\ Untold \notin Priorities /\ Untold \notin BOOLEAN
  /\ {"PENDING", "DONE"} \subseteq Statuses
  /\ Agents \subseteq Members
  /\ Rank \in [Members -> Nat]
  /\ Home \in [Members -> Teams \cup {None}]
  /\ Heading \in [Members -> SUBSET Teams]

VARIABLES
  creator,  \* tasks.created_by_id
  card,     \* the other columns of the task row
  told,     \* what the last activity row about a column says it became
  ratings,  \* the task_ratings rows
  live,     \* members, teams and projects that have a row
  req       \* the request in each slot

vars == <<creator, card, told, ratings, live, req>>

Row ==
  [status    : Statuses,
   completed : BOOLEAN,               \* completed_at is set
   blocked   : BOOLEAN,
   reason    : BOOLEAN,               \* blocked_reason is set
   priority  : Priorities,
   assignee  : Members \cup {None},
   team      : Teams \cup {None},
   project   : Projects \cup {None}]

Columns == {"status", "completed", "blocked", "reason",
            "priority", "assignee", "team", "project"}
Links == {"assignee", "team", "project"}

\* Columns an activity row tells about; the others have none.
ToldColumns == {"status", "blocked", "priority", "assignee", "team", "project"}
Told ==
  [status   : Statuses \cup {Untold},
   blocked  : BOOLEAN \cup {Untold},
   priority : Priorities \cup {Untold},
   assignee : Members \cup {Untold},
   team     : Teams \cup {None, Untold},
   project  : Projects \cup {None, Untold}]

Rating == [by : Members, of : Members \cup {None}, score : Scores]

(***************************************************************************)
(* What a request body asks for: columns with their new values.            *)
(***************************************************************************)
Statusing == {[status |-> s, completed |-> s = "DONE"] : s \in Statuses}
Prioritizing == [{"priority"} -> Priorities]
Blocking == {[blocked |-> b, reason |-> b /\ given] : b, given \in BOOLEAN}
Delegating == [{"assignee"} -> Members]
Moving ==
  [{"team"} -> Teams \cup {None}] \cup [{"project"} -> Projects \cup {None}]
    \cup [team : Teams \cup {None}, project : Projects \cup {None}]
Nothing == [c \in {} |-> None]

\* The columns of one call.
Piece ==
  [status : Statuses, completed : BOOLEAN] \cup Prioritizing
    \cup [blocked : BOOLEAN, reason : BOOLEAN]
    \cup [{"assignee"} -> Members \cup {None}] \cup Moving \cup {Nothing}

NewCard(p, a, t, j) ==
  [status |-> "PENDING", completed |-> FALSE, blocked |-> FALSE, reason |-> FALSE,
   priority |-> p, assignee |-> a, team |-> t, project |-> j]

Request ==
  [stage     : {"checked", "loaded"},
   call      : {"status", "priority", "block", "delegate", "move", "rate", "request"},
   by        : Members,
   asked     : Piece,
   score     : Scores \cup {None},
   seen      : [assignee : Members \cup {None},   \* the links the service read
                team     : Teams \cup {None},
                project  : Projects \cup {None}],
   loaded    : Piece]                \* what the repository fetched

Idle == [stage |-> "idle"]

TypeOK ==
  /\ creator \in Members
  /\ card \in Row
  /\ told \in Told
  /\ ratings \subseteq Rating
  /\ live \subseteq Members \cup Teams \cup Projects
  /\ req \in [Requests -> Request \cup {Idle}]

LeadsTeam(m, t) == t \in Heading[m] \/ (Home[m] = t /\ m \in Managers)

(***************************************************************************)
(* The rule for putting a card on a team: one's own, or any for admins,    *)
(* for MANAGERs and LEADs, and for the head of its department.             *)
(***************************************************************************)
MayPlace(m, t) ==
  \/ t = None
  \/ m \in Admins \cup Managers \cup Leads
  \/ Home[m] = t
  \/ t \in Heading[m]

\* A card as create inserts it; CREATED tells its title only.
Init ==
  /\ creator \in Members
  /\ \E p \in Priorities, a \in Members \cup {None},
        t \in Teams \cup {None}, j \in Projects \cup {None} :
       MayPlace(creator, t) /\ card = NewCard(p, a, t, j)
  /\ told = [c \in ToldColumns |-> Untold]
  /\ ratings = {}
  /\ live = Members \cup Teams \cup Projects
  /\ req = [r \in Requests |-> Idle]

(***************************************************************************)
(* The service methods up to the repository call.                          *)
(***************************************************************************)

Begin(r, m, call, asked, score) ==
  /\ req[r] = Idle
  /\ m \in live
  /\ req' = [req EXCEPT ![r] =
       [stage |-> "checked", call |-> call, by |-> m, asked |-> asked, score |-> score,
        seen |-> Restrict(card, Links), loaded |-> Nothing]]
  /\ UNCHANGED <<creator, card, told, ratings, live>>

\* Mutant: reopening a card leaves completed_at alone.
CheckStatusStamping(r, m, asked) ==
  /\ asked.status # card.status
  /\ Begin(r, m, "status", [asked EXCEPT !.completed = @ \/ card.completed], None)

CheckStatus(r, m, asked) ==
  /\ asked.status # card.status
  /\ Begin(r, m, "status", asked, None)

CheckPriority(r, m, asked) ==
  /\ asked.priority # card.priority
  /\ m \in Admins \/ (card.team # None /\ LeadsTeam(m, card.team))
  /\ Begin(r, m, "priority", asked, None)

CheckBlock(r, m, asked) == Begin(r, m, "block", asked, None)

\* Work is delegated strictly down-rank.
CheckDelegate(r, m, asked) ==
  /\ asked.assignee \in live
  /\ Rank[m] < Rank[asked.assignee]
  /\ Begin(r, m, "delegate", asked, None)

CheckMove(r, m, asked) ==
  /\ \A c \in DOMAIN asked : asked[c] \in live \cup {None}
  /\ "team" \in DOMAIN asked => MayPlace(m, asked.team)
  /\ Begin(r, m, "move", asked, None)

CheckRate(r, m, score) ==
  /\ m = creator
  /\ card.status = "DONE"
  /\ ratings = {}
  /\ Begin(r, m, "rate", Nothing, score)

(***************************************************************************)
(* A cross-team request on this card, filed by who owns it, or fulfilled   *)
(* by who leads its team, that links a blocking task to it.                *)
(***************************************************************************)
CheckRequest(r, m) ==
  /\ \/ m \in Admins \cup {creator, card.assignee}
     \/ card.team # None /\ (LeadsTeam(m, card.team) \/ (Home[m] = card.team /\ m \in Leads))
  /\ Begin(r, m, "request", Nothing, None)

\* The repository method fetches the row; the others insert without.
Load(r) ==
  /\ req[r].stage = "checked"
  /\ req[r].call \notin {"rate", "request"}
  /\ req' = [req EXCEPT ![r] = [@ EXCEPT !.stage = "loaded", !.loaded = Restrict(card, DOMAIN req[r].asked)]]
  /\ UNCHANGED <<creator, card, told, ratings, live>>

(***************************************************************************)
(* The row after the UPDATE.  A completion gets a new timestamp, which     *)
(* differs from any that was fetched.                                      *)
(***************************************************************************)
\* Mutant: the columns the body leaves out are set to NULL.
MergedNullingRest(q) ==
  [c \in Columns |-> IF c \in DOMAIN q.asked THEN q.asked[c] ELSE None]

\* Mutant: the links the service read are written back.
MergedStaleLinks(q) ==
  [c \in Columns |-> IF c \in DOMAIN q.asked THEN q.asked[c]
                     ELSE IF c \in Links THEN q.seen[c] ELSE card[c]]

Merged(q) ==
  [c \in Columns |->
     IF c \notin DOMAIN q.asked THEN card[c]
     ELSE IF c = "completed" /\ q.asked[c] THEN TRUE
     ELSE Column(card[c], q.loaded[c], q.asked[c])]

(***************************************************************************)
(* The activity rows: a move tells of the links that differ from what the  *)
(* service read, the other calls tell of what they were asked.             *)
(***************************************************************************)
\* Mutant: taking a card off a team or a project is not told.
TellsUnlessCleared(q) ==
  IF q.call = "move"
  THEN {c \in DOMAIN q.asked : Merged(q)[c] \notin {q.seen[c], None}}
  ELSE DOMAIN q.asked \cap ToldColumns

Tells(q) ==
  IF q.call = "move"
  THEN {c \in DOMAIN q.asked : Merged(q)[c] # q.seen[c]}
  ELSE DOMAIN q.asked \cap ToldColumns

Tale(q, c) == IF q.call = "move" THEN Merged(q)[c] ELSE q.asked[c]

(***************************************************************************)
(* The foreign keys of the row.                                            *)
(***************************************************************************)
\* Mutant: no foreign keys.
AcceptsAnything(row) == TRUE

Accepts(row) == \A c \in Links : row[c] \in live \cup {None}

CommitChange(r) ==
  LET q == req[r]
      news == Tells(q) \cap Followed
  IN  /\ q.stage = "loaded"
      /\ q.by \in live
      /\ Accepts(Merged(q))
      /\ card' = Merged(q)
      /\ told' = [c \in ToldColumns |-> IF c \in news THEN Tale(q, c) ELSE told[c]]
      /\ req' = [req EXCEPT ![r] = Idle]
      /\ UNCHANGED <<creator, ratings, live>>

(***************************************************************************)
(* The unique index on task_ratings(task_id).                              *)
(***************************************************************************)
\* Mutant: no index, the service's look at the ratings is all there is.
NoRatingIndex == TRUE

RatingIndexAllows == ratings = {}

CommitRating(r) ==
  LET q == req[r]
  IN  /\ q.stage = "checked"
      /\ q.call = "rate"
      /\ RatingIndexAllows
      /\ q.by \in live
      /\ q.seen.assignee \in live \cup {None}
      /\ ratings' = ratings \cup {[by |-> q.by, of |-> q.seen.assignee, score |-> q.score]}
      /\ req' = [req EXCEPT ![r] = Idle]
      /\ UNCHANGED <<creator, card, told, live>>

\* The request tells BLOCKED on this card, whose row it leaves alone.
CommitRequest(r) ==
  LET q == req[r]
  IN  /\ q.stage = "checked"
      /\ q.call = "request"
      /\ q.by \in live
      /\ told' = [c \in ToldColumns |-> IF c \in {"blocked"} \cap Followed THEN TRUE ELSE told[c]]
      /\ req' = [req EXCEPT ![r] = Idle]
      /\ UNCHANGED <<creator, card, ratings, live>>

\* A refusal or a failed constraint: rollback.
Abandon(r) ==
  /\ req[r] # Idle
  /\ req' = [req EXCEPT ![r] = Idle]
  /\ UNCHANGED <<creator, card, told, ratings, live>>

(***************************************************************************)
(* A member, a team or a project is deleted: ON DELETE SET NULL, and       *)
(* RESTRICT for who created or rated the task.                             *)
(***************************************************************************)
Deletable(x) == x \notin Members \/ (x \in Agents /\ x # creator /\ \A g \in ratings : g.by # x)

Delete(x) ==
  /\ Deletable(x)
  /\ live' = live \ {x}
  /\ card' = [c \in Columns |-> IF c \in Links /\ card[c] = x THEN None ELSE card[c]]
  /\ ratings' = {[g EXCEPT !.of = IF @ = x THEN None ELSE @] : g \in ratings}
  /\ UNCHANGED <<creator, told, req>>

CheckStep(r) ==
  \E m \in Members :
    \/ \E asked \in Statusing : CheckStatus(r, m, asked)
    \/ \E asked \in Prioritizing : CheckPriority(r, m, asked)
    \/ \E asked \in Blocking : CheckBlock(r, m, asked)
    \/ \E asked \in Delegating : CheckDelegate(r, m, asked)
    \/ \E asked \in Moving : CheckMove(r, m, asked)
    \/ \E score \in Scores : CheckRate(r, m, score)
    \/ CheckRequest(r, m)

CommitStep(r) ==
  Load(r) \/ CommitChange(r) \/ CommitRating(r) \/ CommitRequest(r) \/ Abandon(r)

Next ==
  \/ \E x \in live : Delete(x)
  \/ \E r \in Requests : CheckStep(r) \/ CommitStep(r)

Spec == Init /\ [][Next]_vars

-----------------------------------------------------------------------------
(***************************************************************************)
(* Properties.                                                             *)
(***************************************************************************)

(***************************************************************************)
(* completed_at is set exactly while the task is DONE.                     *)
(***************************************************************************)
CompletedIffDone == card.completed <=> card.status = "DONE"

(***************************************************************************)
(* Only a blocked task has a blocked_reason.                               *)
(***************************************************************************)
ReasonOnlyWhenBlocked == card.reason => card.blocked

(***************************************************************************)
(* The last row of the stream about a column says what it is, but for a    *)
(* link to something deleted since.                                        *)
(***************************************************************************)
LogTells(c) ==
  \/ told[c] \in {Untold, card[c]}
  \/ c \in Links /\ card[c] = None /\ told[c] \notin live

(***************************************************************************)
(* Ratings are single-shot: a task has one at most, however calls overlap. *)
(***************************************************************************)
RatedOnce == Cardinality(ratings) <= 1

(***************************************************************************)
(* Assignee, team, project and rated member exist, whatever is deleted     *)
(* while a call that names them is under way.                              *)
(***************************************************************************)
References ==
  /\ \A c \in Links : card[c] \in live \cup {None}
  /\ \A g \in ratings : g.by \in live /\ g.of \in live \cup {None}

(***************************************************************************)
(* An overlapping call never undoes another's change: a column changes     *)
(* only to a value a call that ends asks for, or to NULL by a deletion.    *)
(***************************************************************************)
OnlyAskedColumnsChange ==
  [][\A c \in Columns : card'[c] # card[c] =>
       \/ c \in Links /\ card'[c] = None /\ card[c] \notin live'
       \/ \E r \in Requests : req[r] # Idle /\ req'[r] = Idle
             /\ c \in DOMAIN req[r].asked /\ req[r].asked[c] = card'[c]]_vars
=============================================================================
