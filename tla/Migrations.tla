----------------------------- MODULE Migrations ------------------------------
(***************************************************************************)
(* Alembic commands on a database that has rows.                           *)
(*                                                                         *)
(* Every start of the API runs "alembic upgrade head" (Dockerfile).  env.py *)
(* runs all the revisions of one command in one transaction; revision 0014 *)
(* alone commits what came before it, to add its label outside of any.  A  *)
(* statement that the rows or the schema refuse rolls back to that commit. *)
(* Between commands the program writes rows, within the constraints of the *)
(* schema it finds.                                                        *)
(*                                                                         *)
(* Rows are kept as far as a revision rewrites or constrains them:         *)
(* workspace names, tasks, people with their secrets, the org chart.       *)
(* Sequences are in the order of created_at, id.                           *)
(***************************************************************************)
EXTENDS Models, Integers, FiniteSets, Sequences

CONSTANTS
  Workspaces,
  Words, Emails, Teams,
  Fitting,     \* the names of at most 120 characters, what workspaces.name holds
  Databases,   \* databases found at the start: a version and rows
  Goals,       \* bound: versions a command may name
  Newcomer     \* the person who signs up between commands (bound: one)

VARIABLES
  version,     \* alembic_version
  schema,
  rows,
  goal,        \* the version the command under way is to reach
  saved,       \* what the command under way falls back to
  fresh,       \* labels added to a type by the transaction under way
  refused      \* history: the revision the last command failed at, 0 if none

vars == <<version, schema, rows, goal, saved, fresh, refused>>

None == "none"
NoGoal == -1

Each(s, Changed(_)) == [i \in DOMAIN s |-> Changed(s[i])]

-----------------------------------------------------------------------------
(***************************************************************************)
(* Rows.  Tables are sequences; a column that a version does not have yet  *)
(* holds whatever it will be created with.                                 *)
(***************************************************************************)
Name == Words \X Seq(Nat)   \* a word, and the suffixes " (n)" appended to it
Task == [workspace : Workspaces,
         status : {"PENDING", "IN_PROGRESS", "BLOCKED", "IN_REVIEW", "DONE", "CANCELLED"},
         blocked : BOOLEAN, seq : Nat, completed : BOOLEAN]
Person == [workspace : Workspaces, type : {"HUMAN", "AGENT"}, email : Emails \cup {None},
           secret : {"password", "oauth", "agent", None}, top : BOOLEAN,
           role : {"OWNER", "ADMIN", "MEMBER"}, user : Emails \cup {None}]
User == [email : Emails, secret : {"password", "oauth", None}]
Place == [team : Teams \cup {None}, rank : {"HEAD", "MANAGER", "LEAD", "MEMBER", None}]

Rows ==
  [names  : Seq(Name),
   tasks  : Seq(Task),
   next   : [Workspaces -> Nat],   \* workspaces.next_task_seq
   people : Seq(Person),
   users  : SUBSET User,
   places : Seq(Place),            \* members.team_id, team_role
   heads  : Seq(Nat)]              \* departments.head_id: a place, 0 if NULL

-----------------------------------------------------------------------------
(***************************************************************************)
(* What the upgrades do to rows.                                           *)
(***************************************************************************)
\* Priority 1 was the person who signed the workspace up.
RolesByPriority(r) ==
  [r EXCEPT !.people =
     Each(@, LAMBDA p : [p EXCEPT !.role = IF p.top THEN "OWNER" ELSE "MEMBER"])]

CompletedByStatus(r) ==
  [r EXCEPT !.tasks = Each(@, LAMBDA t : [t EXCEPT !.completed = t.status = "DONE"])]

TasksOf(tasks, w) == {i \in DOMAIN tasks : tasks[i].workspace = w}

\* ROW_NUMBER() per workspace; the counter is MAX(seq) + 1, or 1.
Numbered(r) ==
  [r EXCEPT
     !.tasks = [i \in DOMAIN @ |->
                  [@[i] EXCEPT !.seq = Cardinality(
                     {j \in TasksOf(r.tasks, r.tasks[i].workspace) : j <= i})]],
     !.next = [w \in DOMAIN @ |-> Cardinality(TasksOf(r.tasks, w)) + 1]]

Unblocked(t) ==
  IF t.status = "BLOCKED" THEN [t EXCEPT !.status = "IN_PROGRESS", !.blocked = TRUE] ELSE t

PrefixAndNumbers(r) == [Numbered(r) EXCEPT !.tasks = Each(@, Unblocked)]

\* The earliest human of each workspace, if MEMBER.
Founder(people, i) ==
  /\ people[i].type = "HUMAN"
  /\ \A j \in 1..(i - 1) :
       people[j].type = "HUMAN" => people[j].workspace # people[i].workspace

WorkspaceOwners(r) ==
  [r EXCEPT !.people =
     [i \in DOMAIN @ |->
        IF Founder(r.people, i) /\ @[i].role = "MEMBER"
          THEN [@[i] EXCEPT !.role = "OWNER"] ELSE @[i]]]

DistinctNames(r) ==
  LET rank(i) == Cardinality({j \in 1..i : r.names[j] = r.names[i]})
  IN [r EXCEPT !.names =
        [i \in DOMAIN @ |->
           IF rank(i) = 1 THEN @[i] ELSE <<@[i][1], Append(@[i][2], rank(i))>>]]

\* The earliest human of each email, with that member's own credentials.
FirstOfEmail(people, i) ==
  /\ people[i].type = "HUMAN"
  /\ \A j \in 1..(i - 1) : people[j].type = "HUMAN" => people[j].email # people[i].email

UsersOfMembers(r) ==
  [r EXCEPT
     !.users = {[email |-> r.people[i].email, secret |-> r.people[i].secret] :
                  i \in {k \in DOMAIN r.people : FirstOfEmail(r.people, k)}},
     !.people = Each(@, LAMBDA p :
                       [p EXCEPT !.user = IF p.type = "HUMAN" THEN p.email ELSE None])]

HeadsToManagers(r) ==
  [r EXCEPT
     !.places = Each(@, LAMBDA p : IF p.rank = "HEAD" THEN [p EXCEPT !.rank = "MANAGER"]
                                                      ELSE p),
     !.heads = Each(@, LAMBDA h : 0)]

OneDepartmentPerHead(r) ==
  [r EXCEPT !.heads =
     [d \in DOMAIN @ |-> IF \E e \in 1..(d - 1) : @[e] = @[d] THEN 0 ELSE @[d]]]

OneHolder(places, rank) ==
  [i \in DOMAIN places |->
     IF /\ places[i].rank = rank /\ places[i].team # None
        /\ \E j \in 1..(i - 1) : places[j] = places[i]
       THEN [places[i] EXCEPT !.rank = "MEMBER"] ELSE places[i]]

\* Mutant: the loop stops at the first of the two ranks.
OneManagerPerTeam(r) == [r EXCEPT !.places = OneHolder(@, "MANAGER")]

OneLeaderPerTeam(r) ==
  [r EXCEPT !.places = OneHolder(OneHolder(@, "MANAGER"), "LEAD")]

Nowhere == [team |-> None, rank |-> None]

\* Mutant: a head without a team keeps the rank that its team left it with.
HeadsOffTheirTeams(r) ==
  [r EXCEPT !.places =
     [i \in DOMAIN @ |->
        IF @[i].team # None /\ \E d \in DOMAIN r.heads : r.heads[d] = i
          THEN Nowhere ELSE @[i]]]

HeadsAboveTeams(r) ==
  [r EXCEPT !.places =
     [i \in DOMAIN @ |-> IF \E d \in DOMAIN r.heads : r.heads[d] = i THEN Nowhere ELSE @[i]]]

\* Credentials that were an agent's are deleted.
KeysInsteadOfSecrets(r) ==
  [r EXCEPT !.people =
     Each(@, LAMBDA p : IF p.secret = "agent" THEN [p EXCEPT !.secret = None] ELSE p)]

Backfilled(r, v) ==
  CASE v = 4 -> RolesByPriority(r)       [] v = 5 -> CompletedByStatus(r)
    [] v = 7 -> PrefixAndNumbers(r)      [] v = 13 -> WorkspaceOwners(r)
    [] v = 16 -> DistinctNames(r)        [] v = 17 -> UsersOfMembers(r)
    [] v = 22 -> HeadsToManagers(r)      [] v = 23 -> OneDepartmentPerHead(r)
    [] v = 24 -> OneLeaderPerTeam(r)     [] v = 25 -> HeadsAboveTeams(r)
    [] v = 29 -> KeysInsteadOfSecrets(r) [] OTHER -> r

-----------------------------------------------------------------------------
(***************************************************************************)
(* What the downgrades do to rows.                                         *)
(***************************************************************************)
Unnumbered(r) ==
  [r EXCEPT
     !.tasks = Each(@, LAMBDA t :
       [t EXCEPT !.status = IF t.blocked THEN "BLOCKED" ELSE t.status,
                 !.blocked = FALSE, !.seq = 0]),
     !.next = [w \in DOMAIN @ |-> 0]]

WithoutUsers(r) ==
  [r EXCEPT !.users = {}, !.people = Each(@, LAMBDA p : [p EXCEPT !.user = None])]

WithoutRanks(r) == [r EXCEPT !.places = Each(@, LAMBDA p : [p EXCEPT !.rank = None])]
WithoutHeads(r) == [r EXCEPT !.heads = Each(@, LAMBDA h : 0)]
WithoutCompletion(r) ==
  [r EXCEPT !.tasks = Each(@, LAMBDA t : [t EXCEPT !.completed = FALSE])]
WithoutRows(r) ==
  [r EXCEPT !.names = <<>>, !.tasks = <<>>, !.people = <<>>, !.users = {},
            !.places = <<>>, !.heads = <<>>]

Undone(r, v) ==
  CASE v = 1 -> WithoutRows(r)   [] v = 5 -> WithoutCompletion(r)
    [] v = 7 -> Unnumbered(r)    [] v = 12 -> WithoutRanks(r)
    [] v = 17 -> WithoutUsers(r) [] v = 22 -> WithoutHeads(r) [] OTHER -> r

-----------------------------------------------------------------------------
(***************************************************************************)
(* What rows a schema admits: unique keys, checks, NOT NULL, lengths.      *)
(***************************************************************************)
AllDistinct(s, relevant(_)) ==
  \A i, j \in DOMAIN s : i # j /\ relevant(s[i]) => s[i] # s[j]

NameKey == Key("workspaces", {"name"})
SeqKey == Key("tasks", {"workspace_id", "seq"})
UserKey == Key("members", {"workspace_id", "user_id"})
RankKey(rank) == <<"members", {"team_id"}, rank>>
HeadKey == <<"departments", {"head_id"}, "head_id_IS_NOT_NULL">>
SecretCheck == <<"users", "users_at_least_one_secret", "password_or_oauth_identity">>
HumanCheck == <<"members", "members_human_has_user", "human_user_agent_none">>

NamesFit(s, names) ==
  /\ \A i \in DOMAIN names : names[i] \in Fitting
  /\ NameKey \in s.unique => AllDistinct(names, LAMBDA n : TRUE)

StatusesFit(s, tasks) == \A i \in DOMAIN tasks : <<"task_status", tasks[i].status>> \in s.labels

TasksFit(s, tasks) ==
  /\ SeqKey \in s.unique =>
       \A i, j \in DOMAIN tasks : i # j =>
         <<tasks[i].workspace, tasks[i].seq>> # <<tasks[j].workspace, tasks[j].seq>>
  /\ StatusesFit(s, tasks)

UsersFit(s, users) == SecretCheck \in s.checks => \A u \in users : u.secret # None

PeopleFit(s, people) ==
  /\ HumanCheck \in s.checks =>
       \A i \in DOMAIN people : people[i].type = "HUMAN" <=> people[i].user # None
  /\ UserKey \in s.unique =>
       \A i, j \in DOMAIN people : i # j /\ people[i].user # None =>
         <<people[i].workspace, people[i].user>> # <<people[j].workspace, people[j].user>>

PlacesFit(s, places) ==
  \A rank \in {"MANAGER", "LEAD"} :
    RankKey(rank) \in s.unique =>
      AllDistinct(places, LAMBDA p : p.rank = rank /\ p.team # None)

HeadsFit(s, heads) == HeadKey \in s.unique => AllDistinct(heads, LAMBDA h : h # 0)

Admits(s, r) ==
  /\ NamesFit(s, r.names) /\ TasksFit(s, r.tasks)
  /\ UsersFit(s, r.users) /\ PeopleFit(s, r.people)
  /\ PlacesFit(s, r.places) /\ HeadsFit(s, r.heads)

-----------------------------------------------------------------------------
(***************************************************************************)
(* What the program of a version takes for granted of the rows: every task *)
(* has its number and the counter is ahead of them, the founder of a       *)
(* workspace is no mere member, everyone human has a user with a secret,   *)
(* and who heads a department is on no team and heads no other.            *)
(***************************************************************************)
CounterAhead(tasks, next) ==
  \A i \in DOMAIN tasks : tasks[i].seq \in 1..(next[tasks[i].workspace] - 1)

FoundersLead(people) ==
  \A i \in DOMAIN people : Founder(people, i) => people[i].role # "MEMBER"

HumansHaveUsers(people, users) ==
  \A i \in DOMAIN people : people[i].type = "HUMAN" =>
    \E u \in users : u.email = people[i].user /\ u.secret # None

HeadsAreNowhereElse(heads, places) ==
  \A d \in DOMAIN heads : heads[d] # 0 =>
    /\ places[heads[d]] = Nowhere
    /\ \A e \in DOMAIN heads : heads[e] = heads[d] => e = d

Obeys(v, r) ==
  /\ v >= 7 => CounterAhead(r.tasks, r.next)
  /\ v >= 13 => FoundersLead(r.people)
  /\ v >= 17 => HumansHaveUsers(r.people, r.users)
  /\ v >= 25 => HeadsAreNowhereElse(r.heads, r.places)

(***************************************************************************)
(* Rows of any version: a head is somebody, a human has an email, unlike   *)
(* anybody else's in the workspace, and no agent's secret (0001's keys and *)
(* checks).                                                                *)
(***************************************************************************)
Somebody(heads, places) == \A d \in DOMAIN heads : heads[d] <= Len(places)

Addressed(people) ==
  \A i \in DOMAIN people : people[i].type = "HUMAN" =>
    /\ people[i].email # None /\ people[i].secret # "agent"
    /\ \A j \in DOMAIN people \ {i} :
         <<people[j].workspace, people[j].email>> # <<people[i].workspace, people[i].email>>

Sane(r) == r \in Rows /\ Somebody(r.heads, r.places) /\ Addressed(r.people)

\* A database is found as the program of its version left it.
ASSUME MigrationsAssumption ==
  /\ None \notin Emails \cup Teams
  /\ \A d \in Databases :
       /\ d.version \in 0..Latest
       /\ Sane(d.rows) /\ Admits(SchemaAt[d.version], d.rows) /\ Obeys(d.version, d.rows)
  /\ Goals \subseteq 0..Latest
  /\ Newcomer \in Person
  /\ Newcomer.type = "HUMAN" /\ Newcomer.email # None /\ Newcomer.role # "MEMBER"
  /\ Newcomer.secret \in {"password", "oauth"}

-----------------------------------------------------------------------------
Init ==
  /\ \E d \in Databases :
       version = d.version /\ rows = d.rows /\ schema = SchemaAt[d.version]
  /\ goal = NoGoal
  /\ saved = [version |-> version, schema |-> schema, rows |-> rows]
  /\ fresh = {}
  /\ refused = 0

Begin(g) ==
  /\ goal = NoGoal /\ g # version
  /\ goal' = g
  /\ saved' = [version |-> version, schema |-> schema, rows |-> rows]
  /\ fresh' = {}
  /\ refused' = 0
  /\ UNCHANGED <<version, schema, rows>>

(***************************************************************************)
(* A revision's statements find what they name: a check that is dropped    *)
(* exists, and a label that rows are looked up by was not added by this    *)
(* very transaction ("unsafe use of new value").  On the way down, 0007    *)
(* casts the statuses to its type before it folds the flag into them.      *)
(***************************************************************************)
UpgradeRuns(v) ==
  /\ v = 7 => <<"task_status", "BLOCKED">> \notin fresh
  /\ Admits(Upgraded(schema, v), Backfilled(rows, v))

DowngradeRuns(v) ==
  /\ v = 3 => \E c \in schema.checks :
                c[1] = "credentials" /\ c[2] = "ck_credentials_at_least_one_secret"
  /\ v = 7 => StatusesFit(Downgraded(schema, v), rows.tasks)
  /\ Admits(Downgraded(schema, v), Undone(rows, v))

\* Labels added to a type that was there when the transaction began.
NewLabels(v) ==
  {l \in Upgraded(schema, v).labels \ schema.labels :
     v \in {2, 30} /\ \E k \in saved.schema.labels : k[1] = l[1]}

Upgrade ==
  /\ version < goal
  /\ UpgradeRuns(version + 1)
  /\ version' = version + 1
  /\ schema' = Upgraded(schema, version + 1)
  /\ rows' = Backfilled(rows, version + 1)
  /\ IF version + 1 = 14
       THEN /\ saved' = [version |-> version, schema |-> schema', rows |-> rows]
            /\ fresh' = {}
       ELSE /\ fresh' = fresh \cup NewLabels(version + 1)
            /\ UNCHANGED saved
  /\ UNCHANGED <<goal, refused>>

Downgrade ==
  /\ goal # NoGoal /\ version > goal
  /\ DowngradeRuns(version)
  /\ version' = version - 1
  /\ schema' = Downgraded(schema, version)
  /\ rows' = Undone(rows, version)
  /\ UNCHANGED <<goal, saved, fresh, refused>>

Commit ==
  /\ version = goal
  /\ goal' = NoGoal
  /\ saved' = [version |-> version, schema |-> schema, rows |-> rows]
  /\ fresh' = {}
  /\ UNCHANGED <<version, schema, rows, refused>>

Refuse ==
  /\ goal # NoGoal
  /\ \/ version < goal /\ ~UpgradeRuns(version + 1) /\ refused' = version + 1
     \/ version > goal /\ ~DowngradeRuns(version) /\ refused' = version
  /\ version' = saved.version /\ schema' = saved.schema /\ rows' = saved.rows
  /\ goal' = NoGoal
  /\ fresh' = {}
  /\ UNCHANGED saved

\* The container is stopped, or the connection lost, on the way.
Interrupt ==
  /\ goal # NoGoal
  /\ version' = saved.version /\ schema' = saved.schema /\ rows' = saved.rows
  /\ goal' = NoGoal
  /\ fresh' = {}
  /\ UNCHANGED <<saved, refused>>

(***************************************************************************)
(* Somebody signs up with the program of version 0017 or later, as the     *)
(* owner of a workspace of their own; the program keeps the password in    *)
(* users and writes no credentials.  (Bound: in a database with people.)   *)
(***************************************************************************)
SignUp ==
  /\ goal = NoGoal /\ version >= 17
  /\ \A u \in rows.users : u.email # Newcomer.email
  /\ \A i \in DOMAIN rows.people : rows.people[i].email # Newcomer.email
  /\ rows.people # <<>>
  /\ rows' = [rows EXCEPT
       !.people = Append(@, [Newcomer EXCEPT !.secret = None, !.user = Newcomer.email]),
       !.users = @ \cup {[email |-> Newcomer.email, secret |-> Newcomer.secret]}]
  /\ saved' = [saved EXCEPT !.rows = rows']
  /\ UNCHANGED <<version, schema, goal, fresh, refused>>

Next ==
  \/ \E g \in Goals : Begin(g)
  \/ Upgrade \/ Downgrade \/ Commit \/ Refuse \/ Interrupt
  \/ SignUp

Spec == Init /\ [][Next]_vars

-----------------------------------------------------------------------------
(***************************************************************************)
(* Properties.                                                             *)
(***************************************************************************)
Suffixed == \E i \in DOMAIN rows.names : rows.names[i][2] # <<>>
Overflows == \E i \in DOMAIN rows.names : DistinctNames(rows).names[i] \notin Fitting

(***************************************************************************)
(* A backfill makes room for the constraint created after it: no revision  *)
(* is ever refused by rows that the revision before it admits.  Known      *)
(* exceptions: 0016, when a workspace already bears a suffixed name or the *)
(* suffix is too much for the column; 0017, after its own downgrade threw  *)
(* away the password of somebody new; 0007, in one transaction with 0002   *)
(* of an older database; and on the way down, 0003, which drops a check by *)
(* another name than it created it, and 0007, whose enum has no IN_REVIEW, *)
(* blocked or not.                                                         *)
(***************************************************************************)
BackfillsMakeRoom ==
  \/ refused = 0
  \/ refused = 16 /\ (Suffixed \/ Overflows)
  \/ refused = 17 /\ \E i \in DOMAIN rows.people :
                       rows.people[i].type = "HUMAN" /\ rows.people[i].secret = None
  \/ refused = 7 /\ version = 1
  \/ refused = 3 /\ version >= 3
  \/ refused = 7 /\ version >= 7 /\ \E i \in DOMAIN rows.tasks :
                                       rows.tasks[i].status = "IN_REVIEW"

(***************************************************************************)
(* Whatever was refused, interrupted, taken down and built up again, the   *)
(* database is at a revision, on the way as well: its schema is that of    *)
(* its version, but for labels that PostgreSQL cannot take back.  (So each *)
(* downgrade undoes its upgrade, whichever versions commands name.)        *)
(***************************************************************************)
RestsOnARevision ==
  LET made == SchemaAt[version]
  IN  /\ \A f \in DOMAIN schema \ {"labels"} : schema[f] = made[f]
      /\ made.labels \subseteq schema.labels

(***************************************************************************)
(* At the head the schema serves the models (0030 repaired a label that no *)
(* revision had added).                                                    *)
(***************************************************************************)
HeadServesModels == version = Latest => Serves(schema)

(***************************************************************************)
(* What the program of a version takes for granted holds of rows that are  *)
(* older, whatever they went through: numbers, owners, users, and the      *)
(* rules of OrgChart.                                                      *)
(***************************************************************************)
OldRowsObeyNewRules == Obeys(version, rows)
=============================================================================
