# Kanea: a verification project in TLA+

Kanea is a task board for workspaces in which people and AI agents work side by
side.  Its core logic is the FastAPI service under `src/apps/api/app`: about
16,700 lines of Python in layers (routers in `api/`, services in `application/`,
entities in `domain/`, SQLAlchemy repositories in `infrastructure/`).  Everything
else in the repository is a browser client, a documentation site or deployment
configuration.  This project models that service.

Contents: [inventory](#1-inventory), [modules](#2-the-modules-and-the-code),
[runs](#3-the-runs), [proofs](#4-the-proofs), [findings](#5-where-code-and-words-disagree),
[not modelled](#6-what-is-not-modelled), [plan](#7-plan).

## 1. Inventory

All state lives in PostgreSQL.  Every HTTP request runs in one SQLAlchemy session
and one READ COMMITTED transaction that the dependency `get_session` commits at
the end or rolls back on an exception (`infrastructure/db/session.py`); no
service keeps state in memory between requests.  So the components interact only
through rows: one request's commit is visible to the next statement of every
other.  What makes the system hard is therefore the same everywhere:

- a service reads rows, decides, and writes later, with nothing locked in between
  (there is no `SELECT ... FOR UPDATE` in the services);
- the repositories fetch a row, assign to it and flush; the ORM sends an UPDATE
  of the columns that differ from the fetched values, so a stale read decides
  *which columns* are written;
- a session token carries role and rank, and is not read again from the rows;
- some rules are backed by database constraints (unique and partial unique
  indexes, foreign keys with SET NULL, CASCADE or RESTRICT), others only by the
  check in the service.

| component | state | operations | what makes it correct |
|---|---|---|---|
| Workspace administration (`application/tenants`, `application/agents`) | `members`: role, priority, suspended | edit a profile, suspend, edit and delete agents | an ADMIN acts on equal or lower rank only, whoever acts is active when the write lands, the workspace keeps an owner, the audit log tells the roles |
| Departments and teams (`application/departments`, `teams`, `set_member_team`) | `departments.head_id`, `teams.department_id`, `members.team_id/team_role` | create, file, delete; promote a head; place a member | one head per department and one department per head, who heads holds no team, one MANAGER and LEAD per team, no dangling row |
| Task numbering and cross-team requests (`application/tasks`) | `workspaces.next_task_seq`, `tasks.seq`, `task_requests` | create a task, file, fulfil, reject a request | public numbers form a list without gaps; one request, one fate, one task |
| Task cards (`application/tasks`) | `tasks`, `task_activities`, `task_ratings` | status, priority, block, delegate, move, rate | completion and blocking columns agree, no call undoes another's, the stream tells the card, one rating |
| Task relations, comments | `task_relations`, `task_comments` | link, unlink, comment, the relation of a minted task | two tasks are related once in one way, both ends show it |
| Notifications, mentions | `notifications` | fan out, mark read | a request to a team is heard by whoever leads it, nobody is told twice or of what they are not part of |
| Sign-up, invites, passwords (`application/auth`, `tenants`, `me`) | `users`, `workspaces`, `members`, `invites` | register, OAuth login and onboarding, invite, accept, change or set a password, forced reset | no user without a seat, one seat per workspace, who accepts an invite can sign in |
| Sessions (`api/deps.py`, `application/auth`) | signed tokens, `users.sessions_invalidated_at`, bans, workspace suspension | log in, select and switch workspace, the gate, kill sessions | a killed, banned or suspended principal is out |
| Agents and API keys | `agent_api_keys` | issue, revoke, exchange for a token | a revoked key buys nothing |
| Audit log | `audit_logs` | written by the services in the same transaction | agrees with the rows it reports |
| Projects; profile and dashboard | `projects`; reads | CRUD; aggregation | row by row |
| Back office (`application/admin`) | the same tables, across workspaces | suspend, ban, edit members, force resets | the same rules as in the workspace |
| Database models and migrations (`infrastructure/db`, `alembic/versions`) | the schema, `alembic_version` | 30 revisions up and down, at each start of the API | a backfill makes room for its constraint, the head serves the models |
| HTTP routers; web app, admin panel, docs site, infrastructure | none of the system's own | | |

`PROJECT.json` lists each component with its files and what is modelled of it,
and, under "hazards", every place in this code where an order of steps nobody
wrote a test for could go wrong, at its line, with the property that covers it
or the reason why none does.

## 2. The modules and the code

| module | models |
|---|---|
| `UnitOfWork` | what one ORM session does to a column: `Column(stored, loaded, assigned)`, a three-way merge |
| `AccessRules` | roles, ranks, tokens' claims, and the guards of `tenants/service.py` as operators |
| `Access` | workspace administration as concurrent requests: the core |
| `AccessAtomic` | the abstract specification: each call in one step, on the rows as they are |
| `OrgChart` | departments, heads, teams, places on teams |
| `BackOffice` | OrgChart with the platform operator's combined edit of a member |
| `TaskRequests`, `Numbering` | numbering of tasks and cross-team requests; the abstract list that only grows |
| `TaskCard` | one task card, its rating, the last word of its activity stream |
| `Discussion` | relations, comments, mentions, notifications |
| `Onboarding` | users, seats, invites, passwords across workspaces |
| `Sessions` | tokens, the gate's reads, locks, agent keys, time |
| `Revisions`, `Models`, `Migrations` | the schema of each revision; the schema the ORM declares; Alembic commands on a database with rows |
| `RequestHistory`, `CardHistory`, `ChartHistory` | TaskRequests, TaskCard and OrgChart with a history of what overlapping calls fought over |
| `MCAccess`, `MCOrgChart`, `MCChartRaces`, `MCTaskCard`, `MCOnboarding`, `MCSessions`, `MCMigrations`, `MCDiscussion` | the instances TLC runs (`TaskNumbers.cfg` instantiates RequestHistory itself) |
| `AccessProofs`, `OrgChartProofs`, `TaskRequestsProofs`, `TaskCardProofs`, `DiscussionProofs`, `OnboardingProofs`, `SessionsProofs`, `MigrationsProofs` | theorems |

`Access` and `AccessAtomic` extend `AccessRules`; `Access`, `OrgChart`, `TaskRequests` and
`TaskCard` extend `UnitOfWork`; `BackOffice` and `ChartHistory` extend `OrgChart`, the other histories
theirs; `Migrations` extends `Models`, which extends `Revisions`.  `Access` instantiates
`AccessAtomic` and `TaskRequests` instantiates `Numbering` as what they implement.

`map` in `PROJECT.json` gives, for each definition, the lines it stands for.

### A request is three steps

Except where a call writes a single row by its key under constraints the database
enforces, a call of the API is modelled in the steps at which another
transaction's commit could make a difference:

1. **check**: the authorization dependency and the service method up to its
   first write.  Its reads are taken at one instant.  (`Check...` actions.)
   In `Access` the gate (`get_current_principal`, `require_workspace_admin`) is a
   step of its own before it, `Open`.
2. **load**: the repository method fetches the row it is about to change.  The
   session's identity map holds rows weakly and the services keep entities, not
   ORM rows, so the row is read from the database again.  Where two rows are
   changed (the member and the demoted leader) both are loaded at one instant.
3. **commit**: UPDATE, refresh, audit or activity rows and COMMIT.  PostgreSQL
   holds the row lock from the UPDATE to the COMMIT, so another writer of that row
   is either wholly before or wholly after.

A refusal, an exception, a failed constraint, a dropped connection and a
deadlock abort all roll the transaction back; `Abandon` is all of them, and may
happen after any step.  Every module has `Spec`, with any overlap of requests;
`SerialSpec`, where it exists, starts nothing while a request is under way, and
still has the steps of a request and its abandonment.

What the code keeps only without overlap is stated in one of two ways.  Where
nearly any overlap breaks it (ranks, owners and the audit log in `Access`), it is checked and
proved of `SerialSpec`, and says nothing of calls that overlap.  Where only particular overlaps do, a history variable records
what two calls under way have both been about (`contested` requests in
`RequestHistory`, `fought` columns in `CardHistory`, `crowded` members in
`ChartHistory`, `crossed` rows in `Sessions`), and the rule is stated under every overlap
for everything else.  What becomes of the recorded ones is in section 5.

### Access (core)

| variable | in the code |
|---|---|
| `present`, `row` | the `members` rows: `role`, `priority`, `is_suspended` |
| `issued` | session tokens about, by their claims (`core/security.py`, `deps.py`) |
| `trail` | the role that the last ROLE_CHANGED row of `audit_logs` reports |
| `req` | the request in each slot: stage, call, claims of the caller, target, what is asked, the row the service saw, the row the repository loaded |

Actions: `IssueToken` (login, switch, key exchange), `Open` (the gate), `OpenBackoffice`
(the platform operator reaches `update_member_profile` as a made-up OWNER),
`CheckProfile`/`CommitProfile` (`update_member_profile`), `CheckSuspension`/`CommitSuspension`
(`set_member_suspension`), `CheckAgentUpdate`/`CommitAgentUpdate` and
`CheckAgentDelete`/`CommitAgentDelete` (agents service), `Load`, `Abandon`.

Abstracted: only the tokens that may pass `require_workspace_admin` are tracked,
and they do not expire (a property that holds with a token of any age holds with
a young one); names, titles and avatars are left out; the roster is fixed but
for the deletion of agents, and `Bound` are the agents a RESTRICT foreign key
keeps from being deleted; bans, workspace suspension and the session kill are
`Sessions`'.

### OrgChart

`place` is `members.team_id` and `team_role`, `filed` is `teams.department_id`,
`head` is `departments.head_id`.  `CheckAssign`/`CommitAssign` are `set_member_team` with the
demotion of the sitting leader, `CheckFound`/`CommitFound` and
`CheckPromote`/`CommitPromote` are `DepartmentService.create` and `.update`;
`DeleteDepartment`, `CreateTeam`, `UpdateTeam`, `DeleteTeam` and `DeleteAgent` are one
statement each.  The partial unique indexes and foreign keys are guards of the
commit steps (`LeaderIndexAllows`, `HeadIndexAllows`, `Accepts`).  The demotion is
flushed before the placement, as in the code, and the indexes are evaluated after
each.  Roles and ranks in the workspace are constants here: they are Access's.

`BackOffice` adds `update_membership_profile`, which edits the headship and the
team of one member in one transaction (`Untouched` is a part the body leaves out).  It is
one step, taken while no other call is under way, between any two of the others; both parts
are checked before either is written, as in the code.

### TaskRequests and Numbering

`allocate_next_task_seq` is `UPDATE workspaces SET next_task_seq = next_task_seq + 1
RETURNING`: the row stays locked until the transaction ends (`holder`), so a
rollback gives the number back.  `TakeNumber` waits for the lock.  `CommitCreate`,
`CommitFile`, `CommitFulfil` insert the task (the unique index on
`(workspace_id, seq)` is `IndexAllows`) and commit.  Cross-team requests are filed
FULFILLED with their task; PENDING rows come from staged flows (`StagePending`,
README.md:245) and are fulfilled or rejected.  Who may file or resolve is left
out: any caller in the model is one who may.  The CREATED activity and the
relation of the minted task are folded into `mintedFor`; the relation itself, and
who is told of a request, are Discussion's.

### TaskCard

One card: no call changes two.  `card` is the row, `told` what the last activity
row about each column says it became, `ratings` the `task_ratings` rows, `live` the
rows it refers to.  A request body is a function from the columns it sets to
values (`asked`), and `Merged` is the ORM's UPDATE of just those; `completed_at` is
always a new timestamp, so it is always written.  `Tells` are the activity rows
the service writes: for a move by comparison with what the service read, for
other calls unconditionally.  Who leads what is constant here.  The stream is
kept in commit order; the API displays it by `created_at`, the instant the
transaction began, which is the same for rows of transactions that do not overlap.

### Discussion

One workspace, one team that is asked for work.  `seats` are the members with
ownership and post (MANAGER, LEAD, HEAD), `tasks` and `comments` are their authors,
`links` the `task_relations` rows, `bells` each user's notifications.  A call that writes
a text reads the members mentioned after its row is inserted
(`ReadMentioned`); a cross-team request reads the manager, the lead, the head's id, the
head's row and then perhaps the owners, one statement after the other
(`ReadManager` to `ReadOwners`, from `_notify_cross_team_request`), while `Appoint`, `SetOwner` and
`Leave` change posts in between.  `Insert` is the INSERT under the unique
index.  A text is the set of members it mentions.  The history in a call
(`steady`, `led`, `alone`) and in `asked` tells who led the team all the while, who at
any time, and whether no human but the one who asked was an owner.

### The histories

`contested` are the cross-team requests that two calls under way have held at
once; `fought` the columns of a card that two calls under way were both changing, and
"rating" when a rating was under way together with a change of the status; `crowded` the members that two calls under
way have been about, until no call is about them and they are coherent again.
A history adds a variable to the specification and changes none of its steps.

### Onboarding

An invite provisions user and seat when it is *sent*; accepting fills them in.
`password` has four classes: none, a random placeholder, a forced reset, picked.
`linked` are OAuth identities; `tokens` onboarding tokens; `sessions` the people an
accept has signed in and no forced reset has signed out.  `CheckX`/`CommitX` as
above for register, onboard, invite, accept, change and set password; `OauthLogin`,
`OpenWorkspace`, `Expire`, `ForceReset` are single steps.  The look for a duplicate
member sees only the earliest seat of the email; creation times are not kept, so
any seat may be the earliest (`LooksNew`).  Roles of seats are fixed; the rule
that lets an admin reach a member is by role and over-approximated as to rank.
People are identified with their (normalised) email, workspaces with their name.

### Sessions

`clock` counts instants, `Ticks` of them to a second: rows are stamped with instants,
tokens carry seconds (`Second`).  `Login`, `SelectWorkspace`, `SwitchWorkspace` issue tokens; `OpenGate`,
`ReadMember`, `ReadWorkspace`, `ReadUser` are the statements of `get_current_principal`
in their order; `OpenExchange`, `FindKey` and `LoadAgent` those of the key exchange.  `SetSuspended` is one
statement; `CheckReset`/`CommitReset`, `CheckBan`/`CommitBan`, `CheckClose`/`CommitClose` are the back office's
calls, whose own gate (`require_superadmin`) reads no lock.  `held` is history: the locks that
have been in force ever since a request began; `crossed` the rows two back-office calls
were stamping at once.  All API processes read one clock; drift between
hosts is left out.

### Revisions, Models, Migrations

`Upgraded(schema, v)` and `Downgraded(schema, v)` are what revision v does to tables,
columns, unique keys, checks, foreign keys and enum labels; `SchemaAt[v]` is the
schema of version v on an empty database; `Serves(schema)` says that a schema has all that `models.py`
declares.  In `Migrations` a command is `Begin`, a step per revision (`Upgrade`, `Downgrade`) and
`Commit`, all in the one transaction `env.py` opens; revision 0014's `autocommit_block`
commits what came before it (`saved`).  `Refuse` is a statement the rows or the schema
refuse, `Interrupt` a stopped container: both fall back to `saved`.  `Backfilled` and `Undone` are
the data statements, `Admits` the constraints the rows must meet, `Obeys` what the program of a
version takes for granted of its rows.  `refused` is history: where the last command failed.  `SignUp` is
the program writing rows between commands.

## 3. The runs

| run | instance | shows |
|---|---|---|
| `access_serial` | 1 human, 1 agent, 2 ranks, 1 slot, at most 3 tokens about | requests one at a time implement `AccessAtomic`; the audit log is exact; rank and activity hold when the write lands; owners go only with an agent made OWNER |
| `access_concurrent` | 1 human, 1 agent, 2 slots | edits of one membership that overlap write back no column they were not asked to change |
| `access_active_owner` (violation) | 2 humans, 1 slot | suspend one owner, demote the other |
| `orgchart_head_reach` (violation) | 3 members, 2 teams, 2 departments, 1 slot | a department head takes a member off another department's team |
| `orgchart_races` | 2 members, 1 team, 2 departments, 2 slots, the operator's edit | one MANAGER and LEAD, one headship, nothing dangles; a demoted leader stays on the team; only calls about the same member put it in two places |
| `onboarding_races` | 2 people, 2 workspaces, 2 invites, 2 slots | seats, invites and credentials under every overlap |
| `onboarding_two_invites` (violation) | the same, 1 slot | two invites before the first accept |
| `task_numbers` | 3 tasks, 1 inbox entry, 3 slots | numbers under every overlap and rollback; everybody gets a number; a request nobody fought over has one fate |
| `card_concurrent` | manager and agent, one team, 2 slots; the agent and the team may be deleted | no lost update; pairs of columns agree and the stream tells a column unless it was fought over; one rating, of finished work unless the status was changing; nothing dangles |
| `sessions` | a user with 2 seats, an operator, an agent with 2 keys, 2 slots, 2 instants to the second | locks, session kill, stamps |
| `migrations` | databases of at most 3 rows, at versions 0 to 22, seven goals | backfills, interruption, the head's schema, old rows under new rules |
| `discussion` | 3 members, 3 tasks, 2 slots, one change of posts | recipients, relations, no duplicates |

Bounds, and why they suffice:

- *Slots.*  A race here is between a request that has read and another that
  commits; two slots give every such pair, with any number of requests one after
  the other.  The properties of overlaps quantify over one stale read at a time.
  `task_numbers` has three, so that two wait while one holds the lock.
- `FewTokens` (MCAccess): at most three tokens about.  A violation of rank or
  activity needs one stale token of the caller; three leave room for a current and
  a stale one of each of two.  The proofs have no such bound.
- `OneRowChanges` (MCAccess, `access_concurrent`): the operator and one session edit one
  row again and again, two calls at a time; a history ends where the founder's row
  changes.  Two callers editing one row are every pair `OnlyAskedChange` speaks of;
  it is proved without the bound.
- `Apart` (MCChartRaces): two placements are looked at without departments, two
  promotions without a team, and one of each with one team and one department,
  about different members (a filed team sees one of the two); `LeftBehind`: one member
  at a time keeps the rank of a deleted team, and then one placement is under way.  The rules of leaders relate places to places, those of heads
  heads to heads, and `CoherentMember` one member's place to one member's
  headship.  All five properties are also proved without bounds.
- `FewColumns` (MCTaskCard): in one history calls are about two of the columns the stream
  tells about, which are enough for a call to undo another's column; about the status alone where
  a rating meets a change of it.  A history ends where two calls fight over a column, since
  nothing is claimed of it any more; that the *other* columns stay right is what the theorems say without bounds.
  The manager created the card, so that the agent may be deleted.  Projects are left to the proofs: their column
  behaves as that of the team does.
- `OneIdentity` (MCOnboarding): one of the two people at most comes from a provider, who
  still meets sign-ups and invites of the same email and of the same workspace name.
- `TokensAbout`, `LocksMeet` (MCSessions): two tokens and one lock at a time, on the
  rows the tokens' gates read; a lock on another row is read by other requests.
  `PeopleOrAgent`: once the agent has a key, locks on people and the clock rest:
  the two share only the workspace.  `Horizon` is 2 with two instants to the
  second: an issue and a kill within one second and in two.
- `Databases` (MCMigrations): each kind of rows (names, tasks, people with
  secrets, the chart) alone, because no revision relates two of them; two or
  three rows, enough for a duplicate and its neighbour.  `Goals` stop at each
  side of the revisions that touch rows.  `Newcomer`: one sign-up between commands.
- `Apart` (MCDiscussion): relations, texts and cross-team requests meet in pairs
  where one can affect the other, and one request and one text at a time.  Relations are of
  all four types, and of BLOCKS next to a request.  `MaxMoves`: one
  change of posts during a request, which can fall between any two of its reads.
- *Ranks, scores, statuses.*  Two ranks make one higher and one lower; one
  score suffices where only the number of ratings counts; PENDING and DONE are
  the only statuses the code treats differently.
- *Symmetry.*  Slots, teams, departments, people, workspaces, invites and keys are
  interchangeable in their modules where the configuration says so; symmetry is
  used only in runs without liveness.
- `CHECK_DEADLOCK FALSE` only in `TaskNumbers.cfg`, where tasks are finite: when all
  are made the system may stop.

Fairness is assumed in one place, `Fairness` of TaskRequests, which `FairSpec` of RequestHistory adds.  `WF(Ends(r))`: a handler
awaits nothing but the database, and the session always commits or rolls back, so
a transaction under way that is not waiting for the lock ends.  `SF(TakeNumber(r))`:
PostgreSQL queues transactions that wait for a row lock, so one that waits is
not overtaken for ever; strong, because the lock is taken and freed again and
again meanwhile.

## 4. The proofs

TLAPS checks every theorem below for all values of the constants, from the
assumptions named in the modules (`RosterAssumption`, `FounderAssumption`,
`ChartAssumption`, `CardAssumption`, `DiscussionAssumption`, `SessionsAssumption`, the `NoneAssumption`s: the sets are disjoint
where the code's tables are, NULL is none of the values, ranks are natural
numbers, the founder is human, a second has at least one instant).  `MigrationsAssumption` says
in what state a database is found: as the program of its version left it, which is what its
schema admits (`Admits`) and that program takes for granted (`Obeys`, `Sane`); and that who signs
up is a human owner with an email and a secret, as `register` makes them.  The module
of a run extends each of these, so that TLC evaluates them on the instance.

**AccessProofs.**  `TypeCorrect` and `OnlyAskedChange` hold of `Spec`, any overlap: a
step with which a call takes effect writes its target's row only, and in each
column of it either what was stored or what was asked (`MergedColumns`).  The rest is
of `SerialSpec`.  Its inductive invariant is
`SerialInv == TypeOK /\ OneAtATime /\ ChecksStillHold /\ AuditMatchesRole`: with one
request under way, what its check saw is still so.  Neither rank, nor owners,
nor the audit log is inductive without it: the commit step tests none of the
guards, it relies on them.  From it follow `SerialImplementsAtomic` (check, load and commit map to
stutter, stutter and one step of `AccessAtomic`), `RankHolds`, `ActorActive`, `OwnersKept`,
`SuspensionSpares` and `SerialCorrect`.

**OrgChartProofs**, all of ChartHistory's `HistorySpec`: any overlap, with the operator's edits in between.
`Inv == TypeOK /\ Sound(place, teams) /\ Filing /\ Headships /\ Calls`.  `Sound` states the
leader indexes and the team keys for the whole
table including the places of deleted members, `Headships` the head index for all
departments including deleted ones (a row that is gone is all NULL), and `Calls`
that a request that places or promotes has somebody to place.  `TypeCorrect`, `UniqueLeadership` and
`NothingDangles` follow: they hold because the constraints are
evaluated on the table as each statement leaves it, not because of what the
services checked.

What only the services' checks keep needs the history.
`CoherentMember` of an uncrowded member is not inductive: a commit relies on what its check
read.  `HistoryInv` says what it may rely on.  `Formed`: a placement asks for a rank with each team and
demotes somebody else; `Overlapped \subseteq crowded`: whoever two calls under way are about is recorded; and,
for all others, `Kept`: the member is coherent, and the only call about the member `Relies` rightly on
two things, that a member to be put on a team heads no department, and that the row it loaded is as stored, but for a team
deleted since (`Since`).  Deletions of teams, departments and agents interleave with all of it.
`OnlyCrowdedAreIncoherent` so holds for any number of calls, and so does `DemotedStayOnTheTeam`: the
leader that a placement demotes, if no other call is about the leader, still has the place that was loaded.

**TaskRequestsProofs.**  Of `Spec`, `Inv` adds to the type: whoever has a number
holds the lock and the number is the counter (`Locked`), the task a request has
drawn has no row and no other request has it (`Drawn`), no two tasks share a number
(`NoTwins`), and the numbers in use are 1 up to the counter (`NoGaps`).  So the unique
index can never refuse (`NumbersAreSound`), and a commit appends one new task to
the list while every other step leaves it as it is (`Implements`: TaskRequests
implements Numbering, with `Book` as the refinement mapping).  Of `HistorySpec`, any
overlap: `UncontestedFate` is not inductive, because a rejection that commits overwrites whatever
status it finds.  The invariant adds `Fates`: a call that holds an uncontested
request holds it alone and found it PENDING, and the request is so still.
`OneFateEach` and `ResolvedOnce` follow.

**OnboardingProofs**, all of `Spec`.  `InviteeCanSignIn` is not inductive: an accept
decides to leave the password alone because it *saw* two seats.  The invariant is
`Secured`: whoever has accepted has several seats or a credential; `Deferred`: an
accept under way that decided to leave the password alone has an invitee with
several seats.  It is inductive because seats are never removed, so "several"
stays true.  Counting seats needs `IsFiniteSet(seats)`.  `EveryoneIsSeated` rests on
`Filled` (the shape of each request under way) and `Based` (seats belong to users and
workspaces that exist).

**TaskCardProofs.**  `TypeCorrect`, `RatedAtMostOnce`, `NothingDangles` and `OnlyAskedChange`
of `Spec`: what a card refers to exists because the foreign keys act on the row as it
is, not as a call saw it, and the merge of columns leaves alone what nobody asked
for.  The others are of `HistorySpec`, for any number of calls, and none of them is inductive: each
commit relies on what it loaded or saw.  For `PairsHold`, `PairsKept` says of a pair
nobody fought over that it agrees, and that the one call changing it has loaded the row
as it is (`Steady`).  For `TheStreamTellsTheCard`, `Story` says column by column that the last row agrees
with the card, and that what the one call changing the column saw and loaded agrees with it as
well, up to what a deletion has set to NULL meanwhile (`Known`).  For `RatingsAreOfFinishedWork`, `RatesDone`
says that the task a rating under way looked at is still DONE, unless a change of the status has been
under way with it; that the rating is the only one is the index's doing.

**SessionsProofs**, of `Spec`, any number of members, slots and instants to the
second.  `LockedOut`: by `Fits`, each stage of a request under way rules out some locks
from having been in force ever since it began, and at the last stage all of them.
`KillExact` compares seconds with instants, by a lemma on division.  `StampsKept`:
`Timely` says that a call alone on its row carries a stamp no older than the one it
finds, and `Alone` that two on one row are recorded.

**DiscussionProofs**, of `Spec`, any number of members, calls and changes of posts.
`Inv` adds to the properties `Numbered` (relations and bells are numbered in order and about rows that exist),
`Linked` (a request keeps the relation it was filed with, or loses it) and `UnderWay`.  The heart
is `Heard`, of each stage of a request under way: whoever has led the team from one post all the
while, and whose post is among those already `Searched`, is among the recipients; nobody is who neither led the team
nor owned the workspace at some time meanwhile; and once all is searched, no recipient means
no other owner.  `NoRequestIsInvisible` is what this says when the request commits;
`NothingIsSaidTwice` rests on the unique index, on numbers going up and on the recipients
of one text being a set; `RelationsShowAtBothEnds`, for all four types, on both ends being read from one row.

**MigrationsProofs**, of `Spec`: databases of any size and age, any words, emails, teams, workspaces
and goals.  `OldRowsObey` and `BackfillsAlwaysMakeRoom` need an invariant that is true *inside* a transaction
of thirty revisions: `Rules(v, s)` says which of the keys, checks and task labels
that rows are held to a schema of version v has; `Sound(v, s, r)` that the schema has those, and that the rows are
sane, admitted and obey version v.  The lemmas `RulesUp`/`RulesDown` follow the rules through each revision,
`RowsUp`/`RowsDown` the rows (here are the arguments about `ROW_NUMBER`, the earliest human of an email or a
workspace, and the one holder of a rank or a headship that a repair leaves), and `RoomUp`/`RoomDown` say which revision
can refuse what.  `Inv` has both the current and the `saved` database sound, `Resting` (between commands they are
the same), `Climbing` and `Descending` (what the names, secrets and tasks still share with the rows a
refusal falls back to, of which the property speaks), and the property.
The proof showed on which facts about accounts the property rests: a human has an email, one to a workspace, and
no agent's secret (`Addressed`), which 0001's keys and checks ensure.

`AlwaysAtARevision` and `HeadAlwaysServesModels` are about the schemas as a whole, of any sequence of
commands, refusals and interruptions.  The invariant is `Rests`: schema and saved schema each `Covers`
the one that thirty upgrades of an empty database pass at that version, which is to hold the same tables, columns, keys,
checks and references, and the same labels or more.  That a downgrade undoes its upgrade is shown in three steps.  Each item is
`New` at one revision; an upgrade puts its own in and leaves the rest (`UpgradesSum`), a downgrade
takes out exactly those (`DowngradesSift`); and the schema of a version holds nothing
that is new later (`MadeAtRevisions`), so what a downgrade takes is what the upgrade put in and no more.
Two revisions are apart, and `SecretsUp` follows what they touch: 0003 replaces the check on credentials, 0029 drops it
with the agents' secret; 0003's downgrade never runs, since it drops the check by a name it does not have.  Labels are
followed type by type (`Kind`): some downgrades leave a label in the type, the next upgrade does not mind
(`LabelsUndone`, `MoreLabelsUp`).  For the head, `GatheredAtRevisions` says that its schema
is all that the thirty revisions add but the three things that a later one drops, `AddedIsDeclared` that
`models.py` declares all of their columns, references and checks, `ModelsAreProvided` that they add all that it
declares, keys included, and `EnumsAtHead` that each label it declares is brought and lasts to the head.

Model-checked only: `EveryCreationGetsItsTurn`, liveness under fairness, which is out of the
prover's reach.  Every other property of a passing run is stated by a theorem.

## 5. Where code and words disagree

Shown by a run:

- `access_active_owner`.  `update_member_profile` counts OWNER rows, suspended or not;
  `set_member_suspension` counts active ones.  Suspend one of two owners, then demote
  the other: no active owner is left, with no overlap at all.
  tests/tasks/test_cross_team_inbox_and_notifications.py:556 takes it as given that
  "no live workspace can have zero active owners".
- `onboarding_two_invites`.  `accept_invite` sets the password only if the invitee has
  one seat, but an invite makes the seat when it is sent.  Somebody new with two
  invites out accepts one and has a password nobody knows; the token returned by the accept is
  all there is, and no admin can set a password for a member of two workspaces.

- `orgchart_head_reach`.  `set_member_team` looks at the department of the team a member is put on,
  not at that of the team the member leaves.  So the head of a department takes a member off another
  department's team, though tests/tenants/test_dept_head_isolation_and_inheritance.py:18 says that the
  reach stops at the department boundary, and the docstring (tenants/service.py:465) that clearing the team of a
  member outside one's department is not a head's decision.

Seen while modelling, without a run of their own:

- Two overlapping demotions each see the other owner, and both go through: the properties
  about owners are checked and proved one request at a time only.
- Role and rank are those of the token, of whatever age; `RankHoldsAtCommit` compares with the token's, as the
  code does.
- An agent may be made OWNER by a profile edit and is then deleted like any agent.
- An overlapping role edit whose value equals what the service had seen writes
  no ROLE_CHANGED row though the role changes.
- A promotion to department head and an assignment to a team that overlap leave a
  head on a team, or a rank without one (`crowded` in ChartHistory).
- `TeamService.delete` leaves `team_role` behind (`ON DELETE SET NULL` clears `team_id`
  only): a member without a team keeps the rank LEAD or MANAGER, which
  `_enforce_cross_team_rule` reads.
- `fulfill_request` checks PENDING on an unlocked read: two overlapping fulfilments both
  mint a task and `fulfilled_task_id` keeps the second (README.md:657 promises 409).
- A fulfilment and a rejection that overlap leave a REJECTED request with a task.
- Overlapping status changes can leave `completed_at` on a card that is not DONE, and
  overlapping `set_blocked` calls a reason on a card that is not blocked; a card
  can be reopened while a rating of it is under way.
- The activity stream is sorted by `created_at`, the instant a transaction *began*: of
  two overlapping changes the one that committed last may be displayed first
  (features/page.mdx:58 calls the stream "the canonical record of how a task got to
  its current state").
- A cross-team request writes BLOCKED on the source task and does not set its flag;
  `UncontestedStream` leaves that column out.
- Two overlapping acceptances of one invite both succeed; limits/page.mdx:60 says 409.
- The comment at auth/service.py:348 says the user row of a failed onboarding is left
  behind; the transaction rolls back whole.
- The seat of an expired invite blocks a new invite of that email, and its user row
  a sign-up.
- `select_workspace` and `switch_workspace` do not read the session kill: neither of the
  two reads `sessions_invalidated_at`, so a token from before a reset can be
  exchanged for one from after it (users_service.py:119 says that every outstanding
  token bounces).  `KillIsExact` is about the token at the gate.
- The gate itself lets pass what was issued in the second of the reset, before it too: the comparison is
  of whole seconds, strictly (deps.py:579), while deps.py:519 has outstanding tokens useless "the instant the
  operator acts" and users_service.py:119 every one bounce.  `KillIsExact` states what the code does.
- features/page.mdx:98-100 says that agents get notifications when mentioned, as humans do
  ("for the bob-agent member").  `list_humans_by_email_locals` finds humans only, and a notification belongs to a
  user, which an agent has not.
- Two overlapping resets of one user may leave the earlier stamp, and two
  overlapping suspensions of a workspace replace the first stamp
  (api/v1/admin.py:127: "keeps the original timestamp").  `StampsAreKept` is about the rest.
- The back office's gate reads no ban, suspension or kill; the branch for
  `scope == "select"` in `get_current_principal` is never reached.
- `create_relation` says "Idempotent: returns the existing row" (tasks/service.py:1416); it
  refuses with 409, and the second of two overlapping calls fails on the index.
- The comment at tasks/service.py:814-828 says that the recipients of a cross-team
  request are never empty.  They are when nobody but the one who asks leads the
  team and no other human owns the workspace (`alone`).  A leader who changes post between two reads may be missed, and a
  suspended leader counts as told.
- The operator's edit of a member clears the head of the department the member
  headed when it was read: a promotion committed meanwhile loses its head.
- Dockerfile:53 says that Alembic takes an advisory lock; neither `env.py` nor
  Alembic does.  Concurrent starts on an old database are not modelled.
- Revision 0016's suffixed name may be taken already, or longer than the
  varchar(120) of workspaces.name; 0003 cannot be downgraded, since it drops a check
  by another name than it created it; 0025 takes a head off the team that 0024 kept
  as its only manager; the partial leader indexes are declared in no model.
- The downgrade of 0007 casts every status to the old enum (lines 181-188) before it
  folds `is_blocked` away (line 196): a task IN_REVIEW is refused, blocked or not.
- The exceptions `BackfillsMakeRoom` names are: 0016 with either kind of suffix,
  0003's downgrade, 0017 after its own downgrade, 0007 in one transaction with 0002,
  and 0007's downgrade with a task IN_REVIEW.

## 6. What is not modelled

Text processing (parsing of mentions, slugs, email templates), formatting of public
ids, pagination and search, the visibility filters of read-only endpoints, OAuth
with the providers (an identity is what they return), rate limits, file storage
of avatars, `heartbeat` and `last_used_at` (only listings read them), CRUD of projects,
`update_profile` and renaming a workspace (row by row, names only), concurrent
Alembic commands, overlapping edits by the platform operator of headship and team.
The authorization of the task services is in TaskCard for the calls modelled
there and in part in Discussion, and left out of TaskRequests.  The web app, the
admin panel and the documentation site are clients without state of the system's own.

## 7. Plan

Built: `Access` (the core), `OrgChart` and `BackOffice`, `TaskRequests`, `TaskCard`, `Discussion`,
`Onboarding`, `Sessions`, `Migrations`, each with its runs and its proofs.

What remains, in this order:

1. The operator's edit of headship and team as check and commit, overlapping the others.
2. Composition of `OrgChart` and `TaskCard`: the cross-team rule over `team_role` values
   that team deletion leaves behind.

## Running it

    tlc -config AccessSerial.cfg MCAccess.tla     # and likewise for the others
    tlapm AccessProofs.tla
