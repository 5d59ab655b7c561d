------------------------------ MODULE OrgChart ------------------------------
(***************************************************************************)
(* Departments, their heads, teams, and the rank a member holds on a team. *)
(*                                                                         *)
(* A department head sits above the teams: promoting a member clears its   *)
(* team, and a head cannot be put on a team.  A team has at most one       *)
(* MANAGER and one LEAD: naming a new one demotes the sitting one.  Both   *)
(* rules are checked by the services before they write, with nothing       *)
(* locked in between; two partial unique indexes back them up.             *)
(*                                                                         *)
(* set_member_team, DepartmentService.create and .update are three steps:  *)
(* a check, a load of the rows to be changed, a commit that writes them    *)
(* (see Access).  The other operations write one row by its key under      *)
(* constraints the database enforces when they commit, so they are one     *)
(* step.  Roles and ranks in the workspace do not change here: they are    *)
(* Access's subject.                                                       *)
(***************************************************************************)
EXTENDS Integers, FiniteSets, UnitOfWork

CONSTANTS
  Members, Teams, Departments,
  Agents,      \* members that may be deleted: agents no RESTRICT key refers to
  Owners,      \* members whose token says OWNER
  Admins,      \* members whose token says ADMIN
  Priority,    \* the rank of each member, 1 the highest
  Requests,    \* slots for requests in flight
  None         \* NULL

Ranks == {"MANAGER", "LEAD", "MEMBER"}

ASSUME ChartAssumption ==
  /\ None \notin Members \cup Teams \cup Departments \cup Ranks
  /\ Agents \subseteq Members
  /\ Owners \subseteq Members
  /\ Admins \subseteq Members
  /\ Priority \in [Members -> Nat]

Leaders == {"MANAGER", "LEAD"}

Place == [team : Teams \cup {None}, rank : Ranks \cup {None}]
NoPlace == [team |-> None, rank |-> None]

VARIABLES
  present,  \* members that have a row
  place,    \* members.team_id and members.team_role
  teams,    \* teams that have a row
  filed,    \* teams.department_id
  depts,    \* departments that have a row
  head,     \* departments.head_id
  req       \* the request in each slot

chart == <<present, place, teams, filed, depts, head>>
vars == <<chart, req>>

Idle == [stage |-> "idle", call |-> "none", by |-> None, member |-> None,
         asked |-> NoPlace, sitting |-> None, dept |-> None, was |-> None,
         audited |-> FALSE, loaded |-> NoPlace, holder |-> NoPlace, headed |-> None]

Request ==
  [stage   : {"idle", "checked", "loaded"},
   call    : {"none", "assign", "found", "promote"},
   by      : Members \cup {None},
   member  : Members \cup {None},   \* the member to place, or the head to be
   asked   : Place,
   sitting : Members \cup {None},   \* the leader to demote
   dept    : Departments \cup {None},
   was     : Members \cup {None},   \* the head the service saw
   audited : BOOLEAN,               \* an audit row is due
   loaded  : Place,                 \* the row of member, of sitting and of
   holder  : Place,                 \* dept as the repository fetched them
   headed  : Members \cup {None}]

TypeOK ==
  /\ present \subseteq Members
  /\ place \in [Members -> Place]
  /\ teams \subseteq Teams
  /\ filed \in [Teams -> Departments \cup {None}]
  /\ depts \subseteq Departments
  /\ head \in [Departments -> Members \cup {None}]
  /\ req \in [Requests -> Request]

Init ==
  /\ present = Members
  /\ place = [m \in Members |-> NoPlace]
  /\ teams = {}
  /\ filed = [t \in Teams |-> None]
  /\ depts = {}
  /\ head = [d \in Departments |-> None]
  /\ req = [r \in Requests |-> Idle]

IsAdmin(p) == p \in Owners \cup Admins

(***************************************************************************)
(* The route guards DepartmentReachDep and TeamReachDep: an ADMIN needs a  *)
(* rank of at most 2, respectively 3.                                      *)
(***************************************************************************)
Reaches(p, maxPriority) ==
  p \in Owners \/ (p \in Admins /\ Priority[p] <= maxPriority)

RankAllows(p, m) == p \in Owners \/ Priority[m] >= Priority[p]

HeadsDepartment(m) == \E d \in depts : head[d] = m

(***************************************************************************)
(* An admin acts on any team, by rank; a department head on the teams of   *)
(* that department, and only to assign.                                    *)
(***************************************************************************)
MayAssign(p, m, t) ==
  IF IsAdmin(p)
  THEN RankAllows(p, m)
  ELSE t # None /\ filed[t] # None /\ head[filed[t]] = p

Holders(t, k) == {m \in present : place[m] = [team |-> t, rank |-> k]}

(***************************************************************************)
(* The other member that holds the leading rank asked for, if any.         *)
(***************************************************************************)
Sitting(m, t, k) ==
  IF k \in Leaders /\ Holders(t, k) \ {m} # {}
  THEN CHOOSE s \in Holders(t, k) : s # m
  ELSE None

(***************************************************************************)
(* team_id and team_role are given together or not at all.                 *)
(***************************************************************************)
Coherent(t, k) == t = None <=> k = None

(***************************************************************************)
(* An assignment is audited when it changes what the service saw.          *)
(***************************************************************************)
Changes(m, t, k) ==
  \/ Sitting(m, t, k) # None
  \/ IF t = None THEN place[m].team # None ELSE place[m] # [team |-> t, rank |-> k]

(***************************************************************************)
(* InviteService.set_member_team, up to its first write.                   *)
(***************************************************************************)
CheckAssign(r, p, m, t, k) ==
  /\ req[r].stage = "idle"
  /\ p \in present
  /\ m \in present
  /\ Coherent(t, k)
  /\ t # None => t \in teams /\ ~HeadsDepartment(m)
  /\ MayAssign(p, m, t)
  /\ req' = [req EXCEPT ![r] =
       [Idle EXCEPT !.stage = "checked", !.call = "assign", !.by = p, !.member = m,
                    !.asked = [team |-> t, rank |-> k],
                    !.sitting = Sitting(m, t, k), !.audited = Changes(m, t, k)]]
  /\ UNCHANGED chart

(***************************************************************************)
(* DepartmentService.create and .update, up to their first write.  h is    *)
(* the member to be head, or None for a department without one.            *)
(***************************************************************************)
MayHead(h, d) ==
  h # None => h \in present /\ \A e \in depts \ {d} : head[e] # h

CheckDepartment(r, call, p, d, h, was) ==
  /\ req[r].stage = "idle"
  /\ p \in present
  /\ Reaches(p, 2)
  /\ MayHead(h, d)
  /\ req' = [req EXCEPT ![r] =
       [Idle EXCEPT !.stage = "checked", !.call = call, !.by = p,
                    !.dept = d, !.member = h, !.was = was]]
  /\ UNCHANGED chart

CheckFound(r, p, d, h) ==
  d \notin depts /\ CheckDepartment(r, "found", p, d, h, None)

CheckPromote(r, p, d, h) ==
  d \in depts /\ CheckDepartment(r, "promote", p, d, h, head[d])

(***************************************************************************)
(* The repositories fetch the rows they are about to change.               *)
(***************************************************************************)
RowOf(m) == IF m = None THEN NoPlace ELSE place[m]

Load(r) ==
  LET q == req[r]
  IN  /\ q.stage = "checked"
      /\ {q.member, q.sitting} \subseteq present \cup {None}
      /\ q.call = "promote" => q.dept \in depts
      /\ req' = [req EXCEPT ![r] =
           [@ EXCEPT !.stage = "loaded", !.loaded = RowOf(q.member),
                     !.holder = RowOf(q.sitting),
                     !.headed = IF q.dept \in depts THEN head[q.dept] ELSE None]]
      /\ UNCHANGED chart

(***************************************************************************)
(* A refused check, a failed constraint, a lost connection: rollback.      *)
(***************************************************************************)
Abandon(r) ==
  /\ req[r].stage # "idle"
  /\ req' = [req EXCEPT ![r] = Idle]
  /\ UNCHANGED chart

(***************************************************************************)
(* The columns members.team_id, members.team_role after an UPDATE.         *)
(***************************************************************************)
Merged(stored, loaded, assigned) ==
  [team |-> Column(stored.team, loaded.team, assigned.team),
   rank |-> Column(stored.rank, loaded.rank, assigned.rank)]

(***************************************************************************)
(* The partial unique indexes on members(team_id), one for MANAGER and one *)
(* for LEAD: what they demand of the row of m in the table pl.             *)
(***************************************************************************)
\* Mutant: the index was never created.
NoLeaderIndex(pl, m) == TRUE

LeaderIndexAllows(pl, m) ==
  (pl[m].team # None /\ pl[m].rank \in Leaders) =>
    \A n \in Members \ {m} : pl[n] # pl[m]

(***************************************************************************)
(* The partial unique index on departments(head_id), for the row of d.     *)
(***************************************************************************)
HeadIndexAllows(hd, d) ==
  hd[d] # None => \A e \in Departments \ {d} : hd[e] # hd[d]

(***************************************************************************)
(* members as the demotion of the sitting leader leaves it.                *)
(***************************************************************************)
\* Mutant: the sitting leader is taken off the team.
Evicted(q) ==
  IF q.sitting = None THEN place ELSE [place EXCEPT ![q.sitting] = NoPlace]

\* Mutant: the rank column receives the team.
DemotedSwapped(q) ==
  IF q.sitting = None THEN place
  ELSE [place EXCEPT ![q.sitting] =
         Merged(@, q.holder, [team |-> q.asked.team, rank |-> q.asked.team])]

Demoted(q) ==
  IF q.sitting = None THEN place
  ELSE [place EXCEPT ![q.sitting] =
         Merged(@, q.holder, [team |-> q.asked.team, rank |-> "MEMBER"])]

(***************************************************************************)
(* The constraints on the row of m: the foreign key and the two indexes.   *)
(***************************************************************************)
Accepts(pl, m) == pl[m].team \in teams \cup {None} /\ LeaderIndexAllows(pl, m)

\* The actor column of an audit row refers to a member that exists.
Audits(q) == q.by \in present

CommitAssign(r) ==
  LET q == req[r]
      demoted == Demoted(q)
      written == [demoted EXCEPT ![q.member] = Merged(@, q.loaded, q.asked)]
  IN  /\ q.stage = "loaded" /\ q.call = "assign"
      /\ {q.member, q.sitting} \subseteq present \cup {None}
      /\ q.sitting # None => Accepts(demoted, q.sitting)
      /\ Accepts(written, q.member)
      /\ q.audited => Audits(q)
      /\ place' = written
      /\ req' = [req EXCEPT ![r] = Idle]
      /\ UNCHANGED <<present, teams, filed, depts, head>>

(***************************************************************************)
(* The department row is written first, then the new head leaves its team. *)
(***************************************************************************)
\* Mutant: the new head stays on its team.
TeamKept(q) == place

TeamCleared(q) ==
  IF q.member = None THEN place
  ELSE [place EXCEPT ![q.member] = Merged(@, q.loaded, NoPlace)]

SeatHead(r, call, newHead) ==
  LET q == req[r]
  IN  /\ q.stage = "loaded" /\ q.call = call
      /\ HeadIndexAllows(newHead, q.dept)
      /\ q.member \in present \cup {None}
      /\ head' = newHead
      /\ place' = TeamCleared(q)
      /\ req' = [req EXCEPT ![r] = Idle]
      /\ UNCHANGED <<present, teams, filed>>

CommitFound(r) ==
  LET q == req[r]
  IN  /\ q.dept \notin depts
      /\ Audits(q)
      /\ SeatHead(r, "found", [head EXCEPT ![q.dept] = q.member])
      /\ depts' = depts \cup {q.dept}

CommitPromote(r) ==
  LET q == req[r]
      newHead == [head EXCEPT ![q.dept] = Column(@, q.headed, q.member)]
  IN  /\ q.dept \in depts
      /\ newHead[q.dept] # q.was => Audits(q)
      /\ SeatHead(r, "promote", newHead)
      /\ UNCHANGED depts

(***************************************************************************)
(* DepartmentService.delete: its teams stay, un-filed.                     *)
(***************************************************************************)
DeleteDepartment(p, d) ==
  /\ p \in present /\ Reaches(p, 2)
  /\ d \in depts
  /\ depts' = depts \ {d}
  /\ head' = [head EXCEPT ![d] = None]
  /\ filed' = [t \in Teams |-> IF filed[t] = d THEN None ELSE filed[t]]
  /\ UNCHANGED <<present, place, teams, req>>

(***************************************************************************)
(* TeamService.create and .update; d is the department to file it under.   *)
(***************************************************************************)
CreateTeam(p, t, d) ==
  /\ p \in present /\ Reaches(p, 3)
  /\ t \notin teams
  /\ d \in depts \cup {None}
  /\ teams' = teams \cup {t}
  /\ filed' = [filed EXCEPT ![t] = d]
  /\ UNCHANGED <<present, place, depts, head, req>>

UpdateTeam(p, t, d) ==
  /\ p \in present /\ Reaches(p, 3)
  /\ t \in teams
  /\ d \in depts \cup {None}
  /\ filed' = [filed EXCEPT ![t] = d]
  /\ UNCHANGED <<present, place, teams, depts, head, req>>

(***************************************************************************)
(* TeamService.delete: members.team_id becomes NULL, team_role stays.      *)
(***************************************************************************)
\* Mutant: members keep pointing at the team.
StillOnTeam(t) == place

WithoutTeam(t) ==
  [m \in Members |->
    IF place[m].team = t THEN [place[m] EXCEPT !.team = None] ELSE place[m]]

DeleteTeam(p, t) ==
  /\ p \in present /\ Reaches(p, 3)
  /\ t \in teams
  /\ teams' = teams \ {t}
  /\ filed' = [filed EXCEPT ![t] = None]
  /\ place' = WithoutTeam(t)
  /\ UNCHANGED <<present, depts, head, req>>

(***************************************************************************)
(* AgentService.delete_agent: a department it headed has no head any more. *)
(***************************************************************************)
WithoutHead(a) == [d \in Departments |-> IF head[d] = a THEN None ELSE head[d]]

DeleteAgent(p, a) ==
  /\ p \in present /\ IsAdmin(p)
  /\ a \in Agents \cap present
  /\ present' = present \ {a}
  /\ place' = [place EXCEPT ![a] = NoPlace]
  /\ head' = WithoutHead(a)
  /\ UNCHANGED <<teams, filed, depts, req>>

CheckStep(r, p) ==
  \/ \E m \in Members, t \in Teams \cup {None}, k \in Ranks \cup {None} :
       CheckAssign(r, p, m, t, k)
  \/ \E d \in Departments, h \in Members \cup {None} :
       CheckFound(r, p, d, h) \/ CheckPromote(r, p, d, h)

CommitStep(r) == CommitAssign(r) \/ CommitFound(r) \/ CommitPromote(r)

Maintain(p) ==
  \/ \E d \in Departments : DeleteDepartment(p, d)
  \/ \E t \in Teams, d \in Departments \cup {None} :
       CreateTeam(p, t, d) \/ UpdateTeam(p, t, d)
  \/ \E t \in Teams : DeleteTeam(p, t)
  \/ \E a \in Agents : DeleteAgent(p, a)

Next ==
  \/ \E p \in Members : Maintain(p)
  \/ \E r \in Requests :
       \/ \E p \in Members : CheckStep(r, p)
       \/ Load(r)
       \/ CommitStep(r)
       \/ Abandon(r)

Spec == Init /\ [][Next]_vars

(***************************************************************************)
(* The same operations, one request at a time: nothing starts while        *)
(* another request is under way.                                           *)
(***************************************************************************)
Quiet == \A r \in Requests : req[r].stage = "idle"

SerialNext ==
  \/ /\ Quiet
     /\ \E p \in Members :
          Maintain(p) \/ \E r \in Requests : CheckStep(r, p)
  \/ \E r \in Requests : Load(r) \/ CommitStep(r) \/ Abandon(r)

SerialSpec == Init /\ [][SerialNext]_vars

-----------------------------------------------------------------------------
(***************************************************************************)
(* Properties.                                                             *)
(***************************************************************************)

(***************************************************************************)
(* A member heads at most one department, however promotions overlap: the  *)
(* check of _ensure_head_not_taken races, the partial unique index holds.  *)
(***************************************************************************)
OneHeadshipPerMember ==
  \A d, e \in depts : head[d] # None /\ head[d] = head[e] => d = e

(***************************************************************************)
(* A team has at most one MANAGER and one LEAD, however assignments,       *)
(* moves, demotions and team deletions overlap.                            *)
(***************************************************************************)
OneLeaderPerTeam ==
  \A m, n \in present :
    place[m].rank \in Leaders /\ place[m].team # None /\ place[m] = place[n] => m = n

(***************************************************************************)
(* Leadership is unique, however calls overlap: one holder for each rank   *)
(* of a team, one department for each head.  The services look first and   *)
(* write later; two partial unique indexes decide.                         *)
(***************************************************************************)
LeadershipIsUnique == OneLeaderPerTeam /\ OneHeadshipPerMember

(***************************************************************************)
(* No dangling reference: members sit on existing teams, teams are filed   *)
(* under existing departments, heads exist.                                *)
(***************************************************************************)
References ==
  /\ \A m \in Members : place[m].team \in teams \cup {None}
  /\ \A t \in Teams : filed[t] \in depts \cup {None}
  /\ \A d \in Departments :
       /\ head[d] \in present \cup {None}
       /\ d \notin depts => head[d] = None

(***************************************************************************)
(* A department head's reach stops at the department boundary, as the      *)
(* tests say of set_member_team: who is no admin takes no member off a     *)
(* team of another department, and puts none on one.  It does not hold,    *)
(* with one request at a time: see the findings.                           *)
(***************************************************************************)
HeadsReachTheirOwnTeams ==
  [][\A r \in Requests, m \in Members :
       /\ req[r].call = "assign" /\ ~IsAdmin(req[r].by) /\ req'[r].stage = "idle"
       /\ place'[m].team # place[m].team
       => \A t \in {place[m].team, place'[m].team} \ {None} :
            filed[t] # None => head[filed[t]] = req[r].by]_vars
=============================================================================
