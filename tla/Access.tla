------------------------------- MODULE Access -------------------------------
(***************************************************************************)
(* Workspace administration as the API runs it: concurrent requests, each  *)
(* one database transaction.                                               *)
(*                                                                         *)
(*   gate    get_current_principal and require_workspace_admin             *)
(*   check   the service method up to its first write; "seen" is the       *)
(*           target as the service holds it from then on                   *)
(*   load    the repository method fetches the row it is about to change   *)
(*   commit  its UPDATE, the audit row, COMMIT                             *)
(*                                                                         *)
(* The session's identity map holds its rows weakly and every repository   *)
(* method lets go of the row it fetched, so each fetch reads the database  *)
(* again.  Nothing is locked before the UPDATE: two requests interleave    *)
(* freely between the steps.  A refused check, an exception and a dropped  *)
(* connection all end in a rollback (Abandon).                             *)
(***************************************************************************)
EXTENDS AccessRules, UnitOfWork

CONSTANTS
  Requests,  \* slots for requests in flight
  Founder,   \* the member the workspace was created with
  Keep       \* a field the request leaves out

ASSUME FounderAssumption ==
  /\ Founder \in Humans
  /\ Keep \notin Roles
  /\ Keep \notin Priorities
  /\ Keep \notin BOOLEAN

VARIABLES
  present,  \* members that have a row
  row,      \* the row of every member; meaningful for those present
  issued,   \* session tokens that were minted and may still be presented
  trail,    \* the role the last ROLE_CHANGED audit row written reports of a member
  req       \* the request in each slot

vars == <<present, row, issued, trail, req>>

(***************************************************************************)
(* What a call asks for, column by column.                                 *)
(***************************************************************************)
Ask == [role : Roles \cup {Keep}, priority : Priorities \cup {Keep},
        suspended : BOOLEAN \cup {Keep}]

Nothing == [role |-> Keep, priority |-> Keep, suspended |-> Keep]

\* Mutant: a field left out is written as NULL.
NotFilled(old, new) == new

Filled(old, new) == IF new = Keep THEN old ELSE new

Assigned(rw, ask) ==
  [role      |-> Filled(rw.role, ask.role),
   priority  |-> Filled(rw.priority, ask.priority),
   suspended |-> Filled(rw.suspended, ask.suspended)]

AnyRow == [role |-> "USER", priority |-> 1, suspended |-> FALSE]

Idle == [stage |-> "idle", call |-> "none", by |-> ClaimsOf(Operator, AnyRow),
         target |-> Operator, ask |-> Nothing, seen |-> AnyRow, loaded |-> AnyRow]

Request ==
  [stage  : {"idle", "gated", "checked", "loaded"},
   call   : {"none", "profile", "suspension", "agent", "delete"},
   by     : Claims,
   target : Members \cup {Operator},
   ask    : Ask,
   seen   : Row,
   loaded : Row]

TypeOK ==
  /\ present \subseteq Members
  /\ row \in [Members -> Row]
  /\ issued \subseteq Claims
  /\ trail \in [Members -> Roles]
  /\ req \in [Requests -> Request]

(***************************************************************************)
(* A workspace just filled: its creator is OWNER with rank 1, people came  *)
(* by invitation (never as OWNER), agents are provisioned as USER.         *)
(***************************************************************************)
Init ==
  /\ present = Members
  /\ row \in [Members -> Row]
  /\ row[Founder] = [role |-> "OWNER", priority |-> 1, suspended |-> FALSE]
  /\ \A m \in Members \ {Founder} :
       /\ row[m].role # "OWNER"
       /\ m \in Agents => row[m].role = "USER"
       /\ ~row[m].suspended
  /\ issued = {by \in {ClaimsOf(m, row[m]) : m \in Members} : IsAdmin(by)}
  /\ trail = [m \in Members |-> row[m].role]
  /\ req = [r \in Requests |-> Idle]

(***************************************************************************)
(* Login, workspace switch or key exchange: a token with the claims of the *)
(* row as it is now.  Suspension does not stop it.  Only the tokens that    *)
(* can pass require_workspace_admin later are kept track of.               *)
(***************************************************************************)
IssueToken(m) ==
  /\ m \in present
  /\ IsAdmin(ClaimsOf(m, row[m]))
  /\ ClaimsOf(m, row[m]) \notin issued
  /\ issued' = issued \cup {ClaimsOf(m, row[m])}
  /\ UNCHANGED <<present, row, trail, req>>

(***************************************************************************)
(* get_current_principal and require_workspace_admin: the membership is    *)
(* read afresh, the role is the token's.                                   *)
(***************************************************************************)
\* Mutant: the gate does not look at is_suspended.
GateForgetsSuspension(by) == by.id \in present /\ IsAdmin(by)

PassesGate(by) ==
  /\ by.id \in present
  /\ ~row[by.id].suspended
  /\ IsAdmin(by)

Open(r, by) ==
  /\ req[r].stage = "idle"
  /\ by \in issued
  /\ PassesGate(by)
  /\ req' = [req EXCEPT ![r] = [Idle EXCEPT !.stage = "gated", !.by = by]]
  /\ UNCHANGED <<present, row, issued, trail>>

(***************************************************************************)
(* The back office reaches update_member_profile as a made-up OWNER.       *)
(***************************************************************************)
Backoffice == [id |-> Operator, role |-> "OWNER", priority |-> 1]

OpenBackoffice(r) ==
  /\ req[r].stage = "idle"
  /\ req' = [req EXCEPT ![r] = [Idle EXCEPT !.stage = "gated", !.by = Backoffice]]
  /\ UNCHANGED <<present, row, issued, trail>>

Abandon(r) ==
  /\ req[r].stage # "idle"
  /\ req' = [req EXCEPT ![r] = Idle]
  /\ UNCHANGED <<present, row, issued, trail>>

Owners == {m \in present : row[m].role = "OWNER"}
ActiveOwners == {m \in Owners : ~row[m].suspended}

Check(r, call, m, ask) ==
  /\ req[r].stage = "gated"
  /\ m \in present
  /\ req' = [req EXCEPT ![r] =
       [@ EXCEPT !.stage = "checked", !.call = call, !.target = m,
                 !.ask = ask, !.seen = row[m]]]
  /\ UNCHANGED <<present, row, issued, trail>>

CheckProfile(r, m, role, priority) ==
  LET ask == [Nothing EXCEPT !.role = role, !.priority = priority]
  IN  /\ RankAllows(req[r].by, row[m])
      /\ DemotionAllowed(row[m], Assigned(row[m], ask), Owners \ {m})
      /\ Check(r, "profile", m, ask)

(***************************************************************************)
(* still_active_owners of set_member_suspension.                           *)
(***************************************************************************)
\* Mutant: the filter on the role is dropped.
ActiveMembersBut(m) == {x \in present \ {m} : ~row[x].suspended}

ActiveOthers(m) == ActiveOwners \ {m}

\* Mutant: one may suspend oneself.
SelfSuspension(r, m, flag) ==
  /\ req[r].by.id # Operator
  /\ RankAllows(req[r].by, row[m])
  /\ SuspensionAllowed(row[m], flag, ActiveOthers(m))
  /\ Check(r, "suspension", m, [Nothing EXCEPT !.suspended = flag])

CheckSuspension(r, m, flag) ==
  /\ req[r].by.id # Operator
  /\ RankAllows(req[r].by, row[m])
  /\ flag => m # req[r].by.id
  /\ SuspensionAllowed(row[m], flag, ActiveOthers(m))
  /\ Check(r, "suspension", m, [Nothing EXCEPT !.suspended = flag])

CheckAgentUpdate(r, a, priority) ==
  /\ req[r].by.id # Operator
  /\ Check(r, "agent", a, [Nothing EXCEPT !.priority = priority])

CheckAgentDelete(r, a) ==
  /\ req[r].by.id # Operator
  /\ a \notin Bound
  /\ Check(r, "delete", a, Nothing)

Load(r) ==
  /\ req[r].stage = "checked"
  /\ req[r].call # "delete"
  /\ req[r].target \in present
  /\ req' = [req EXCEPT ![r] =
       [@ EXCEPT !.stage = "loaded", !.loaded = row[req[r].target]]]
  /\ UNCHANGED <<present, row, issued, trail>>

(***************************************************************************)
(* The row as the UPDATE of request q leaves it.                           *)
(***************************************************************************)
\* Mutant: the UPDATE writes every column of the row that was fetched.
MergedStale(stored, q) == Assigned(q.loaded, q.ask)

Merged(stored, q) ==
  LET new == Assigned(q.loaded, q.ask)
  IN  [role      |-> Column(stored.role, q.loaded.role, new.role),
       priority  |-> Column(stored.priority, q.loaded.priority, new.priority),
       suspended |-> Column(stored.suspended, q.loaded.suspended, new.suspended)]

(***************************************************************************)
(* The actor column of an audit row refers to a member that exists.        *)
(***************************************************************************)
Audits(q) == q.by.id \in present \cup {Operator}

WriteBack(r, call) ==
  LET q == req[r]
  IN  /\ q.stage = "loaded"
      /\ q.call = call
      /\ q.target \in present
      /\ row' = [row EXCEPT ![q.target] = Merged(@, q)]
      /\ req' = [req EXCEPT ![r] = Idle]
      /\ UNCHANGED <<present, issued>>

(***************************************************************************)
(* The role the audit log reports after request q left its target in the   *)
(* row "after": a ROLE_CHANGED entry is written when the role asked for is *)
(* not the one the service saw, and it quotes the refreshed row.           *)
(***************************************************************************)
\* Mutant: the entry quotes the old role.
RecordsSeen(q, after) ==
  IF q.ask.role \notin {Keep, q.seen.role} THEN q.seen.role ELSE trail[q.target]

Recorded(q, after) ==
  IF q.ask.role \notin {Keep, q.seen.role} THEN after.role ELSE trail[q.target]

CommitProfile(r) ==
  LET q == req[r]
      after == Merged(row[q.target], q)
  IN  /\ WriteBack(r, "profile")
      /\ (q.ask.role \notin {Keep, q.seen.role} \/ after.priority # q.seen.priority)
           => Audits(q)
      /\ trail' = [trail EXCEPT ![q.target] = Recorded(q, after)]

CommitSuspension(r) ==
  /\ WriteBack(r, "suspension")
  /\ req[r].ask.suspended # req[r].seen.suspended => Audits(req[r])
  /\ UNCHANGED trail

CommitAgentUpdate(r) ==
  /\ WriteBack(r, "agent")
  /\ UNCHANGED trail

CommitAgentDelete(r) ==
  /\ req[r].stage = "checked"
  /\ req[r].call = "delete"
  /\ req[r].target \in present
  /\ present' = present \ {req[r].target}
  /\ req' = [req EXCEPT ![r] = Idle]
  /\ UNCHANGED <<row, issued, trail>>

CheckStep(r) ==
  \/ \E m \in Members, role \in Roles \cup {Keep}, priority \in Priorities \cup {Keep} :
       CheckProfile(r, m, role, priority)
  \/ \E m \in Members, flag \in BOOLEAN : CheckSuspension(r, m, flag)
  \/ \E a \in Agents, priority \in Priorities \cup {Keep} :
       CheckAgentUpdate(r, a, priority)
  \/ \E a \in Agents : CheckAgentDelete(r, a)

CommitStep(r) ==
  \/ CommitProfile(r)
  \/ CommitSuspension(r)
  \/ CommitAgentUpdate(r)
  \/ CommitAgentDelete(r)

Next ==
  \/ \E m \in Members : IssueToken(m)
  \/ \E r \in Requests :
       \/ \E by \in issued : Open(r, by)
       \/ OpenBackoffice(r)
       \/ Abandon(r)
       \/ CheckStep(r)
       \/ Load(r)
       \/ CommitStep(r)

Spec == Init /\ [][Next]_vars

(***************************************************************************)
(* The same calls, one request at a time.                                  *)
(***************************************************************************)
Quiet == \A r \in Requests : req[r].stage = "idle"

SerialNext ==
  \/ \E m \in Members : IssueToken(m)
  \/ \E r \in Requests :
       \/ Quiet /\ \E by \in issued : Open(r, by)
       \/ Quiet /\ OpenBackoffice(r)
       \/ Abandon(r)
       \/ CheckStep(r)
       \/ Load(r)
       \/ CommitStep(r)

SerialSpec == Init /\ [][SerialNext]_vars

-----------------------------------------------------------------------------
(***************************************************************************)
(* Properties.                                                             *)
(***************************************************************************)

(***************************************************************************)
(* The last ROLE_CHANGED row of a member tells the role the member has     *)
(* (update_member_profile; requests one at a time).                        *)
(***************************************************************************)
AuditMatchesRole == \A m \in present : trail[m] = row[m].role

(***************************************************************************)
(* What a request under way may rely on (requests one at a time): its      *)
(* caller is still entitled, and what its checks saw is still so.  This is *)
(* the inductive form of the properties below.                             *)
(***************************************************************************)
Entitled(by) == by = Backoffice \/ PassesGate(by)

StillAllowed(q) ==
  LET rw == row[q.target]
  IN  CASE q.call = "profile" ->
             /\ q.ask.suspended = Keep
             /\ RankAllows(q.by, rw)
             /\ DemotionAllowed(rw, Assigned(rw, q.ask), Owners \ {q.target})
        [] q.call = "suspension" ->
             /\ q.ask.role = Keep /\ q.ask.priority = Keep
             /\ q.ask.suspended \in BOOLEAN
             /\ RankAllows(q.by, rw)
             /\ q.ask.suspended => q.target # q.by.id
             /\ SuspensionAllowed(rw, q.ask.suspended, ActiveOthers(q.target))
        [] q.call = "agent" ->
             /\ q.target \in Agents
             /\ q.ask.role = Keep /\ q.ask.suspended = Keep
        [] q.call = "delete" -> q.target \in Agents \ Bound
        [] OTHER -> FALSE

OneAtATime ==
  \A r, s \in Requests : req[r].stage # "idle" /\ req[s].stage # "idle" => r = s

ChecksStillHold ==
  \A r \in Requests :
    LET q == req[r]
    IN  /\ q.stage # "idle" => Entitled(q.by)
        /\ q.stage \in {"checked", "loaded"} =>
             /\ q.target \in present
             /\ q.seen = row[q.target]
             /\ q.call # "profile" => PassesGate(q.by)
             /\ StillAllowed(q)
        /\ q.stage = "loaded" => q.loaded = row[q.target]

(***************************************************************************)
(* The step with which request r takes effect.                             *)
(***************************************************************************)
TakesEffect(r) ==
  /\ req[r].stage \in {"checked", "loaded"}
  /\ <<present, row>>' # <<present, row>>
  /\ req'[r].stage = "idle"

(***************************************************************************)
(* Overlapping edits of one row do not undo each other (every overlap of   *)
(* requests; update_profile, update, set_suspended of the repository): the *)
(* step with which a call takes effect changes no row but its target's,    *)
(* and there no column but those it was asked to change, to the value      *)
(* asked for, however long ago it fetched the row.                         *)
(***************************************************************************)
OnlyAskedColumnsChange ==
  [][\A r \in Requests, m \in Members :
       LET q == req[r]
       IN  TakesEffect(r) /\ row'[m] # row[m] =>
             /\ m = q.target
             /\ row'[m].role \in {row[m].role, q.ask.role}
             /\ row'[m].priority \in {row[m].priority, q.ask.priority}
             /\ row'[m].suspended \in {row[m].suspended, q.ask.suspended}]_vars

(***************************************************************************)
(* The workspace loses its last OWNER row in no other way than by deleting *)
(* an agent that had been made OWNER: the demotion guard and the absence   *)
(* of any other delete path (requests one at a time).                      *)
(***************************************************************************)
OwnersLostOnlyWithAgent ==
  [][Owners # {} /\ Owners' = {} => present' # present]_vars

(***************************************************************************)
(* A suspension never takes the last active owner (requests one at a       *)
(* time): the set of active owners can only empty in a step that changes   *)
(* who is an owner.                                                        *)
(***************************************************************************)
SuspensionSparesActiveOwner ==
  [][ActiveOwners # {} /\ ActiveOwners' = {} => Owners' # Owners]_vars

(***************************************************************************)
(* Rank holds at the instant of the write, not only when it was checked    *)
(* (requests one at a time): a profile edit or a suspension lands on a     *)
(* member of equal or lower rank, unless the caller is an OWNER.           *)
(***************************************************************************)
RankHoldsAtCommit ==
  [][\A r \in Requests :
       TakesEffect(r) /\ req[r].call \in {"profile", "suspension"}
         => \/ req[r].by.role = "OWNER"
            \/ row[req[r].target].priority >= req[r].by.priority]_vars

(***************************************************************************)
(* Nobody who is suspended or deleted changes anything (requests one at a  *)
(* time); the back office acts without a membership.                       *)
(***************************************************************************)
ActorActiveAtCommit ==
  [][\A r \in Requests :
       TakesEffect(r) /\ req[r].by.id # Operator
         => req[r].by.id \in present /\ ~row[req[r].by.id].suspended]_vars

(***************************************************************************)
(* With one request at a time every call is atomic: the specification      *)
(* implements AccessAtomic.                                                *)
(***************************************************************************)
Atomic == INSTANCE AccessAtomic
ImplementsAtomic == Atomic!Spec

(***************************************************************************)
(* A workspace always has an owner who can act: what the tests say of the  *)
(* guards together.  It does not hold: see the findings.                   *)
(***************************************************************************)
ActiveOwnerExists == ActiveOwners # {}
=============================================================================
