----------------------------- MODULE AccessRules -----------------------------
(***************************************************************************)
(* The values and the decision rules of workspace administration: who a    *)
(* principal is, what a membership row holds, and the three guards of the  *)
(* tenants service (admin role, rank, last owner).                         *)
(***************************************************************************)
EXTENDS Integers

CONSTANTS
  Humans,      \* memberships of type HUMAN
  Agents,      \* memberships of type AGENT
  Bound,       \* agents some RESTRICT foreign key refers to (tasks, keys, ...)
  Priorities,  \* ranks in use; 1 is the highest
  Operator     \* the platform back office, acting for the workspace

Members == Humans \cup Agents

ASSUME RosterAssumption ==
  /\ Humans \cap Agents = {}
  /\ Bound \subseteq Agents
  /\ Operator \notin Members
  /\ Priorities \subseteq Nat
  /\ 1 \in Priorities

Roles == {"OWNER", "ADMIN", "USER"}
AdminRoles == {"OWNER", "ADMIN"}

Row == [role : Roles, priority : Priorities, suspended : BOOLEAN]

(***************************************************************************)
(* The claims of a session token.  They are signed at login and never read *)
(* again from the membership row.                                          *)
(***************************************************************************)
Claims == [id : Members \cup {Operator}, role : Roles, priority : Priorities]

ClaimsOf(m, rw) == [id |-> m, role |-> rw.role, priority |-> rw.priority]

(***************************************************************************)
(* require_workspace_admin                                                 *)
(***************************************************************************)
IsAdmin(by) == by.role \in AdminRoles

(***************************************************************************)
(* _enforce_admin_rank: an ADMIN may act on an equal or lower rank, an     *)
(* OWNER on anyone.                                                        *)
(***************************************************************************)
\* Mutant: the comparison the wrong way round.
RankInverted(by, target) ==
  by.role = "OWNER" \/ target.priority <= by.priority

RankAllows(by, target) ==
  by.role = "OWNER" \/ target.priority >= by.priority

(***************************************************************************)
(* The last-owner check of update_member_profile.  "others" are the OWNER  *)
(* rows other than the target's, suspended or not.                         *)
(***************************************************************************)
\* Mutant: no last-owner check.
DemotionUnchecked(target, assigned, others) == TRUE

DemotionAllowed(target, assigned, others) ==
  (target.role = "OWNER" /\ assigned.role # "OWNER") => others # {}

(***************************************************************************)
(* The last-active-owner check of set_member_suspension.                   *)
(***************************************************************************)
SuspensionAllowed(target, flag, activeOthers) ==
  (flag /\ target.role = "OWNER") => activeOthers # {}
=============================================================================
