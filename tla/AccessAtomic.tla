---------------------------- MODULE AccessAtomic ----------------------------
(***************************************************************************)
(* What the tenants service promises its callers: every administrative     *)
(* call takes effect at one instant, on the rows as they are at that       *)
(* instant, and only if its guards hold of them.  Which claims the caller  *)
(* presents is left open.                                                  *)
(***************************************************************************)
EXTENDS AccessRules

VARIABLES present, row, trail

vars == <<present, row, trail>>

Init ==
  /\ present = Members
  /\ row \in [Members -> Row]
  /\ trail = [m \in Members |-> row[m].role]

Owners == {m \in present : row[m].role = "OWNER"}
ActiveOwners == {m \in Owners : ~row[m].suspended}

(***************************************************************************)
(* The caller: an active member with an admin's claims, or the back        *)
(* office, which edits profiles only.                                      *)
(***************************************************************************)
ActiveAdmin(by) == by.id \in present /\ ~row[by.id].suspended /\ IsAdmin(by)

Backoffice == [id |-> Operator, role |-> "OWNER", priority |-> 1]

EditProfile(by, m, role, priority) ==
  LET new == [role |-> role, priority |-> priority, suspended |-> row[m].suspended]
  IN  /\ ActiveAdmin(by) \/ by = Backoffice
      /\ m \in present
      /\ RankAllows(by, row[m])
      /\ DemotionAllowed(row[m], new, Owners \ {m})
      /\ row' = [row EXCEPT ![m] = new]
      /\ trail' = [trail EXCEPT ![m] = IF role # row[m].role THEN role ELSE @]
      /\ UNCHANGED present

SetSuspension(by, m, flag) ==
  /\ ActiveAdmin(by)
  /\ m \in present
  /\ RankAllows(by, row[m])
  /\ flag => m # by.id
  /\ SuspensionAllowed(row[m], flag, ActiveOwners \ {m})
  /\ row' = [row EXCEPT ![m].suspended = flag]
  /\ UNCHANGED <<present, trail>>

UpdateAgent(by, a, priority) ==
  /\ ActiveAdmin(by)
  /\ a \in Agents \cap present
  /\ row' = [row EXCEPT ![a].priority = priority]
  /\ UNCHANGED <<present, trail>>

DeleteAgent(by, a) ==
  /\ ActiveAdmin(by)
  /\ a \in (Agents \cap present) \ Bound
  /\ present' = present \ {a}
  /\ UNCHANGED <<row, trail>>

Next ==
  \E by \in Claims, m \in Members :
    \/ \E role \in Roles, priority \in Priorities : EditProfile(by, m, role, priority)
    \/ \E flag \in BOOLEAN : SetSuspension(by, m, flag)
    \/ \E priority \in Priorities : UpdateAgent(by, m, priority)
    \/ DeleteAgent(by, m)

Spec == Init /\ [][Next]_vars
=============================================================================
