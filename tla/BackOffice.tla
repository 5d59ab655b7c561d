----------------------------- MODULE BackOffice ------------------------------
(***************************************************************************)
(* OrgChart with the platform operator's edit of a member: one call that   *)
(* appoints or dismisses a department head and puts the member on a team,  *)
(* through the services of OrgChart and past some of their refusals.       *)
(*                                                                         *)
(* The parts write one after another in one transaction, each on what the  *)
(* part before it left.  Here the call is one step, taken while no other   *)
(* call is under way.  The part about role and rank is in Access           *)
(* (OpenBackoffice).                                                       *)
(***************************************************************************)
EXTENDS OrgChart

CONSTANT Untouched  \* a field that the body of the request leaves out

Joins(p) == p # Untouched /\ p.team # None

(***************************************************************************)
(* Who is put on a team heads no department any more.                      *)
(***************************************************************************)
HeadsPatched(m, d, p) ==
  IF d \in Departments THEN [head EXCEPT ![d] = m]
  ELSE IF d = None \/ Joins(p) THEN WithoutHead(m)
  ELSE head

(***************************************************************************)
(* A new head leaves its team; a new leader's predecessor stays on it.     *)
(***************************************************************************)
PlacesPatched(m, d, p) ==
  LET sitting == IF p = Untouched THEN None ELSE Sitting(m, p.team, p.rank)
  IN  [n \in Members |->
         IF n = m /\ p # Untouched THEN p
         ELSE IF n = m /\ d \in Departments THEN NoPlace
         ELSE IF n = sitting THEN [place[n] EXCEPT !.rank = "MEMBER"]
         ELSE place[n]]

(***************************************************************************)
(* AdminTenantService.patch_workspace_user and .patch_workspace_member: a  *)
(* department and a team together are refused.                             *)
(***************************************************************************)
Patch(m, d, p) ==
  /\ Quiet
  /\ m \in present
  /\ d \in Departments => d \in depts /\ MayHead(m, d) /\ ~Joins(p)
  /\ p # Untouched => Coherent(p.team, p.rank) /\ p.team \in teams \cup {None}
  /\ head' = HeadsPatched(m, d, p)
  /\ place' = PlacesPatched(m, d, p)
  /\ UNCHANGED <<present, teams, filed, depts, req>>

PatchNext ==
  \E m \in Members, d \in Departments \cup {None, Untouched}, p \in Place \cup {Untouched} :
    Patch(m, d, p)
=============================================================================
