---------------------------- MODULE ChartHistory -----------------------------
(***************************************************************************)
(* OrgChart and the operator's edit, with a history of the members that    *)
(* calls overlapped on.                                                    *)
(*                                                                         *)
(* That a head holds no team is checked by set_member_team and enforced by *)
(* the promotion, with nothing locked: a promotion and a placement of one  *)
(* member that overlap may leave both, or a rank without a team.  crowded  *)
(* are the members that two calls under way have been about, until no call *)
(* is about them any more and they are coherent; the rule is stated for    *)
(* the others, while everything else overlaps.                             *)
(***************************************************************************)
EXTENDS BackOffice

VARIABLE crowded  \* members that two calls under way have been about

\* The member to place or promote, and the leader it displaces.
About(q) == {q.member, q.sitting} \ {None}

CoherentMember(m) ==
  /\ HeadsDepartment(m) => place[m] = NoPlace
  /\ place[m].team # None => place[m].rank # None

Overlapped ==
  {m \in Members : \E r, s \in Requests : r # s /\ m \in About(req[r]) \cap About(req[s])}

Settled == {m \in Members : CoherentMember(m) /\ \A r \in Requests : m \notin About(req[r])}

HistoryInit == Init /\ crowded = {}
HistoryNext ==
  /\ Next \/ PatchNext
  /\ crowded' = (crowded \cup Overlapped') \ Settled'
HistorySpec == HistoryInit /\ [][HistoryNext]_<<vars, crowded>>

(***************************************************************************)
(* A member gets into two places at once only by two calls about that very *)
(* member: whatever calls about others and deletions of teams, departments *)
(* and agents overlap, and whatever the operator edits in between, a head  *)
(* has neither team nor rank, and who is on a team has a rank on it.       *)
(***************************************************************************)
UncrowdedAreCoherent == \A m \in present \ crowded : CoherentMember(m)

(***************************************************************************)
(* Naming a new MANAGER or LEAD demotes the sitting one but keeps it on    *)
(* its team, though the demotion writes team and rank from a row fetched   *)
(* before: an assignment moves nobody who is on a team, but the member it  *)
(* is about, unless another call was about the leader at the same time.    *)
(***************************************************************************)
DemotionKeepsTheTeam ==
  [][\A r \in Requests, m \in Members \ crowded :
       /\ req[r].call = "assign" /\ req'[r].stage = "idle" /\ place' # place
       /\ place[m].team # None /\ place'[m].team # place[m].team
       => m = req[r].member]_<<vars, crowded>>
=============================================================================
