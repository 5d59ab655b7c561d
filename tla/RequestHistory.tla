--------------------------- MODULE RequestHistory ----------------------------
(***************************************************************************)
(* TaskRequests with a history of the cross-team requests fought over.     *)
(*                                                                         *)
(* PENDING is checked with nothing locked: two calls that resolve one      *)
(* cross-team request at once both go through, mint a task each and leave  *)
(* columns of either.  contested remembers the requests two calls under    *)
(* way have held at once, so that the promise can be stated for all        *)
(* others, with everything else overlapping.                               *)
(***************************************************************************)
EXTENDS TaskRequests, FiniteSets

VARIABLE contested  \* requests that two calls under way have held at once

HeldTwice ==
  {i \in Inbox : \E r, s \in Requests : r # s /\ req[r].entry = i /\ req[s].entry = i}

HistoryInit == Init /\ contested = {}
HistoryNext == Next /\ contested' = contested \cup HeldTwice'
HistorySpec == HistoryInit /\ [][HistoryNext]_<<vars, contested>>
FairSpec == HistorySpec /\ Fairness

Uncontested == Inbox \ contested

(***************************************************************************)
(* A cross-team request nobody fought over, whatever else goes on: a task  *)
(* minted for it is the one it points to, it carries a task exactly when   *)
(* it is FULFILLED and a reason only when it is REJECTED: what the inbox   *)
(* link and the cross_team_origin marker of the minted task read.          *)
(***************************************************************************)
UncontestedFate ==
  /\ \A t \in Tasks :
       mintedFor[t] \in Uncontested => inbox[mintedFor[t]].task = t
  /\ \A i \in Uncontested :
       /\ inbox[i].status = "FULFILLED" <=> inbox[i].task # None
       /\ inbox[i].reason => inbox[i].status = "REJECTED"

(***************************************************************************)
(* And once resolved it stays resolved, the same way: fulfil and reject    *)
(* turn down a request that is no longer PENDING.                          *)
(***************************************************************************)
UncontestedStaysResolved ==
  [][\A i \in Uncontested :
       inbox[i].status \in {"FULFILLED", "REJECTED"} =>
         /\ inbox'[i].status = inbox[i].status
         /\ inbox'[i].task = inbox[i].task
         /\ inbox'[i].reason = inbox[i].reason]_<<vars, contested>>
=============================================================================
