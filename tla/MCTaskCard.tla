----------------------------- MODULE MCTaskCard ------------------------------
(***************************************************************************)
(* A small instance of CardHistory: a manager and an agent of one team.    *)
(***************************************************************************)
EXTENDS CardHistory, TLC

CONSTANTS manager, agent, home

MCRank == [m \in Members |-> IF m = agent THEN 3 ELSE 2]
MCHome == [m \in Members |-> home]
MCHeading == [m \in Members |-> {}]

(***************************************************************************)
(* Bounds: the manager created the card, so that the agent may be deleted. *)
(* In one history calls are about two of the columns that the stream tells *)
(* about, ratings and deletions aside, and about the status alone when a   *)
(* rating is under way together with a change of it.  A history ends where *)
(* a column is fought over: nothing is claimed of that column any more.    *)
(***************************************************************************)
Touched ==
  {c \in ToldColumns : told[c] # Untold \/ \E r \in Requests : c \in Changing(req[r])}

FewColumns ==
  /\ creator = manager
  /\ fought \subseteq {"rating"}
  /\ Cardinality(Touched) <= IF fought = {} THEN 2 ELSE 1

Symmetry == Permutations(Requests)
=============================================================================
