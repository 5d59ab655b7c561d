---------------------------- MODULE MCChartRaces -----------------------------
(***************************************************************************)
(* A small instance of ChartHistory, for overlapping calls.                *)
(***************************************************************************)
EXTENDS ChartHistory, TLC

\* One rank for all: rank is the subject of Access.
MCPriority == [m \in Members |-> 2]

(***************************************************************************)
(* Bound: leaders of a team and heads of two departments are looked at     *)
(* apart.  A team and one department together see one placement and one    *)
(* promotion under way at a time, about different members; a team that is   *)
(* filed sees one of the two.  One member at a time keeps the rank of a    *)
(* team that is gone, and then one placement at a time is under way.       *)
(***************************************************************************)
Placements == {r \in Requests : req[r].call = "assign"}
Promotions == {r \in Requests : req[r].dept # None}

NoTeam == teams = {} /\ Placements = {}
NoDepartment == depts = {} /\ Promotions = {}
Together ==
  /\ Cardinality(depts \cup {req[r].dept : r \in Promotions}) <= 1
  /\ Cardinality(Placements) <= 1 /\ Cardinality(Promotions) <= 1
  /\ (\E t \in Teams : filed[t] # None) => Cardinality(Placements \cup Promotions) <= 1
  /\ crowded = {}

LeftBehind == {m \in Members : place[m].team = None /\ place[m].rank # None}

Apart ==
  /\ Cardinality(LeftBehind) <= 1
  /\ LeftBehind # {} => Cardinality(Placements) <= 1
  /\ NoTeam \/ NoDepartment \/ Together

Symmetry == Permutations(Teams) \cup Permutations(Departments) \cup Permutations(Requests)
=============================================================================
