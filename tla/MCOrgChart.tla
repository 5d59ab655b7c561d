----------------------------- MODULE MCOrgChart -----------------------------
(***************************************************************************)
(* A small instance of OrgChart.                                           *)
(***************************************************************************)
EXTENDS OrgChart, TLC

CONSTANTS m1, m2, m3

\* One rank for all: rank is the subject of Access.
MCPriority == [m \in Members |-> 2]

Symmetry == Permutations(Teams) \cup Permutations(Departments) \cup Permutations(Requests)
=============================================================================
