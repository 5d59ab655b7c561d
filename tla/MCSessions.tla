----------------------------- MODULE MCSessions ------------------------------
(***************************************************************************)
(* A small instance of Sessions: somebody with seats in two workspaces, an *)
(* operator with one, and an agent with two keys.                          *)
(***************************************************************************)
EXTENDS Sessions, TLC

CONSTANTS u, op, w1, w2, a, FewTokens, FewLocks

MCSeats == {<<u, w1>>, <<u, w2>>, <<op, w1>>}
MCHome == [x \in Agents |-> w1]
MCKeyOf == [x \in Keys |-> a]
MCTTL == [human |-> 2, agent |-> 2, select |-> 1]

(***************************************************************************)
(* Bounds: few tokens are about at a time; the locks are those on one seat *)
(* and its user, on its workspace and on the agent, a number of them at a  *)
(* time; locks on other rows are read by other requests.  Once the agent   *)
(* has a key the people are left alone: the two share only the workspace.  *)
(***************************************************************************)
TokensAbout == Cardinality(tokens) <= FewTokens

LocksMeet ==
  /\ suspended \subseteq {<<u, w1>>, a}
  /\ closed[w2] = Never /\ killed[op] = Never
  /\ \A r \in Requests :
       req[r].call \in {"reset", "close"} => req[r].row \in {u, w1}
  /\ Cardinality(suspended) + Cardinality(banned)
       + Cardinality({w \in Workspaces : closed[w] # Never}) <= FewLocks

PeopleOrAgent ==
  (\E x \in Keys : keys[x] # "none") =>
    /\ banned = {} /\ killed[u] = Never /\ <<u, w1>> \notin suspended
    /\ \A t \in tokens : t.scope = "agent" \/ t.bearer = <<op, w1>>
    /\ clock = 0

Symmetry == Permutations(Requests) \cup Permutations(Keys)
=============================================================================
