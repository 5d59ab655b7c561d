---------------------------- MODULE MCOnboarding -----------------------------
(***************************************************************************)
(* Small instances of Onboarding.                                          *)
(***************************************************************************)
EXTENDS Onboarding, TLC

(***************************************************************************)
(* Bound: at most one of the people comes with an OAuth identity.          *)
(***************************************************************************)
OneIdentity == Cardinality(tokens \cup linked) <= 1

Symmetry ==
  Permutations(People) \cup Permutations(Workspaces) \cup Permutations(Invites)
    \cup Permutations(Requests)
=============================================================================
