------------------------------ MODULE MCAccess ------------------------------
(***************************************************************************)
(* Small instances of Access.                                              *)
(***************************************************************************)
EXTENDS Access, FiniteSets, TLC

\* Slots are interchangeable; members are not (the founder is one of them).
Symmetry == Permutations(Requests)

(***************************************************************************)
(* A bound for requests one at a time: three tokens at most are about,     *)
(* some of which may have outlived the role and the rank they claim.       *)
(***************************************************************************)
FewTokens == Cardinality(issued) <= 3

(***************************************************************************)
(* Bounds for overlapping requests: the operator and one session edit one  *)
(* row, again and again; the founder's is left at a first change.          *)
(***************************************************************************)
OneRowChanges ==
  /\ Cardinality(issued) <= 1
  /\ row[Founder] = [role |-> "OWNER", priority |-> 1, suspended |-> FALSE]
=============================================================================
