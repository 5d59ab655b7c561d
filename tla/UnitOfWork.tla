----------------------------- MODULE UnitOfWork -----------------------------
(***************************************************************************)
(* What one database session does to a column of a row it has loaded.      *)
(*                                                                         *)
(* Every HTTP request of the API runs in one SQLAlchemy session and one    *)
(* READ COMMITTED transaction (infrastructure/db/session.py).  A repository*)
(* method fetches the row it is about to change (the session's identity    *)
(* map is weak and keeps none between two methods), assigns to it, and     *)
(* flushes: UPDATE for the columns whose assigned value differs from the   *)
(* fetched one, and for those only.  So a write is a three-way merge: the  *)
(* column the request changed is overwritten whatever it has become since  *)
(* the fetch, and a column it re-assigned to the value it fetched keeps    *)
(* what another transaction has committed meanwhile.                       *)
(***************************************************************************)

Column(stored, loaded, assigned) ==
  IF assigned # loaded THEN assigned ELSE stored
=============================================================================
