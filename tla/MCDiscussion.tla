---------------------------- MODULE MCDiscussion -----------------------------
(***************************************************************************)
(* Small instances of Discussion.                                          *)
(***************************************************************************)
EXTENDS Discussion, TLC

MCMentions == {{}, People}

Seat(owner, post) == [here |-> TRUE, owner |-> owner, post |-> post]

\* The founder owns the workspace and leads nothing or the asked team; the
\* others have the remaining posts or none.
MCSeatings ==
  {s \in [People -> {Seat(FALSE, post) : post \in Posts \cup {None}}
                       \cup {Seat(TRUE, post) : post \in {None, "MANAGER"}}] :
     /\ \A p \in People : s[p].owner <=> p = Founder
     /\ \A p, q \in People : p # q /\ s[p].post # None => s[p].post # s[q].post}

(***************************************************************************)
(* Bound: what does not depend on each other is looked at apart.  What is  *)
(* written meets no relations and no cross-team requests, a change of      *)
(* seats no relations but those of such requests, and the bells are read   *)
(* when nothing else is under way; one call asks, and one at a time writes. *)
(* Only requests depend on who leads the team.  Next to a request tasks    *)
(* are related by BLOCKS only; otherwise by all types.  The first task     *)
(* stands for any that a request or a comment is about.                    *)
(***************************************************************************)
At(stages) == {r \in Requests : calls[r].stage \in stages}
Writes == At({"writing", "written"})
Asks == At({"MANAGER", "LEAD", "HEAD", "head found", "led", "told"})

Linking == At({"linking", "unlinking"}) # {} \/ made > Cardinality(asked)
Writing == Writes # {} \/ comments # <<>> \/ Len(tasks) > 2 + Cardinality(asked)
Asking == Asks # {} \/ asked # {}
Moving == moves > 0
Reading == \E p \in People : \E i \in DOMAIN bells[p] : bells[p][i].read

Apart ==
  /\ ~(Writing /\ (Linking \/ Asking))
  /\ Linking => ~Moving /\ Asks = {}
  /\ asked # {} => \A r \in At({"linking"}) : calls[r].type = "BLOCKS"
  /\ Linking \/ Writing => Leaders = {}
  /\ Reading => ~Linking /\ ~Moving /\ \A r \in Requests : calls[r] = Idle
  /\ Cardinality(Writes) <= 1 /\ Cardinality(Asks) + Cardinality(asked) <= 1
  /\ \A r \in Asks : calls[r].source = 1
  /\ \A r \in Writes : calls[r].kind = "MENTION_COMMENT" => calls[r].task = 1

Symmetry == Permutations(Requests)
=============================================================================
