---------------------------- MODULE MCMigrations ----------------------------
(***************************************************************************)
(* Small databases of several ages.  No revision relates workspace names,  *)
(* tasks, people and the org chart to each other, so that a database has   *)
(* rows of one of the four.                                                *)
(***************************************************************************)
EXTENDS Migrations

Empty ==
  [names |-> <<>>, tasks |-> <<>>, next |-> [w \in Workspaces |-> 0],
   people |-> <<>>, users |-> {}, places |-> <<>>, heads |-> <<>>]

\* A long word leaves no room for a suffix.
MCFitting ==
  ({"Acme", "Beta"} \X UNION {[1..n -> {2, 3}] : n \in 0..2}) \cup {<<"Long", <<>>>>}

Named ==
  LET names == {<<"Acme", <<>>>>, <<"Acme", <<2>>>>, <<"Beta", <<>>>>, <<"Long", <<>>>>}
  IN {[version |-> 13, rows |-> [Empty EXCEPT !.names = s]] : s \in [1..3 -> names]}

TaskOf(w, status) ==
  [workspace |-> w, status |-> status, blocked |-> FALSE, seq |-> 0, completed |-> FALSE]

TasksAt(v, statuses) ==
  {[version |-> v, rows |-> [Empty EXCEPT !.tasks = s]] :
     s \in [1..3 -> {TaskOf(w, st) : w \in {"w1", "w2"}, st \in statuses}]}

\* Tasks written with the program of 0014: numbered by their counter.
Reviewed ==
  {[version |-> 14,
    rows |-> [Empty EXCEPT
       !.tasks = <<[TaskOf("w1", "IN_REVIEW") EXCEPT !.seq = 1, !.blocked = b],
                   [TaskOf("w1", "DONE") EXCEPT !.seq = 2, !.completed = TRUE]>>,
       !.next = [w \in Workspaces |-> IF w = "w1" THEN 3 ELSE 1]]] : b \in BOOLEAN}

PersonOf(w, type, email, secret, top) ==
  [workspace |-> w, type |-> type, email |-> email, secret |-> secret, top |-> top,
   role |-> "MEMBER", user |-> None]

Persons ==
  {PersonOf(w, "HUMAN", e, s, top) : w \in {"w1", "w2"}, e \in {"ann", "bob"},
                                   s \in {"password", "oauth"}, top \in BOOLEAN}
    \cup {PersonOf(w, "AGENT", None, "agent", FALSE) : w \in {"w1", "w2"}}

\* uq_members_workspace_id_email
Peopled ==
  {[version |-> 3, rows |-> [Empty EXCEPT !.people = s]] :
     s \in {t \in [1..2 -> Persons] :
              t[1].type = "HUMAN" =>
                <<t[1].workspace, t[1].email>> # <<t[2].workspace, t[2].email>>}}

Placed ==
  LET places == {Nowhere} \cup [team : {"t1"}, rank : {"MANAGER", "LEAD", "MEMBER", None}]
                  \cup [team : {None}, rank : {"MANAGER"}]
  IN {[version |-> 22, rows |-> [Empty EXCEPT !.places = s, !.heads = h]] :
        s \in [1..2 -> places], h \in [1..2 -> 0..2]}

HeadOfTeam ==
  {[version |-> 12, rows |-> [Empty EXCEPT !.places = s, !.heads = <<0>>]] :
     s \in [1..2 -> [team : {"t1"}, rank : {"HEAD", "MANAGER"}]]}

MCDatabases ==
  {[version |-> 0, rows |-> Empty]} \cup Named
    \cup TasksAt(1, {"PENDING", "DONE"}) \cup TasksAt(4, {"BLOCKED", "DONE"}) \cup Reviewed
    \cup Peopled \cup Placed \cup HeadOfTeam

MCNewcomer ==
  [PersonOf("w3", "HUMAN", "new", "password", TRUE) EXCEPT !.role = "OWNER"]
=============================================================================
