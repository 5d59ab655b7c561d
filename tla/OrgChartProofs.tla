--------------------------- MODULE OrgChartProofs ---------------------------
(***************************************************************************)
(* Proofs about OrgChart, BackOffice and ChartHistory, for any members,    *)
(* teams, departments, ranks and requests in flight.                       *)
(***************************************************************************)
EXTENDS ChartHistory, TLAPS

-----------------------------------------------------------------------------
(***************************************************************************)
(* The inductive invariant.  Sound says of a members table what its        *)
(* foreign key and its two indexes keep true of all rows, given that they  *)
(* are checked on the row written; Filing and Headships say it of the      *)
(* other tables; Calls says which fields of a request are filled in.       *)
(***************************************************************************)
Sound(pl, ts) ==
  /\ \A m \in Members : pl[m].team \in ts \cup {None}
  /\ \A m, n \in Members :
       pl[m].rank \in Leaders /\ pl[m].team # None /\ pl[m] = pl[n] => m = n

Filing ==
  /\ \A t \in Teams : filed[t] \in depts \cup {None}
  /\ \A d \in Departments :
       /\ head[d] \in present \cup {None}
       /\ d \notin depts => head[d] = None

Headships ==
  \A d, e \in Departments : head[d] # None /\ head[d] = head[e] => d = e

Calls == \A r \in Requests :
  /\ req[r].call = "assign" => req[r].member \in Members
  /\ req[r].call \in {"found", "promote"} => req[r].dept \in Departments

Inv == TypeOK /\ Sound(place, teams) /\ Filing /\ Headships /\ Calls

LEMMA Implied == Inv => OneLeaderPerTeam /\ References /\ OneHeadshipPerMember
BY DEF Inv, TypeOK, Sound, Filing, Headships, OneLeaderPerTeam, References,
       OneHeadshipPerMember

-----------------------------------------------------------------------------
(***************************************************************************)
(* Writing to the members table.                                           *)
(***************************************************************************)

LEMMA NoPlaceType == NoPlace \in Place /\ NoPlace.team = None
BY DEF NoPlace, Place

LEMMA MergedPlace ==
  ASSUME NEW stored \in Place, NEW loaded \in Place, NEW assigned \in Place
  PROVE  Merged(stored, loaded, assigned) \in Place
BY DEF Merged, Column, Place

\* One row is written and the constraints accept it.
LEMMA RowWritten ==
  ASSUME NEW pl \in [Members -> Place], Sound(pl, teams),
         NEW m \in Members, NEW v \in Place,
         Accepts([pl EXCEPT ![m] = v], m)
  PROVE  /\ [pl EXCEPT ![m] = v] \in [Members -> Place]
         /\ Sound([pl EXCEPT ![m] = v], teams)
<1> PICK new : new = [pl EXCEPT ![m] = v]
  OBVIOUS
<1>1. new \in [Members -> Place] /\ new[m] = v /\ \A n \in Members \ {m} : new[n] = pl[n]
  OBVIOUS
<1>2. \A n \in Members : new[n].team \in teams \cup {None}
  BY <1>1 DEF Accepts, Sound
<1>3. ASSUME NEW a \in Members, NEW b \in Members,
             new[a].rank \in Leaders, new[a].team # None, new[a] = new[b]
      PROVE  a = b
  <2>1. CASE a = m
    BY <1>3, <2>1 DEF Accepts, LeaderIndexAllows
  <2>2. CASE b = m
    BY <1>3, <2>2 DEF Accepts, LeaderIndexAllows
  <2>3. CASE a # m /\ b # m
    BY <1>1, <1>3, <2>3 DEF Sound
  <2> QED
    BY <2>1, <2>2, <2>3
<1> QED
  BY <1>1, <1>2, <1>3 DEF Sound

\* Rows lose their team or keep what they had.
LEMMA RowsLowered ==
  ASSUME NEW pl \in [Members -> Place], NEW ts, NEW us, Sound(pl, ts),
         NEW new \in [Members -> Place],
         \A m \in Members : new[m].team \in us \cup {None},
         \A m \in Members :
           new[m].rank \in Leaders /\ new[m].team # None => new[m] = pl[m]
  PROVE  Sound(new, us)
BY DEF Sound

LEMMA Clearing ==
  ASSUME NEW stored \in Place, NEW loaded \in Place
  PROVE  LET v == Merged(stored, loaded, NoPlace)
         IN  /\ v \in Place
             /\ v.team \in {None, stored.team}
             /\ v.rank \in Leaders /\ v.team # None => v = stored
<1>1. None \notin Leaders
  BY ChartAssumption DEF Leaders, Ranks
<1> QED
  BY <1>1, NoPlaceType, MergedPlace DEF Merged, Column, NoPlace, Place

-----------------------------------------------------------------------------
(***************************************************************************)
(* Requests.  Every action moves one slot, or none.                        *)
(***************************************************************************)

LEMMA IdleType == Idle \in Request /\ Idle.call = "none"
BY NoPlaceType DEF Idle, Request

Moves(r, q) == req' = [req EXCEPT ![r] = q]

LEMMA RequestMoved ==
  ASSUME TypeOK, Calls, NEW r \in Requests, NEW q \in Request, Moves(r, q),
         q.call = "assign" => q.member \in Members,
         q.call \in {"found", "promote"} => q.dept \in Departments
  PROVE  req' \in [Requests -> Request] /\ Calls'
BY DEF TypeOK, Calls, Moves

LEMMA RequestDropped ==
  ASSUME TypeOK, Calls, NEW r \in Requests, Moves(r, Idle)
  PROVE  req' \in [Requests -> Request] /\ Calls'
BY IdleType, RequestMoved

\* What a step that only moves a request leaves in place.
LEMMA ChartKept ==
  ASSUME Inv, UNCHANGED chart, req' \in [Requests -> Request], Calls'
  PROVE  Inv'
BY DEF Inv, TypeOK, chart, Sound, Filing, Headships

LEMMA SittingType ==
  ASSUME NEW m \in Members, NEW t, NEW k, TypeOK
  PROVE  Sitting(m, t, k) \in Members \cup {None}
<1>1. Holders(t, k) \subseteq Members
  BY DEF Holders, TypeOK
<1>2. CASE k \in Leaders /\ Holders(t, k) \ {m} # {}
  <2>1. \E s \in Holders(t, k) : s # m
    BY <1>2
  <2>2. (CHOOSE s \in Holders(t, k) : s # m) \in Holders(t, k)
    BY <2>1
  <2> QED
    BY <1>1, <1>2, <2>2 DEF Sitting
<1>3. CASE ~(k \in Leaders /\ Holders(t, k) \ {m} # {})
  BY <1>3 DEF Sitting
<1> QED
  BY <1>2, <1>3

LEMMA CheckAssignInv ==
  ASSUME Inv, NEW r \in Requests, NEW p \in Members, NEW m \in Members,
         NEW t \in Teams \cup {None}, NEW k \in Ranks \cup {None},
         CheckAssign(r, p, m, t, k)
  PROVE  Inv'
<1> PICK q : q = [Idle EXCEPT !.stage = "checked", !.call = "assign", !.by = p,
                    !.member = m, !.asked = [team |-> t, rank |-> k],
                    !.sitting = Sitting(m, t, k), !.audited = Changes(m, t, k)]
  OBVIOUS
<1>1. Sitting(m, t, k) \in Members \cup {None}
  BY SittingType DEF Inv
<1>2. Changes(m, t, k) \in BOOLEAN
  BY DEF Changes
<1>3. [team |-> t, rank |-> k] \in Place
  BY DEF Place
<1>4. q \in Request /\ q.call = "assign" /\ q.member = m
  BY <1>1, <1>2, <1>3, NoPlaceType DEF Idle, Request
<1>5. Moves(r, q) /\ UNCHANGED chart
  BY DEF CheckAssign, Moves
<1> QED
  BY <1>4, <1>5, RequestMoved, ChartKept DEF Inv

LEMMA CheckDepartmentInv ==
  ASSUME Inv, NEW r \in Requests, NEW p \in Members, NEW d \in Departments,
         NEW h \in Members \cup {None}, NEW was \in Members \cup {None},
         NEW call \in {"found", "promote"}, CheckDepartment(r, call, p, d, h, was)
  PROVE  Inv'
<1> PICK q : q = [Idle EXCEPT !.stage = "checked", !.call = call, !.by = p,
                    !.dept = d, !.member = h, !.was = was]
  OBVIOUS
<1>1. q \in Request /\ q.call # "assign" /\ q.dept = d
  BY NoPlaceType DEF Idle, Request
<1>2. Moves(r, q) /\ UNCHANGED chart
  BY DEF CheckDepartment, Moves
<1> QED
  BY <1>1, <1>2, RequestMoved, ChartKept DEF Inv

LEMMA LoadedType ==
  ASSUME NEW q \in Request, NEW a \in Place, NEW b \in Place, NEW h \in Members \cup {None}
  PROVE  [q EXCEPT !.stage = "loaded", !.loaded = a, !.holder = b, !.headed = h] \in Request
BY DEF Request

LEMMA LoadInv ==
  ASSUME Inv, NEW r \in Requests, Load(r)
  PROVE  Inv'
<1> PICK q : q = req[r]
  OBVIOUS
<1> PICK hd : hd = IF q.dept \in depts THEN head[q.dept] ELSE None
  OBVIOUS
<1> PICK a : a = RowOf(q.member)
  OBVIOUS
<1> PICK b : b = RowOf(q.sitting)
  OBVIOUS
<1>1. q \in Request
  BY DEF Inv, TypeOK
<1>2. a \in Place /\ b \in Place
  BY <1>1, NoPlaceType DEF RowOf, Request, Inv, TypeOK
<1>3. hd \in Members \cup {None}
  BY DEF Inv, TypeOK
<1>4. ASSUME NEW new,
             new = [q EXCEPT !.stage = "loaded", !.loaded = a, !.holder = b, !.headed = hd]
      PROVE  /\ new \in Request
             /\ new.call = q.call /\ new.member = q.member /\ new.dept = q.dept
  <2>1. [q EXCEPT !.stage = "loaded", !.loaded = a, !.holder = b, !.headed = hd] \in Request
    BY <1>1, <1>2, <1>3, LoadedType
  <2>2. new.call = q.call /\ new.member = q.member /\ new.dept = q.dept
    BY <1>1, <1>4 DEF Request
  <2> QED
    BY <1>4, <2>1, <2>2
<1> PICK new : new = [q EXCEPT !.stage = "loaded", !.loaded = a, !.holder = b,
                               !.headed = hd]
  OBVIOUS
<1>5. Moves(r, new) /\ UNCHANGED chart
  BY DEF Load, Moves
<1> QED
  BY <1>1, <1>4, <1>5, RequestMoved, ChartKept DEF Inv, Calls

LEMMA AbandonInv ==
  ASSUME Inv, NEW r \in Requests, Abandon(r)
  PROVE  Inv'
<1>1. Moves(r, Idle) /\ UNCHANGED chart
  BY DEF Abandon, Moves
<1> QED
  BY <1>1, RequestDropped, ChartKept DEF Inv

-----------------------------------------------------------------------------
(***************************************************************************)
(* The commits.                                                            *)
(***************************************************************************)

LEMMA CommitAssignInv ==
  ASSUME Inv, NEW r \in Requests, CommitAssign(r)
  PROVE  Inv'
<1> PICK q : q = req[r]
  OBVIOUS
<1> PICK demoted : demoted = Demoted(q)
  OBVIOUS
<1> PICK new : new = Merged(demoted[q.member], q.loaded, q.asked)
  OBVIOUS
<1>1. q \in Request /\ q.call = "assign" /\ q.member \in Members
  BY DEF CommitAssign, Inv, TypeOK, Calls
<1>2. demoted \in [Members -> Place] /\ Sound(demoted, teams)
  <2>1. CASE q.sitting = None
    BY <2>1 DEF Demoted, Inv, TypeOK
  <2>2. CASE q.sitting # None
    <3> PICK down : down = [team |-> q.asked.team, rank |-> "MEMBER"]
      OBVIOUS
    <3> PICK v : v = Merged(place[q.sitting], q.holder, down)
      OBVIOUS
    <3>1. q.sitting \in Members
      BY <1>1, <2>2 DEF Request
    <3>2. down \in Place
      BY <1>1 DEF Request, Place, Ranks
    <3>3. v \in Place
      BY <1>1, <3>1, <3>2, MergedPlace DEF Request, Inv, TypeOK
    <3>4. demoted = [place EXCEPT ![q.sitting] = v]
      BY <2>2 DEF Demoted
    <3>5. Accepts(demoted, q.sitting)
      BY <2>2 DEF CommitAssign
    <3>6. Accepts([place EXCEPT ![q.sitting] = v], q.sitting)
      BY <3>4, <3>5
    <3>7. place \in [Members -> Place] /\ Sound(place, teams)
      BY DEF Inv, TypeOK
    <3>8. /\ [place EXCEPT ![q.sitting] = v] \in [Members -> Place]
          /\ Sound([place EXCEPT ![q.sitting] = v], teams)
      BY <3>1, <3>3, <3>6, <3>7, RowWritten
    <3> QED
      BY <3>4, <3>8
  <2> QED
    BY <2>1, <2>2
<1>3. new \in Place
  BY <1>1, <1>2, MergedPlace DEF Request
<1>4. place' = [demoted EXCEPT ![q.member] = new] /\ Accepts([demoted EXCEPT ![q.member] = new], q.member)
  BY DEF CommitAssign
<1>5. place' \in [Members -> Place] /\ Sound(place', teams)
  BY <1>1, <1>2, <1>3, <1>4, RowWritten
<1>6. Moves(r, Idle) /\ UNCHANGED <<present, teams, filed, depts, head>>
  BY DEF CommitAssign, Moves
<1>7. req' \in [Requests -> Request] /\ Calls'
  BY <1>6, RequestDropped DEF Inv
<1> QED
  BY <1>5, <1>6, <1>7 DEF Inv, TypeOK, Filing, Headships

\* What founding a department and promoting a head have in common.
LEMMA SeatHeadFacts ==
  ASSUME Inv, NEW r \in Requests, NEW call \in {"found", "promote"},
         NEW newHead \in [Departments -> Members \cup {None}],
         NEW d \in Departments, d = req[r].dept,
         \A e \in Departments \ {d} : newHead[e] = head[e],
         newHead[d] \in {head[d], req[r].member},
         SeatHead(r, call, newHead)
  PROVE  /\ place' \in [Members -> Place] /\ Sound(place', teams)
         /\ head' = newHead /\ Headships'
         /\ \A e \in Departments : head'[e] \in present \cup {None}
         /\ req' \in [Requests -> Request] /\ Calls'
         /\ UNCHANGED <<present, teams, filed>>
<1> PICK q : q = req[r]
  OBVIOUS
<1>1. q \in Request
  BY DEF Inv, TypeOK
<1>2. place' \in [Members -> Place] /\ Sound(place', teams)
  <2>1. CASE q.member = None
    BY <2>1 DEF SeatHead, TeamCleared, Inv, TypeOK
  <2>2. CASE q.member # None
    <3> PICK m : m = q.member
      OBVIOUS
    <3> PICK v : v = Merged(place[m], q.loaded, NoPlace)
      OBVIOUS
    <3>1. m \in Members /\ q.loaded \in Place /\ place[m] \in Place
      BY <1>1, <2>2 DEF Request, Inv, TypeOK
    <3>2. /\ v \in Place /\ v.team \in {None, place[m].team}
          /\ v.rank \in Leaders /\ v.team # None => v = place[m]
      BY <3>1, Clearing
    <3>3. place' = [place EXCEPT ![m] = v]
      BY <2>2 DEF SeatHead, TeamCleared
    <3>4. place' \in [Members -> Place]
      BY <3>2, <3>3 DEF Inv, TypeOK
    <3>5. \A n \in Members : place'[n] = IF n = m THEN v ELSE place[n]
      BY <3>3 DEF Inv, TypeOK
    <3>6. \A n \in Members : place'[n].team \in teams \cup {None}
      BY <3>1, <3>2, <3>5 DEF Inv, Sound
    <3>7. \A n \in Members :
            place'[n].rank \in Leaders /\ place'[n].team # None => place'[n] = place[n]
      BY <3>2, <3>5
    <3> QED
      BY <3>4, <3>6, <3>7 DEF Sound, Inv
  <2> QED
    BY <2>1, <2>2
<1>3. head' = newHead /\ UNCHANGED <<present, teams, filed>>
  BY DEF SeatHead
<1>4. q.member \in present \cup {None} /\ HeadIndexAllows(newHead, d)
  BY DEF SeatHead
<1>5. Headships'
  BY <1>3, <1>4 DEF HeadIndexAllows, Headships, Inv
<1>6. \A e \in Departments : head'[e] \in present \cup {None}
  BY <1>3, <1>4 DEF Inv, Filing
<1>7. Moves(r, Idle)
  BY DEF SeatHead, Moves
<1>8. req' \in [Requests -> Request] /\ Calls'
  BY <1>7, RequestDropped DEF Inv
<1> QED
  BY <1>2, <1>3, <1>5, <1>6, <1>8

LEMMA CommitFoundInv ==
  ASSUME Inv, NEW r \in Requests, CommitFound(r)
  PROVE  Inv'
<1> PICK q : q = req[r]
  OBVIOUS
<1> PICK newHead : newHead = [head EXCEPT ![q.dept] = q.member]
  OBVIOUS
<1>1. q \in Request /\ q.dept \in Departments
  BY DEF CommitFound, SeatHead, Inv, TypeOK, Calls
<1>2. newHead \in [Departments -> Members \cup {None}]
  BY <1>1 DEF Request, Inv, TypeOK
<1>3. newHead[q.dept] = q.member /\ \A e \in Departments \ {q.dept} : newHead[e] = head[e]
  BY <1>1 DEF Inv, TypeOK
<1>4. SeatHead(r, "found", newHead) /\ depts' = depts \cup {q.dept}
  BY DEF CommitFound
<1>5. /\ place' \in [Members -> Place] /\ Sound(place', teams)
      /\ head' = newHead /\ Headships'
      /\ \A e \in Departments : head'[e] \in present \cup {None}
      /\ req' \in [Requests -> Request] /\ Calls'
      /\ UNCHANGED <<present, teams, filed>>
  BY <1>1, <1>2, <1>3, <1>4, SeatHeadFacts
<1>6. Filing'
  BY <1>3, <1>4, <1>5 DEF Inv, Filing
<1>7. TypeOK'
  BY <1>1, <1>2, <1>4, <1>5 DEF Inv, TypeOK
<1> QED
  BY <1>5, <1>6, <1>7 DEF Inv

LEMMA CommitPromoteInv ==
  ASSUME Inv, NEW r \in Requests, CommitPromote(r)
  PROVE  Inv'
<1> PICK q : q = req[r]
  OBVIOUS
<1> PICK h : h = Column(head[q.dept], q.headed, q.member)
  OBVIOUS
<1> PICK newHead : newHead = [head EXCEPT ![q.dept] = h]
  OBVIOUS
<1>1. q \in Request /\ q.dept \in Departments /\ q.dept \in depts
  BY DEF CommitPromote, SeatHead, Inv, TypeOK, Calls
<1>2. h \in {head[q.dept], q.member} /\ h \in Members \cup {None}
  BY <1>1 DEF Column, Request, Inv, TypeOK
<1>3. newHead \in [Departments -> Members \cup {None}]
  BY <1>1, <1>2 DEF Inv, TypeOK
<1>4. newHead[q.dept] = h /\ \A e \in Departments \ {q.dept} : newHead[e] = head[e]
  BY <1>1 DEF Inv, TypeOK
<1>5. SeatHead(r, "promote", newHead) /\ depts' = depts
  BY DEF CommitPromote
<1>6. /\ place' \in [Members -> Place] /\ Sound(place', teams)
      /\ head' = newHead /\ Headships'
      /\ \A e \in Departments : head'[e] \in present \cup {None}
      /\ req' \in [Requests -> Request] /\ Calls'
      /\ UNCHANGED <<present, teams, filed>>
  BY <1>1, <1>2, <1>3, <1>4, <1>5, SeatHeadFacts
<1>7. Filing'
  BY <1>1, <1>4, <1>5, <1>6 DEF Inv, Filing
<1>8. TypeOK'
  BY <1>3, <1>5, <1>6 DEF Inv, TypeOK
<1> QED
  BY <1>6, <1>7, <1>8 DEF Inv

-----------------------------------------------------------------------------
(***************************************************************************)
(* The operations of one step.                                             *)
(***************************************************************************)

LEMMA MaintainInv ==
  ASSUME Inv, NEW p \in Members, Maintain(p)
  PROVE  Inv'
<1>1. ASSUME NEW d \in Departments, DeleteDepartment(p, d) PROVE Inv'
  <2>1. /\ depts' = depts \ {d} /\ UNCHANGED <<present, place, teams, req>>
        /\ head' = [head EXCEPT ![d] = None]
        /\ filed' = [t \in Teams |-> IF filed[t] = d THEN None ELSE filed[t]]
    BY <1>1 DEF DeleteDepartment
  <2>2. head' \in [Departments -> Members \cup {None}] /\ filed' \in [Teams -> Departments \cup {None}]
    BY <2>1 DEF Inv, TypeOK
  <2>3. \A e \in Departments : head'[e] = IF e = d THEN None ELSE head[e]
    BY <2>1 DEF Inv, TypeOK
  <2>4. Filing' /\ Headships'
    BY <2>1, <2>3 DEF Inv, Filing, Headships
  <2>5. TypeOK'
    BY <2>1, <2>2 DEF Inv, TypeOK
  <2> QED
    BY <2>1, <2>4, <2>5 DEF Inv, Sound, Calls
<1>2. ASSUME NEW t \in Teams, NEW d \in Departments \cup {None},
             CreateTeam(p, t, d) \/ UpdateTeam(p, t, d)
      PROVE  Inv'
  <2>1. /\ d \in depts \cup {None} /\ filed' = [filed EXCEPT ![t] = d]
        /\ teams \subseteq teams' /\ teams' \subseteq Teams
        /\ UNCHANGED <<present, place, depts, head, req>>
    BY <1>2 DEF CreateTeam, UpdateTeam, Inv, TypeOK
  <2>2. TypeOK'
    BY <2>1 DEF Inv, TypeOK
  <2>3. Filing' /\ Headships'
    BY <2>1 DEF Inv, TypeOK, Filing, Headships
  <2> QED
    BY <2>1, <2>2, <2>3 DEF Inv, Sound, Calls
<1>3. ASSUME NEW t \in Teams, DeleteTeam(p, t) PROVE Inv'
  <2>1. /\ teams' = teams \ {t} /\ filed' = [filed EXCEPT ![t] = None]
        /\ place' = WithoutTeam(t) /\ UNCHANGED <<present, depts, head, req>>
    BY <1>3 DEF DeleteTeam
  <2>2. ASSUME NEW m \in Members
        PROVE  /\ place'[m] \in Place
               /\ place'[m].team \in (teams \ {t}) \cup {None}
               /\ place'[m].team # None => place'[m] = place[m]
    <3>1. CASE place[m].team = t
      BY <2>1, <3>1 DEF WithoutTeam, Inv, TypeOK, Place
    <3>2. CASE place[m].team # t
      BY <2>1, <3>2 DEF WithoutTeam, Inv, TypeOK, Sound
    <3> QED
      BY <3>1, <3>2
  <2>3. place' \in [Members -> Place]
    BY <2>1, <2>2 DEF WithoutTeam
  <2>4. Sound(place', teams')
    BY <2>1, <2>2 DEF Inv, Sound
  <2>5. TypeOK'
    BY <2>1, <2>3 DEF Inv, TypeOK
  <2>6. Filing' /\ Headships' /\ Calls'
    BY <2>1 DEF Inv, TypeOK, Filing, Headships, Calls
  <2> QED
    BY <2>4, <2>5, <2>6 DEF Inv
<1>4. ASSUME NEW a \in Agents, DeleteAgent(p, a) PROVE Inv'
  <2>1. /\ present' = present \ {a} /\ place' = [place EXCEPT ![a] = NoPlace]
        /\ head' = WithoutHead(a) /\ UNCHANGED <<teams, filed, depts, req>>
    BY <1>4 DEF DeleteAgent
  <2>2. place' \in [Members -> Place]
    BY <2>1, NoPlaceType DEF Inv, TypeOK
  <2>3. \A m \in Members : place'[m] = IF m = a THEN NoPlace ELSE place[m]
    BY <2>1 DEF Inv, TypeOK
  <2>4. Sound(place', teams')
    <3>1. \A m \in Members : place'[m].team \in teams \cup {None}
      BY <2>3, NoPlaceType DEF Inv, Sound
    <3>2. \A m \in Members : place'[m].team # None => place'[m] = place[m]
      BY <2>3, NoPlaceType
    <3> QED
      BY <2>1, <3>1, <3>2 DEF Inv, Sound
  <2>5. head' \in [Departments -> Members \cup {None}]
    BY <2>1 DEF WithoutHead, Inv, TypeOK
  <2>6. Filing' /\ Headships'
    BY <2>1 DEF Inv, TypeOK, Filing, Headships, WithoutHead
  <2>7. TypeOK'
    BY <2>1, <2>2, <2>5 DEF Inv, TypeOK
  <2> QED
    BY <2>1, <2>4, <2>6, <2>7 DEF Inv, Calls
<1> QED
  BY <1>1, <1>2, <1>3, <1>4 DEF Maintain

-----------------------------------------------------------------------------
(***************************************************************************)
(* The invariant at the start and along every step of OrgChart.            *)
(***************************************************************************)

LEMMA InitInv == Init => Inv
<1> SUFFICES ASSUME Init PROVE Inv
  OBVIOUS
<1>1. TypeOK
  BY IdleType, NoPlaceType DEF Init, TypeOK
<1>2. Sound(place, teams)
  BY NoPlaceType DEF Init, Sound
<1>3. Filing /\ Headships /\ Calls
  BY IdleType DEF Init, Filing, Headships, Calls
<1> QED
  BY <1>1, <1>2, <1>3 DEF Inv

LEMMA StepInv == Inv /\ [Next]_vars => Inv'
<1> SUFFICES ASSUME Inv, [Next]_vars PROVE Inv'
  OBVIOUS
<1>1. ASSUME NEW p \in Members, Maintain(p) PROVE Inv'
  BY <1>1, MaintainInv
<1>2. ASSUME NEW r \in Requests, NEW p \in Members, CheckStep(r, p) PROVE Inv'
  <2>1. ASSUME NEW m \in Members, NEW t \in Teams \cup {None}, NEW k \in Ranks \cup {None},
               CheckAssign(r, p, m, t, k)
        PROVE  Inv'
    BY <2>1, CheckAssignInv
  <2>2. ASSUME NEW d \in Departments, NEW h \in Members \cup {None},
               CheckFound(r, p, d, h) \/ CheckPromote(r, p, d, h)
        PROVE  Inv'
    <3>1. head[d] \in Members \cup {None}
      BY DEF Inv, TypeOK
    <3> QED
      BY <2>2, <3>1, CheckDepartmentInv DEF CheckFound, CheckPromote
  <2> QED
    BY <1>2, <2>1, <2>2 DEF CheckStep
<1>3. ASSUME NEW r \in Requests, Load(r) \/ Abandon(r) PROVE Inv'
  BY <1>3, LoadInv, AbandonInv
<1>4. ASSUME NEW r \in Requests, CommitStep(r) PROVE Inv'
  BY <1>4, CommitAssignInv, CommitFoundInv, CommitPromoteInv DEF CommitStep
<1>5. CASE UNCHANGED vars
  BY <1>5, ChartKept DEF vars, Inv, TypeOK, Calls
<1> QED
  BY <1>1, <1>2, <1>3, <1>4, <1>5 DEF Next

-----------------------------------------------------------------------------
(***************************************************************************)
(* Calls that overlap, and the members they are about.                     *)
(*                                                                         *)
(* A call looks at the rows of the members it is about and writes them     *)
(* later.  As long as no other call is about the same member (it is not    *)
(* crowded), what it saw stays true of it, but for deletions: they may     *)
(* take the team from under the member, and never make it a head.          *)
(***************************************************************************)
\* What a call holds in its fields.
Formed(q) ==
  /\ q.stage = "idle" => q = Idle
  /\ q.call = "assign" => Coherent(q.asked.team, q.asked.rank) /\ q.sitting # q.member
  /\ q.call # "assign" => q.sitting = None
  /\ q.stage # "idle" => q.call # "none"

\* A row and what it may have become under a call about it.
Since(loaded, stored) == stored.rank = loaded.rank /\ stored.team \in {loaded.team, None}

Relies(q, m) ==
  /\ q.call = "assign" /\ (m = q.sitting \/ q.asked.team # None) => ~HeadsDepartment(m)
  /\ q.call = "assign" /\ m = q.sitting => place[m].team \in {q.asked.team, None}
  /\ q.stage = "loaded" /\ m = q.member => Since(q.loaded, place[m])
  /\ q.stage = "loaded" /\ m = q.sitting => Since(q.holder, place[m])

Kept(m) ==
  CoherentMember(m) /\ \A r \in Requests : m \in About(req[r]) => Relies(req[r], m)

AllFormed == \A r \in Requests : Formed(req[r])

Gone == \A m \in Members \ present : place[m] = NoPlace

HistoryInv ==
  /\ Inv /\ AllFormed /\ Gone
  /\ Overlapped \subseteq crowded
  /\ \A m \in present \ crowded : Kept(m)

HeadsAsBefore(m) == HeadsDepartment(m)' => HeadsDepartment(m)

LEMMA AboutIdle == About(Idle) = {}
BY DEF About, Idle

LEMMA IdleFormed == Formed(Idle)
BY DEF Formed, Idle

LEMMA FormedMoved ==
  ASSUME TypeOK, AllFormed, NEW r \in Requests, NEW q, Formed(q), Moves(r, q)
  PROVE  AllFormed'
BY DEF TypeOK, AllFormed, Moves

LEMMA SittingHolds ==
  ASSUME NEW m, NEW t, NEW k, Sitting(m, t, k) # None
  PROVE  /\ k \in Leaders /\ Sitting(m, t, k) \in present /\ Sitting(m, t, k) # m
         /\ place[Sitting(m, t, k)] = [team |-> t, rank |-> k]
<1>1. k \in Leaders /\ Holders(t, k) \ {m} # {}
  BY DEF Sitting
<1>2. \E s \in Holders(t, k) : s # m
  BY <1>1
<1>3. LET s == CHOOSE s \in Holders(t, k) : s # m IN s \in Holders(t, k) /\ s # m
  BY <1>2
<1> QED
  BY <1>1, <1>3 DEF Sitting, Holders

\* The tables stay, a request moves.
LEMMA KeptInChart ==
  ASSUME TypeOK, NEW r \in Requests, NEW q, Moves(r, q), UNCHANGED chart,
         NEW m, Kept(m), m \in About(q) => Relies(q, m)
  PROVE  Kept(m)'
<1>1. CoherentMember(m)'
  BY DEF Kept, CoherentMember, HeadsDepartment, chart
<1>2. \A s \in Requests : req'[s] = IF s = r THEN q ELSE req[s]
  BY DEF TypeOK, Moves
<1>3. ASSUME NEW s \in Requests, m \in About(req'[s]) PROVE Relies(req[s], m)'
  <2> PICK c : c = req'[s]
    OBVIOUS
  <2>1. Relies(c, m)
    BY <1>2, <1>3 DEF Kept
  <2> QED
    BY <2>1 DEF Relies, Since, HeadsDepartment, chart
<1> QED
  BY <1>1, <1>3 DEF Kept, About

LEMMA CheckAssignKeeps ==
  ASSUME Inv, AllFormed, NEW r \in Requests, NEW p \in Members, NEW m \in Members,
         NEW t \in Teams \cup {None}, NEW k \in Ranks \cup {None},
         CheckAssign(r, p, m, t, k)
  PROVE  AllFormed' /\ \A n \in present : Kept(n) => Kept(n)'
<1> PICK sitting : sitting = Sitting(m, t, k)
  OBVIOUS
<1> PICK audited : audited = Changes(m, t, k)
  OBVIOUS
<1> PICK q : q = [Idle EXCEPT !.stage = "checked", !.call = "assign", !.by = p,
                    !.member = m, !.asked = [team |-> t, rank |-> k],
                    !.sitting = sitting, !.audited = audited]
  OBVIOUS
<1>1. /\ q.stage = "checked" /\ q.call = "assign" /\ q.member = m /\ q.sitting = sitting
      /\ q.asked.team = t /\ q.asked.rank = k
  BY DEF Idle
<1>2. Moves(r, q) /\ UNCHANGED chart
  BY DEF CheckAssign, Moves
<1>3. sitting # m
  <2>1. CASE sitting = None
    BY <2>1, ChartAssumption
  <2>2. CASE sitting # None
    BY <2>2, SittingHolds
  <2> QED
    BY <2>1, <2>2
<1>4. Formed(q)
  BY <1>1, <1>3 DEF Formed, CheckAssign
<1>5. ASSUME NEW n \in present, Kept(n), n \in About(q) PROVE Relies(q, n)
  <2>1. t # None => ~HeadsDepartment(m)
    BY DEF CheckAssign
  <2>2. n = sitting => ~HeadsDepartment(n)
    <3> SUFFICES ASSUME n = sitting PROVE ~HeadsDepartment(n)
      OBVIOUS
    <3>1. n # None
      BY <1>5 DEF About
    <3>2. k \in Leaders /\ place[n] = [team |-> t, rank |-> k]
      BY <3>1, SittingHolds
    <3>3. k # None /\ t # None
      BY <3>2, ChartAssumption DEF Leaders, Ranks, CheckAssign, Coherent
    <3> QED
      BY <1>5, <3>2, <3>3 DEF Kept, CoherentMember, NoPlace
  <2>3. n = sitting => place[n].team = t
    <3> SUFFICES ASSUME n = sitting PROVE place[n].team = t
      OBVIOUS
    <3>1. n # None
      BY <1>5 DEF About
    <3>2. place[n] = [team |-> t, rank |-> k]
      BY <3>1, SittingHolds
    <3> QED
      BY <3>2
  <2> QED
    BY <1>1, <1>5, <2>1, <2>2, <2>3 DEF Relies, About
<1> QED
  BY <1>2, <1>4, <1>5, FormedMoved, KeptInChart DEF Inv

LEMMA CheckDepartmentKeeps ==
  ASSUME Inv, AllFormed, NEW r \in Requests, NEW p \in Members, NEW d \in Departments,
         NEW h, NEW was, NEW call \in {"found", "promote"},
         CheckDepartment(r, call, p, d, h, was)
  PROVE  AllFormed' /\ \A n \in present : Kept(n) => Kept(n)'
<1> PICK q : q = [Idle EXCEPT !.stage = "checked", !.call = call, !.by = p,
                    !.dept = d, !.member = h, !.was = was]
  OBVIOUS
<1>1. q.stage = "checked" /\ q.call = call /\ q.sitting = None
  BY DEF Idle
<1>2. Moves(r, q) /\ UNCHANGED chart
  BY DEF CheckDepartment, Moves
<1>3. Formed(q) /\ \A n : Relies(q, n)
  BY <1>1 DEF Formed, Relies
<1> QED
  BY <1>2, <1>3, FormedMoved, KeptInChart DEF Inv

LEMMA LoadKeeps ==
  ASSUME Inv, AllFormed, NEW r \in Requests, Load(r)
  PROVE  AllFormed' /\ \A n \in present : Kept(n) => Kept(n)'
<1> PICK c : c = req[r]
  OBVIOUS
<1> PICK hd : hd = IF c.dept \in depts THEN head[c.dept] ELSE None
  OBVIOUS
<1> PICK a : a = RowOf(c.member)
  OBVIOUS
<1> PICK b : b = RowOf(c.sitting)
  OBVIOUS
<1> PICK q : q = [c EXCEPT !.stage = "loaded", !.loaded = a, !.holder = b, !.headed = hd]
  OBVIOUS
<1>1. c \in Request /\ Formed(c) /\ c.stage = "checked"
  BY DEF Inv, TypeOK, AllFormed, Load
<1>2. /\ q.stage = "loaded" /\ q.call = c.call /\ q.member = c.member /\ q.asked = c.asked
      /\ q.sitting = c.sitting /\ q.loaded = a /\ q.holder = b
  BY <1>1 DEF Request
<1>3. Moves(r, q) /\ UNCHANGED chart
  BY DEF Load, Moves
<1>4. Formed(q)
  BY <1>1, <1>2 DEF Formed
<1>5. ASSUME NEW n \in present, Kept(n), n \in About(q) PROVE Relies(q, n)
  <2>1. Relies(c, n) /\ n # None
    BY <1>2, <1>5 DEF Kept, About
  <2>2. /\ n = c.member => a = place[n]
        /\ n = c.sitting => b = place[n]
    BY <2>1 DEF RowOf
  <2> QED
    BY <1>2, <2>1, <2>2 DEF Relies, Since
<1> QED
  BY <1>3, <1>4, <1>5, FormedMoved, KeptInChart DEF Inv

LEMMA AbandonKeeps ==
  ASSUME Inv, AllFormed, NEW r \in Requests, Abandon(r)
  PROVE  AllFormed' /\ \A n \in present : Kept(n) => Kept(n)'
<1>1. Moves(r, Idle) /\ UNCHANGED chart
  BY DEF Abandon, Moves
<1> QED
  BY <1>1, IdleFormed, AboutIdle, FormedMoved, KeptInChart DEF Inv

\* Deletions take the team from a member, or the headship.
LEMMA KeptLowered ==
  ASSUME TypeOK, TypeOK', UNCHANGED req, NEW m \in Members, Kept(m), HeadsAsBefore(m),
         place'[m].rank = place[m].rank, place'[m].team \in {place[m].team, None}
  PROVE  Kept(m)'
<1>1. CoherentMember(m)'
  <2>1. place'[m] \in Place /\ place[m] \in Place
    BY DEF TypeOK
  <2>2. place[m] = NoPlace => place'[m] = NoPlace
    BY <2>1 DEF Place, NoPlace
  <2>3. place'[m].team # None => place'[m].rank # None
    BY DEF Kept, CoherentMember
  <2> QED
    BY <2>2, <2>3 DEF Kept, CoherentMember, HeadsAsBefore
<1>2. ASSUME NEW s \in Requests, m \in About(req[s]) PROVE Relies(req[s], m)'
  BY <1>2 DEF Kept, Relies, Since, HeadsAsBefore
<1> QED
  BY <1>1, <1>2 DEF Kept

LEMMA MaintainKeeps ==
  ASSUME Inv, AllFormed, NEW p \in Members, Maintain(p)
  PROVE  /\ AllFormed' /\ req' = req /\ present' \subseteq present
         /\ \A n \in present' : Kept(n) => Kept(n)'
<1>1. TypeOK' /\ TypeOK /\ present \subseteq Members
  BY MaintainInv DEF Inv, TypeOK
<1>2. ASSUME NEW d \in Departments, DeleteDepartment(p, d), NEW n \in present
      PROVE  HeadsAsBefore(n) /\ place'[n] = place[n]
  <2>1. n # None /\ \A e \in Departments : head'[e] = IF e = d THEN None ELSE head[e]
    BY <1>1, <1>2, ChartAssumption DEF DeleteDepartment, TypeOK
  <2> QED
    BY <1>2, <2>1 DEF DeleteDepartment, HeadsAsBefore, HeadsDepartment
<1>3. ASSUME NEW t \in Teams, NEW d \in Departments \cup {None},
             CreateTeam(p, t, d) \/ UpdateTeam(p, t, d), NEW n \in present
      PROVE  HeadsAsBefore(n) /\ place'[n] = place[n]
  BY <1>3 DEF CreateTeam, UpdateTeam, HeadsAsBefore, HeadsDepartment
<1>4. ASSUME NEW t \in Teams, DeleteTeam(p, t), NEW n \in present
      PROVE  /\ HeadsAsBefore(n)
             /\ place'[n].rank = place[n].rank /\ place'[n].team \in {place[n].team, None}
  <2>1. n \in Members /\ place[n] \in Place
    BY <1>1 DEF TypeOK
  <2>2. place'[n] = IF place[n].team = t THEN [place[n] EXCEPT !.team = None] ELSE place[n]
    BY <1>4, <2>1 DEF DeleteTeam, WithoutTeam
  <2>3. place'[n].rank = place[n].rank /\ place'[n].team \in {place[n].team, None}
    BY <2>1, <2>2 DEF Place
  <2> QED
    BY <1>4, <2>3 DEF DeleteTeam, HeadsAsBefore, HeadsDepartment
<1>5. ASSUME NEW a \in Agents, DeleteAgent(p, a), NEW n \in present'
      PROVE  HeadsAsBefore(n) /\ place'[n] = place[n]
  <2>1. n \in Members /\ n # a /\ n # None /\ place \in [Members -> Place]
    BY <1>1, <1>5, ChartAssumption DEF DeleteAgent, TypeOK
  <2> QED
    BY <1>5, <2>1 DEF DeleteAgent, WithoutHead, HeadsAsBefore, HeadsDepartment, Inv, TypeOK
<1>6. req' = req /\ present' \subseteq present
  BY DEF Maintain, DeleteDepartment, CreateTeam, UpdateTeam, DeleteTeam, DeleteAgent
<1>7. ASSUME NEW n \in present'
      PROVE  /\ HeadsAsBefore(n)
             /\ place'[n].rank = place[n].rank /\ place'[n].team \in {place[n].team, None}
  BY <1>2, <1>3, <1>4, <1>5, <1>6 DEF Maintain
<1>8. ASSUME NEW n \in present', Kept(n) PROVE Kept(n)'
  BY <1>1, <1>6, <1>7, <1>8, KeptLowered
<1>9. AllFormed'
  BY <1>6 DEF AllFormed
<1> QED
  BY <1>6, <1>8, <1>9

\* A commit, for who it is not about.
LEMMA KeptByCommit ==
  ASSUME TypeOK, NEW r \in Requests, Moves(r, Idle), NEW m, Kept(m), HeadsAsBefore(m),
         place'[m] = place[m]
  PROVE  Kept(m)'
<1>1. CoherentMember(m)'
  BY DEF Kept, CoherentMember, HeadsAsBefore
<1>2. \A s \in Requests : req'[s] = IF s = r THEN Idle ELSE req[s]
  BY DEF TypeOK, Moves
<1>3. ASSUME NEW s \in Requests, m \in About(req'[s]) PROVE Relies(req[s], m)'
  <2>1. s # r /\ req'[s] = req[s]
    BY <1>2, <1>3, AboutIdle
  <2>2. Relies(req[s], m)
    BY <1>3, <2>1 DEF Kept
  <2> QED
    BY <2>1, <2>2 DEF Relies, Since, HeadsAsBefore
<1> QED
  BY <1>1, <1>3 DEF Kept, About

\* A commit, for who it alone is about.
LEMMA KeptByOwn ==
  ASSUME TypeOK, NEW r \in Requests, Moves(r, Idle), NEW m \in Members, m \notin Overlapped,
         m \in About(req[r]), CoherentMember(m)'
  PROVE  Kept(m)'
<1>1. \A s \in Requests : req'[s] = IF s = r THEN Idle ELSE req[s]
  BY DEF TypeOK, Moves
<1>2. \A s \in Requests : m \notin About(req'[s])
  BY <1>1, AboutIdle DEF Overlapped
<1> QED
  BY <1>2 DEF Kept, About

LEMMA CommitAssignKeeps ==
  ASSUME Inv, AllFormed, NEW r \in Requests, CommitAssign(r)
  PROVE  AllFormed' /\ \A n \in present \ Overlapped : Kept(n) => Kept(n)'
<1> PICK q : q = req[r]
  OBVIOUS
<1> PICK demoted : demoted = Demoted(q)
  OBVIOUS
<1>1. /\ q \in Request /\ Formed(q) /\ q.call = "assign" /\ q.stage = "loaded"
      /\ q.member \in Members
  BY DEF CommitAssign, Inv, TypeOK, Calls, AllFormed
<1>2. Moves(r, Idle) /\ UNCHANGED <<present, teams, filed, depts, head>>
  BY DEF CommitAssign, Moves
<1>3. AllFormed'
  BY <1>2, IdleFormed, FormedMoved DEF Inv
<1>4. place \in [Members -> Place] /\ present \subseteq Members
  BY DEF Inv, TypeOK
<1>5. /\ DOMAIN demoted = Members
      /\ \A n \in Members : n # q.sitting => demoted[n] = place[n]
      /\ q.sitting \in Members => demoted[q.sitting] =
           Merged(place[q.sitting], q.holder, [team |-> q.asked.team, rank |-> "MEMBER"])
  BY <1>4, ChartAssumption DEF Demoted
<1>6. /\ place'[q.member] = Merged(demoted[q.member], q.loaded, q.asked)
      /\ \A n \in Members : n # q.member => place'[n] = demoted[n]
  BY <1>1, <1>5 DEF CommitAssign
<1>7. ASSUME NEW n \in present \ Overlapped, Kept(n) PROVE Kept(n)'
  <2>1. n \in Members /\ n # None /\ HeadsAsBefore(n)
    BY <1>2, <1>4, ChartAssumption DEF HeadsAsBefore, HeadsDepartment
  <2>2. CASE n \notin About(q)
    <3>1. place'[n] = place[n]
      BY <1>5, <1>6, <2>1, <2>2 DEF About
    <3> QED
      BY <1>2, <1>7, <2>1, <3>1, KeptByCommit DEF Inv
  <2>3. CASE n = q.member
    <3> PICK v : v = Merged(place[n], q.loaded, q.asked)
      OBVIOUS
    <3>1. q.sitting # q.member /\ place'[n] = v
      BY <1>1, <1>5, <1>6, <2>3 DEF Formed
    <3>2. Relies(q, n) /\ CoherentMember(n) /\ n \in About(q)
      BY <1>7, <2>1, <2>3 DEF Kept, About
    <3>3. Since(q.loaded, place[n])
      BY <1>1, <2>3, <3>2 DEF Relies
    <3>4. v.rank = q.asked.rank /\ v.team \in {q.asked.team, place[n].team}
      BY <3>3 DEF Merged, Column, Since
    <3>5. CASE q.asked.team # None
      <4>1. ~HeadsDepartment(n) /\ v.rank # None
        BY <1>1, <3>2, <3>4, <3>5 DEF Relies, Formed, Coherent
      <4> QED
        BY <1>2, <2>1, <3>1, <3>2, <4>1, KeptByOwn DEF HeadsAsBefore, CoherentMember, Inv
    <3>6. CASE q.asked.team = None
      <4>1. v.rank = None /\ v.team = None
        BY <1>1, <3>3, <3>4, <3>6 DEF Formed, Coherent, Merged, Column, Since
      <4>2. v = NoPlace
        BY <4>1 DEF Merged, NoPlace
      <4> QED
        BY <1>2, <2>1, <3>1, <3>2, <4>1, <4>2, KeptByOwn DEF CoherentMember, Inv
    <3> QED
      BY <3>5, <3>6
  <2>4. CASE n = q.sitting
    <3> PICK v : v = Merged(place[n], q.holder, [team |-> q.asked.team, rank |-> "MEMBER"])
      OBVIOUS
    <3>1. q.sitting # q.member /\ place'[n] = v
      BY <1>1, <1>5, <1>6, <2>1, <2>4 DEF Formed
    <3>2. Relies(q, n) /\ n \in About(q)
      BY <1>7, <2>1, <2>4 DEF Kept, About
    <3>3. Since(q.holder, place[n]) /\ ~HeadsDepartment(n)
      BY <1>1, <2>4, <3>2 DEF Relies
    <3>4. v.rank = "MEMBER" /\ "MEMBER" # None
      BY <3>3, ChartAssumption DEF Merged, Column, Since, Ranks
    <3> QED
      BY <1>2, <2>1, <3>1, <3>2, <3>3, <3>4, KeptByOwn DEF HeadsAsBefore, CoherentMember, Inv
  <2> QED
    BY <2>2, <2>3, <2>4 DEF About
<1> QED
  BY <1>3, <1>7

LEMMA SeatHeadKeeps ==
  ASSUME Inv, AllFormed, NEW r \in Requests, NEW call \in {"found", "promote"},
         NEW newHead \in [Departments -> Members \cup {None}],
         NEW d \in Departments, d = req[r].dept,
         \A e \in Departments \ {d} : newHead[e] = head[e],
         newHead[d] \in {head[d], req[r].member},
         SeatHead(r, call, newHead), depts' \subseteq depts \cup {d}
  PROVE  AllFormed' /\ \A n \in present \ Overlapped : Kept(n) => Kept(n)'
<1> PICK q : q = req[r]
  OBVIOUS
<1>1. q \in Request /\ Formed(q) /\ q.call = call /\ q.stage = "loaded" /\ q.sitting = None
  BY DEF SeatHead, Inv, TypeOK, AllFormed, Formed
<1>2. Moves(r, Idle) /\ head' = newHead
  BY DEF SeatHead, Moves
<1>3. AllFormed'
  BY <1>2, IdleFormed, FormedMoved DEF Inv
<1>4. place \in [Members -> Place] /\ present \subseteq Members
  BY DEF Inv, TypeOK
<1>5. \A e \in Departments \ depts : head[e] = None
  BY DEF Inv, Filing
<1>6. depts \subseteq Departments
  BY DEF Inv, TypeOK
<1>7. ASSUME NEW n \in present \ Overlapped, Kept(n) PROVE Kept(n)'
  <2>1. n \in Members /\ n # None
    BY <1>4, ChartAssumption
  <2>2. CASE n # q.member
    <3>1. place'[n] = place[n]
      BY <1>4, <2>1, <2>2 DEF SeatHead, TeamCleared
    <3>2. HeadsAsBefore(n)
      <4> SUFFICES ASSUME NEW e \in depts', head'[e] = n PROVE HeadsDepartment(n)
        BY DEF HeadsAsBefore, HeadsDepartment
      <4>1. head[e] = n
        BY <1>2, <1>6, <2>2
      <4>2. e \in depts
        BY <1>5, <1>6, <2>1, <4>1
      <4> QED
        BY <4>1, <4>2 DEF HeadsDepartment
    <3> QED
      BY <1>2, <1>7, <3>1, <3>2, KeptByCommit DEF Inv
  <2>3. CASE n = q.member
    <3> PICK v : v = Merged(place[n], q.loaded, NoPlace)
      OBVIOUS
    <3>1. place'[n] = v
      BY <1>4, <2>1, <2>3 DEF SeatHead, TeamCleared
    <3>2. n \in About(q) /\ Since(q.loaded, place[n])
      BY <1>1, <1>7, <2>1, <2>3 DEF Kept, About, Relies
    <3>3. v.rank = None /\ v.team = None
      BY <3>2 DEF Merged, Column, Since, NoPlace
    <3>4. v = NoPlace
      BY <3>3 DEF Merged, NoPlace
    <3> QED
      BY <1>2, <2>1, <3>1, <3>2, <3>3, <3>4, KeptByOwn DEF CoherentMember, Inv
  <2> QED
    BY <2>2, <2>3
<1> QED
  BY <1>3, <1>7

LEMMA CommitFoundKeeps ==
  ASSUME Inv, AllFormed, NEW r \in Requests, CommitFound(r)
  PROVE  AllFormed' /\ \A n \in present \ Overlapped : Kept(n) => Kept(n)'
<1> PICK q : q = req[r]
  OBVIOUS
<1> PICK newHead : newHead = [head EXCEPT ![q.dept] = q.member]
  OBVIOUS
<1>1. q \in Request /\ q.dept \in Departments
  BY DEF CommitFound, SeatHead, Inv, TypeOK, Calls
<1>2. newHead \in [Departments -> Members \cup {None}]
  BY <1>1 DEF Request, Inv, TypeOK
<1>3. newHead[q.dept] = q.member /\ \A e \in Departments \ {q.dept} : newHead[e] = head[e]
  BY <1>1 DEF Inv, TypeOK
<1>4. SeatHead(r, "found", newHead) /\ depts' = depts \cup {q.dept}
  BY DEF CommitFound
<1> QED
  BY <1>1, <1>2, <1>3, <1>4, SeatHeadKeeps

LEMMA CommitPromoteKeeps ==
  ASSUME Inv, AllFormed, NEW r \in Requests, CommitPromote(r)
  PROVE  AllFormed' /\ \A n \in present \ Overlapped : Kept(n) => Kept(n)'
<1> PICK q : q = req[r]
  OBVIOUS
<1> PICK h : h = Column(head[q.dept], q.headed, q.member)
  OBVIOUS
<1> PICK newHead : newHead = [head EXCEPT ![q.dept] = h]
  OBVIOUS
<1>1. q \in Request /\ q.dept \in Departments
  BY DEF CommitPromote, SeatHead, Inv, TypeOK, Calls
<1>2. h \in {head[q.dept], q.member} /\ h \in Members \cup {None}
  BY <1>1 DEF Column, Request, Inv, TypeOK
<1>3. newHead \in [Departments -> Members \cup {None}]
  BY <1>1, <1>2 DEF Inv, TypeOK
<1>4. newHead[q.dept] = h /\ \A e \in Departments \ {q.dept} : newHead[e] = head[e]
  BY <1>1 DEF Inv, TypeOK
<1>5. SeatHead(r, "promote", newHead) /\ depts' = depts
  BY DEF CommitPromote
<1> QED
  BY <1>1, <1>2, <1>3, <1>4, <1>5, SeatHeadKeeps

\* Any step, for the members that no two calls are about.
LEMMA StepKeeps ==
  ASSUME Inv, AllFormed, [Next]_vars
  PROVE  /\ AllFormed' /\ present' \subseteq present
         /\ \A n \in present' \ Overlapped : Kept(n) => Kept(n)'
<1>1. CASE \E p \in Members : Maintain(p)
  BY <1>1, MaintainKeeps
<1>2. ASSUME NEW r \in Requests, NEW p \in Members, CheckStep(r, p)
      PROVE  present' = present /\ AllFormed' /\ \A n \in present : Kept(n) => Kept(n)'
  <2>1. present' = present
    BY <1>2 DEF CheckStep, CheckAssign, CheckFound, CheckPromote, CheckDepartment, chart
  <2>2. ASSUME NEW m \in Members, NEW t \in Teams \cup {None}, NEW k \in Ranks \cup {None},
               CheckAssign(r, p, m, t, k)
        PROVE  AllFormed' /\ \A n \in present : Kept(n) => Kept(n)'
    BY <2>2, CheckAssignKeeps
  <2>3. ASSUME NEW d \in Departments, NEW h \in Members \cup {None},
               CheckFound(r, p, d, h) \/ CheckPromote(r, p, d, h)
        PROVE  AllFormed' /\ \A n \in present : Kept(n) => Kept(n)'
    BY <2>3, CheckDepartmentKeeps DEF CheckFound, CheckPromote
  <2> QED
    BY <1>2, <2>1, <2>2, <2>3 DEF CheckStep
<1>3. ASSUME NEW r \in Requests, Load(r) \/ Abandon(r)
      PROVE  present' = present /\ AllFormed' /\ \A n \in present : Kept(n) => Kept(n)'
  BY <1>3, LoadKeeps, AbandonKeeps DEF Load, Abandon, chart
<1>4. ASSUME NEW r \in Requests, CommitStep(r)
      PROVE  /\ present' = present /\ AllFormed'
             /\ \A n \in present \ Overlapped : Kept(n) => Kept(n)'
  <2>1. present' = present
    BY <1>4 DEF CommitStep, CommitAssign, CommitFound, CommitPromote, SeatHead
  <2> QED
    BY <1>4, <2>1, CommitAssignKeeps, CommitFoundKeeps, CommitPromoteKeeps DEF CommitStep
<1>5. CASE UNCHANGED vars
  BY <1>5 DEF vars, chart, AllFormed, Kept, CoherentMember, HeadsDepartment, About, Relies, Since
<1> QED
  BY <1>1, <1>2, <1>3, <1>4, <1>5 DEF Next

LEMMA InitKept ==
  ASSUME Init
  PROVE  AllFormed /\ (\A m \in Members : Kept(m)) /\ Overlapped = {}
<1>1. \A r \in Requests : req[r] = Idle
  BY DEF Init
<1>2. AllFormed /\ Overlapped = {}
  BY <1>1, IdleFormed, AboutIdle DEF AllFormed, Overlapped
<1>3. \A m \in Members : CoherentMember(m)
  BY DEF Init, CoherentMember, NoPlace
<1> QED
  BY <1>1, <1>2, <1>3, AboutIdle DEF Kept

\* Who is gone has no place.
LEMMA GoneStay ==
  ASSUME Inv, Gone, [Next]_vars
  PROVE  Gone'
<1> SUFFICES ASSUME NEW m \in Members, m \notin present' PROVE place'[m] = NoPlace
  BY DEF Gone
<1> USE DEF Gone
<1>1. place \in [Members -> Place] /\ None \notin Members /\ None \notin Teams
  BY ChartAssumption DEF Inv, TypeOK
<1>2. ASSUME NEW p \in Members, Maintain(p) PROVE place'[m] = NoPlace
  <2>1. ASSUME NEW t \in Teams, DeleteTeam(p, t) PROVE place'[m] = NoPlace
    BY <1>1, <2>1 DEF DeleteTeam, WithoutTeam, NoPlace
  <2>2. ASSUME NEW a \in Agents, DeleteAgent(p, a) PROVE place'[m] = NoPlace
    BY <1>1, <2>2 DEF DeleteAgent
  <2> QED
    BY <1>2, <2>1, <2>2 DEF Maintain, DeleteDepartment, CreateTeam, UpdateTeam
<1>3. ASSUME NEW r \in Requests, CommitAssign(r) PROVE place'[m] = NoPlace
  BY <1>1, <1>3 DEF CommitAssign, Demoted
<1>4. ASSUME NEW r \in Requests, NEW call, NEW hd, SeatHead(r, call, hd)
      PROVE  place'[m] = NoPlace
  BY <1>1, <1>4 DEF SeatHead, TeamCleared
<1>5. ASSUME NEW r \in Requests, CommitFound(r) \/ CommitPromote(r) PROVE place'[m] = NoPlace
  BY <1>4, <1>5 DEF CommitFound, CommitPromote
<1>6. ASSUME NEW r \in Requests, NEW p \in Members, CheckStep(r, p)
      PROVE place'[m] = NoPlace
  BY <1>6 DEF CheckStep, CheckAssign, CheckFound, CheckPromote, CheckDepartment, chart
<1>7. ASSUME NEW r \in Requests, Load(r) \/ Abandon(r) PROVE place'[m] = NoPlace
  BY <1>7 DEF Load, Abandon, chart
<1>8. CASE UNCHANGED vars
  BY <1>8 DEF vars, chart
<1> QED
  BY <1>2, <1>3, <1>5, <1>6, <1>7, <1>8 DEF Next, CommitStep

-----------------------------------------------------------------------------
(***************************************************************************)
(* The operator's edit keeps the rules of the chart.                       *)
(***************************************************************************)
\* What it does to the rows of members.
LEMMA PatchedRows ==
  ASSUME Inv, AllFormed, Gone, NEW m \in Members, NEW d,
         NEW p \in Place \cup {Untouched}, Patch(m, d, p)
  PROVE  /\ place' \in [Members -> Place] /\ m \in present
         /\ p # Untouched =>
              /\ p \in Place /\ p.team \in teams \cup {None} /\ (p.team = None <=> p.rank = None)
         /\ place'[m] = IF p # Untouched THEN p
                        ELSE IF d \in Departments THEN NoPlace ELSE place[m]
         /\ \A n \in Members \ {m} :
              \/ place'[n] = place[n]
              \/ /\ p # Untouched /\ n \in present /\ place[n] = p /\ p.rank \in Leaders
                 /\ place'[n].team = place[n].team /\ place'[n].rank = "MEMBER"
         /\ p # Untouched /\ p.rank \in Leaders /\ p.team # None =>
              \A n \in Members \ {m} : place'[n] # p
<1>1. /\ place \in [Members -> Place] /\ place' = PlacesPatched(m, d, p) /\ m \in present
      /\ present \subseteq Members
  BY DEF Patch, Inv, TypeOK
<1>2. ASSUME p # Untouched
      PROVE  p \in Place /\ p.team \in teams \cup {None} /\ (p.team = None <=> p.rank = None)
  BY <1>2 DEF Patch, Coherent
<1> PICK sitting : sitting = IF p = Untouched THEN None ELSE Sitting(m, p.team, p.rank)
  OBVIOUS
<1>3. place' = [n \in Members |->
         IF n = m /\ p # Untouched THEN p
         ELSE IF n = m /\ d \in Departments THEN NoPlace
         ELSE IF n = sitting THEN [place[n] EXCEPT !.rank = "MEMBER"]
         ELSE place[n]]
  BY <1>1 DEF PlacesPatched
<1>4. ASSUME sitting # None
      PROVE  /\ p # Untouched /\ sitting \in present /\ sitting # m /\ p.rank \in Leaders
             /\ place[sitting] = p
  <2>1. p # Untouched /\ sitting = Sitting(m, p.team, p.rank)
    BY <1>4
  <2>2. /\ p.rank \in Leaders /\ sitting \in present /\ sitting # m
        /\ place[sitting] = [team |-> p.team, rank |-> p.rank]
    BY <1>4, <2>1, SittingHolds
  <2>3. p = [team |-> p.team, rank |-> p.rank]
    BY <1>2, <2>1 DEF Place
  <2> QED
    BY <2>1, <2>2, <2>3
<1>5. None \notin Members /\ "MEMBER" \in Ranks /\ NoPlace \in Place
  BY ChartAssumption, NoPlaceType DEF Ranks
<1>6. ASSUME NEW n \in Members \ {m}
      PROVE  \/ place'[n] = place[n]
             \/ /\ p # Untouched /\ n \in present /\ place[n] = p /\ p.rank \in Leaders
                /\ place'[n].team = place[n].team /\ place'[n].rank = "MEMBER"
  <2>1. CASE n = sitting
    <3>1. place'[n] = [place[n] EXCEPT !.rank = "MEMBER"] /\ place[n] \in Place
      BY <1>1, <1>3, <2>1
    <3> QED
      BY <1>4, <1>5, <2>1, <3>1 DEF Place
  <2>2. CASE n # sitting
    BY <1>3, <2>2
  <2> QED
    BY <2>1, <2>2
<1>7. place'[m] = IF p # Untouched THEN p
                  ELSE IF d \in Departments THEN NoPlace ELSE place[m]
  <2>1. p = Untouched => m # sitting
    BY <1>5
  <2> QED
    BY <1>3, <2>1
<1>8. place' \in [Members -> Place]
  <2> SUFFICES ASSUME NEW n \in Members PROVE place'[n] \in Place
    BY <1>3
  <2>1. CASE n = m
    BY <1>1, <1>2, <1>5, <1>7, <2>1
  <2>2. CASE n # m /\ n = sitting
    <3>1. place'[n] = [place[n] EXCEPT !.rank = "MEMBER"] /\ place[n] \in Place
      BY <1>1, <1>3, <2>2
    <3> QED
      BY <1>5, <3>1 DEF Place
  <2>3. CASE n # m /\ n # sitting
    BY <1>1, <1>3, <2>3
  <2> QED
    BY <2>1, <2>2, <2>3
<1>9. ASSUME p # Untouched, p.rank \in Leaders, p.team # None, NEW n \in Members \ {m},
             place'[n] = p
      PROVE  FALSE
  <2>1. "MEMBER" \notin Leaders
    BY DEF Leaders
  <2>2. place[n] = p
    BY <1>6, <1>9
  <2>3. n \in present
    BY <1>9, <2>2 DEF Gone, NoPlace
  <2>4. p = [team |-> p.team, rank |-> p.rank]
    BY <1>2, <1>9 DEF Place
  <2>5. n \in Holders(p.team, p.rank) \ {m}
    BY <2>2, <2>3, <2>4 DEF Holders
  <2>6. sitting \in Members
    <3>1. Holders(p.team, p.rank) \ {m} # {}
      BY <2>5
    <3>2. \E s \in Holders(p.team, p.rank) : s # m
      BY <3>1
    <3>3. (CHOOSE s \in Holders(p.team, p.rank) : s # m) \in Holders(p.team, p.rank)
      BY <3>2
    <3> QED
      BY <1>1, <1>9, <3>1, <3>3 DEF Sitting, Holders
  <2>7. place[sitting] = p
    BY <1>4, <1>5, <2>6
  <2>8. n = sitting
    BY <1>9, <2>2, <2>6, <2>7 DEF Inv, Sound
  <2>9. place'[n] = [place[n] EXCEPT !.rank = "MEMBER"]
    BY <1>3, <1>9, <2>8
  <2>10. place'[n].rank = "MEMBER"
    BY <1>1, <2>9 DEF Place
  <2> QED
    BY <1>9, <2>1, <2>10
<1> QED
  BY <1>1, <1>2, <1>6, <1>7, <1>8, <1>9

\* What it does to the heads of departments.
LEMMA PatchedHeads ==
  ASSUME Inv, AllFormed, Gone, NEW m \in Members, NEW d,
         NEW p \in Place \cup {Untouched}, Patch(m, d, p)
  PROVE  /\ head' \in [Departments -> Members \cup {None}] /\ Filing' /\ Headships'
         /\ \A n \in Members \ {m} : HeadsAsBefore(n)
         /\ d \in Departments => ~Joins(p)
         /\ HeadsDepartment(m)' => d \in Departments \/ (HeadsDepartment(m) /\ ~Joins(p))
<1>1. /\ head \in [Departments -> Members \cup {None}] /\ m \in present /\ m # None
      /\ depts \subseteq Departments /\ UNCHANGED <<present, teams, filed, depts>>
      /\ head' = HeadsPatched(m, d, p) /\ Filing /\ Headships
  BY ChartAssumption DEF Patch, Inv, TypeOK
<1>2. CASE d \in Departments
  <2>1. /\ d \in depts /\ ~Joins(p)
        /\ \A e \in Departments : head'[e] = IF e = d THEN m ELSE head[e]
        /\ head' \in [Departments -> Members \cup {None}]
    BY <1>1, <1>2 DEF Patch, HeadsPatched
  <2>2. \A e \in Departments \ {d} : head[e] # m
    <3>1. MayHead(m, d)
      BY <1>2 DEF Patch
    <3>2. \A e \in depts \ {d} : head[e] # m
      BY <1>1, <3>1 DEF MayHead
    <3>3. \A e \in Departments \ depts : head[e] = None
      BY <1>1 DEF Filing
    <3> QED
      BY <1>1, <3>2, <3>3
  <2>3. Filing' /\ Headships'
    BY <1>1, <2>1, <2>2 DEF Filing, Headships
  <2>4. \A n \in Members \ {m} : HeadsAsBefore(n)
    BY <1>1, <2>1 DEF HeadsAsBefore, HeadsDepartment
  <2> QED
    BY <1>2, <2>1, <2>3, <2>4
<1>3. CASE d \notin Departments /\ (d = None \/ Joins(p))
  <2>1. /\ \A e \in Departments : head'[e] = IF head[e] = m THEN None ELSE head[e]
        /\ head' \in [Departments -> Members \cup {None}]
    BY <1>1, <1>3 DEF HeadsPatched, WithoutHead
  <2>2. Filing' /\ Headships'
    BY <1>1, <2>1 DEF Filing, Headships
  <2>3. ~HeadsDepartment(m)'
    BY <1>1, <2>1 DEF HeadsDepartment
  <2>4. \A n \in Members \ {m} : HeadsAsBefore(n)
    BY <1>1, <2>1, ChartAssumption DEF HeadsAsBefore, HeadsDepartment
  <2> QED
    BY <1>3, <2>1, <2>2, <2>3, <2>4
<1>4. CASE d \notin Departments /\ ~(d = None \/ Joins(p))
  <2>1. head' = head
    BY <1>1, <1>4 DEF HeadsPatched
  <2> QED
    BY <1>1, <1>4, <2>1 DEF Filing, Headships, HeadsAsBefore, HeadsDepartment
<1> QED
  BY <1>2, <1>3, <1>4

LEMMA PatchStep ==
  ASSUME Inv, AllFormed, Gone, NEW m \in Members, NEW d,
         NEW p \in Place \cup {Untouched}, Patch(m, d, p)
  PROVE  /\ Inv' /\ AllFormed' /\ Gone' /\ present' = present
         /\ \A r \in Requests : req[r] = Idle /\ req'[r] = Idle
         /\ \A n \in present : CoherentMember(n) => CoherentMember(n)'
         /\ \A n \in Members : place'[n].team # place[n].team => n = m
<1>1. /\ place' \in [Members -> Place] /\ m \in present
      /\ p # Untouched =>
           /\ p \in Place /\ p.team \in teams \cup {None} /\ (p.team = None <=> p.rank = None)
      /\ place'[m] = IF p # Untouched THEN p
                     ELSE IF d \in Departments THEN NoPlace ELSE place[m]
      /\ \A n \in Members \ {m} :
           \/ place'[n] = place[n]
           \/ /\ p # Untouched /\ n \in present /\ place[n] = p /\ p.rank \in Leaders
              /\ place'[n].team = place[n].team /\ place'[n].rank = "MEMBER"
      /\ p # Untouched /\ p.rank \in Leaders /\ p.team # None =>
           \A n \in Members \ {m} : place'[n] # p
  BY PatchedRows
<1>2. /\ head' \in [Departments -> Members \cup {None}] /\ Filing' /\ Headships'
      /\ \A n \in Members \ {m} : HeadsAsBefore(n)
      /\ d \in Departments => ~Joins(p)
      /\ HeadsDepartment(m)' => d \in Departments \/ (HeadsDepartment(m) /\ ~Joins(p))
  BY PatchedHeads
<1>3. UNCHANGED <<present, teams, filed, depts, req>> /\ \A r \in Requests : req[r] = Idle
  BY DEF Patch, Quiet, AllFormed, Formed
<1>4. /\ place \in [Members -> Place] /\ Sound(place, teams) /\ present \subseteq Members
      /\ None \notin Leaders /\ "MEMBER" \notin Leaders /\ "MEMBER" # None
  BY ChartAssumption DEF Inv, TypeOK, Leaders, Ranks
<1>5. Sound(place', teams)
  <2>1. \A n \in Members : place'[n].team \in teams \cup {None}
    <3>1. place'[m].team \in teams \cup {None}
      BY <1>1, <1>4, NoPlaceType DEF Sound
    <3>2. \A n \in Members \ {m} : place'[n].team \in teams \cup {None}
      BY <1>1, <1>4 DEF Sound
    <3> QED
      BY <3>1, <3>2
  <2>2. ASSUME NEW a \in Members, NEW b \in Members,
               place'[a].rank \in Leaders, place'[a].team # None, place'[a] = place'[b]
        PROVE  a = b
    <3>1. ASSUME NEW n \in Members \ {m}, place'[n].rank \in Leaders PROVE place'[n] = place[n]
      BY <1>1, <1>4, <3>1
    <3>2. CASE a # m /\ b # m
      BY <1>4, <2>2, <3>1, <3>2 DEF Sound
    <3>3. ASSUME NEW n \in Members \ {m}, place'[n] = place'[m],
                 place'[n].rank \in Leaders, place'[n].team # None
          PROVE  FALSE
      <4>1. CASE p # Untouched
        BY <1>1, <3>3, <4>1
      <4>2. CASE p = Untouched
        <5>1. place'[m] = place[m] /\ place'[n] = place[n]
          BY <1>1, <3>1, <3>3, <4>2, NoPlaceType
        <5> QED
          BY <1>4, <3>3, <5>1 DEF Sound
      <4> QED
        BY <4>1, <4>2
    <3> QED
      BY <2>2, <3>2, <3>3
  <2> QED
    BY <2>1, <2>2 DEF Sound
<1>6. Inv'
  BY <1>1, <1>2, <1>3, <1>5 DEF Inv, TypeOK, Calls
<1>7. AllFormed' /\ Gone'
  BY <1>1, <1>3 DEF AllFormed, Gone
<1>8. \A n \in Members : place'[n].team # place[n].team => n = m
  BY <1>1
<1>9. ASSUME NEW n \in present, CoherentMember(n) PROVE CoherentMember(n)'
  <2>1. CASE n = m
    <3>1. place'[m].team # None => place'[m].rank # None
      BY <1>1, <1>9, <2>1, NoPlaceType DEF CoherentMember
    <3>2. ASSUME p # Untouched, ~Joins(p) PROVE p = NoPlace
      BY <1>1, <3>2 DEF Joins, NoPlace, Place
    <3>3. HeadsDepartment(m)' => place'[m] = NoPlace
      BY <1>1, <1>2, <1>9, <2>1, <3>2 DEF CoherentMember
    <3> QED
      BY <2>1, <3>1, <3>3 DEF CoherentMember
  <2>2. CASE n # m /\ place'[n] = place[n]
    BY <1>2, <1>4, <1>9, <2>2 DEF CoherentMember, HeadsAsBefore
  <2>3. CASE n # m /\ place'[n] # place[n]
    <3>1. place[n].rank \in Leaders /\ place'[n].rank = "MEMBER"
      BY <1>1, <1>4, <2>3
    <3>2. ~HeadsDepartment(n)
      BY <1>4, <1>9, <3>1 DEF CoherentMember, NoPlace
    <3> QED
      BY <1>2, <1>4, <1>9, <2>3, <3>1, <3>2 DEF CoherentMember, HeadsAsBefore
  <2> QED
    BY <2>1, <2>2, <2>3
<1> QED
  BY <1>3, <1>6, <1>7, <1>8, <1>9

-----------------------------------------------------------------------------
(***************************************************************************)
(* The theorems.                                                           *)
(***************************************************************************)

LEMMA HistoryStarts == HistoryInit => HistoryInv
BY InitInv, InitKept DEF HistoryInit, HistoryInv, Gone, Init, Inv, TypeOK

LEMMA HistoryMoves ==
  ASSUME HistoryInv, [Next \/ PatchNext]_vars
  PROVE  /\ Inv' /\ AllFormed' /\ Gone' /\ present' \subseteq present
         /\ \A m \in present' \ crowded : Kept(m)'
<1>1. CASE [Next]_vars
  <2>1. Inv /\ AllFormed /\ Gone /\ Overlapped \subseteq crowded
    BY DEF HistoryInv
  <2>2. /\ AllFormed' /\ present' \subseteq present
        /\ \A m \in present' \ Overlapped : Kept(m) => Kept(m)'
    BY <1>1, <2>1, StepKeeps
  <2>3. ASSUME NEW m \in present' \ crowded PROVE Kept(m)'
    BY <2>1, <2>2, <2>3 DEF HistoryInv
  <2>4. Inv'
    BY <1>1, <2>1, StepInv
  <2>5. Gone'
    BY <1>1, <2>1, GoneStay
  <2> QED
    BY <2>2, <2>3, <2>4, <2>5
<1>2. CASE PatchNext
  <2>1. PICK m \in Members, d \in Departments \cup {None, Untouched},
             p \in Place \cup {Untouched} : Patch(m, d, p)
    BY <1>2 DEF PatchNext
  <2>2. /\ Inv' /\ AllFormed' /\ Gone' /\ present' = present
        /\ \A r \in Requests : req'[r] = Idle
        /\ \A n \in present : CoherentMember(n) => CoherentMember(n)'
    BY <2>1, PatchStep DEF HistoryInv
  <2>3. ASSUME NEW n \in present' \ crowded PROVE Kept(n)'
    <3>1. CoherentMember(n)'
      BY <2>2, <2>3 DEF HistoryInv, Kept
    <3> QED
      BY <2>2, <3>1, AboutIdle DEF Kept, About
  <2> QED
    BY <2>2, <2>3
<1> QED
  BY <1>1, <1>2

LEMMA HistoryStep == HistoryInv /\ [HistoryNext]_<<vars, crowded>> => HistoryInv'
<1> SUFFICES ASSUME HistoryInv, [HistoryNext]_<<vars, crowded>> PROVE HistoryInv'
  OBVIOUS
<1>1. [Next \/ PatchNext]_vars
  BY DEF HistoryNext
<1>2. /\ Inv' /\ AllFormed' /\ Gone'
      /\ \A m \in present' \ crowded : Kept(m)'
  BY <1>1, HistoryMoves
<1>3. CASE HistoryNext
  <2>1. crowded' = (crowded \cup Overlapped') \ Settled'
    BY <1>3 DEF HistoryNext
  <2>2. Overlapped' \cap Settled' = {}
    BY DEF Overlapped, Settled
  <2>3. ASSUME NEW m \in present' \ crowded' PROVE Kept(m)'
    <3>1. CASE m \in crowded
      BY <2>1, <2>3, <3>1 DEF Settled, Kept
    <3>2. CASE m \notin crowded
      BY <1>2, <2>3, <3>2
    <3> QED
      BY <3>1, <3>2
  <2> QED
    BY <1>2, <2>1, <2>2, <2>3 DEF HistoryInv
<1>4. CASE UNCHANGED <<vars, crowded>>
  BY <1>2, <1>4 DEF HistoryInv, vars, chart, Overlapped, About
<1> QED
  BY <1>3, <1>4

LEMMA HistoryInvariant == HistorySpec => []HistoryInv
BY HistoryStarts, HistoryStep, PTL DEF HistorySpec

(***************************************************************************)
(* Type correctness of the tables and of the requests under way.           *)
(***************************************************************************)
THEOREM TypeCorrect == HistorySpec => []TypeOK
<1>1. HistoryInv => TypeOK
  BY DEF HistoryInv, Inv
<1> QED
  BY <1>1, HistoryInvariant, PTL

(***************************************************************************)
(* One MANAGER and one LEAD per team and one department per head, however  *)
(* set_member_team, promotions, deletions of teams, departments and agents *)
(* and the operator's edits follow on each other and overlap, though the   *)
(* services look before they write and lock nothing.                       *)
(***************************************************************************)
THEOREM UniqueLeadership == HistorySpec => []LeadershipIsUnique
<1>1. HistoryInv => LeadershipIsUnique
  BY Implied DEF HistoryInv, LeadershipIsUnique
<1> QED
  BY <1>1, HistoryInvariant, PTL

(***************************************************************************)
(* No dangling team, department or head, however calls overlap.            *)
(***************************************************************************)
THEOREM NothingDangles == HistorySpec => []References
<1>1. HistoryInv => References
  BY Implied DEF HistoryInv
<1> QED
  BY <1>1, HistoryInvariant, PTL

(***************************************************************************)
(* A member is in two places at once, or on a team without a rank, only    *)
(* after two calls about that very member: promotions and placements of    *)
(* others, demotions, deletions of teams, departments and agents and the   *)
(* operator's edits never bring it there, however many overlap.            *)
(***************************************************************************)
THEOREM OnlyCrowdedAreIncoherent == HistorySpec => []UncrowdedAreCoherent
<1>1. HistoryInv => UncrowdedAreCoherent
  BY DEF HistoryInv, UncrowdedAreCoherent, Kept
<1> QED
  BY <1>1, HistoryInvariant, PTL

(***************************************************************************)
(* While other calls overlap with it, an assignment moves nobody who is on *)
(* a team but the member it is about: the leader it demotes stays on its   *)
(* team, unless another call was about that leader at the same time.       *)
(***************************************************************************)
THEOREM DemotedStayOnTheTeam == HistorySpec => DemotionKeepsTheTeam
<1>1. ASSUME HistoryInv, Next \/ PatchNext, NEW r \in Requests, NEW m \in Members \ crowded,
             req[r].call = "assign", req'[r].stage = "idle", place' # place,
             place[m].team # None, place'[m].team # place[m].team
      PROVE  m = req[r].member
  <2>1. req[r].stage # "idle" /\ ~Quiet /\ req \in [Requests -> Request] /\ Formed(req[r])
    BY <1>1 DEF HistoryInv, AllFormed, Formed, Idle, Quiet, Inv, TypeOK
  <2>2. req'[r] # req[r]
    BY <1>1, <2>1
  <2>3. PICK s \in Requests : CommitStep(s)
    <3>1. ASSUME NEW p \in Members, Maintain(p) PROVE FALSE
      BY <1>1, <2>2, <3>1, MaintainKeeps DEF HistoryInv
    <3>2. ASSUME NEW s \in Requests, NEW p \in Members, CheckStep(s, p) PROVE FALSE
      BY <1>1, <3>2 DEF CheckStep, CheckAssign, CheckFound, CheckPromote, CheckDepartment, chart
    <3> QED
      BY <1>1, <2>1, <3>1, <3>2 DEF Next, PatchNext, Patch, Load, Abandon, chart
  <2>4. s = r
    BY <2>1, <2>2, <2>3 DEF CommitStep, CommitAssign, CommitFound, CommitPromote, SeatHead
  <2>5. CommitAssign(r)
    BY <1>1, <2>3, <2>4 DEF CommitStep, CommitFound, CommitPromote, SeatHead
  <2> PICK q : q = req[r]
    OBVIOUS
  <2>6. /\ place \in [Members -> Place] /\ q \in Request /\ q.stage = "loaded"
        /\ q.call = "assign" /\ q.member \in Members /\ q.sitting # q.member
    BY <1>1, <2>1, <2>5 DEF HistoryInv, Inv, TypeOK, Calls, Formed, CommitAssign
  <2>7. ASSUME m # q.member PROVE FALSE
    <3>1. place'[m] = Demoted(q)[m]
      BY <2>5, <2>6, <2>7 DEF CommitAssign, Demoted
    <3>2. m = q.sitting /\ m # None
      BY <1>1, <2>6, <3>1, ChartAssumption DEF Demoted
    <3>3. m \in present
      BY <1>1 DEF HistoryInv, Gone, NoPlace
    <3>4. Relies(q, m)
      BY <1>1, <3>2, <3>3 DEF HistoryInv, Kept, About
    <3>5. place[m].team = q.asked.team /\ q.holder.team = place[m].team
      BY <1>1, <2>6, <3>2, <3>4 DEF Relies, Since
    <3>6. place'[m] = Merged(place[m], q.holder, [team |-> q.asked.team, rank |-> "MEMBER"])
      BY <2>6, <3>1, <3>2 DEF Demoted
    <3>7. place'[m].team = place[m].team
      BY <3>5, <3>6 DEF Merged, Column
    <3> QED
      BY <1>1, <3>7
  <2> QED
    BY <2>7
<1>2. HistoryInv /\ [HistoryNext]_<<vars, crowded>> =>
        [\A r \in Requests, m \in Members \ crowded :
           /\ req[r].call = "assign" /\ req'[r].stage = "idle" /\ place' # place
           /\ place[m].team # None /\ place'[m].team # place[m].team
           => m = req[r].member]_<<vars, crowded>>
  BY <1>1 DEF HistoryNext
<1> QED
  BY <1>2, HistoryInvariant, PTL DEF HistorySpec, DemotionKeepsTheTeam
=============================================================================
