---------------------------- MODULE AccessProofs ----------------------------
(***************************************************************************)
(* Proofs about Access, for any members, agents, ranks and requests.       *)
(***************************************************************************)
EXTENDS Access, TLAPS

-----------------------------------------------------------------------------
(***************************************************************************)
(* Rows and requests stay rows and requests.                               *)
(***************************************************************************)

LEMMA AssignedType ==
  ASSUME NEW rw \in Row, NEW ask \in Ask
  PROVE  Assigned(rw, ask) \in Row
BY DEF Assigned, Filled, Row, Ask

LEMMA MergedType ==
  ASSUME NEW stored \in Row, NEW q \in Request
  PROVE  Merged(stored, q) \in Row
<1>1. q.loaded \in Row /\ q.ask \in Ask
  BY DEF Request
<1>2. Assigned(q.loaded, q.ask) \in Row
  BY <1>1, AssignedType
<1> QED
  BY <1>2 DEF Merged, Column, Row

LEMMA IdleType == Idle \in Request /\ Backoffice \in Claims /\ Nothing \in Ask
<1>1. AnyRow \in Row
  BY RosterAssumption DEF AnyRow, Row, Roles
<1>2. Backoffice \in Claims
  BY RosterAssumption DEF Backoffice, Claims, Roles
<1>3. ClaimsOf(Operator, AnyRow) \in Claims
  BY RosterAssumption DEF ClaimsOf, AnyRow, Claims, Roles
<1>4. Nothing \in Ask
  BY DEF Nothing, Ask
<1> QED
  BY <1>1, <1>2, <1>3, <1>4 DEF Idle, Request

LEMMA InitType == Init => TypeOK
<1> SUFFICES ASSUME Init PROVE TypeOK
  OBVIOUS
<1>1. \A m \in Members : ClaimsOf(m, row[m]) \in Claims
  BY DEF Init, ClaimsOf, Claims, Row
<1>2. issued \subseteq Claims
  BY <1>1 DEF Init
<1>3. trail \in [Members -> Roles]
  BY DEF Init, Row
<1>4. req \in [Requests -> Request]
  BY IdleType DEF Init
<1> QED
  BY <1>2, <1>3, <1>4 DEF Init, TypeOK

LEMMA CheckType ==
  ASSUME TypeOK, NEW r \in Requests, NEW m \in Members, NEW ask \in Ask,
         NEW call \in {"profile", "suspension", "agent", "delete"},
         Check(r, call, m, ask)
  PROVE  TypeOK'
<1>1. row[m] \in Row
  BY DEF TypeOK
<1>2. [req[r] EXCEPT !.stage = "checked", !.call = call, !.target = m,
                     !.ask = ask, !.seen = row[m]] \in Request
  BY <1>1 DEF TypeOK, Request
<1> QED
  BY <1>2 DEF Check, TypeOK

LEMMA WriteBackType ==
  ASSUME TypeOK, NEW r \in Requests, NEW call, WriteBack(r, call)
  PROVE  /\ present' \subseteq Members
         /\ row' \in [Members -> Row]
         /\ issued' \subseteq Claims
         /\ req' \in [Requests -> Request]
<1>1. req[r] \in Request /\ req[r].target \in Members
  BY DEF TypeOK, WriteBack
<1>2. Merged(row[req[r].target], req[r]) \in Row
  BY <1>1, MergedType DEF TypeOK
<1> QED
  BY <1>1, <1>2, IdleType DEF WriteBack, TypeOK

LEMMA StepType == TypeOK /\ [Next]_vars => TypeOK'
<1> SUFFICES ASSUME TypeOK, [Next]_vars PROVE TypeOK'
  OBVIOUS
<1>1. ASSUME NEW m \in Members, IssueToken(m) PROVE TypeOK'
  BY <1>1 DEF IssueToken, TypeOK, ClaimsOf, Claims, Row
<1>2. ASSUME NEW r \in Requests, NEW by \in issued, Open(r, by) PROVE TypeOK'
  <2>1. [Idle EXCEPT !.stage = "gated", !.by = by] \in Request
    BY IdleType DEF TypeOK, Request
  <2> QED
    BY <1>2, <2>1 DEF Open, TypeOK
<1>3. ASSUME NEW r \in Requests, OpenBackoffice(r) PROVE TypeOK'
  <2>1. [Idle EXCEPT !.stage = "gated", !.by = Backoffice] \in Request
    BY IdleType DEF Request
  <2> QED
    BY <1>3, <2>1 DEF OpenBackoffice, TypeOK
<1>4. ASSUME NEW r \in Requests, Abandon(r) PROVE TypeOK'
  BY <1>4, IdleType DEF Abandon, TypeOK
<1>5. ASSUME NEW r \in Requests, CheckStep(r) PROVE TypeOK'
  <2>1. ASSUME NEW m \in Members, NEW role \in Roles \cup {Keep},
               NEW priority \in Priorities \cup {Keep}, CheckProfile(r, m, role, priority)
        PROVE  TypeOK'
    <3>1. [Nothing EXCEPT !.role = role, !.priority = priority] \in Ask
      BY DEF Nothing, Ask
    <3> QED
      BY <2>1, <3>1, CheckType DEF CheckProfile
  <2>2. ASSUME NEW m \in Members, NEW flag \in BOOLEAN, CheckSuspension(r, m, flag)
        PROVE  TypeOK'
    <3>1. [Nothing EXCEPT !.suspended = flag] \in Ask
      BY DEF Nothing, Ask
    <3> QED
      BY <2>2, <3>1, CheckType DEF CheckSuspension
  <2>3. ASSUME NEW a \in Agents, NEW priority \in Priorities \cup {Keep},
               CheckAgentUpdate(r, a, priority)
        PROVE  TypeOK'
    <3>1. [Nothing EXCEPT !.priority = priority] \in Ask
      BY DEF Nothing, Ask
    <3> QED
      BY <2>3, <3>1, CheckType DEF CheckAgentUpdate, Members
  <2>4. ASSUME NEW a \in Agents, CheckAgentDelete(r, a) PROVE TypeOK'
    BY <2>4, IdleType, CheckType DEF CheckAgentDelete, Members
  <2> QED
    BY <1>5, <2>1, <2>2, <2>3, <2>4 DEF CheckStep
<1>6. ASSUME NEW r \in Requests, Load(r) PROVE TypeOK'
  <2>1. [req[r] EXCEPT !.stage = "loaded", !.loaded = row[req[r].target]] \in Request
    BY <1>6 DEF Load, TypeOK, Request
  <2> QED
    BY <1>6, <2>1 DEF Load, TypeOK
<1>7. ASSUME NEW r \in Requests, CommitStep(r) PROVE TypeOK'
  <2>1. CASE CommitProfile(r)
    <3>1. req[r] \in Request /\ req[r].target \in Members
      BY <2>1 DEF CommitProfile, WriteBack, TypeOK
    <3>2. Merged(row[req[r].target], req[r]) \in Row
      BY <3>1, MergedType DEF TypeOK
    <3>3. Recorded(req[r], Merged(row[req[r].target], req[r])) \in Roles
      BY <3>1, <3>2 DEF Recorded, Row, TypeOK
    <3> QED
      BY <2>1, <3>3, WriteBackType DEF CommitProfile, TypeOK
  <2>2. CASE CommitSuspension(r)
    BY <2>2, WriteBackType DEF CommitSuspension, TypeOK
  <2>3. CASE CommitAgentUpdate(r)
    BY <2>3, WriteBackType DEF CommitAgentUpdate, TypeOK
  <2>4. CASE CommitAgentDelete(r)
    BY <2>4, IdleType DEF CommitAgentDelete, TypeOK
  <2> QED
    BY <1>7, <2>1, <2>2, <2>3, <2>4 DEF CommitStep
<1>8. CASE UNCHANGED vars
  BY <1>8 DEF vars, TypeOK
<1> QED
  BY <1>1, <1>2, <1>3, <1>4, <1>5, <1>6, <1>7, <1>8 DEF Next

(***************************************************************************)
(* Type correctness: whatever overlaps, every column keeps a value of its  *)
(* type, the columns a request left out included.                          *)
(***************************************************************************)
THEOREM TypeCorrect == Spec => []TypeOK
BY InitType, StepType, PTL DEF Spec

-----------------------------------------------------------------------------
(***************************************************************************)
(* Overlapping edits.                                                      *)
(***************************************************************************)

(***************************************************************************)
(* An UPDATE leaves each column as it stands in the database or sets it to *)
(* the value asked for, whatever the row was when it was fetched.          *)
(***************************************************************************)
LEMMA MergedColumns ==
  ASSUME NEW stored \in Row, NEW q \in Request
  PROVE  /\ Merged(stored, q).role \in {stored.role, q.ask.role}
         /\ Merged(stored, q).priority \in {stored.priority, q.ask.priority}
         /\ Merged(stored, q).suspended \in {stored.suspended, q.ask.suspended}
BY DEF Merged, Column, Assigned, Filled, Request, Row, Ask

LEMMA StepAsked ==
  ASSUME TypeOK, Next, NEW r \in Requests, NEW m \in Members,
         TakesEffect(r), row'[m] # row[m]
  PROVE  /\ m = req[r].target
         /\ row'[m].role \in {row[m].role, req[r].ask.role}
         /\ row'[m].priority \in {row[m].priority, req[r].ask.priority}
         /\ row'[m].suspended \in {row[m].suspended, req[r].ask.suspended}
<1>1. PICK s \in Requests : CommitStep(s) /\ row' # row
  BY DEF Next, IssueToken, Open, OpenBackoffice, Abandon, CheckStep, CheckProfile,
         CheckSuspension, CheckAgentUpdate, CheckAgentDelete, Check, Load, TypeOK
<1>2. PICK call : WriteBack(s, call)
  BY <1>1 DEF CommitStep, CommitProfile, CommitSuspension, CommitAgentUpdate,
              CommitAgentDelete
<1>3. s = r
  BY <1>2 DEF WriteBack, TakesEffect, TypeOK
<1>4. m = req[r].target /\ row'[m] = Merged(row[m], req[r])
  BY <1>2, <1>3 DEF WriteBack, TypeOK
<1>5. row[m] \in Row /\ req[r] \in Request
  BY DEF TypeOK
<1> QED
  BY <1>4, <1>5, MergedColumns

(***************************************************************************)
(* However requests overlap, the step with which a call takes effect       *)
(* changes only the columns of its target that it was asked to change:     *)
(* the column-wise UPDATE of update_profile and set_suspended.             *)
(***************************************************************************)
THEOREM OnlyAskedChange == Spec => OnlyAskedColumnsChange
<1>1. TypeOK /\ [Next]_vars =>
        [\A r \in Requests, m \in Members :
           LET q == req[r]
           IN  TakesEffect(r) /\ row'[m] # row[m] =>
                 /\ m = q.target
                 /\ row'[m].role \in {row[m].role, q.ask.role}
                 /\ row'[m].priority \in {row[m].priority, q.ask.priority}
                 /\ row'[m].suspended \in {row[m].suspended, q.ask.suspended}]_vars
  BY StepAsked
<1> QED
  BY <1>1, TypeCorrect, PTL DEF Spec, OnlyAskedColumnsChange

-----------------------------------------------------------------------------
(***************************************************************************)
(* One request at a time.                                                  *)
(***************************************************************************)
SerialInv == TypeOK /\ OneAtATime /\ ChecksStillHold /\ AuditMatchesRole

LEMMA SerialIsNext == SerialNext => Next
BY DEF SerialNext, Next

LEMMA InitSerial == Init => SerialInv
<1> SUFFICES ASSUME Init PROVE SerialInv
  OBVIOUS
<1>1. TypeOK
  BY InitType
<1>2. \A r \in Requests : req[r].stage = "idle"
  BY DEF Init, Idle
<1>3. AuditMatchesRole
  BY DEF Init, AuditMatchesRole
<1> QED
  BY <1>1, <1>2, <1>3 DEF SerialInv, OneAtATime, ChecksStillHold

(***************************************************************************)
(* When request r alone is under way, what the others rely on is nothing.  *)
(***************************************************************************)
LEMMA IdleRequests ==
  ASSUME TypeOK, NEW r \in Requests, NEW q, OneAtATime,
         req[r].stage # "idle" \/ Quiet,
         req' = [req EXCEPT ![r] = q]
  PROVE  /\ OneAtATime'
         /\ \A s \in Requests \ {r} : req'[s].stage = "idle"
         /\ req'[r] = q
BY DEF TypeOK, OneAtATime, Quiet

(***************************************************************************)
(* The UPDATE of a request whose row has not changed since it was fetched  *)
(* leaves the row as asked.                                                *)
(***************************************************************************)
LEMMA MergedUndisturbed ==
  ASSUME NEW q \in Request
  PROVE  Merged(q.loaded, q) = Assigned(q.loaded, q.ask)
<1>1. Assigned(q.loaded, q.ask) \in Row
  BY AssignedType DEF Request
<1>2. q.loaded \in Row
  BY DEF Request
<1> QED
  BY <1>1, <1>2 DEF Merged, Column, Row

LEMMA SerialOpen ==
  ASSUME SerialInv, Quiet, NEW r \in Requests, NEW by, Entitled(by),
         req' = [req EXCEPT ![r] = [Idle EXCEPT !.stage = "gated", !.by = by]],
         UNCHANGED <<present, row, trail>>
  PROVE  OneAtATime' /\ ChecksStillHold' /\ AuditMatchesRole'
<1>1. /\ OneAtATime'
      /\ \A s \in Requests \ {r} : req'[s].stage = "idle"
      /\ req'[r] = [Idle EXCEPT !.stage = "gated", !.by = by]
  BY IdleRequests DEF SerialInv
<1>2. Entitled(by)'
  BY DEF Entitled, PassesGate
<1>3. req'[r].stage = "gated" /\ req'[r].by = by
  BY <1>1 DEF Idle
<1>4. ChecksStillHold'
  BY <1>1, <1>2, <1>3 DEF ChecksStillHold
<1> QED
  BY <1>1, <1>4 DEF SerialInv, AuditMatchesRole

LEMMA SerialCheck ==
  ASSUME SerialInv, NEW r \in Requests, NEW m \in Members, NEW call, NEW ask,
         Check(r, call, m, ask),
         call # "profile" => PassesGate(req[r].by),
         StillAllowed([req[r] EXCEPT !.stage = "checked", !.call = call, !.target = m,
                                     !.ask = ask, !.seen = row[m]])
  PROVE  OneAtATime' /\ ChecksStillHold' /\ AuditMatchesRole'
<1>0. PICK q : q = [req[r] EXCEPT !.stage = "checked", !.call = call, !.target = m,
                                  !.ask = ask, !.seen = row[m]]
  OBVIOUS
<1>1. /\ OneAtATime'
      /\ \A s \in Requests \ {r} : req'[s].stage = "idle"
      /\ req'[r] = q
  BY <1>0, IdleRequests DEF SerialInv, Check
<1>2. /\ q.stage = "checked" /\ q.call = call /\ q.by = req[r].by
      /\ q.target = m /\ q.seen = row[m]
  BY <1>0 DEF SerialInv, TypeOK, Request
<1>3. Entitled(q.by)
  BY <1>2 DEF SerialInv, ChecksStillHold, Check
<1>4. Entitled(q.by)' /\ StillAllowed(q)' /\ (call # "profile" => PassesGate(q.by)')
  BY <1>0, <1>2, <1>3 DEF Check, Entitled, PassesGate, StillAllowed, Owners, ActiveOwners,
                    ActiveOthers
<1>5. m \in present' /\ row' = row
  BY DEF Check
<1>6. ChecksStillHold'
  BY <1>1, <1>2, <1>4, <1>5 DEF ChecksStillHold
<1> QED
  BY <1>1, <1>6 DEF SerialInv, AuditMatchesRole, Check

LEMMA SerialEnd ==
  ASSUME SerialInv, NEW r \in Requests, req[r].stage # "idle",
         req' = [req EXCEPT ![r] = Idle]
  PROVE  OneAtATime' /\ ChecksStillHold'
<1>1. \A s \in Requests : req'[s].stage = "idle"
  BY IdleRequests DEF SerialInv, Idle, TypeOK
<1> QED
  BY <1>1 DEF OneAtATime, ChecksStillHold

LEMMA SerialCommitProfile ==
  ASSUME SerialInv, NEW r \in Requests, CommitProfile(r)
  PROVE  AuditMatchesRole'
<1> DEFINE q == req[r]
<1>1. q \in Request /\ q.target \in Members /\ q.seen = row[q.target]
      /\ q.loaded = row[q.target]
  BY DEF SerialInv, TypeOK, CommitProfile, WriteBack, ChecksStillHold
<1>2. Merged(row[q.target], q) = Assigned(row[q.target], q.ask)
  BY <1>1, MergedUndisturbed
<1>3. row' = [row EXCEPT ![q.target] = Assigned(row[q.target], q.ask)]
  BY <1>2 DEF CommitProfile, WriteBack
<1>4. trail' = [trail EXCEPT ![q.target] =
                  IF q.ask.role \notin {Keep, row[q.target].role}
                  THEN Assigned(row[q.target], q.ask).role ELSE trail[q.target]]
  BY <1>1, <1>2 DEF CommitProfile, Recorded
<1>5. present' = present /\ trail[q.target] = row[q.target].role
  BY DEF CommitProfile, WriteBack, SerialInv, AuditMatchesRole
<1> HIDE DEF q
<1> QED
  BY <1>1, <1>3, <1>4, <1>5
     DEF Assigned, Filled, AuditMatchesRole, SerialInv, TypeOK, Row

(***************************************************************************)
(* What each call's checks establish.                                      *)
(***************************************************************************)
LEMMA SerialCheckStep ==
  ASSUME SerialInv, NEW r \in Requests, CheckStep(r)
  PROVE  OneAtATime' /\ ChecksStillHold' /\ AuditMatchesRole'
<1>1. req[r] \in Request /\ (req[r].stage # "idle" => Entitled(req[r].by))
  BY DEF SerialInv, TypeOK, ChecksStillHold
<1>2. ASSUME req[r].stage = "gated", req[r].by.id # Operator PROVE PassesGate(req[r].by)
  BY <1>1, <1>2 DEF Entitled, Backoffice
<1>3. ASSUME NEW m \in Members, NEW role \in Roles \cup {Keep},
             NEW priority \in Priorities \cup {Keep}, CheckProfile(r, m, role, priority)
      PROVE  OneAtATime' /\ ChecksStillHold' /\ AuditMatchesRole'
  <2>1. PICK ask : ask = [Nothing EXCEPT !.role = role, !.priority = priority]
    OBVIOUS
  <2>2. Check(r, "profile", m, ask)
    BY <1>3, <2>1 DEF CheckProfile
  <2>3. PICK q : q = [req[r] EXCEPT !.stage = "checked", !.call = "profile", !.target = m,
                                    !.ask = ask, !.seen = row[m]]
    OBVIOUS
  <2>4. q.call = "profile" /\ q.target = m /\ q.ask = ask /\ q.by = req[r].by
    BY <1>1, <2>3 DEF Request
  <2>5. ask.suspended = Keep
    BY <2>1 DEF Nothing
  <2>6. StillAllowed(q)
    BY <1>3, <2>1, <2>4, <2>5 DEF StillAllowed, CheckProfile
  <2> QED
    BY <2>2, <2>3, <2>6, SerialCheck
<1>4. ASSUME NEW m \in Members, NEW flag \in BOOLEAN, CheckSuspension(r, m, flag)
      PROVE  OneAtATime' /\ ChecksStillHold' /\ AuditMatchesRole'
  <2>1. PICK ask : ask = [Nothing EXCEPT !.suspended = flag]
    OBVIOUS
  <2>2. Check(r, "suspension", m, ask) /\ PassesGate(req[r].by)
    BY <1>2, <1>4, <2>1 DEF CheckSuspension, Check
  <2>3. PICK q : q = [req[r] EXCEPT !.stage = "checked", !.call = "suspension", !.target = m,
                                    !.ask = ask, !.seen = row[m]]
    OBVIOUS
  <2>4. q.call = "suspension" /\ q.target = m /\ q.ask = ask /\ q.by = req[r].by
    BY <1>1, <2>3 DEF Request
  <2>5. ask.role = Keep /\ ask.priority = Keep /\ ask.suspended = flag
    BY <2>1 DEF Nothing
  <2>6. StillAllowed(q)
    BY <1>4, <2>4, <2>5 DEF StillAllowed, CheckSuspension
  <2> QED
    BY <2>2, <2>3, <2>6, SerialCheck
<1>5. ASSUME NEW a \in Agents, NEW priority \in Priorities \cup {Keep},
             CheckAgentUpdate(r, a, priority)
      PROVE  OneAtATime' /\ ChecksStillHold' /\ AuditMatchesRole'
  <2>1. PICK ask : ask = [Nothing EXCEPT !.priority = priority]
    OBVIOUS
  <2>2. Check(r, "agent", a, ask) /\ PassesGate(req[r].by)
    BY <1>2, <1>5, <2>1 DEF CheckAgentUpdate, Check
  <2>3. PICK q : q = [req[r] EXCEPT !.stage = "checked", !.call = "agent", !.target = a,
                                    !.ask = ask, !.seen = row[a]]
    OBVIOUS
  <2>4. q.call = "agent" /\ q.target = a /\ q.ask = ask
    BY <1>1, <2>3 DEF Request
  <2>5. ask.role = Keep /\ ask.suspended = Keep
    BY <2>1 DEF Nothing
  <2>6. StillAllowed(q)
    BY <2>4, <2>5 DEF StillAllowed
  <2> QED
    BY <2>2, <2>3, <2>6, SerialCheck DEF Members
<1>6. ASSUME NEW a \in Agents, CheckAgentDelete(r, a)
      PROVE  OneAtATime' /\ ChecksStillHold' /\ AuditMatchesRole'
  <2>1. Check(r, "delete", a, Nothing) /\ PassesGate(req[r].by) /\ a \notin Bound
    BY <1>2, <1>6 DEF CheckAgentDelete, Check
  <2>2. PICK q : q = [req[r] EXCEPT !.stage = "checked", !.call = "delete", !.target = a,
                                    !.ask = Nothing, !.seen = row[a]]
    OBVIOUS
  <2>3. q.call = "delete" /\ q.target = a
    BY <1>1, <2>2 DEF Request
  <2>4. StillAllowed(q)
    BY <2>1, <2>3 DEF StillAllowed
  <2> QED
    BY <2>1, <2>2, <2>4, SerialCheck DEF Members
<1> QED
  BY <1>3, <1>4, <1>5, <1>6 DEF CheckStep

LEMMA SerialLoad ==
  ASSUME SerialInv, NEW r \in Requests, Load(r)
  PROVE  OneAtATime' /\ ChecksStillHold' /\ AuditMatchesRole'
<1>0. PICK q : q = [req[r] EXCEPT !.stage = "loaded", !.loaded = row[req[r].target]]
  OBVIOUS
<1>1. /\ OneAtATime'
      /\ \A s \in Requests \ {r} : req'[s].stage = "idle"
      /\ req'[r] = q
  BY <1>0, IdleRequests DEF SerialInv, Load
<1>2. /\ q.stage = "loaded" /\ q.call = req[r].call /\ q.by = req[r].by
      /\ q.target = req[r].target /\ q.seen = req[r].seen /\ q.ask = req[r].ask
      /\ q.loaded = row[q.target]
  BY <1>0 DEF SerialInv, TypeOK, Request
<1>3. /\ Entitled(q.by) /\ q.target \in present /\ q.seen = row[q.target]
      /\ q.call # "profile" => PassesGate(q.by)
      /\ StillAllowed(q)
  BY <1>2 DEF SerialInv, ChecksStillHold, Load, StillAllowed
<1>4. Entitled(q.by)' /\ StillAllowed(q)' /\ (q.call # "profile" => PassesGate(q.by)')
  BY <1>3 DEF Load, Entitled, PassesGate, StillAllowed, Owners, ActiveOwners, ActiveOthers
<1>5. present' = present /\ row' = row /\ trail' = trail
  BY DEF Load
<1>6. ChecksStillHold'
  BY <1>1, <1>2, <1>3, <1>4, <1>5 DEF ChecksStillHold
<1> QED
  BY <1>1, <1>5, <1>6 DEF SerialInv, AuditMatchesRole

LEMMA SerialCommit ==
  ASSUME SerialInv, NEW r \in Requests, CommitStep(r)
  PROVE  OneAtATime' /\ ChecksStillHold' /\ AuditMatchesRole'
<1>1. OneAtATime' /\ ChecksStillHold'
  BY SerialEnd DEF CommitStep, CommitProfile, CommitSuspension, CommitAgentUpdate,
                   CommitAgentDelete, WriteBack
<1>2. AuditMatchesRole'
  <2>1. CASE CommitProfile(r)
    BY <2>1, SerialCommitProfile
  <2>2. ASSUME NEW call \in {"suspension", "agent"}, WriteBack(r, call), UNCHANGED trail
        PROVE  AuditMatchesRole'
    <3>1. /\ req[r] \in Request /\ req[r].target \in Members
          /\ req[r].loaded = row[req[r].target] /\ StillAllowed(req[r])
      BY <2>2 DEF SerialInv, TypeOK, WriteBack, ChecksStillHold
    <3>2. req[r].ask.role = Keep
      BY <2>2, <3>1 DEF StillAllowed, WriteBack
    <3>3. Merged(row[req[r].target], req[r]).role = row[req[r].target].role
      BY <3>1, <3>2 DEF Merged, Column, Assigned, Filled
    <3>4. \A m \in Members : row'[m].role = row[m].role
      BY <2>2, <3>1, <3>3 DEF WriteBack, SerialInv, TypeOK
    <3> QED
      BY <2>2, <3>4 DEF WriteBack, AuditMatchesRole, SerialInv, TypeOK
  <2>3. CASE CommitAgentDelete(r)
    BY <2>3 DEF CommitAgentDelete, AuditMatchesRole, SerialInv
  <2> QED
    BY <2>1, <2>2, <2>3 DEF CommitStep, CommitSuspension, CommitAgentUpdate
<1> QED
  BY <1>1, <1>2

LEMMA StepSerial == SerialInv /\ [SerialNext]_vars => SerialInv'
<1> SUFFICES ASSUME SerialInv, [SerialNext]_vars PROVE SerialInv'
  OBVIOUS
<1>0. TypeOK'
  BY StepType, SerialIsNext DEF SerialInv
<1>1. ASSUME NEW m \in Members, IssueToken(m) PROVE SerialInv'
  BY <1>0, <1>1 DEF IssueToken, SerialInv, OneAtATime, ChecksStillHold, Entitled, PassesGate,
                    StillAllowed, Owners, ActiveOwners, ActiveOthers, AuditMatchesRole
<1>2. ASSUME NEW r \in Requests, Quiet, NEW by \in issued, Open(r, by) PROVE SerialInv'
  BY <1>0, <1>2, SerialOpen DEF Open, Entitled, SerialInv
<1>3. ASSUME NEW r \in Requests, Quiet, OpenBackoffice(r) PROVE SerialInv'
  BY <1>0, <1>3, SerialOpen DEF OpenBackoffice, Entitled, SerialInv
<1>4. ASSUME NEW r \in Requests, Abandon(r) PROVE SerialInv'
  BY <1>0, <1>4, SerialEnd DEF Abandon, SerialInv, AuditMatchesRole
<1>5. ASSUME NEW r \in Requests, CheckStep(r) PROVE SerialInv'
  BY <1>0, <1>5, SerialCheckStep DEF SerialInv
<1>6. ASSUME NEW r \in Requests, Load(r) PROVE SerialInv'
  BY <1>0, <1>6, SerialLoad DEF SerialInv
<1>7. ASSUME NEW r \in Requests, CommitStep(r) PROVE SerialInv'
  BY <1>0, <1>7, SerialCommit DEF SerialInv
<1>8. CASE UNCHANGED vars
  <2>1. present' = present /\ row' = row /\ trail' = trail /\ req' = req
    BY <1>8 DEF vars
  <2>2. ASSUME NEW q PROVE StillAllowed(q)' <=> StillAllowed(q)
    BY <2>1 DEF StillAllowed, Owners, ActiveOwners, ActiveOthers
  <2>3. ASSUME NEW by PROVE (Entitled(by)' <=> Entitled(by)) /\ (PassesGate(by)' <=> PassesGate(by))
    BY <2>1 DEF Entitled, PassesGate
  <2>4. ChecksStillHold'
    BY <2>1, <2>2, <2>3 DEF SerialInv, ChecksStillHold
  <2> QED
    BY <1>0, <2>1, <2>4 DEF SerialInv, OneAtATime, AuditMatchesRole
<1> QED
  BY <1>1, <1>2, <1>3, <1>4, <1>5, <1>6, <1>7, <1>8 DEF SerialNext

(***************************************************************************)
(* With one request at a time, what the checks of a request saw still      *)
(* holds when it commits, and the audit log tells every member's role.     *)
(***************************************************************************)
THEOREM SerialCorrect == SerialSpec => [](ChecksStillHold /\ AuditMatchesRole)
<1>1. SerialSpec => []SerialInv
  BY InitSerial, StepSerial, PTL DEF SerialSpec
<1>2. SerialInv => ChecksStillHold /\ AuditMatchesRole
  BY DEF SerialInv
<1> QED
  BY <1>1, <1>2, PTL

-----------------------------------------------------------------------------
(***************************************************************************)
(* Requests one at a time are atomic.                                      *)
(***************************************************************************)

(***************************************************************************)
(* AccessAtomic has the rules of AccessRules under its own names.          *)
(***************************************************************************)
LEMMA SameRules ==
  /\ Atomic!Members = Members /\ Atomic!Row = Row /\ Atomic!Claims = Claims
  /\ Atomic!Roles = Roles /\ Atomic!Backoffice = Backoffice
  /\ Atomic!Owners = Owners /\ Atomic!ActiveOwners = ActiveOwners
  /\ \A by : Atomic!ActiveAdmin(by) <=> PassesGate(by)
  /\ \A by, target : Atomic!RankAllows(by, target) <=> RankAllows(by, target)
  /\ \A target, new, others :
       Atomic!DemotionAllowed(target, new, others) <=> DemotionAllowed(target, new, others)
  /\ \A target, flag, others :
       Atomic!SuspensionAllowed(target, flag, others)
         <=> SuspensionAllowed(target, flag, others)
<1>1. Atomic!Members = Members /\ Atomic!Roles = Roles
  BY DEF Atomic!Members, Members, Atomic!Roles, Roles
<1>2. Atomic!Row = Row /\ Atomic!Claims = Claims
  BY <1>1 DEF Atomic!Row, Row, Atomic!Claims, Claims
<1>3. Atomic!Backoffice = Backoffice
  BY DEF Atomic!Backoffice, Backoffice
<1>4. Atomic!Owners = Owners /\ Atomic!ActiveOwners = ActiveOwners
  BY DEF Atomic!Owners, Owners, Atomic!ActiveOwners, ActiveOwners
<1>5. ASSUME NEW by PROVE Atomic!ActiveAdmin(by) <=> PassesGate(by)
  BY DEF Atomic!ActiveAdmin, PassesGate, Atomic!IsAdmin, IsAdmin, Atomic!AdminRoles, AdminRoles
<1>6. ASSUME NEW by, NEW target
      PROVE  Atomic!RankAllows(by, target) <=> RankAllows(by, target)
  BY DEF Atomic!RankAllows, RankAllows
<1>7. ASSUME NEW target, NEW new, NEW others
      PROVE  Atomic!DemotionAllowed(target, new, others) <=> DemotionAllowed(target, new, others)
  BY DEF Atomic!DemotionAllowed, DemotionAllowed
<1>8. ASSUME NEW target, NEW flag, NEW others
      PROVE  Atomic!SuspensionAllowed(target, flag, others)
               <=> SuspensionAllowed(target, flag, others)
  BY DEF Atomic!SuspensionAllowed, SuspensionAllowed
<1> QED
  BY <1>1, <1>2, <1>3, <1>4, <1>5, <1>6, <1>7, <1>8

(***************************************************************************)
(* The facts of a request about to commit.                                 *)
(***************************************************************************)
LEMMA AboutToCommit ==
  ASSUME SerialInv, NEW r \in Requests, NEW call, WriteBack(r, call)
  PROVE  /\ req[r] \in Request /\ req[r].target \in Members /\ req[r].target \in present
         /\ req[r].call = call /\ StillAllowed(req[r])
         /\ Entitled(req[r].by) /\ (call # "profile" => PassesGate(req[r].by))
         /\ row' = [row EXCEPT ![req[r].target] =
                      Assigned(row[req[r].target], req[r].ask)]
         /\ present' = present
<1>1. /\ req[r] \in Request /\ req[r].target \in Members
      /\ req[r].loaded = row[req[r].target]
  BY DEF SerialInv, TypeOK, WriteBack, ChecksStillHold
<1>2. Merged(row[req[r].target], req[r]) = Assigned(row[req[r].target], req[r].ask)
  BY <1>1, MergedUndisturbed
<1> QED
  BY <1>1, <1>2 DEF SerialInv, WriteBack, ChecksStillHold

LEMMA RefinesProfile ==
  ASSUME SerialInv, NEW r \in Requests, CommitProfile(r)
  PROVE  Atomic!Next
<1>0. WriteBack(r, "profile")
  BY DEF CommitProfile
<1>1. PICK q \in Request : q = req[r]
  BY DEF SerialInv, TypeOK
<1>2. PICK rw \in Row : rw = row[q.target]
  BY <1>0, <1>1, AboutToCommit DEF SerialInv, TypeOK
<1>3. /\ q.target \in Members /\ q.target \in present /\ Entitled(q.by)
      /\ q.ask.suspended = Keep /\ RankAllows(q.by, rw)
      /\ DemotionAllowed(rw, Assigned(rw, q.ask), Owners \ {q.target})
      /\ row' = [row EXCEPT ![q.target] = Assigned(rw, q.ask)]
      /\ present' = present
  BY <1>0, <1>1, <1>2, AboutToCommit DEF StillAllowed
<1>4. PICK role \in Roles, priority \in Priorities :
        role = Filled(rw.role, q.ask.role) /\ priority = Filled(rw.priority, q.ask.priority)
  BY DEF Filled, Row, Request, Ask
<1>5. Assigned(rw, q.ask) = [role |-> role, priority |-> priority, suspended |-> rw.suspended]
  BY <1>3, <1>4 DEF Assigned, Filled
<1>6. trail' = [trail EXCEPT ![q.target] =
                  IF role # row[q.target].role THEN role ELSE @]
  <2>1. q.seen = rw /\ Merged(rw, q).role = role
    <3>1. q.seen = rw /\ q.loaded = rw
      BY <1>0, <1>1, <1>2 DEF SerialInv, ChecksStillHold, WriteBack
    <3>2. Merged(rw, q) = Assigned(rw, q.ask)
      BY <3>1, MergedUndisturbed
    <3> QED
      BY <1>4, <3>1, <3>2 DEF Assigned
  <2>2. trail' = [trail EXCEPT ![q.target] = Recorded(q, Merged(rw, q))]
    BY <1>1, <1>2 DEF CommitProfile
  <2>3. Recorded(q, Merged(rw, q)) =
          IF role # row[q.target].role THEN role ELSE trail[q.target]
    BY <1>2, <1>4, <2>1 DEF Recorded, Filled
  <2> QED
    BY <2>2, <2>3
<1>7. q.by \in Claims /\ (Atomic!ActiveAdmin(q.by) \/ q.by = Atomic!Backoffice)
  BY <1>3, SameRules DEF Request, Entitled
<1>8. Atomic!EditProfile(q.by, q.target, role, priority)
  BY <1>2, <1>3, <1>5, <1>6, <1>7, SameRules DEF Atomic!EditProfile
<1> QED
  BY <1>3, <1>4, <1>7, <1>8, SameRules DEF Atomic!Next

LEMMA RefinesSuspension ==
  ASSUME SerialInv, NEW r \in Requests, CommitSuspension(r)
  PROVE  Atomic!Next
<1>0. WriteBack(r, "suspension") /\ trail' = trail
  BY DEF CommitSuspension
<1>1. PICK q \in Request : q = req[r]
  BY DEF SerialInv, TypeOK
<1>2. PICK rw \in Row : rw = row[q.target]
  BY <1>0, <1>1, AboutToCommit DEF SerialInv, TypeOK
<1>3. /\ q.target \in Members /\ q.target \in present /\ PassesGate(q.by)
      /\ q.ask.role = Keep /\ q.ask.priority = Keep /\ q.ask.suspended \in BOOLEAN
      /\ RankAllows(q.by, rw)
      /\ q.ask.suspended => q.target # q.by.id
      /\ SuspensionAllowed(rw, q.ask.suspended, ActiveOthers(q.target))
      /\ row' = [row EXCEPT ![q.target] = Assigned(rw, q.ask)]
      /\ present' = present
  <2>1. /\ q.target \in Members /\ q.target \in present /\ PassesGate(q.by)
        /\ q.call = "suspension" /\ StillAllowed(q)
        /\ row' = [row EXCEPT ![q.target] = Assigned(rw, q.ask)]
        /\ present' = present
    BY <1>0, <1>1, <1>2, AboutToCommit
  <2> QED
    BY <1>2, <2>1 DEF StillAllowed
<1>4. Assigned(rw, q.ask) = [rw EXCEPT !.suspended = q.ask.suspended]
  BY <1>3, FounderAssumption DEF Assigned, Filled, Row
<1>5. q.by \in Claims /\ Atomic!ActiveAdmin(q.by)
  BY <1>3, SameRules DEF Request
<1>6. ActiveOthers(q.target) = Atomic!ActiveOwners \ {q.target}
  BY SameRules DEF ActiveOthers
<1>7. row' = [row EXCEPT ![q.target].suspended = q.ask.suspended]
  BY <1>2, <1>3, <1>4
<1>8. Atomic!SetSuspension(q.by, q.target, q.ask.suspended)
  BY <1>0, <1>2, <1>3, <1>5, <1>6, <1>7, SameRules DEF Atomic!SetSuspension
<1> QED
  BY <1>3, <1>5, <1>8, SameRules DEF Atomic!Next

LEMMA RefinesAgentUpdate ==
  ASSUME SerialInv, NEW r \in Requests, CommitAgentUpdate(r)
  PROVE  Atomic!Next
<1>0. WriteBack(r, "agent") /\ trail' = trail
  BY DEF CommitAgentUpdate
<1>1. PICK q \in Request : q = req[r]
  BY DEF SerialInv, TypeOK
<1>2. PICK rw \in Row : rw = row[q.target]
  BY <1>0, <1>1, AboutToCommit DEF SerialInv, TypeOK
<1>3. /\ q.target \in Members /\ q.target \in Agents \cap present /\ PassesGate(q.by)
      /\ q.ask.role = Keep /\ q.ask.suspended = Keep
      /\ row' = [row EXCEPT ![q.target] = Assigned(rw, q.ask)]
      /\ present' = present
  <2>1. /\ q.target \in Members /\ q.target \in present /\ PassesGate(q.by)
        /\ q.call = "agent" /\ StillAllowed(q)
        /\ row' = [row EXCEPT ![q.target] = Assigned(rw, q.ask)]
        /\ present' = present
    BY <1>0, <1>1, <1>2, AboutToCommit
  <2> QED
    BY <1>2, <2>1 DEF StillAllowed
<1>4. PICK priority \in Priorities : priority = Filled(rw.priority, q.ask.priority)
  BY DEF Filled, Row, Request, Ask
<1>5. row' = [row EXCEPT ![q.target].priority = priority]
  BY <1>2, <1>3, <1>4 DEF Assigned, Filled, Row
<1>6. q.by \in Claims /\ Atomic!ActiveAdmin(q.by)
  BY <1>3, SameRules DEF Request
<1>7. Atomic!UpdateAgent(q.by, q.target, priority)
  BY <1>0, <1>3, <1>5, <1>6 DEF Atomic!UpdateAgent
<1> QED
  BY <1>3, <1>4, <1>6, <1>7, SameRules DEF Atomic!Next

LEMMA RefinesAgentDelete ==
  ASSUME SerialInv, NEW r \in Requests, CommitAgentDelete(r)
  PROVE  Atomic!Next
<1>1. PICK q \in Request : q = req[r]
  BY DEF SerialInv, TypeOK
<1>2. /\ q.target \in (Agents \cap present) \ Bound /\ PassesGate(q.by)
      /\ q.target \in Members /\ q.by \in Claims
  BY <1>1 DEF CommitAgentDelete, SerialInv, ChecksStillHold, StillAllowed, Members, Request
<1>3. Atomic!DeleteAgent(q.by, q.target)
  BY <1>1, <1>2, SameRules DEF CommitAgentDelete, Atomic!DeleteAgent
<1> QED
  BY <1>2, <1>3, SameRules DEF Atomic!Next

LEMMA StepRefines == SerialInv /\ [SerialNext]_vars => [Atomic!Next]_(Atomic!vars)
<1> SUFFICES ASSUME SerialInv, [SerialNext]_vars,
                    ~ UNCHANGED <<present, row, trail>>
             PROVE  Atomic!Next
  BY DEF Atomic!vars
<1>1. PICK r \in Requests : CommitStep(r)
  BY DEF SerialNext, vars, IssueToken, Open, OpenBackoffice, Abandon, Load, CheckStep,
         CheckProfile, CheckSuspension, CheckAgentUpdate, CheckAgentDelete, Check
<1> QED
  BY <1>1, RefinesProfile, RefinesSuspension, RefinesAgentUpdate, RefinesAgentDelete
     DEF CommitStep

(***************************************************************************)
(* Requests one at a time implement the atomic calls, for any number of    *)
(* members, agents and ranks and any tokens in circulation.                *)
(***************************************************************************)
THEOREM SerialImplementsAtomic == SerialSpec => ImplementsAtomic
<1>1. Init => Atomic!Init
  BY SameRules DEF Init, Atomic!Init
<1>2. SerialSpec => []SerialInv
  BY InitSerial, StepSerial, PTL DEF SerialSpec
<1> QED
  BY <1>1, <1>2, StepRefines, PTL DEF SerialSpec, ImplementsAtomic, Atomic!Spec

-----------------------------------------------------------------------------
(***************************************************************************)
(* What the guards are for, one request at a time.                         *)
(***************************************************************************)

(***************************************************************************)
(* A profile edit or a suspension lands on a member the caller outranks or *)
(* equals, by the member's rank at that instant (_enforce_admin_rank).     *)
(***************************************************************************)
THEOREM RankHolds == SerialSpec => RankHoldsAtCommit
<1>1. SerialSpec => []SerialInv
  BY InitSerial, StepSerial, PTL DEF SerialSpec
<1>2. SerialInv /\ [SerialNext]_vars =>
        [\A r \in Requests :
           TakesEffect(r) /\ req[r].call \in {"profile", "suspension"}
             => \/ req[r].by.role = "OWNER"
                \/ row[req[r].target].priority >= req[r].by.priority]_vars
  <2> SUFFICES ASSUME SerialInv, NEW r \in Requests, TakesEffect(r),
                      req[r].call \in {"profile", "suspension"}
               PROVE  RankAllows(req[r].by, row[req[r].target])
    BY DEF RankAllows
  <2>1. StillAllowed(req[r])
    BY DEF SerialInv, ChecksStillHold, TakesEffect
  <2> QED
    BY <2>1 DEF StillAllowed
<1> QED
  BY <1>1, <1>2, PTL DEF SerialSpec, RankHoldsAtCommit

(***************************************************************************)
(* Whoever changes something has a membership that exists and is not       *)
(* suspended at that instant (get_current_principal).                      *)
(***************************************************************************)
THEOREM ActorActive == SerialSpec => ActorActiveAtCommit
<1>1. SerialSpec => []SerialInv
  BY InitSerial, StepSerial, PTL DEF SerialSpec
<1>2. SerialInv /\ [SerialNext]_vars =>
        [\A r \in Requests :
           TakesEffect(r) /\ req[r].by.id # Operator
             => req[r].by.id \in present /\ ~row[req[r].by.id].suspended]_vars
  BY DEF SerialInv, ChecksStillHold, TakesEffect, Entitled, PassesGate, Backoffice
<1> QED
  BY <1>1, <1>2, PTL DEF SerialSpec, ActorActiveAtCommit

(***************************************************************************)
(* What an UPDATE does to owners: it demotes one only if another remains,  *)
(* and suspends an active one only if another active one remains.          *)
(***************************************************************************)
LEMMA OwnersAfterUpdate ==
  ASSUME SerialInv, NEW r \in Requests, NEW call \in {"profile", "suspension", "agent"},
         WriteBack(r, call)
  PROVE  /\ Owners # {} => Owners' # {}
         /\ ActiveOwners # {} /\ ActiveOwners' = {} => Owners' # Owners
<1>1. PICK q \in Request : q = req[r]
  BY DEF SerialInv, TypeOK
<1>2. PICK rw \in Row : rw = row[q.target]
  BY <1>1, AboutToCommit DEF SerialInv, TypeOK
<1>3. PICK new : new = Assigned(rw, q.ask)
  OBVIOUS
<1>4. /\ q.target \in Members /\ q.target \in present /\ q.call = call /\ StillAllowed(q)
      /\ row' = [row EXCEPT ![q.target] = new] /\ present' = present
  BY <1>1, <1>2, <1>3, AboutToCommit
<1>5. /\ row'[q.target] = new
      /\ \A m \in present \ {q.target} : row'[m] = row[m]
  BY <1>4 DEF SerialInv, TypeOK
<1>6. rw.role = "OWNER" /\ new.role # "OWNER" => Owners \ {q.target} # {}
  BY <1>2, <1>3, <1>4 DEF StillAllowed, DemotionAllowed, Assigned, Filled
<1>7. rw.role = "OWNER" /\ ~rw.suspended /\ new.suspended => ActiveOwners \ {q.target} # {}
  BY <1>2, <1>3, <1>4 DEF StillAllowed, SuspensionAllowed, ActiveOthers, Assigned, Filled
<1>8. Owners # {} => Owners' # {}
  BY <1>2, <1>4, <1>5, <1>6 DEF Owners
<1>9. ASSUME ActiveOwners # {}, ActiveOwners' = {}, Owners' = Owners
      PROVE  FALSE
  <2>1. PICK m \in ActiveOwners : TRUE
    BY <1>9
  <2>2. m = q.target
    BY <1>4, <1>5, <1>9, <2>1 DEF ActiveOwners, Owners
  <2>3. new.suspended
    BY <1>4, <1>5, <1>9, <2>1, <2>2 DEF ActiveOwners
  <2>4. PICK n \in ActiveOwners \ {q.target} : TRUE
    BY <1>2, <1>7, <2>1, <2>2, <2>3 DEF ActiveOwners, Owners
  <2> QED
    BY <1>4, <1>5, <1>9, <2>4 DEF ActiveOwners, Owners
<1> QED
  BY <1>8, <1>9

LEMMA OwnersAfterStep ==
  ASSUME SerialInv, [SerialNext]_vars
  PROVE  /\ Owners # {} /\ Owners' = {} => present' # present
         /\ ActiveOwners # {} /\ ActiveOwners' = {} => Owners' # Owners
<1>1. CASE UNCHANGED <<present, row>>
  BY <1>1 DEF Owners, ActiveOwners
<1>2. CASE ~ UNCHANGED <<present, row>>
  <2>1. PICK r \in Requests : CommitStep(r)
    BY <1>2 DEF SerialNext, vars, IssueToken, Open, OpenBackoffice, Abandon, Load,
         CheckStep, CheckProfile, CheckSuspension, CheckAgentUpdate, CheckAgentDelete, Check
  <2>2. CASE CommitAgentDelete(r)
    BY <2>2 DEF CommitAgentDelete, Owners, ActiveOwners
  <2>3. CASE ~ CommitAgentDelete(r)
    BY <2>1, <2>3, OwnersAfterUpdate
       DEF CommitStep, CommitProfile, CommitSuspension, CommitAgentUpdate
  <2> QED
    BY <2>2, <2>3
<1> QED
  BY <1>1, <1>2

(***************************************************************************)
(* No demotion takes the last OWNER row: only the deletion of an agent     *)
(* that holds it can (update_member_profile, AgentService.delete).         *)
(***************************************************************************)
THEOREM OwnersKept == SerialSpec => OwnersLostOnlyWithAgent
<1>1. SerialSpec => []SerialInv
  BY InitSerial, StepSerial, PTL DEF SerialSpec
<1>2. SerialInv /\ [SerialNext]_vars => [Owners # {} /\ Owners' = {} => present' # present]_vars
  BY OwnersAfterStep
<1> QED
  BY <1>1, <1>2, PTL DEF SerialSpec, OwnersLostOnlyWithAgent

(***************************************************************************)
(* No suspension takes the last active owner (set_member_suspension).      *)
(***************************************************************************)
THEOREM SuspensionSpares == SerialSpec => SuspensionSparesActiveOwner
<1>1. SerialSpec => []SerialInv
  BY InitSerial, StepSerial, PTL DEF SerialSpec
<1>2. SerialInv /\ [SerialNext]_vars =>
        [ActiveOwners # {} /\ ActiveOwners' = {} => Owners' # Owners]_vars
  BY OwnersAfterStep
<1> QED
  BY <1>1, <1>2, PTL DEF SerialSpec, SuspensionSparesActiveOwner
=============================================================================
