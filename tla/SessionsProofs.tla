--------------------------- MODULE SessionsProofs ----------------------------
(***************************************************************************)
(* Theorems about Sessions, for any number of users, workspaces, agents,   *)
(* keys and requests, and any length of a second and of a token's life.    *)
(*                                                                         *)
(* Why the gate may read its rows one after the other: of the locks that   *)
(* were on all along, those that a finished read looks at are none (Fits). *)
(* Why stamps stay: a reset or a suspension that is under way alone on its *)
(* row finds the row as old as when it was decided (Timely).               *)
(***************************************************************************)
EXTENDS Sessions, TLAPS

Rows == <<tokens, suspended, closed, banned, killed, agents, keys>>

-----------------------------------------------------------------------------
(***************************************************************************)
(* Types.                                                                  *)
(***************************************************************************)

LEMMA NewTokenType ==
  ASSUME TypeOK,
         NEW scope, NEW bearer,
         \/ scope = "human" /\ bearer \in Seats
         \/ scope = "agent" /\ bearer \in Agents
         \/ scope = "select" /\ bearer \in Users
  PROVE  NewToken(scope, bearer) \in Token
BY DEF TypeOK, NewToken, Token

LEMMA AdvanceType ==
  ASSUME NEW q \in Call, NEW stage,
         \/ q.call = "gate" /\ stage \in {"member", "workspace", "user", "served"}
         \/ q.call = "exchange" /\ stage \in {"key", "agent", "issued"}
  PROVE  [q EXCEPT !.stage = stage] \in Call
<1>1. CASE q.call = "gate"
  <2>1. q \in [call : {"gate"}, stage : {"member", "workspace", "user", "served"}, token : Token]
    BY <1>1 DEF Call
  <2> QED
    BY <1>1, <2>1 DEF Call
<1>2. CASE q.call = "exchange"
  <2>1. q \in [call : {"exchange"}, stage : {"key", "agent", "issued"}, key : Keys]
    BY <1>2 DEF Call
  <2> QED
    BY <1>2, <2>1 DEF Call
<1> QED
  BY <1>1, <1>2

(***************************************************************************)
(* The fields of a call.                                                   *)
(***************************************************************************)
LEMMA Fields ==
  ASSUME NEW q \in Call \cup {Idle}
  PROVE  /\ q.call = "gate" => q \in Call /\ q.token \in Token
                                 /\ q.stage \in {"member", "workspace", "user", "served"}
         /\ q.call = "exchange" => q \in Call /\ q.key \in Keys
                                     /\ q.stage \in {"key", "agent", "issued"}
         /\ q.call = "reset" => q.row \in Users /\ q.stamp \in Instants
         /\ q.call = "close" => q.row \in Workspaces /\ q.stamp \in Stamps
         /\ q.call = "ban" => q.row \in Users /\ q.value \in BOOLEAN
         /\ q = Idle => q.call = "none"
BY DEF Call, Idle

(***************************************************************************)
(* The history variables keep their types in any step.                     *)
(***************************************************************************)
LEMMA HistoryType ==
  ASSUME TypeOK, History
  PROVE  held' \in [Requests -> SUBSET Locks] /\ crossed' \subseteq Users \cup Workspaces
<1>1. \A r \in Requests : InForce'[r] \in SUBSET Locks
  BY DEF InForce, LocksOfToken, LocksOfKey
<1>2. crossed' \subseteq Users \cup Workspaces
  BY DEF TypeOK, History, Contended
<1>3. held' \in [Requests -> SUBSET Locks]
  BY <1>1 DEF TypeOK, History
<1> QED
  BY <1>2, <1>3

TableTypes ==
  /\ clock \in Instants
  /\ tokens \subseteq Token
  /\ suspended \subseteq Seats \cup Agents
  /\ closed \in [Workspaces -> Stamps]
  /\ banned \subseteq Users
  /\ killed \in [Users -> Stamps]
  /\ agents \subseteq Agents
  /\ keys \in [Keys -> {"none", "active", "revoked", "deleted"}]
  /\ req \in [Requests -> Call \cup {Idle}]

LEMMA StepType ==
  ASSUME TypeOK, NEW r \in Requests, Step(r)
  PROVE  TableTypes'
<1> USE SessionsAssumption
<1>1. TableTypes
  BY DEF TypeOK, TableTypes
<1>2. req[r] \in Call \cup {Idle}
  BY DEF TypeOK
<1>3. ASSUME NEW t \in tokens, OpenGate(r, t) PROVE TableTypes'
  <2>1. [call |-> "gate", stage |-> "member", token |-> t] \in Call
    BY <1>1 DEF TableTypes, Call
  <2> QED
    BY <1>1, <1>3, <2>1 DEF OpenGate, Begin, TableTypes
<1>4. ASSUME NEW stage, Advance(r, stage),
             \/ req[r].call = "gate" /\ stage \in {"member", "workspace", "user", "served"}
             \/ req[r].call = "exchange" /\ stage \in {"key", "agent", "issued"}
      PROVE  req' \in [Requests -> Call \cup {Idle}]
  <2>1. req[r] \in Call
    BY <1>2, <1>4, Fields
  <2>2. [req[r] EXCEPT !.stage = stage] \in Call
    BY <1>4, <2>1, AdvanceType
  <2>3. req' = [req EXCEPT ![r] = [req[r] EXCEPT !.stage = stage]]
    BY <1>1, <1>4 DEF Advance, TableTypes
  <2> QED
    BY <1>1, <2>2, <2>3 DEF TableTypes
<1>5. ASSUME ReadMember(r) PROVE TableTypes'
  BY <1>1, <1>4, <1>5 DEF ReadMember, TableTypes
<1>6. ASSUME ReadWorkspace(r) PROVE TableTypes'
  BY <1>1, <1>4, <1>6 DEF ReadWorkspace, TableTypes
<1>7. ASSUME ReadUser(r) PROVE TableTypes'
  BY <1>1, <1>4, <1>7 DEF ReadUser, TableTypes
<1>8. ASSUME NEW k \in Keys, OpenExchange(r, k) PROVE TableTypes'
  <2>1. [call |-> "exchange", stage |-> "key", key |-> k] \in Call
    BY DEF Call
  <2> QED
    BY <1>1, <1>8, <2>1 DEF OpenExchange, Begin, TableTypes
<1>9. ASSUME FindKey(r) PROVE TableTypes'
  BY <1>1, <1>4, <1>9 DEF FindKey, TableTypes
<1>10. ASSUME LoadAgent(r) PROVE TableTypes'
  <2>1. req' \in [Requests -> Call \cup {Idle}]
    BY <1>4, <1>10 DEF LoadAgent
  <2>2. req[r].key \in Keys
    BY <1>2, <1>10, Fields DEF LoadAgent
  <2>3. KeyOf[req[r].key] \in Agents
    BY <2>2
  <2>4. NewToken("agent", KeyOf[req[r].key]) \in Token
    BY <2>3, NewTokenType
  <2> QED
    BY <1>1, <1>10, <2>1, <2>4 DEF LoadAgent, Issue, TableTypes
<1>11. ASSUME NEW u \in Users, CheckReset(r, u) PROVE TableTypes'
  <2>1. [call |-> "reset", stage |-> "decided", row |-> u, stamp |-> clock] \in Call
    BY <1>1 DEF TableTypes, Call
  <2> QED
    BY <1>1, <1>11, <2>1 DEF CheckReset, Begin, TableTypes
<1>12. ASSUME NEW u \in Users, NEW on \in BOOLEAN, CheckBan(r, u, on) PROVE TableTypes'
  <2>1. [call |-> "ban", stage |-> "decided", row |-> u, value |-> on] \in Call
    BY DEF Call
  <2> QED
    BY <1>1, <1>12, <2>1 DEF CheckBan, Begin, TableTypes
<1>13. ASSUME NEW w \in Workspaces, NEW on \in BOOLEAN, CheckClose(r, w, on) PROVE TableTypes'
  <2>1. (IF on THEN clock ELSE Never) \in Stamps
    BY <1>1 DEF TableTypes, Stamps
  <2>2. [call |-> "close", stage |-> "decided", row |-> w,
         stamp |-> IF on THEN clock ELSE Never] \in Call
    BY <2>1 DEF Call
  <2> QED
    BY <1>1, <1>13, <2>2 DEF CheckClose, Begin, TableTypes
<1>14. ASSUME CommitReset(r) PROVE TableTypes'
  <2>1. req[r].stamp \in Stamps
    BY <1>2, <1>14, Fields DEF CommitReset, Stamps
  <2> QED
    BY <1>1, <1>14, <2>1 DEF CommitReset, End, TableTypes
<1>15. ASSUME CommitBan(r) PROVE TableTypes'
  <2>1. req[r].row \in Users
    BY <1>2, <1>15, Fields DEF CommitBan
  <2> QED
    BY <1>1, <1>15, <2>1 DEF CommitBan, End, TableTypes
<1>16. ASSUME CommitClose(r) PROVE TableTypes'
  <2>1. req[r].stamp \in Stamps
    BY <1>2, <1>16, Fields DEF CommitClose
  <2> QED
    BY <1>1, <1>16, <2>1 DEF CommitClose, End, TableTypes
<1>17. ASSUME Finish(r) PROVE TableTypes'
  BY <1>1, <1>17 DEF Finish, End, TableTypes
<1> QED
  BY <1>3, <1>5, <1>6, <1>7, <1>8, <1>9, <1>10, <1>11, <1>12, <1>13, <1>14, <1>15,
     <1>16, <1>17 DEF Step

(***************************************************************************)
(* The actions that belong to no request.                                  *)
(***************************************************************************)
LEMMA OtherType ==
  ASSUME TypeOK, Act, ~ \E r \in Requests : Step(r)
  PROVE  TableTypes'
<1> USE SessionsAssumption
<1>1. TableTypes
  BY DEF TypeOK, TableTypes
<1>2. ASSUME Tick PROVE TableTypes'
  BY <1>1, <1>2 DEF Tick, TableTypes, Instants
<1>3. ASSUME NEW u \in Users, Login(u) PROVE TableTypes'
  <2>1. \A s \in SeatsOf(u) : NewToken("human", s) \in Token
    BY NewTokenType DEF SeatsOf
  <2>2. NewToken("select", u) \in Token
    BY NewTokenType
  <2>3. tokens' \subseteq Token
    BY <1>1, <1>3, <2>1, <2>2 DEF Login, Issue, TableTypes
  <2> QED
    BY <1>1, <1>3, <2>3 DEF Login, TableTypes
<1>4. ASSUME NEW t \in tokens, NEW s \in Seats, SelectWorkspace(t, s) \/ SwitchWorkspace(t, s)
      PROVE  TableTypes'
  <2>1. NewToken("human", s) \in Token
    BY NewTokenType
  <2> QED
    BY <1>1, <1>4, <2>1 DEF SelectWorkspace, SwitchWorkspace, Issue, TableTypes
<1>5. ASSUME NEW a \in Agents, NEW k \in Keys, CreateAgent(a, k) PROVE TableTypes'
  BY <1>1, <1>5 DEF CreateAgent, TableTypes
<1>6. ASSUME NEW k \in Keys, IssueKey(k) \/ RevokeKey(k) PROVE TableTypes'
  BY <1>1, <1>6 DEF IssueKey, RevokeKey, TableTypes
<1>7. ASSUME NEW a \in Agents, DeleteAgent(a) PROVE TableTypes'
  BY <1>1, <1>7 DEF DeleteAgent, TableTypes
<1>8. ASSUME NEW m \in Seats \cup Agents, NEW on \in BOOLEAN, SetSuspended(m, on)
      PROVE  TableTypes'
  BY <1>1, <1>8 DEF SetSuspended, TableTypes
<1> QED
  BY <1>2, <1>3, <1>4, <1>5, <1>6, <1>7, <1>8 DEF Act

LEMMA TypeInit == Init => TypeOK
BY SessionsAssumption DEF Init, TypeOK, Instants, Stamps

LEMMA TypeStep ==
  ASSUME TypeOK, [Next]_vars
  PROVE  TypeOK'
<1>1. CASE Next
  <2>1. TableTypes'
    BY <1>1, StepType, OtherType DEF Next
  <2>2. held' \in [Requests -> SUBSET Locks] /\ crossed' \subseteq Users \cup Workspaces
    BY <1>1, HistoryType DEF Next
  <2> QED
    BY <2>1, <2>2 DEF TypeOK, TableTypes
<1>2. CASE UNCHANGED vars
  BY <1>2 DEF TypeOK, vars
<1> QED
  BY <1>1, <1>2

(***************************************************************************)
(* Clock, tokens, locks, keys and the requests under way keep their types, *)
(* whatever overlaps.                                                      *)
(***************************************************************************)
THEOREM TypeCorrect == Spec => []TypeOK
<1> QED
  BY TypeInit, TypeStep, PTL DEF Spec

-----------------------------------------------------------------------------
(***************************************************************************)
(* The kill switch: whole seconds against a stamp with a fraction.         *)
(***************************************************************************)
LEMMA WholeSeconds ==
  ASSUME NEW x \in Nat, NEW y \in Nat, NEW t \in Nat \ {0}
  PROVE  /\ x \div t \in Nat
         /\ x >= y => x \div t >= y \div t
         /\ x + t <= y => x \div t < y \div t
<1>1. x \div t \in Nat /\ (x >= y => x \div t >= y \div t)
  OBVIOUS
<1>2. ASSUME x + t <= y PROVE x \div t < y \div t
  <2>1. (x + t) \div t = x \div t + 1
    OBVIOUS
  <2>2. y \div t >= (x + t) \div t
    BY <1>2
  <2> QED
    BY <1>1, <2>1, <2>2
<1> QED
  BY <1>1, <1>2

(***************************************************************************)
(* A token signed after a reset is good, and one that was a second old is  *)
(* not, for any length of a second in instants.                            *)
(***************************************************************************)
THEOREM KillExact == Spec => []KillIsExact
<1>1. TypeOK => KillIsExact
  <2> SUFFICES ASSUME TypeOK, NEW t \in tokens, t.scope = "human",
                      killed[t.bearer[1]] # Never
               PROVE  /\ t.at >= killed[t.bearer[1]] => ~Killed(t)
                      /\ t.at + Ticks <= killed[t.bearer[1]] => Killed(t)
    BY DEF KillIsExact
  <2>1. t \in [scope : {"human"}, bearer : Seats, at : Instants]
    BY DEF TypeOK, Token
  <2>2. t.at \in Nat /\ t.bearer[1] \in Users
    BY <2>1, SessionsAssumption DEF Instants
  <2>3. killed[t.bearer[1]] \in Nat
    BY <2>2 DEF TypeOK, Stamps, Instants
  <2> DEFINE k == killed[t.bearer[1]]
             x == t.at
  <2>4. /\ x \div Ticks \in Nat /\ k \div Ticks \in Nat
        /\ x >= k => x \div Ticks >= k \div Ticks
        /\ x + Ticks <= k => x \div Ticks < k \div Ticks
    BY <2>2, <2>3, WholeSeconds, SessionsAssumption
  <2>5. Killed(t) <=> x \div Ticks < k \div Ticks
    BY DEF Killed, iat, Second
  <2> HIDE DEF x, k
  <2>6. /\ x >= k => ~Killed(t)
        /\ x + Ticks <= k => Killed(t)
    BY <2>4, <2>5
  <2> QED
    BY <2>6 DEF x, k
<1> QED
  BY <1>1, TypeCorrect, PTL

-----------------------------------------------------------------------------
(***************************************************************************)
(* What a request still has to look at: the locks that may have been on    *)
(* all along are those its next reads will find.                           *)
(***************************************************************************)
Fits(q, locks) ==
  /\ q.call = "gate" =>
       /\ "revoked" \notin locks
       /\ q.token.scope # "human" => "ban" \notin locks /\ "kill" \notin locks
       /\ q.stage # "member" => "gone" \notin locks /\ "seat" \notin locks
       /\ q.stage \notin {"member", "workspace"} => "workspace" \notin locks
       /\ q.stage = "served" => "ban" \notin locks /\ "kill" \notin locks
  /\ q.call = "exchange" =>
       /\ locks \subseteq {"revoked", "gone"}
       /\ q.stage # "key" => "revoked" \notin locks
       /\ q.stage = "issued" => "gone" \notin locks

Gated == \A r \in Requests : Fits(req[r], held[r])

LEMMA FewerLocks ==
  ASSUME NEW q, NEW locks, NEW fewer, Fits(q, locks), fewer \subseteq locks
  PROVE  Fits(q, fewer)
BY DEF Fits

LEMMA FitsIdle == ASSUME NEW locks PROVE Fits(Idle, locks)
BY DEF Fits, Idle

(***************************************************************************)
(* A request that a step leaves alone keeps a subset of its locks.         *)
(***************************************************************************)
LEMMA OthersFit ==
  ASSUME Gated, History, NEW s \in Requests, req'[s] = req[s]
  PROVE  Fits(req'[s], held'[s])
<1>1. CASE req[s] = Idle
  BY <1>1, FitsIdle
<1>2. CASE req[s] # Idle
  <2>1. held'[s] \subseteq held[s]
    BY <1>2 DEF History
  <2> QED
    BY <2>1, FewerLocks DEF Gated
<1> QED
  BY <1>1, <1>2

LEMMA StepFits ==
  ASSUME TypeOK, Gated, History, NEW r \in Requests, Step(r)
  PROVE  Fits(req'[r], held'[r])
<1>1. req[r] \in Call \cup {Idle}
  BY DEF TypeOK
<1>2. held'[r] = IF req[r] = Idle THEN InForce'[r] ELSE held[r] \cap InForce'[r]
  BY DEF History
<1>3. Fits(req[r], held[r])
  BY DEF Gated
<1>4. /\ req'[r].call = "gate" => InForce'[r] = LocksOfToken(req[r].token)'
      /\ req'[r].call = "exchange" => InForce'[r] = LocksOfKey(req[r].key)'
  BY DEF InForce
<1>5. ASSUME NEW t \in tokens, OpenGate(r, t) PROVE Fits(req'[r], held'[r])
  <2>1. req'[r] = [call |-> "gate", stage |-> "member", token |-> t] /\ req[r] = Idle
    BY <1>5 DEF OpenGate, Begin, TypeOK
  <2>2. held'[r] = LocksOfToken(req[r].token)'
    BY <1>2, <1>4, <2>1
  <2> QED
    BY <2>1, <2>2 DEF Fits, LocksOfToken, Killed
<1>6. ASSUME NEW stage, Advance(r, stage), req[r] # Idle
      PROVE  /\ req'[r] = [req[r] EXCEPT !.stage = stage]
             /\ held'[r] = held[r] \cap InForce'[r]
  BY <1>2, <1>6 DEF Advance, TypeOK
<1>7. req[r].call # "none" => req[r] # Idle
  BY DEF Idle
<1>8. ASSUME ReadMember(r) PROVE Fits(req'[r], held'[r])
  <2>1. req'[r] = [req[r] EXCEPT !.stage = "workspace"] /\ held'[r] = held[r] \cap InForce'[r]
    BY <1>6, <1>7, <1>8 DEF ReadMember
  <2>2. req'[r].call = "gate" /\ req'[r].token = req[r].token /\ req'[r].stage = "workspace"
    BY <1>1, <1>8, <2>1, Fields DEF ReadMember, Call
  <2>3. "gone" \notin InForce'[r] /\ "seat" \notin InForce'[r]
    BY <1>4, <1>8, <2>2 DEF ReadMember, LocksOfToken, Present
  <2> QED
    BY <1>3, <1>8, <2>1, <2>2, <2>3 DEF Fits, ReadMember
<1>9. ASSUME ReadWorkspace(r) PROVE Fits(req'[r], held'[r])
  <2>1. PICK stage : /\ stage = (IF req[r].token.scope = "human" THEN "user" ELSE "served")
                     /\ Advance(r, stage)
    BY <1>9 DEF ReadWorkspace
  <2>2. req'[r] = [req[r] EXCEPT !.stage = stage] /\ held'[r] = held[r] \cap InForce'[r]
    BY <1>6, <1>7, <1>9, <2>1 DEF ReadWorkspace
  <2>3. req'[r].call = "gate" /\ req'[r].token = req[r].token /\ req'[r].stage = stage
    BY <1>1, <1>9, <2>2, Fields DEF ReadWorkspace, Call
  <2>4. "workspace" \notin InForce'[r]
    BY <1>4, <1>9, <2>3 DEF ReadWorkspace, LocksOfToken, Workspace
  <2> QED
    BY <1>3, <1>9, <2>1, <2>2, <2>3, <2>4 DEF Fits, ReadWorkspace
<1>10. ASSUME ReadUser(r) PROVE Fits(req'[r], held'[r])
  <2>1. req'[r] = [req[r] EXCEPT !.stage = "served"] /\ held'[r] = held[r] \cap InForce'[r]
    BY <1>6, <1>7, <1>10 DEF ReadUser
  <2>2. req'[r].call = "gate" /\ req'[r].token = req[r].token /\ req'[r].stage = "served"
    BY <1>1, <1>10, <2>1, Fields DEF ReadUser, Call
  <2>3. "ban" \notin InForce'[r] /\ "kill" \notin InForce'[r]
    BY <1>4, <1>10, <2>2 DEF ReadUser, LocksOfToken, Killed
  <2> QED
    BY <1>3, <1>10, <2>1, <2>2, <2>3 DEF Fits, ReadUser
<1>11. ASSUME NEW k \in Keys, OpenExchange(r, k) PROVE Fits(req'[r], held'[r])
  <2>1. req'[r] = [call |-> "exchange", stage |-> "key", key |-> k] /\ req[r] = Idle
    BY <1>11 DEF OpenExchange, Begin, TypeOK
  <2>2. held'[r] = LocksOfKey(req[r].key)'
    BY <1>2, <1>4, <2>1
  <2> QED
    BY <2>1, <2>2 DEF Fits, LocksOfKey
<1>12. ASSUME FindKey(r) PROVE Fits(req'[r], held'[r])
  <2>1. req'[r] = [req[r] EXCEPT !.stage = "agent"] /\ held'[r] = held[r] \cap InForce'[r]
    BY <1>6, <1>7, <1>12 DEF FindKey
  <2>2. req'[r].call = "exchange" /\ req'[r].key = req[r].key /\ req'[r].stage = "agent"
    BY <1>1, <1>12, <2>1, Fields DEF FindKey, Call
  <2>3. "revoked" \notin InForce'[r]
    BY <1>4, <1>12, <2>2 DEF FindKey, LocksOfKey
  <2> QED
    BY <1>3, <1>12, <2>1, <2>2, <2>3 DEF Fits, FindKey
<1>13. ASSUME LoadAgent(r) PROVE Fits(req'[r], held'[r])
  <2>1. req'[r] = [req[r] EXCEPT !.stage = "issued"] /\ held'[r] = held[r] \cap InForce'[r]
    BY <1>6, <1>7, <1>13 DEF LoadAgent
  <2>2. req'[r].call = "exchange" /\ req'[r].key = req[r].key /\ req'[r].stage = "issued"
    BY <1>1, <1>13, <2>1, Fields DEF LoadAgent, Call
  <2>3. "gone" \notin InForce'[r]
    BY <1>4, <1>13, <2>2 DEF LoadAgent, LocksOfKey
  <2> QED
    BY <1>3, <1>13, <2>1, <2>2, <2>3 DEF Fits, LoadAgent
<1>14. ASSUME req'[r].call \notin {"gate", "exchange"} PROVE Fits(req'[r], held'[r])
  BY <1>14 DEF Fits
<1>15. ASSUME NEW u \in Users, CheckReset(r, u) PROVE req'[r].call = "reset"
  BY <1>15 DEF CheckReset, Begin, TypeOK
<1>16. ASSUME NEW u \in Users, NEW on \in BOOLEAN, CheckBan(r, u, on) PROVE req'[r].call = "ban"
  BY <1>16 DEF CheckBan, Begin, TypeOK
<1>17. ASSUME NEW w \in Workspaces, NEW on \in BOOLEAN, CheckClose(r, w, on)
       PROVE  req'[r].call = "close"
  BY <1>17 DEF CheckClose, Begin, TypeOK
<1>18. ASSUME CommitReset(r) \/ CommitBan(r) \/ CommitClose(r) \/ Finish(r)
       PROVE  req'[r].call = "none"
  BY <1>18 DEF CommitReset, CommitBan, CommitClose, Finish, End, Idle, TypeOK
<1> QED
  BY <1>5, <1>8, <1>9, <1>10, <1>11, <1>12, <1>13, <1>14, <1>15, <1>16, <1>17, <1>18 DEF Step

(***************************************************************************)
(* A step of one request leaves the other slots as they are; any other     *)
(* step leaves all of them.                                                *)
(***************************************************************************)
LEMMA SlotsApart ==
  ASSUME TypeOK, NEW r \in Requests, Step(r)
  PROVE  \A s \in Requests \ {r} : req'[s] = req[s]
BY DEF TypeOK, Step, Begin, Advance, End, OpenGate, ReadMember, ReadWorkspace, ReadUser,
   OpenExchange, FindKey, LoadAgent, CheckReset, CheckBan, CheckClose,
   CommitReset, CommitBan, CommitClose, Finish

LEMMA OthersStill == Act /\ ~ (\E r \in Requests : Step(r)) => UNCHANGED req
BY DEF Act, Tick, Login, SelectWorkspace, SwitchWorkspace, CreateAgent, IssueKey, RevokeKey,
   DeleteAgent, SetSuspended

LEMMA GatedStep ==
  ASSUME TypeOK, Gated, [Next]_vars
  PROVE  Gated'
<1>1. CASE Next
  <2>1. ASSUME NEW r \in Requests, Step(r), NEW s \in Requests
        PROVE  Fits(req'[s], held'[s])
    <3>1. History
      BY <1>1 DEF Next
    <3>2. CASE s = r
      BY <2>1, <3>1, <3>2, StepFits
    <3>3. CASE s # r
      <4>1. req'[s] = req[s]
        BY <2>1, <3>3, SlotsApart
      <4> QED
        BY <3>1, <4>1, OthersFit
    <3> QED
      BY <3>2, <3>3
  <2>2. ASSUME ~ \E r \in Requests : Step(r), NEW s \in Requests
        PROVE  Fits(req'[s], held'[s])
    <3>1. History /\ req'[s] = req[s]
      BY <1>1, <2>2, OthersStill DEF Next
    <3> QED
      BY <3>1, OthersFit
  <2> QED
    BY <2>1, <2>2 DEF Gated
<1>2. CASE UNCHANGED vars
  BY <1>2 DEF vars, Gated
<1> QED
  BY <1>1, <1>2

(***************************************************************************)
(* Whoever was let in, or got an agent's token, was not locked out all     *)
(* along: no lock was in force from the first step of the request to its   *)
(* answer, however locks are set and lifted between the reads.             *)
(***************************************************************************)
THEOREM LockedOut == Spec => []LockedOutIsOut
<1>1. Init => Gated
  BY FitsIdle DEF Init, Gated
<1>2. TypeOK /\ Gated => LockedOutIsOut
  <2> SUFFICES ASSUME TypeOK, Gated, NEW r \in Requests, req[r].stage \in {"served", "issued"}
               PROVE  held[r] = {}
    BY DEF LockedOutIsOut
  <2>1. req[r] \in Call \cup {Idle} /\ held[r] \subseteq Locks /\ Fits(req[r], held[r])
    BY DEF TypeOK, Gated
  <2>2. \/ req[r].call = "gate" /\ req[r].stage = "served"
        \/ req[r].call = "exchange" /\ req[r].stage = "issued"
    BY <2>1 DEF Call, Idle
  <2> QED
    BY <2>1, <2>2 DEF Fits, Locks
<1> QED
  BY <1>1, <1>2, GatedStep, TypeCorrect, PTL DEF Spec

-----------------------------------------------------------------------------
(***************************************************************************)
(* Stamps.  A call that is alone on its row finds it as old as when it     *)
(* decided; if there are two the row is crossed.                           *)
(***************************************************************************)
Past == \A u \in Users : killed[u] <= clock

Timely ==
  /\ \A r \in Requests : req[r].call = "reset" =>
       /\ req[r].stamp <= clock
       /\ req[r].row \notin crossed => killed[req[r].row] <= req[r].stamp
  /\ \A r \in Requests : req[r].call = "close" =>
       ((req[r].row \notin crossed /\ req[r].stamp # Never) => closed[req[r].row] = Never)

Alone == Contended \subseteq crossed

StampInv == TypeOK /\ Past /\ Timely /\ Alone

Kept ==
  /\ \A u \in Users \ crossed' : killed[u] <= killed'[u]
  /\ \A w \in Workspaces \ crossed' : closed[w] # Never => closed'[w] \in {closed[w], Never}

LEMMA AloneStep == ASSUME History PROVE Alone' /\ crossed \subseteq crossed'
BY DEF History, Alone

Numbers ==
  /\ clock \in Nat
  /\ \A u \in Users : killed[u] \in Int /\ (killed[u] = Never \/ killed[u] \in Nat)

LEMMA StampNumbers == TypeOK => Numbers
BY SessionsAssumption DEF TypeOK, Numbers, Stamps, Instants, Never

LEMMA StampNumbersNext == TypeOK' => Numbers'
BY StampNumbers, PTL

(***************************************************************************)
(* A step that writes no stamp and decides on none.                        *)
(***************************************************************************)
LEMMA QuietStep ==
  ASSUME StampInv, History, TypeOK',
         clock <= clock', UNCHANGED <<killed, closed>>,
         \A r \in Requests : req'[r] = req[r] \/ req'[r].call \notin {"reset", "close"}
  PROVE  StampInv' /\ Kept
<1>0. Numbers
  BY StampNumbers DEF StampInv
<1>1. Numbers /\ Numbers'
  BY <1>0, StampNumbersNext
<1>2. Alone' /\ crossed \subseteq crossed'
  BY AloneStep
<1>3. Past'
  BY <1>1 DEF StampInv, Past, Numbers
<1>4. Timely'
  <2>1. ASSUME NEW r \in Requests, req'[r].call = "reset"
        PROVE  /\ req'[r].stamp <= clock'
               /\ req'[r].row \notin crossed' => killed'[req'[r].row] <= req'[r].stamp
    <3>1. req'[r] = req[r]
      BY <2>1
    <3>2. req[r].stamp \in Nat
      BY <2>1, <3>1, Fields, SessionsAssumption DEF StampInv, TypeOK, Instants
    <3> QED
      BY <1>1, <1>2, <2>1, <3>1, <3>2 DEF StampInv, Timely, Numbers
  <2>2. ASSUME NEW r \in Requests, req'[r].call = "close",
               req'[r].row \notin crossed', req'[r].stamp # Never
        PROVE  closed'[req'[r].row] = Never
    BY <1>2, <2>2 DEF StampInv, Timely
  <2> QED
    BY <2>1, <2>2 DEF Timely
<1>5. Kept
  BY <1>1 DEF Numbers, Kept
<1> QED
  BY <1>2, <1>3, <1>4, <1>5 DEF StampInv

(***************************************************************************)
(* Two calls under way that are about to stamp one row cross there.        *)
(***************************************************************************)
LEMMA Crossing ==
  ASSUME StampInv, NEW r \in Requests, NEW s \in Requests, r # s,
         req[r].call = req[s].call, req[r].call \in {"reset", "close"},
         req[r].row = req[s].row
  PROVE  req[r].row \in crossed
<1>1. req[r] \in Call \cup {Idle}
  BY DEF StampInv, TypeOK
<1>2. req[r].row \in Users \cup Workspaces
  BY <1>1, Fields
<1> QED
  BY <1>2 DEF StampInv, Alone, Contended

(***************************************************************************)
(* The steps about stamps: a decision takes the present instant, a commit  *)
(* writes it, and whoever else is about to write there has crossed.        *)
(***************************************************************************)
LEMMA ResetDecided ==
  ASSUME StampInv, History, TypeOK', NEW r \in Requests, NEW u \in Users, CheckReset(r, u)
  PROVE  StampInv' /\ Kept
<1>0. Numbers
  BY StampNumbers DEF StampInv
<1>1. Alone' /\ crossed \subseteq crossed'
  BY AloneStep
<1>2. /\ req' = [req EXCEPT ![r] =
                  [call |-> "reset", stage |-> "decided", row |-> u, stamp |-> clock]]
      /\ UNCHANGED <<clock, killed, closed>>
  BY DEF CheckReset, Begin
<1>3. req'[r] = [call |-> "reset", stage |-> "decided", row |-> u, stamp |-> clock]
  BY <1>2 DEF StampInv, TypeOK
<1>4. \A s \in Requests \ {r} : req'[s] = req[s]
  BY <1>2 DEF StampInv, TypeOK
<1>5. Past'
  BY <1>2 DEF StampInv, Past
<1>6. ASSUME NEW s \in Requests, req'[s].call = "reset"
      PROVE  /\ req'[s].stamp <= clock'
             /\ req'[s].row \notin crossed' => killed'[req'[s].row] <= req'[s].stamp
  <2>1. CASE s = r
    BY <1>0, <1>2, <1>3, <2>1 DEF StampInv, Past, Numbers
  <2>2. CASE s # r
    BY <1>1, <1>2, <1>4, <1>6, <2>2 DEF StampInv, Timely
  <2> QED
    BY <2>1, <2>2
<1>7. ASSUME NEW s \in Requests, req'[s].call = "close",
             req'[s].row \notin crossed', req'[s].stamp # Never
      PROVE  closed'[req'[s].row] = Never
  <2>1. s # r
    BY <1>3, <1>7
  <2> QED
    BY <1>1, <1>2, <1>4, <1>7, <2>1 DEF StampInv, Timely
<1>8. Timely'
  BY <1>6, <1>7 DEF Timely
<1>9. Kept
  BY <1>0, <1>2 DEF Kept, Numbers
<1> QED
  BY <1>1, <1>5, <1>8, <1>9 DEF StampInv

LEMMA CloseDecided ==
  ASSUME StampInv, History, TypeOK', NEW r \in Requests, NEW w \in Workspaces,
         NEW on \in BOOLEAN, CheckClose(r, w, on)
  PROVE  StampInv' /\ Kept
<1>0. Numbers
  BY StampNumbers DEF StampInv
<1>1. Alone' /\ crossed \subseteq crossed'
  BY AloneStep
<1>2. PICK stamp : /\ stamp = (IF on THEN clock ELSE Never)
                   /\ req' = [req EXCEPT ![r] = [call |-> "close", stage |-> "decided",
                                                 row |-> w, stamp |-> stamp]]
                   /\ UNCHANGED <<clock, killed, closed>>
                   /\ on => closed[w] = Never
  BY DEF CheckClose, Begin
<1>3. req'[r] = [call |-> "close", stage |-> "decided", row |-> w, stamp |-> stamp]
  BY <1>2 DEF StampInv, TypeOK
<1>4. \A s \in Requests \ {r} : req'[s] = req[s]
  BY <1>2 DEF StampInv, TypeOK
<1>5. Past'
  BY <1>2 DEF StampInv, Past
<1>6. ASSUME NEW s \in Requests, req'[s].call = "reset"
      PROVE  /\ req'[s].stamp <= clock'
             /\ req'[s].row \notin crossed' => killed'[req'[s].row] <= req'[s].stamp
  <2>1. s # r
    BY <1>3, <1>6
  <2> QED
    BY <1>1, <1>2, <1>4, <1>6, <2>1 DEF StampInv, Timely
<1>7. ASSUME NEW s \in Requests, req'[s].call = "close",
             req'[s].row \notin crossed', req'[s].stamp # Never
      PROVE  closed'[req'[s].row] = Never
  <2>1. CASE s = r
    BY <1>2, <1>3, <1>7, <2>1
  <2>2. CASE s # r
    BY <1>1, <1>2, <1>4, <1>7, <2>2 DEF StampInv, Timely
  <2> QED
    BY <2>1, <2>2
<1>8. Timely'
  BY <1>6, <1>7 DEF Timely
<1>9. Kept
  BY <1>0, <1>2 DEF Kept, Numbers
<1> QED
  BY <1>1, <1>5, <1>8, <1>9 DEF StampInv

LEMMA ResetWritten ==
  ASSUME StampInv, History, TypeOK', NEW r \in Requests, CommitReset(r)
  PROVE  StampInv' /\ Kept
<1>0. Numbers
  BY StampNumbers DEF StampInv
<1>1. Alone' /\ crossed \subseteq crossed'
  BY AloneStep
<1>2. PICK u, stamp : u = req[r].row /\ stamp = req[r].stamp
  OBVIOUS
<1>3. /\ req[r].call = "reset" /\ u \in Users /\ stamp \in Nat
  BY <1>2, Fields, SessionsAssumption DEF CommitReset, StampInv, TypeOK, Instants
<1>4. /\ killed' = [killed EXCEPT ![u] = stamp]
      /\ req' = [req EXCEPT ![r] = Idle]
      /\ UNCHANGED <<clock, closed>>
  BY <1>2 DEF CommitReset, End
<1>5. /\ killed'[u] = stamp
      /\ \A v \in Users \ {u} : killed'[v] = killed[v]
      /\ req'[r].call = "none"
      /\ \A s \in Requests \ {r} : req'[s] = req[s]
  BY <1>3, <1>4 DEF StampInv, TypeOK, Idle
<1>6. Past'
  <2>1. stamp <= clock
    BY <1>2, <1>3 DEF StampInv, Timely
  <2> QED
    BY <1>4, <1>5, <2>1 DEF StampInv, Past
<1>7. ASSUME NEW s \in Requests, req'[s].call = "reset"
      PROVE  /\ req'[s].stamp <= clock'
             /\ req'[s].row \notin crossed' => killed'[req'[s].row] <= req'[s].stamp
  <2>1. s # r /\ req'[s] = req[s]
    BY <1>5, <1>7
  <2>2. req[s].row \in Users
    BY <1>7, <2>1, Fields DEF StampInv, TypeOK
  <2>3. CASE req[s].row = u
    BY <1>1, <1>2, <1>3, <1>4, <1>7, <2>1, <2>3, Crossing DEF StampInv, Timely
  <2>4. CASE req[s].row # u
    BY <1>1, <1>4, <1>5, <1>7, <2>1, <2>2, <2>4 DEF StampInv, Timely
  <2> QED
    BY <2>3, <2>4
<1>8. ASSUME NEW s \in Requests, req'[s].call = "close",
             req'[s].row \notin crossed', req'[s].stamp # Never
      PROVE  closed'[req'[s].row] = Never
  <2>1. s # r
    BY <1>5, <1>8
  <2> QED
    BY <1>1, <1>4, <1>5, <1>8, <2>1 DEF StampInv, Timely
<1>9. Timely'
  BY <1>7, <1>8 DEF Timely
<1>10. ASSUME NEW v \in Users \ crossed' PROVE killed[v] <= killed'[v]
  <2>1. CASE v = u
    BY <1>1, <1>2, <1>3, <1>5, <1>10, <2>1 DEF StampInv, Timely
  <2>2. CASE v # u
    BY <1>0, <1>5, <2>2 DEF Numbers
  <2> QED
    BY <2>1, <2>2
<1> QED
  BY <1>1, <1>4, <1>6, <1>9, <1>10 DEF StampInv, Kept

LEMMA CloseWritten ==
  ASSUME StampInv, History, TypeOK', NEW r \in Requests, CommitClose(r)
  PROVE  StampInv' /\ Kept
<1>0. Numbers
  BY StampNumbers DEF StampInv
<1>1. Alone' /\ crossed \subseteq crossed'
  BY AloneStep
<1>2. PICK w, stamp : w = req[r].row /\ stamp = req[r].stamp
  OBVIOUS
<1>3. req[r].call = "close" /\ w \in Workspaces
  BY <1>2, Fields DEF CommitClose, StampInv, TypeOK
<1>4. /\ closed' = [closed EXCEPT ![w] = stamp]
      /\ req' = [req EXCEPT ![r] = Idle]
      /\ UNCHANGED <<clock, killed>>
  BY <1>2 DEF CommitClose, End
<1>5. /\ closed'[w] = stamp
      /\ \A v \in Workspaces \ {w} : closed'[v] = closed[v]
      /\ req'[r].call = "none"
      /\ \A s \in Requests \ {r} : req'[s] = req[s]
  BY <1>3, <1>4 DEF StampInv, TypeOK, Idle
<1>6. Past'
  BY <1>4 DEF StampInv, Past
<1>7. ASSUME NEW s \in Requests, req'[s].call = "reset"
      PROVE  /\ req'[s].stamp <= clock'
             /\ req'[s].row \notin crossed' => killed'[req'[s].row] <= req'[s].stamp
  <2>1. s # r
    BY <1>5, <1>7
  <2> QED
    BY <1>1, <1>4, <1>5, <1>7, <2>1 DEF StampInv, Timely
<1>8. ASSUME NEW s \in Requests, req'[s].call = "close",
             req'[s].row \notin crossed', req'[s].stamp # Never
      PROVE  closed'[req'[s].row] = Never
  <2>1. s # r /\ req'[s] = req[s]
    BY <1>5, <1>8
  <2>2. req[s].row \in Workspaces
    BY <1>8, <2>1, Fields DEF StampInv, TypeOK
  <2>3. CASE req[s].row = w
    BY <1>1, <1>2, <1>3, <1>8, <2>1, <2>3, Crossing
  <2>4. CASE req[s].row # w
    BY <1>1, <1>5, <1>8, <2>1, <2>2, <2>4 DEF StampInv, Timely
  <2> QED
    BY <2>3, <2>4
<1>9. Timely'
  BY <1>7, <1>8 DEF Timely
<1>10. ASSUME NEW v \in Workspaces \ crossed', closed[v] # Never
       PROVE  closed'[v] \in {closed[v], Never}
  <2>1. CASE v = w
    BY <1>1, <1>2, <1>3, <1>5, <1>10, <2>1 DEF StampInv, Timely
  <2>2. CASE v # w
    BY <1>5, <2>2
  <2> QED
    BY <2>1, <2>2
<1> QED
  BY <1>0, <1>1, <1>4, <1>6, <1>9, <1>10 DEF StampInv, Kept, Numbers

LEMMA StampStep ==
  ASSUME StampInv, [Next]_vars
  PROVE  StampInv' /\ [Kept]_vars
<1>1. TypeOK'
  BY TypeStep DEF StampInv
<1>2. CASE UNCHANGED vars
  BY <1>1, <1>2 DEF vars, StampInv, Past, Timely, Alone, Contended
<1>3. ASSUME Next, NEW r \in Requests, Step(r) PROVE StampInv' /\ Kept
  <2>1. History
    BY <1>3 DEF Next
  <2>2. \A s \in Requests \ {r} : req'[s] = req[s]
    BY <1>3, SlotsApart DEF StampInv
  <2>3. clock \in Nat
    BY StampNumbers DEF StampInv, Numbers
  <2>4. ASSUME req'[r].call \notin {"reset", "close"}, UNCHANGED <<clock, killed, closed>>
        PROVE  StampInv' /\ Kept
    BY <1>1, <2>1, <2>2, <2>3, <2>4, QuietStep
  <2>5. ASSUME NEW t \in tokens, OpenGate(r, t) PROVE StampInv' /\ Kept
    BY <2>4, <2>5 DEF OpenGate, Begin, StampInv, TypeOK
  <2>6. ASSUME NEW k \in Keys, OpenExchange(r, k) PROVE StampInv' /\ Kept
    BY <2>4, <2>6 DEF OpenExchange, Begin, StampInv, TypeOK
  <2>7. ASSUME NEW stage, Advance(r, stage), req[r].call \in {"gate", "exchange"}
        PROVE  req'[r].call \notin {"reset", "close"}
    <3>1. req'[r] = [req[r] EXCEPT !.stage = stage]
      BY <2>7 DEF Advance, StampInv, TypeOK
    <3>2. req[r] \in Call
      BY <2>7 DEF StampInv, TypeOK, Idle
    <3>3. req'[r].call = req[r].call
      BY <3>1, <3>2 DEF Call
    <3> QED
      BY <2>7, <3>3
  <2>8. ASSUME ReadMember(r) \/ ReadWorkspace(r) \/ ReadUser(r) \/ FindKey(r) \/ LoadAgent(r)
        PROVE  StampInv' /\ Kept
    <3>1. req'[r].call \notin {"reset", "close"}
      BY <2>7, <2>8 DEF ReadMember, ReadWorkspace, ReadUser, FindKey, LoadAgent
    <3> QED
      BY <2>4, <2>8, <3>1 DEF ReadMember, ReadWorkspace, ReadUser, FindKey, LoadAgent
  <2>9. ASSUME NEW u \in Users, NEW on \in BOOLEAN, CheckBan(r, u, on) PROVE StampInv' /\ Kept
    BY <2>4, <2>9 DEF CheckBan, Begin, StampInv, TypeOK
  <2>10. ASSUME CommitBan(r) \/ Finish(r) PROVE StampInv' /\ Kept
    BY <2>4, <2>10 DEF CommitBan, Finish, End, Idle, StampInv, TypeOK
  <2> QED
    BY <1>1, <1>3, <2>1, <2>5, <2>6, <2>8, <2>9, <2>10, ResetDecided, CloseDecided,
       ResetWritten, CloseWritten DEF Step
<1>4. ASSUME Next, ~ \E r \in Requests : Step(r) PROVE StampInv' /\ Kept
  <2>1. History /\ UNCHANGED req
    BY <1>4, OthersStill DEF Next
  <2>2. clock \in Nat
    BY StampNumbers DEF StampInv, Numbers
  <2>3. clock <= clock' /\ UNCHANGED <<killed, closed>>
    BY <1>4, <2>2 DEF Next, Act, Tick, Login, SelectWorkspace, SwitchWorkspace, CreateAgent,
       IssueKey, RevokeKey, DeleteAgent, SetSuspended
  <2> QED
    BY <1>1, <2>1, <2>3, QuietStep
<1> QED
  BY <1>2, <1>3, <1>4

(***************************************************************************)
(* No reset revives the sessions an earlier one ended, and a suspended     *)
(* workspace keeps its stamp, on every row where no two such calls were    *)
(* under way at once.                                                      *)
(***************************************************************************)
THEOREM StampsKept == Spec => StampsAreKept
<1>1. Init => StampInv
  <2> SUFFICES ASSUME Init PROVE StampInv
    OBVIOUS
  <2>1. TypeOK
    BY TypeInit
  <2>2. Past
    BY DEF Init, Past, Never
  <2>3. Timely
    BY DEF Init, Timely, Idle
  <2>4. Alone
    BY DEF Init, Alone, Contended, Idle
  <2> QED
    BY <2>1, <2>2, <2>3, <2>4 DEF StampInv
<1>2. [Kept]_vars => [/\ \A u \in Users \ crossed' : killed[u] <= killed'[u]
                      /\ \A w \in Workspaces \ crossed' :
                           closed[w] # Never => closed'[w] \in {closed[w], Never}]_vars
  BY DEF Kept
<1> QED
  BY <1>1, <1>2, StampStep, PTL DEF Spec, StampsAreKept
=============================================================================
