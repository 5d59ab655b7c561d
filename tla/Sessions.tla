------------------------------ MODULE Sessions -------------------------------
(***************************************************************************)
(* Signed tokens and the locks the platform puts on their bearers.         *)
(*                                                                         *)
(* The service keeps no sessions: a token carries its bearer and the       *)
(* second it was issued in, and every request is let in or turned away by  *)
(* the rows it finds.  The gate (get_current_principal) reads them one     *)
(* after the other, member, workspace, user, and a lock may be set or      *)
(* lifted between two of its reads.  So may a key be revoked or its agent  *)
(* deleted while it is exchanged for a token, and so may the back office   *)
(* set a lock that it found unset, twice.                                  *)
(*                                                                         *)
(* Time is counted in instants, Ticks of them to a second.  Every API      *)
(* process reads the same clock.  Rows are stamped with instants, tokens   *)
(* with seconds.                                                           *)
(***************************************************************************)
EXTENDS Integers, FiniteSets

CONSTANTS
  Users, Workspaces,
  Seats,         \* the memberships: pairs of a user and a workspace
  Operators,     \* users.is_superadmin
  Agents, Home,  \* agents, and the workspace of each
  Keys, KeyOf,   \* agent API keys, and the agent of each
  Requests,      \* slots for requests in flight
  Ticks,         \* instants to the second
  TTL,           \* seconds a token lives, by its scope
  Horizon        \* bound: the last instant

Scopes == {"human", "agent", "select"}

ASSUME SessionsAssumption ==
  /\ Seats \subseteq Users \X Workspaces
  /\ Operators \subseteq Users
  /\ Home \in [Agents -> Workspaces]
  /\ KeyOf \in [Keys -> Agents]
  /\ Agents \cap (Seats \cup Users) = {}
  /\ Users \cap Workspaces = {}
  /\ Ticks \in Nat \ {0}
  /\ TTL \in [Scopes -> Nat \ {0}]
  /\ Horizon \in Nat

VARIABLES
  clock,      \* the present instant
  tokens,     \* the tokens about
  suspended,  \* members with is_suspended
  closed,     \* workspaces.suspended_at
  banned,     \* users with is_banned
  killed,     \* users.sessions_invalidated_at
  agents,     \* the agents that have a row
  keys,       \* the state of each row of agent_api_keys
  req,        \* the request in each slot
  held,       \* history: the locks in force ever since a request began
  crossed     \* history: rows that two back-office calls changed at a time

vars == <<clock, tokens, suspended, closed, banned, killed, agents, keys, req,
          held, crossed>>

Instants == 0..Horizon
Never == -1                     \* NULL in a column of stamps
Stamps == Instants \cup {Never}

Second(instant) == instant \div Ticks

(***************************************************************************)
(* Tokens.  iat is the second of the instant of issue; exp is TTL seconds  *)
(* after it.                                                               *)
(***************************************************************************)
Token ==
  [scope : {"human"}, bearer : Seats, at : Instants]
    \cup [scope : {"agent"}, bearer : Agents, at : Instants]
    \cup [scope : {"select"}, bearer : Users, at : Instants]

NewToken(scope, bearer) == [scope |-> scope, bearer |-> bearer, at |-> clock]

iat(t) == Second(t.at)

Alive(t) == clock < (iat(t) + TTL[t.scope]) * Ticks

SeatsOf(u) == {s \in Seats : s[1] = u}
Workspace(t) == IF t.scope = "human" THEN t.bearer[2] ELSE Home[t.bearer]

Call ==
  [call : {"gate"}, stage : {"member", "workspace", "user", "served"},
   token : Token]
    \cup [call : {"exchange"}, stage : {"key", "agent", "issued"}, key : Keys]
    \cup [call : {"reset"}, stage : {"decided"}, row : Users, stamp : Instants]
    \cup [call : {"close"}, stage : {"decided"}, row : Workspaces, stamp : Stamps]
    \cup [call : {"ban"}, stage : {"decided"}, row : Users, value : BOOLEAN]

Idle == [call |-> "none", stage |-> "idle"]

Locks == {"gone", "seat", "workspace", "ban", "kill", "revoked"}

TypeOK ==
  /\ clock \in Instants
  /\ tokens \subseteq Token
  /\ suspended \subseteq Seats \cup Agents
  /\ closed \in [Workspaces -> Stamps]
  /\ banned \subseteq Users
  /\ killed \in [Users -> Stamps]
  /\ agents \subseteq Agents
  /\ keys \in [Keys -> {"none", "active", "revoked", "deleted"}]
  /\ req \in [Requests -> Call \cup {Idle}]
  /\ held \in [Requests -> SUBSET Locks]
  /\ crossed \subseteq Users \cup Workspaces

Init ==
  /\ clock = 0
  /\ tokens = {}
  /\ suspended = {}
  /\ closed = [w \in Workspaces |-> Never]
  /\ banned = {}
  /\ killed = [u \in Users |-> Never]
  /\ agents = {}
  /\ keys = [k \in Keys |-> "none"]
  /\ req = [r \in Requests |-> Idle]
  /\ held = [r \in Requests |-> {}]
  /\ crossed = {}

(***************************************************************************)
(* Time passes.  A token that has expired is of no use again.              *)
(***************************************************************************)
Tick ==
  /\ clock < Horizon
  /\ clock' = clock + 1
  /\ tokens' = {t \in tokens : clock + 1 < (iat(t) + TTL[t.scope]) * Ticks}
  /\ UNCHANGED <<suspended, closed, banned, killed, agents, keys, req>>

-----------------------------------------------------------------------------
(***************************************************************************)
(* Logging in, by password or with a provider: one seat, and the token is  *)
(* for it; several, and a selection token is exchanged for the seat that   *)
(* is picked.  None of this looks at a lock; the gate does.                *)
(***************************************************************************)
Issue(scope, bearer) == tokens' = tokens \cup {NewToken(scope, bearer)}

Login(u) ==
  /\ SeatsOf(u) # {}
  /\ IF Cardinality(SeatsOf(u)) = 1
       THEN \E s \in SeatsOf(u) : Issue("human", s)
       ELSE Issue("select", u)
  /\ UNCHANGED <<clock, suspended, closed, banned, killed, agents, keys, req>>

SelectWorkspace(t, s) ==
  /\ t.scope = "select" /\ Alive(t)
  /\ s \in SeatsOf(t.bearer)
  /\ Issue("human", s)
  /\ UNCHANGED <<clock, suspended, closed, banned, killed, agents, keys, req>>

\* Reached without the gate (RawPrincipalDep), to leave a suspended seat for
\* another; an agent has no user and is refused.
SwitchWorkspace(t, s) ==
  /\ t.scope = "human" /\ Alive(t)
  /\ s \in SeatsOf(t.bearer[1])
  /\ Issue("human", s)
  /\ UNCHANGED <<clock, suspended, closed, banned, killed, agents, keys, req>>

-----------------------------------------------------------------------------
(***************************************************************************)
(* The gate.                                                               *)
(***************************************************************************)
\* Mutant: the kill stamp is compared with its fraction of a second.
KilledToTheInstant(t) ==
  /\ t.scope = "human"
  /\ killed[t.bearer[1]] # Never
  /\ iat(t) * Ticks < killed[t.bearer[1]]

Killed(t) ==
  /\ t.scope = "human"
  /\ killed[t.bearer[1]] # Never
  /\ iat(t) < Second(killed[t.bearer[1]])

Present(t) == t.scope = "human" \/ t.bearer \in agents

Advance(r, stage) == req' = [req EXCEPT ![r].stage = stage]
Begin(r, q) == req[r] = Idle /\ req' = [req EXCEPT ![r] = q]
End(r) == req' = [req EXCEPT ![r] = Idle]

\* The token is decoded.  A selection token names no workspace: malformed.
OpenGate(r, t) ==
  /\ t.scope # "select" /\ Alive(t)
  /\ Begin(r, [call |-> "gate", stage |-> "member", token |-> t])
  /\ UNCHANGED <<clock, tokens, suspended, closed, banned, killed, agents, keys>>

ReadMember(r) ==
  /\ req[r].call = "gate" /\ req[r].stage = "member"
  /\ Present(req[r].token)
  /\ req[r].token.bearer \notin suspended
  /\ Advance(r, "workspace")
  /\ UNCHANGED <<clock, tokens, suspended, closed, banned, killed, agents, keys>>

ReadWorkspace(r) ==
  /\ req[r].call = "gate" /\ req[r].stage = "workspace"
  /\ closed[Workspace(req[r].token)] = Never
  /\ Advance(r, IF req[r].token.scope = "human" THEN "user" ELSE "served")
  /\ UNCHANGED <<clock, tokens, suspended, closed, banned, killed, agents, keys>>

ReadUser(r) ==
  /\ req[r].call = "gate" /\ req[r].stage = "user"
  /\ req[r].token.bearer[1] \notin banned
  /\ ~Killed(req[r].token)
  /\ Advance(r, "served")
  /\ UNCHANGED <<clock, tokens, suspended, closed, banned, killed, agents, keys>>

\* A request is answered, refused or rolled back.
Finish(r) ==
  /\ req[r] # Idle
  /\ End(r)
  /\ UNCHANGED <<clock, tokens, suspended, closed, banned, killed, agents, keys>>

-----------------------------------------------------------------------------
(***************************************************************************)
(* Agents and their keys.  Who may manage them is the subject of Access.   *)
(* A suspended agent may still exchange its key; the gate stops it.        *)
(***************************************************************************)
\* An agent comes with its first key, so that one that was deleted has a key.
CreateAgent(a, k) ==
  /\ a \notin agents /\ KeyOf[k] = a
  /\ \A x \in Keys : KeyOf[x] = a => keys[x] = "none"
  /\ agents' = agents \cup {a}
  /\ keys' = [keys EXCEPT ![k] = "active"]
  /\ UNCHANGED <<clock, tokens, suspended, closed, banned, killed, req>>

IssueKey(k) ==
  /\ KeyOf[k] \in agents
  /\ keys[k] = "none"
  /\ keys' = [keys EXCEPT ![k] = "active"]
  /\ UNCHANGED <<clock, tokens, suspended, closed, banned, killed, agents, req>>

RevokeKey(k) ==
  /\ KeyOf[k] \in agents
  /\ keys[k] = "active"
  /\ keys' = [keys EXCEPT ![k] = "revoked"]
  /\ UNCHANGED <<clock, tokens, suspended, closed, banned, killed, agents, req>>

\* Refused while the agent is the creator of a task or of another's key; who
\* created what is not kept here.
DeleteAgent(a) ==
  /\ a \in agents
  /\ agents' = agents \ {a}
  /\ keys' = [k \in Keys |-> IF KeyOf[k] = a /\ keys[k] # "none" THEN "deleted" ELSE keys[k]]
  /\ suspended' = suspended \ {a}
  /\ UNCHANGED <<clock, tokens, closed, banned, killed, req>>

OpenExchange(r, k) ==
  /\ keys[k] # "none"
  /\ Begin(r, [call |-> "exchange", stage |-> "key", key |-> k])
  /\ UNCHANGED <<clock, tokens, suspended, closed, banned, killed, agents, keys>>

\* Mutant: the lookup goes by the hash alone.
FindKeyOfAnyState(r) ==
  /\ req[r].call = "exchange" /\ req[r].stage = "key"
  /\ keys[req[r].key] \in {"active", "revoked"}
  /\ Advance(r, "agent")
  /\ UNCHANGED <<clock, tokens, suspended, closed, banned, killed, agents, keys>>

FindKey(r) ==
  /\ req[r].call = "exchange" /\ req[r].stage = "key"
  /\ keys[req[r].key] = "active"
  /\ Advance(r, "agent")
  /\ UNCHANGED <<clock, tokens, suspended, closed, banned, killed, agents, keys>>

\* The agent is read once; the two stamps that follow are no-ops on rows that
\* have gone, and the token is signed from what was read.
LoadAgent(r) ==
  /\ req[r].call = "exchange" /\ req[r].stage = "agent"
  /\ KeyOf[req[r].key] \in agents
  /\ Issue("agent", KeyOf[req[r].key])
  /\ Advance(r, "issued")
  /\ UNCHANGED <<clock, suspended, closed, banned, killed, agents, keys>>

-----------------------------------------------------------------------------
(***************************************************************************)
(* Locks.  A workspace admin suspends a seat in one statement.  The calls  *)
(* of the back office read the row, decide, and write it; their gate reads *)
(* no lock.                                                                *)
(***************************************************************************)
SetSuspended(m, on) ==
  /\ m \in Seats \cup agents
  /\ (m \in suspended) # on
  /\ suspended' = IF on THEN suspended \cup {m} ELSE suspended \ {m}
  /\ UNCHANGED <<clock, tokens, closed, banned, killed, agents, keys, req>>

OperatorToken(t) ==
  /\ t \in tokens /\ t.scope = "human" /\ Alive(t)
  /\ t.bearer[1] \in Operators

\* Self-reset is allowed.  The stamp is taken before the row is written.
CheckReset(r, u) ==
  /\ \E t \in tokens : OperatorToken(t)
  /\ Begin(r, [call |-> "reset", stage |-> "decided", row |-> u, stamp |-> clock])
  /\ UNCHANGED <<clock, tokens, suspended, closed, banned, killed, agents, keys>>

CommitReset(r) ==
  /\ req[r].call = "reset"
  /\ killed' = [killed EXCEPT ![req[r].row] = req[r].stamp]
  /\ End(r)
  /\ UNCHANGED <<clock, tokens, suspended, closed, banned, agents, keys>>

CheckBan(r, u, on) ==
  /\ \E t \in tokens : OperatorToken(t) /\ t.bearer[1] # u
  /\ u \notin Operators
  /\ (u \in banned) # on
  /\ Begin(r, [call |-> "ban", stage |-> "decided", row |-> u, value |-> on])
  /\ UNCHANGED <<clock, tokens, suspended, closed, banned, killed, agents, keys>>

CommitBan(r) ==
  /\ req[r].call = "ban"
  /\ banned' = IF req[r].value THEN banned \cup {req[r].row} ELSE banned \ {req[r].row}
  /\ End(r)
  /\ UNCHANGED <<clock, tokens, suspended, closed, killed, agents, keys>>

\* Mutant: a suspension stamps a workspace that is suspended already.
CheckCloseAgain(r, w, on) ==
  /\ \E t \in tokens : OperatorToken(t)
  /\ Begin(r, [call |-> "close", stage |-> "decided", row |-> w,
               stamp |-> IF on THEN clock ELSE Never])
  /\ UNCHANGED <<clock, tokens, suspended, closed, banned, killed, agents, keys>>

CheckClose(r, w, on) ==
  /\ \E t \in tokens : OperatorToken(t)
  /\ (closed[w] = Never) = on
  /\ Begin(r, [call |-> "close", stage |-> "decided", row |-> w,
               stamp |-> IF on THEN clock ELSE Never])
  /\ UNCHANGED <<clock, tokens, suspended, closed, banned, killed, agents, keys>>

CommitClose(r) ==
  /\ req[r].call = "close"
  /\ closed' = [closed EXCEPT ![req[r].row] = req[r].stamp]
  /\ End(r)
  /\ UNCHANGED <<clock, tokens, suspended, banned, killed, agents, keys>>

-----------------------------------------------------------------------------
(***************************************************************************)
(* History.                                                                *)
(***************************************************************************)
LocksOfToken(t) ==
  {l \in Locks :
     \/ l = "gone" /\ ~Present(t)
     \/ l = "seat" /\ t.bearer \in suspended
     \/ l = "workspace" /\ closed[Workspace(t)] # Never
     \/ l = "ban" /\ t.scope = "human" /\ t.bearer[1] \in banned
     \/ l = "kill" /\ Killed(t)}

LocksOfKey(k) ==
  {l \in Locks :
     \/ l = "revoked" /\ keys[k] # "active"
     \/ l = "gone" /\ KeyOf[k] \notin agents}

\* The locks in force on what the request in a slot was made with.
InForce ==
  [r \in Requests |->
     IF req[r].call = "gate" THEN LocksOfToken(req[r].token)
     ELSE IF req[r].call = "exchange" THEN LocksOfKey(req[r].key) ELSE {}]

\* Rows that two calls under way have both decided to stamp.
Contended ==
  {x \in Users \cup Workspaces :
     \E r, s \in Requests :
       /\ r # s
       /\ req[r].call = req[s].call /\ req[r].call \in {"reset", "close"}
       /\ req[r].row = x /\ req[s].row = x}

History ==
  /\ held' = [r \in Requests |->
                IF req[r] = Idle THEN InForce'[r] ELSE held[r] \cap InForce'[r]]
  /\ crossed' = crossed \cup Contended'

Step(r) ==
  \/ \E t \in tokens : OpenGate(r, t)
  \/ ReadMember(r) \/ ReadWorkspace(r) \/ ReadUser(r)
  \/ \E k \in Keys : OpenExchange(r, k)
  \/ FindKey(r) \/ LoadAgent(r)
  \/ \E u \in Users : CheckReset(r, u)
  \/ \E u \in Users, on \in BOOLEAN : CheckBan(r, u, on)
  \/ \E w \in Workspaces, on \in BOOLEAN : CheckClose(r, w, on)
  \/ CommitReset(r) \/ CommitBan(r) \/ CommitClose(r)
  \/ Finish(r)

Act ==
  \/ Tick
  \/ \E u \in Users : Login(u)
  \/ \E t \in tokens, s \in Seats : SelectWorkspace(t, s) \/ SwitchWorkspace(t, s)
  \/ \E a \in Agents, k \in Keys : CreateAgent(a, k)
  \/ \E k \in Keys : IssueKey(k) \/ RevokeKey(k)
  \/ \E a \in Agents : DeleteAgent(a)
  \/ \E m \in Seats \cup Agents, on \in BOOLEAN : SetSuspended(m, on)
  \/ \E r \in Requests : Step(r)

Next == Act /\ History

Spec == Init /\ [][Next]_vars

-----------------------------------------------------------------------------
(***************************************************************************)
(* Properties.                                                             *)
(***************************************************************************)
(***************************************************************************)
(* Whoever was let in was not locked out all along: a suspension, a ban, a *)
(* killed session, a suspended workspace, a deletion, a revoked key that   *)
(* was in force from the first step of a request to its answer stopped it, *)
(* although the rows are read one after the other while locks come and go. *)
(***************************************************************************)
LockedOutIsOut ==
  \A r \in Requests : req[r].stage \in {"served", "issued"} => held[r] = {}

(***************************************************************************)
(* The kill switch is exact to the second.  A token signed after a reset   *)
(* is good, even in the same second, and a token that was a second old is  *)
(* not (deps.py compares whole seconds with the stamp).                    *)
(***************************************************************************)
KillIsExact ==
  \A t \in tokens :
    (t.scope = "human" /\ killed[t.bearer[1]] # Never) =>
      /\ t.at >= killed[t.bearer[1]] => ~Killed(t)
      /\ t.at + Ticks <= killed[t.bearer[1]] => Killed(t)

(***************************************************************************)
(* A stamp stays what it is: no reset revives the sessions an earlier one  *)
(* ended, and suspending a suspended workspace keeps the original stamp    *)
(* (admin/service.py).  Two resets of one user, or two suspensions of one  *)
(* workspace, that overlap may break it: they stamp in one order and write *)
(* in the other.                                                           *)
(***************************************************************************)
StampsAreKept ==
  [][/\ \A u \in Users \ crossed' : killed[u] <= killed'[u]
     /\ \A w \in Workspaces \ crossed' :
          closed[w] # Never => closed'[w] \in {closed[w], Never}]_vars
=============================================================================
