---------------------------- MODULE TaskRequests -----------------------------
(***************************************************************************)
(* How tasks come to be: plain creation, and the cross-team requests that  *)
(* mint a task on another team.                                            *)
(*                                                                         *)
(* Every new task takes the next number of its workspace with one          *)
(* UPDATE ... RETURNING on the workspace row.  The row stays locked until  *)
(* the transaction ends, so the number is given back when it rolls back,   *)
(* and other creations wait meanwhile.                                     *)
(*                                                                         *)
(* A request row is written FULFILLED, with its task, when it is filed.    *)
(* PENDING rows come from staged flows outside the API; they are fulfilled *)
(* or rejected by a check of the status, a fetch of the row and an UPDATE  *)
(* of the columns that changed (UnitOfWork), with nothing locked between.  *)
(* Who may file or resolve is left out: any caller here is one who may.    *)
(***************************************************************************)
EXTENDS Integers, Sequences, UnitOfWork

CONSTANTS
  Tasks,     \* tasks that may come to be
  Inbox,     \* cross-team requests that may come to be
  Requests,  \* slots for HTTP requests in flight
  None       \* NULL

ASSUME NoneAssumption == None \notin Tasks \cup Inbox \cup Requests

VARIABLES
  counter,    \* workspaces.next_task_seq
  holder,     \* the transaction that has the workspace row locked
  seq,        \* tasks.seq, 0 for a task that has no row
  mintedFor,  \* the request a task was minted for (its CREATED activity and
              \* the relation to the source task, written with it)
  inbox,      \* the task_requests rows
  req         \* the HTTP request in each slot

vars == <<counter, holder, seq, mintedFor, inbox, req>>

Entry ==
  [status : {"absent", "PENDING", "FULFILLED", "REJECTED"},
   task   : Tasks \cup {None},   \* fulfilled_task_id
   reason : BOOLEAN,             \* reject_reason is set
   team   : BOOLEAN]             \* requested_team_id is set

NoEntry == [status |-> "absent", task |-> None, reason |-> FALSE, team |-> FALSE]

Idle == [stage |-> "idle", call |-> "none", task |-> None, entry |-> None,
         reason |-> FALSE, number |-> 0, loaded |-> NoEntry]

Request ==
  [stage  : {"idle", "waiting", "numbered", "checked", "loaded"},
   call   : {"none", "create", "file", "fulfil", "reject"},
   task   : Tasks \cup {None},   \* the task to be
   entry  : Inbox \cup {None},   \* the cross-team request
   reason : BOOLEAN,             \* a reason to reject is given
   number : Nat,
   loaded : Entry]

TypeOK ==
  /\ counter \in Nat \ {0}
  /\ holder \in Requests \cup {None}
  /\ seq \in [Tasks -> Nat]
  /\ mintedFor \in [Tasks -> Inbox \cup {None}]
  /\ inbox \in [Inbox -> Entry]
  /\ req \in [Requests -> Request]

Init ==
  /\ counter = 1
  /\ holder = None
  /\ seq = [t \in Tasks |-> 0]
  /\ mintedFor = [t \in Tasks |-> None]
  /\ inbox = [i \in Inbox |-> NoEntry]
  /\ req = [r \in Requests |-> Idle]

Created == {t \in Tasks : seq[t] # 0}

\* uuid4: no other request has drawn this id.
Fresh(t) == seq[t] = 0 /\ \A s \in Requests : req[s].task # t
FreshEntry(i) == inbox[i].status = "absent" /\ \A s \in Requests : req[s].entry # i

Start(r, stage, call, t, i, reason) ==
  /\ req[r].stage = "idle"
  /\ req' = [req EXCEPT ![r] =
       [Idle EXCEPT !.stage = stage, !.call = call, !.task = t,
                    !.entry = i, !.reason = reason]]
  /\ UNCHANGED <<counter, holder, seq, mintedFor, inbox>>

(***************************************************************************)
(* The service methods up to the allocation of a number.                   *)
(***************************************************************************)
CheckCreate(r, t) == Fresh(t) /\ Start(r, "waiting", "create", t, None, FALSE)

CheckFile(r, t, i) ==
  /\ Created # {}
  /\ Fresh(t)
  /\ FreshEntry(i)
  /\ Start(r, "waiting", "file", t, i, FALSE)

\* Mutant: the status is not looked at.
CheckFulfilAgain(r, t, i) ==
  /\ inbox[i].team
  /\ Fresh(t)
  /\ Start(r, "waiting", "fulfil", t, i, FALSE)

CheckFulfil(r, t, i) ==
  /\ inbox[i].status = "PENDING"
  /\ inbox[i].team
  /\ Fresh(t)
  /\ Start(r, "waiting", "fulfil", t, i, FALSE)

\* Mutant: only a row that is already rejected is refused.
CheckRejectLate(r, i, reason) ==
  /\ inbox[i].status \in {"PENDING", "FULFILLED"}
  /\ Start(r, "checked", "reject", None, i, reason)

CheckReject(r, i, reason) ==
  /\ inbox[i].status = "PENDING"
  /\ Start(r, "checked", "reject", None, i, reason)

(***************************************************************************)
(* The number handed out is the counter before the increment.              *)
(***************************************************************************)
\* Mutant: the value after the increment.
PostIncrement == counter + 1

NextNumber == counter

(***************************************************************************)
(* allocate_next_task_seq: the UPDATE waits for the row lock and reads the *)
(* counter as last committed.                                              *)
(***************************************************************************)
\* Mutant: the counter is read without taking the row lock.
TakeNumberUnlocked(r) ==
  /\ req[r].stage = "waiting"
  /\ holder' = r
  /\ req' = [req EXCEPT ![r] = [@ EXCEPT !.stage = "numbered", !.number = NextNumber]]
  /\ UNCHANGED <<counter, seq, mintedFor, inbox>>

TakeNumber(r) ==
  /\ req[r].stage = "waiting"
  /\ holder = None
  /\ holder' = r
  /\ req' = [req EXCEPT ![r] = [@ EXCEPT !.stage = "numbered", !.number = NextNumber]]
  /\ UNCHANGED <<counter, seq, mintedFor, inbox>>

(***************************************************************************)
(* mark_fulfilled and mark_rejected fetch the request row.                 *)
(***************************************************************************)
Load(r) ==
  LET q == req[r]
  IN  /\ \/ q.stage = "numbered" /\ q.call = "fulfil"
         \/ q.stage = "checked"
      /\ inbox[q.entry].status # "absent"
      /\ req' = [req EXCEPT ![r] = [@ EXCEPT !.stage = "loaded", !.loaded = inbox[q.entry]]]
      /\ UNCHANGED <<counter, holder, seq, mintedFor, inbox>>

(***************************************************************************)
(* The request row after mark_fulfilled, respectively mark_rejected.       *)
(***************************************************************************)
\* Mutant: the row is marked but the task is not written to it.
MarkedOnly(stored, q) == [stored EXCEPT !.status = "FULFILLED"]

Fulfilled(stored, q) ==
  [stored EXCEPT !.status = Column(@, q.loaded.status, "FULFILLED"),
                 !.task = Column(@, q.loaded.task, q.task)]

Rejected(stored, q) ==
  [stored EXCEPT !.status = Column(@, q.loaded.status, "REJECTED"),
                 !.reason = Column(@, q.loaded.reason, q.reason)]

(***************************************************************************)
(* The unique index on tasks(workspace_id, seq).                           *)
(***************************************************************************)
IndexAllows(n) == \A t \in Tasks : seq[t] # n

(***************************************************************************)
(* INSERT of the task and COMMIT: the counter moves on, the lock is free.  *)
(***************************************************************************)
\* Mutant: the number is spent although the transaction rolls back.
SpendsNumber(r) == IF req[r].number # 0 THEN req[r].number + 1 ELSE counter

\* Mutant: the service gives the number back, and the rollback does too.
GivesBack(r) == IF req[r].number # 0 THEN counter - 1 ELSE counter

CounterAfterRollback(r) == counter

\* Mutant: an exception leaves the transaction open.
NeverReleased(r) == holder

Released(r) == IF holder = r THEN None ELSE holder

Mint(r, call) ==
  LET q == req[r]
  IN  /\ q.call = call
      /\ IndexAllows(q.number)
      /\ seq' = [seq EXCEPT ![q.task] = q.number]
      /\ mintedFor' = [mintedFor EXCEPT ![q.task] = q.entry]
      /\ counter' = q.number + 1
      /\ holder' = Released(r)
      /\ req' = [req EXCEPT ![r] = Idle]

CommitCreate(r) ==
  /\ req[r].stage = "numbered"
  /\ Mint(r, "create")
  /\ UNCHANGED inbox

CommitFile(r) ==
  /\ req[r].stage = "numbered"
  /\ Mint(r, "file")
  /\ inbox' = [inbox EXCEPT ![req[r].entry] =
       [status |-> "FULFILLED", task |-> req[r].task, reason |-> FALSE, team |-> TRUE]]

\* The new task refers to the requested team, which must still exist.
CommitFulfil(r) ==
  /\ req[r].stage = "loaded"
  /\ inbox[req[r].entry].team
  /\ Mint(r, "fulfil")
  /\ inbox' = [inbox EXCEPT ![req[r].entry] = Fulfilled(@, req[r])]

CommitReject(r) ==
  /\ req[r].stage = "loaded"
  /\ req[r].call = "reject"
  /\ inbox' = [inbox EXCEPT ![req[r].entry] = Rejected(@, req[r])]
  /\ req' = [req EXCEPT ![r] = Idle]
  /\ UNCHANGED <<counter, holder, seq, mintedFor>>

(***************************************************************************)
(* A refusal, an assignee that is not there, a failed constraint, a lost   *)
(* connection: rollback, which frees the row lock.                         *)
(***************************************************************************)
Abandon(r) ==
  /\ req[r].stage # "idle"
  /\ counter' = CounterAfterRollback(r)
  /\ holder' = Released(r)
  /\ req' = [req EXCEPT ![r] = Idle]
  /\ UNCHANGED <<seq, mintedFor, inbox>>

(***************************************************************************)
(* The surroundings: a staged flow writes a PENDING row, a team is deleted *)
(* (requested_team_id becomes NULL).                                       *)
(***************************************************************************)
StagePending(i) ==
  /\ Created # {}
  /\ FreshEntry(i)
  /\ inbox' = [inbox EXCEPT ![i] = [NoEntry EXCEPT !.status = "PENDING", !.team = TRUE]]
  /\ UNCHANGED <<counter, holder, seq, mintedFor, req>>

DropTeam(i) ==
  /\ inbox[i].team
  /\ inbox' = [inbox EXCEPT ![i].team = FALSE]
  /\ UNCHANGED <<counter, holder, seq, mintedFor, req>>

CheckStep(r) ==
  \/ \E t \in Tasks : CheckCreate(r, t)
  \/ \E t \in Tasks, i \in Inbox : CheckFile(r, t, i) \/ CheckFulfil(r, t, i)
  \/ \E i \in Inbox, reason \in BOOLEAN : CheckReject(r, i, reason)

CommitStep(r) == CommitCreate(r) \/ CommitFile(r) \/ CommitFulfil(r) \/ CommitReject(r)

Surroundings == \E i \in Inbox : StagePending(i) \/ DropTeam(i)

Next ==
  \/ Surroundings
  \/ \E r \in Requests :
       CheckStep(r) \/ TakeNumber(r) \/ Load(r) \/ CommitStep(r) \/ Abandon(r)

Spec == Init /\ [][Next]_vars

(***************************************************************************)
(* A transaction under way ends: the handler awaits nothing but the        *)
(* database, and the session commits or rolls back.  PostgreSQL queues the *)
(* transactions that wait for a row lock, so a waiter gets it in the end.  *)
(***************************************************************************)
Ends(r) == Load(r) \/ CommitStep(r) \/ (Abandon(r) /\ req[r].stage # "waiting")

Fairness ==
  \A r \in Requests : SF_vars(TakeNumber(r)) /\ WF_vars(Ends(r))

-----------------------------------------------------------------------------
(***************************************************************************)
(* Properties.                                                             *)
(***************************************************************************)

(***************************************************************************)
(* The unique index never turns a creation down: a number that a request   *)
(* holds is taken by no task and held by no other request                  *)
(* (allocate_next_task_seq: no race-driven collision).                     *)
(***************************************************************************)
Numbered(r) == req[r].number # 0

NumbersNeverCollide ==
  \A r \in Requests : Numbered(r) =>
    /\ IndexAllows(req[r].number)
    /\ \A s \in Requests : Numbered(s) => s = r

(***************************************************************************)
(* The tasks of a workspace are numbered 1, 2, 3, ... up to the counter,   *)
(* whatever rolls back.                                                    *)
(***************************************************************************)
NoGaps == {seq[t] : t \in Created} = 1 .. (counter - 1)

(***************************************************************************)
(* Public ids form a list that only grows at its end: Numbering.           *)
(***************************************************************************)
TaskAt(n) ==
  IF \E t \in Tasks : seq[t] = n THEN CHOOSE t \in Tasks : seq[t] = n ELSE None

Book == [n \in 1 .. (counter - 1) |-> TaskAt(n)]
Numbers == INSTANCE Numbering WITH book <- Book
ImplementsNumbering == Numbers!Spec

(***************************************************************************)
(* Nobody waits for a number for ever, as long as transactions end: each   *)
(* creation gets its turn at the workspace row.                            *)
(***************************************************************************)
EveryCreationGetsItsTurn ==
  \A r \in Requests : req[r].stage = "waiting" ~> req[r].stage # "waiting"
=============================================================================
