----------------------------- MODULE CardHistory -----------------------------
(***************************************************************************)
(* TaskCard with a history of what calls under way fought over.            *)
(*                                                                         *)
(* The columns a call changes are merged one by one into the row           *)
(* (UnitOfWork), each call tells the stream what it asked for or what it   *)
(* read at the beginning, and a rating looks at the status long before it  *)
(* is inserted.  So two calls that change the same column may leave half   *)
(* of each, and a stream that tells of the one whose value is gone; and a  *)
(* task may be reopened under its rating.  fought remembers the columns    *)
(* that two calls under way were changing, and a rating that was under way *)
(* together with a change of the status; the rules are stated for the      *)
(* rest, while everything else overlaps.                                   *)
(***************************************************************************)
EXTENDS TaskCard

VARIABLE fought  \* columns changed by two calls under way, and "rating"

Changing(q) == IF q = Idle THEN {} ELSE DOMAIN q.asked

RatesUnderChange ==
  \E r, s \in Requests :
    req[r] # Idle /\ req[r].call = "rate" /\ "status" \in Changing(req[s])

Disputed ==
  {c \in Columns :
     \E r, s \in Requests : r # s /\ c \in Changing(req[r]) \cap Changing(req[s])}
  \cup {c \in {"rating"} : RatesUnderChange}

HistoryInit == Init /\ fought = {}
HistoryNext == Next /\ fought' = fought \cup Disputed'
HistorySpec == HistoryInit /\ [][HistoryNext]_<<vars, fought>>

(***************************************************************************)
(* completed_at is set exactly while the task is DONE, and only a blocked  *)
(* task has a reason, whatever other calls overlap, unless two status      *)
(* changes, respectively two changes of the flag, were under way at once.  *)
(***************************************************************************)
PairsAgree ==
  /\ "status" \notin fought => CompletedIffDone
  /\ "blocked" \notin fought => ReasonOnlyWhenBlocked

(***************************************************************************)
(* The activity stream tells how the card got to its current state,        *)
(* whatever calls and deletions overlap: where it has a row about a column *)
(* that no two calls were changing at once, the last one says what the     *)
(* column is.  Not so for BLOCKED, which a cross-team request writes       *)
(* without blocking the card.                                              *)
(***************************************************************************)
UncontestedStream == \A c \in ToldColumns \ ({"blocked"} \cup fought) : LogTells(c)

(***************************************************************************)
(* A task gets one rating, and gets it while it is DONE, though both are   *)
(* looked at before the rating is inserted and nothing is locked: only a   *)
(* change of the status under way together with the rating puts it on work *)
(* that is no longer finished, and nothing puts a second one.              *)
(***************************************************************************)
RatesFinishedWork ==
  [][live' = live /\ ratings' # ratings =>
       ratings = {} /\ (card.status = "DONE" \/ "rating" \in fought)]_<<vars, fought>>
=============================================================================
