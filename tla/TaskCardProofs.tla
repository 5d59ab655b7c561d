--------------------------- MODULE TaskCardProofs ----------------------------
(***************************************************************************)
(* Theorems about TaskCard and CardHistory, for any members, teams,        *)
(* projects, ranks, statuses and any number of calls at a time.            *)
(*                                                                         *)
(* The theorems about references and about the one rating follow from the  *)
(* types and from what the database enforces at a commit.  The one about   *)
(* pairs needs to know what a call holds in hand: as long as no other call *)
(* changes the pair, what it loaded is what is stored (Steady).  So does   *)
(* the one about the activity stream, column by column (Known); the one    *)
(* about the status a rating finds follows the ratings under way           *)
(* (RatesDone).                                                            *)
(***************************************************************************)
EXTENDS CardHistory, FiniteSetTheorems, TLAPS

-----------------------------------------------------------------------------
(***************************************************************************)
(* What a call asks for is a piece of a row, and so is what it loads.      *)
(***************************************************************************)
LEMMA PieceShapes ==
  ASSUME NEW p \in Piece
  PROVE  \/ /\ DOMAIN p = {"status", "completed"}
            /\ p.status \in Statuses /\ p.completed \in BOOLEAN
         \/ DOMAIN p = {"priority"} /\ p.priority \in Priorities
         \/ /\ DOMAIN p = {"blocked", "reason"}
            /\ p.blocked \in BOOLEAN /\ p.reason \in BOOLEAN
         \/ DOMAIN p = {"assignee"} /\ p.assignee \in Members \cup {None}
         \/ DOMAIN p = {"team"} /\ p.team \in Teams \cup {None}
         \/ DOMAIN p = {"project"} /\ p.project \in Projects \cup {None}
         \/ /\ DOMAIN p = {"team", "project"}
            /\ p.team \in Teams \cup {None} /\ p.project \in Projects \cup {None}
         \/ DOMAIN p = {}
<1>1. CASE p \in [status : Statuses, completed : BOOLEAN]
  BY <1>1
<1>2. CASE p \in Prioritizing
  BY <1>2 DEF Prioritizing
<1>3. CASE p \in [blocked : BOOLEAN, reason : BOOLEAN]
  BY <1>3
<1>4. CASE p \in [{"assignee"} -> Members \cup {None}]
  BY <1>4
<1>5. CASE p \in Moving
  BY <1>5 DEF Moving
<1>6. CASE p = Nothing
  BY <1>6 DEF Nothing
<1> QED
  BY <1>1, <1>2, <1>3, <1>4, <1>5, <1>6 DEF Piece

Cells(c) ==
  IF c = "status" THEN Statuses
  ELSE IF c = "priority" THEN Priorities
  ELSE IF c = "assignee" THEN Members \cup {None}
  ELSE IF c = "team" THEN Teams \cup {None}
  ELSE IF c = "project" THEN Projects \cup {None}
  ELSE BOOLEAN

LEMMA PieceCells ==
  ASSUME NEW p \in Piece, NEW c \in DOMAIN p
  PROVE  c \in Columns /\ p[c] \in Cells(c)
BY PieceShapes DEF Cells, Columns

LEMMA RowCells ==
  ASSUME NEW row \in Row
  PROVE  DOMAIN row = Columns /\ \A c \in Columns : row[c] \in Cells(c)
BY DEF Row, Cells, Columns

LEMMA RowOfCells ==
  ASSUME NEW row, row = [c \in Columns |-> row[c]], \A c \in Columns : row[c] \in Cells(c)
  PROVE  row \in Row
BY DEF Row, Cells, Columns

LEMMA LoadedPiece ==
  ASSUME NEW p \in Piece, NEW row \in Row
  PROVE  Restrict(row, DOMAIN p) \in Piece
<1> DEFINE l == Restrict(row, DOMAIN p)
<1>1. l = [c \in DOMAIN p |-> row[c]]
  BY DEF Restrict
<1>2. \A c \in Columns : row[c] \in Cells(c)
  BY RowCells
<1>3. CASE DOMAIN p = {"status", "completed"}
  <2>1. l = [status |-> row.status, completed |-> row.completed]
    BY <1>1, <1>3
  <2> QED
    BY <2>1 DEF Row, Piece
<1>4. CASE DOMAIN p = {"priority"}
  <2>1. l \in Prioritizing
    BY <1>1, <1>4 DEF Row, Prioritizing
  <2> QED
    BY <2>1 DEF Piece
<1>5. CASE DOMAIN p = {"blocked", "reason"}
  <2>1. l = [blocked |-> row.blocked, reason |-> row.reason]
    BY <1>1, <1>5
  <2> QED
    BY <2>1 DEF Row, Piece
<1>6. CASE DOMAIN p = {"assignee"}
  <2>1. l \in [{"assignee"} -> Members \cup {None}]
    BY <1>1, <1>6 DEF Row
  <2> QED
    BY <2>1 DEF Piece
<1>7. CASE DOMAIN p = {"team"}
  <2>1. l \in [{"team"} -> Teams \cup {None}]
    BY <1>1, <1>7 DEF Row
  <2> QED
    BY <2>1 DEF Piece, Moving
<1>8. CASE DOMAIN p = {"project"}
  <2>1. l \in [{"project"} -> Projects \cup {None}]
    BY <1>1, <1>8 DEF Row
  <2> QED
    BY <2>1 DEF Piece, Moving
<1>9. CASE DOMAIN p = {"team", "project"}
  <2>1. l = [team |-> row.team, project |-> row.project]
    BY <1>1, <1>9
  <2> QED
    BY <2>1 DEF Row, Piece, Moving
<1>10. CASE DOMAIN p = {}
  <2>1. l = Nothing
    BY <1>1, <1>10 DEF Nothing
  <2> QED
    BY <2>1 DEF Piece
<1> QED
  BY <1>3, <1>4, <1>5, <1>6, <1>7, <1>8, <1>9, <1>10, PieceShapes

-----------------------------------------------------------------------------
(***************************************************************************)
(* Types.  A delegation names somebody, a rating has a score, and a move   *)
(* is about a team or a project.                                           *)
(***************************************************************************)
Asks(q) ==
  /\ "assignee" \in DOMAIN q.asked => q.asked.assignee \in Members /\ q.call # "move"
  /\ q.call = "rate" => q.score \in Scores

Asking == \A r \in Requests : req[r] # Idle => Asks(req[r])

Typed == TypeOK /\ Asking

LEMMA RequestFields ==
  ASSUME NEW q \in Request \cup {Idle}, q.stage # "idle"
  PROVE  /\ q \in Request /\ q.asked \in Piece /\ q.loaded \in Piece /\ q.by \in Members
         /\ q.score \in Scores \cup {None} /\ q.seen.assignee \in Members \cup {None}
         /\ q # Idle
BY DEF Request, Idle

LEMMA SeenLinks ==
  ASSUME NEW row \in Row
  PROVE  Restrict(row, Links) \in
           [assignee : Members \cup {None}, team : Teams \cup {None},
            project : Projects \cup {None}]
<1>1. Restrict(row, Links) = [assignee |-> row.assignee, team |-> row.team,
                              project |-> row.project]
  BY DEF Restrict, Links
<1> QED
  BY <1>1 DEF Row

LEMMA MergedRow ==
  ASSUME TypeOK, NEW q, q.asked \in Piece
  PROVE  Merged(q) \in Row
<1>1. \A c \in Columns : card[c] \in Cells(c)
  BY RowCells DEF TypeOK
<1>2. ASSUME NEW c \in Columns PROVE Merged(q)[c] \in Cells(c)
  <2>1. c \in DOMAIN q.asked => q.asked[c] \in Cells(c)
    BY PieceCells
  <2> QED
    BY <1>1, <1>2, <2>1 DEF Merged, Column, Cells
<1>3. Merged(q) = [c \in Columns |-> Merged(q)[c]]
  BY DEF Merged
<1> QED
  BY <1>2, <1>3, RowOfCells

LEMMA BeginType ==
  ASSUME Typed, NEW r \in Requests, NEW m \in Members,
         NEW call \in {"status", "priority", "block", "delegate", "move", "rate", "request"},
         NEW asked \in Piece, NEW score \in Scores \cup {None},
         "assignee" \in DOMAIN asked => asked.assignee \in Members /\ call # "move",
         call = "rate" => score \in Scores,
         Begin(r, m, call, asked, score)
  PROVE  Typed'
<1>1. PICK q : q = [stage |-> "checked", call |-> call, by |-> m, asked |-> asked,
                    score |-> score, seen |-> Restrict(card, Links), loaded |-> Nothing]
  OBVIOUS
<1>2. q \in Request
  BY <1>1, SeenLinks DEF Request, Piece, Typed, TypeOK
<1>3. req' = [req EXCEPT ![r] = q]
  BY <1>1 DEF Begin
<1>4. TypeOK'
  BY <1>2, <1>3 DEF Begin, Typed, TypeOK
<1>5. \A s \in Requests : req'[s] = IF s = r THEN q ELSE req[s]
  BY <1>3 DEF Typed, TypeOK
<1>6. Asks(q)
  BY <1>1 DEF Asks
<1>7. Asking'
  BY <1>5, <1>6 DEF Typed, Asking
<1> QED
  BY <1>4, <1>7 DEF Typed

LEMMA CheckType ==
  ASSUME Typed, NEW r \in Requests, CheckStep(r)
  PROVE  Typed'
<1>1. PICK m \in Members :
        \/ \E asked \in Statusing : CheckStatus(r, m, asked)
        \/ \E asked \in Prioritizing : CheckPriority(r, m, asked)
        \/ \E asked \in Blocking : CheckBlock(r, m, asked)
        \/ \E asked \in Delegating : CheckDelegate(r, m, asked)
        \/ \E asked \in Moving : CheckMove(r, m, asked)
        \/ \E score \in Scores : CheckRate(r, m, score)
        \/ CheckRequest(r, m)
  BY DEF CheckStep
<1>2. ASSUME NEW asked \in Statusing, CheckStatus(r, m, asked) PROVE Typed'
  <2>0. PICK s \in Statuses, b \in BOOLEAN : asked = [status |-> s, completed |-> b]
    <3>1. \A s \in Statuses : (s = "DONE") \in BOOLEAN
      OBVIOUS
    <3> QED
      BY <3>1 DEF Statusing
  <2>1. asked \in Piece /\ "assignee" \notin DOMAIN asked
    BY <2>0 DEF Piece
  <2> QED
    BY <1>2, <2>1, BeginType DEF CheckStatus
<1>3. ASSUME NEW asked \in Prioritizing, CheckPriority(r, m, asked) PROVE Typed'
  <2>1. asked \in Piece /\ "assignee" \notin DOMAIN asked
    BY DEF Prioritizing, Piece
  <2> QED
    BY <1>3, <2>1, BeginType DEF CheckPriority
<1>4. ASSUME NEW asked \in Blocking, CheckBlock(r, m, asked) PROVE Typed'
  <2>1. asked \in Piece /\ "assignee" \notin DOMAIN asked
    BY DEF Blocking, Piece
  <2> QED
    BY <1>4, <2>1, BeginType DEF CheckBlock
<1>5. ASSUME NEW asked \in Delegating, CheckDelegate(r, m, asked) PROVE Typed'
  <2>1. asked \in Piece /\ asked.assignee \in Members
    BY DEF Delegating, Piece
  <2> QED
    BY <1>5, <2>1, BeginType DEF CheckDelegate
<1>6. ASSUME NEW asked \in Moving, CheckMove(r, m, asked) PROVE Typed'
  <2>1. asked \in Piece /\ "assignee" \notin DOMAIN asked
    BY DEF Moving, Piece
  <2> QED
    BY <1>6, <2>1, BeginType DEF CheckMove
<1>7. Nothing \in Piece /\ DOMAIN Nothing = {}
  BY DEF Nothing, Piece
<1>8. ASSUME NEW score \in Scores, CheckRate(r, m, score) PROVE Typed'
  BY <1>7, <1>8, BeginType DEF CheckRate
<1>9. ASSUME CheckRequest(r, m) PROVE Typed'
  BY <1>7, <1>9, BeginType DEF CheckRequest
<1> QED
  BY <1>1, <1>2, <1>3, <1>4, <1>5, <1>6, <1>8, <1>9

LEMMA LoadType ==
  ASSUME Typed, NEW r \in Requests, Load(r)
  PROVE  Typed'
<1>1. PICK q : q = req[r]
  OBVIOUS
<1>2. q \in Request /\ q # Idle /\ q.asked \in Piece
  BY <1>1, RequestFields DEF Load, Typed, TypeOK
<1>3. PICK l : l = Restrict(card, DOMAIN q.asked)
  OBVIOUS
<1>4. l \in Piece
  BY <1>2, <1>3, LoadedPiece DEF Typed, TypeOK
<1>5. PICK n : n = [q EXCEPT !.stage = "loaded", !.loaded = l]
  OBVIOUS
<1>6. n \in Request /\ n.asked = q.asked /\ n.call = q.call /\ n.score = q.score
  BY <1>2, <1>4, <1>5 DEF Request
<1>7. req' = [req EXCEPT ![r] = n]
  BY <1>1, <1>3, <1>5 DEF Load
<1>8. TypeOK'
  BY <1>6, <1>7 DEF Load, Typed, TypeOK
<1>9. \A s \in Requests : req'[s] = IF s = r THEN n ELSE req[s]
  BY <1>7 DEF Typed, TypeOK
<1>10. Asks(n)
  BY <1>1, <1>2, <1>6 DEF Typed, Asking, Asks
<1>11. Asking'
  BY <1>9, <1>10 DEF Typed, Asking
<1> QED
  BY <1>8, <1>11 DEF Typed

(***************************************************************************)
(* A call that ends leaves an idle slot.                                   *)
(***************************************************************************)
LEMMA EndType ==
  ASSUME Typed, NEW r \in Requests, req' = [req EXCEPT ![r] = Idle]
  PROVE  req' \in [Requests -> Request \cup {Idle}] /\ Asking'
<1>1. \A s \in Requests : req'[s] = IF s = r THEN Idle ELSE req[s]
  BY DEF Typed, TypeOK
<1> QED
  BY <1>1 DEF Typed, TypeOK, Asking

LEMMA ChangeType ==
  ASSUME Typed, NEW r \in Requests, CommitChange(r)
  PROVE  Typed'
<1>1. PICK q : q = req[r]
  OBVIOUS
<1>2. q \in Request /\ q # Idle /\ q.asked \in Piece
  BY <1>1, RequestFields DEF CommitChange, Typed, TypeOK
<1>3. Asks(q)
  BY <1>1, <1>2 DEF Typed, Asking
<1>4. Merged(q) \in Row
  BY <1>2, MergedRow DEF Typed
<1>5. ASSUME NEW c \in ToldColumns, c \in Tells(q)
      PROVE  /\ c \in DOMAIN q.asked
             /\ Tale(q, c) \in Cells(c)
             /\ c = "assignee" => Tale(q, c) \in Members
  <2>1. c \in DOMAIN q.asked
    BY <1>5 DEF Tells
  <2>2. q.asked[c] \in Cells(c) /\ c \in Columns
    BY <1>2, <2>1, PieceCells
  <2>3. Merged(q)[c] \in Cells(c)
    BY <1>4, <2>2, RowCells
  <2> QED
    BY <1>3, <2>1, <2>2, <2>3 DEF Tale, Asks
<1>6. told' = [c \in ToldColumns |-> IF c \in Tells(q) \cap Followed THEN Tale(q, c) ELSE told[c]]
  BY <1>1 DEF CommitChange
<1>7. told' \in Told
  BY <1>5, <1>6 DEF Typed, TypeOK, Told, ToldColumns, Cells
<1>8. card' = Merged(q) /\ UNCHANGED <<creator, ratings, live>> /\ req' = [req EXCEPT ![r] = Idle]
  BY <1>1 DEF CommitChange
<1> QED
  BY <1>4, <1>7, <1>8, EndType DEF Typed, TypeOK

LEMMA RatingType ==
  ASSUME Typed, NEW r \in Requests, CommitRating(r)
  PROVE  Typed'
<1>1. PICK q : q = req[r]
  OBVIOUS
<1>2. q \in Request /\ q # Idle /\ q.by \in Members /\ q.seen.assignee \in Members \cup {None}
  BY <1>1, RequestFields DEF CommitRating, Typed, TypeOK
<1>3. q.score \in Scores
  BY <1>1, <1>2 DEF CommitRating, Typed, Asking, Asks
<1>4. [by |-> q.by, of |-> q.seen.assignee, score |-> q.score] \in Rating
  BY <1>2, <1>3 DEF Rating
<1> QED
  BY <1>1, <1>4, EndType DEF CommitRating, Typed, TypeOK

LEMMA RequestType ==
  ASSUME Typed, NEW r \in Requests, CommitRequest(r) \/ Abandon(r)
  PROVE  Typed'
<1>1. CASE CommitRequest(r)
  <2>1. told' = [c \in ToldColumns |-> IF c \in {"blocked"} \cap Followed THEN TRUE ELSE told[c]]
    BY <1>1 DEF CommitRequest
  <2>2. told' \in Told
    BY <2>1 DEF Typed, TypeOK, Told, ToldColumns
  <2> QED
    BY <1>1, <2>2, EndType DEF CommitRequest, Typed, TypeOK
<1>2. CASE Abandon(r)
  BY <1>2, EndType DEF Abandon, Typed, TypeOK
<1> QED
  BY <1>1, <1>2

LEMMA DeleteType ==
  ASSUME Typed, NEW x \in live, Delete(x)
  PROVE  Typed'
<1>1. \A c \in Columns : card[c] \in Cells(c)
  BY RowCells DEF Typed, TypeOK
<1>2. card' = [c \in Columns |-> IF c \in Links /\ card[c] = x THEN None ELSE card[c]]
  BY DEF Delete
<1>3. card' \in Row
  <2>1. \A c \in Columns : card'[c] \in Cells(c)
    BY <1>1, <1>2 DEF Links, Cells
  <2>2. card' = [c \in Columns |-> card'[c]]
    BY <1>2
  <2> QED
    BY <2>1, <2>2, RowOfCells
<1>4. ratings' \subseteq Rating
  BY DEF Delete, Typed, TypeOK, Rating
<1> QED
  BY <1>3, <1>4 DEF Delete, Typed, TypeOK, Asking

LEMMA TypedInit == Init => Typed
<1> SUFFICES ASSUME Init PROVE Typed
  OBVIOUS
<1>1. card \in Row
  BY CardAssumption DEF Init, NewCard, Row
<1>2. told \in Told
  BY DEF Init, Told, ToldColumns
<1> QED
  BY <1>1, <1>2 DEF Init, Typed, TypeOK, Asking

LEMMA TypedStep ==
  ASSUME Typed, [Next]_vars
  PROVE  Typed'
<1>1. ASSUME NEW r \in Requests, CheckStep(r) \/ CommitStep(r) PROVE Typed'
  BY <1>1, CheckType, LoadType, ChangeType, RatingType, RequestType DEF CommitStep
<1>2. CASE UNCHANGED vars
  BY <1>2 DEF vars, Typed, TypeOK, Asking
<1> QED
  BY <1>1, <1>2, DeleteType DEF Next

LEMMA Types == Spec => []Typed
BY TypedInit, TypedStep, PTL DEF Spec

(***************************************************************************)
(* Card, stream, ratings and the calls under way keep their types.         *)
(***************************************************************************)
THEOREM TypeCorrect == Spec => []TypeOK
<1>1. Typed => TypeOK
  BY DEF Typed
<1> QED
  BY <1>1, Types, PTL

-----------------------------------------------------------------------------
(***************************************************************************)
(* Ratings and references: what the unique index, the foreign keys and     *)
(* their ON DELETE rules see to.                                           *)
(***************************************************************************)
AtMostOne == ratings = {} \/ \E g \in Rating : ratings = {g}

Kept == Typed /\ AtMostOne /\ References

LEMMA KeptInit == Init => Kept
<1> SUFFICES ASSUME Init PROVE Kept
  OBVIOUS
<1>1. Typed
  BY TypedInit
<1>2. AtMostOne
  BY DEF Init, AtMostOne
<1>3. References
  BY <1>1 DEF Init, NewCard, References, Links, Typed, TypeOK, Row
<1> QED
  BY <1>1, <1>2, <1>3 DEF Kept

LEMMA KeptDelete ==
  ASSUME Kept, NEW x \in live, Delete(x)
  PROVE  AtMostOne' /\ References'
<1>1. /\ live' = live \ {x}
      /\ card' = [c \in Columns |-> IF c \in Links /\ card[c] = x THEN None ELSE card[c]]
      /\ ratings' = {[g EXCEPT !.of = IF @ = x THEN None ELSE @] : g \in ratings}
      /\ Deletable(x)
  BY DEF Delete
<1>2. \A g \in ratings : g \in Rating
  BY DEF Kept, Typed, TypeOK
<1>3. AtMostOne'
  <2>1. CASE ratings = {}
    BY <1>1, <2>1 DEF AtMostOne
  <2>2. CASE ratings # {}
    <3>1. PICK g \in Rating : ratings = {g}
      BY <2>2 DEF Kept, AtMostOne
    <3>2. PICK h : h = [g EXCEPT !.of = IF @ = x THEN None ELSE @]
      OBVIOUS
    <3>3. h \in Rating
      BY <3>2 DEF Rating
    <3>4. ratings' = {h}
      BY <1>1, <3>1, <3>2
    <3> QED
      BY <3>3, <3>4 DEF AtMostOne
  <2> QED
    BY <2>1, <2>2
<1>4. ASSUME NEW c \in Links PROVE card'[c] \in live' \cup {None}
  BY <1>1 DEF Kept, References, Links, Columns
<1>5. ASSUME NEW h \in ratings' PROVE h.by \in live' /\ h.of \in live' \cup {None}
  <2>1. PICK g \in ratings : h = [g EXCEPT !.of = IF @ = x THEN None ELSE @]
    BY <1>1
  <2>2. /\ g \in Rating /\ g.by \in live /\ g.of \in live \cup {None}
    BY <1>2 DEF Kept, References
  <2>3. h.by = g.by /\ h.of = IF g.of = x THEN None ELSE g.of
    BY <2>1, <2>2 DEF Rating
  <2>4. g.by # x
    BY <1>1, <2>2 DEF Deletable, Rating
  <2> QED
    BY <1>1, <2>2, <2>3, <2>4
<1> QED
  BY <1>3, <1>4, <1>5 DEF References

LEMMA KeptStep ==
  ASSUME Kept, [Next]_vars
  PROVE  Kept'
<1>1. Typed'
  BY TypedStep DEF Kept
<1>2. CASE UNCHANGED <<card, ratings, live>>
  BY <1>1, <1>2 DEF Kept, AtMostOne, References
<1>3. ASSUME NEW r \in Requests, CommitChange(r) PROVE Kept'
  <2>1. /\ card' = Merged(req[r]) /\ Accepts(Merged(req[r]))
        /\ UNCHANGED <<ratings, live>>
    BY <1>3 DEF CommitChange
  <2>2. \A c \in Links : card'[c] \in live' \cup {None}
    BY <2>1 DEF Accepts
  <2> QED
    BY <1>1, <2>1, <2>2 DEF Kept, AtMostOne, References
<1>4. ASSUME NEW r \in Requests, CommitRating(r) PROVE Kept'
  <2>1. PICK g : g = [by |-> req[r].by, of |-> req[r].seen.assignee, score |-> req[r].score]
    OBVIOUS
  <2>2. /\ ratings = {} /\ ratings' = {g} /\ UNCHANGED <<card, live>>
        /\ g.by \in live /\ g.of \in live \cup {None}
    BY <1>4, <2>1 DEF CommitRating, RatingIndexAllows
  <2>3. g \in Rating
    BY <1>1, <2>2 DEF Typed, TypeOK
  <2> QED
    BY <1>1, <2>2, <2>3 DEF Kept, AtMostOne, References
<1>5. ASSUME NEW x \in live, Delete(x) PROVE Kept'
  BY <1>1, <1>5, KeptDelete DEF Kept
<1>6. ASSUME NEW r \in Requests, CheckStep(r) PROVE UNCHANGED <<card, ratings, live>>
  BY <1>6 DEF CheckStep, CheckStatus, CheckPriority, CheckBlock, CheckDelegate, CheckMove,
     CheckRate, CheckRequest, Begin
<1>7. ASSUME NEW r \in Requests, Load(r) \/ CommitRequest(r) \/ Abandon(r)
      PROVE  UNCHANGED <<card, ratings, live>>
  BY <1>7 DEF Load, CommitRequest, Abandon
<1>8. CASE UNCHANGED vars
  BY <1>2, <1>8 DEF vars
<1> QED
  BY <1>2, <1>3, <1>4, <1>5, <1>6, <1>7, <1>8 DEF Next, CommitStep

LEMMA KeptAlways == Spec => []Kept
BY KeptInit, KeptStep, PTL DEF Spec

(***************************************************************************)
(* A task has one rating at most, though "not rated yet" is checked before *)
(* the rating is inserted.                                                 *)
(***************************************************************************)
THEOREM RatedAtMostOnce == Spec => []RatedOnce
<1>1. Kept => RatedOnce
  <2> SUFFICES ASSUME AtMostOne PROVE Cardinality(ratings) <= 1
    BY DEF Kept, RatedOnce
  <2>1. CASE ratings = {}
    BY <2>1, FS_EmptySet
  <2>2. CASE \E g \in Rating : ratings = {g}
    BY <2>2, FS_Singleton
  <2> QED
    BY <2>1, <2>2 DEF AtMostOne
<1> QED
  BY <1>1, KeptAlways, PTL

(***************************************************************************)
(* Assignee, team, project and who rated or was rated exist, whatever is   *)
(* deleted while a call that names them is under way.                      *)
(***************************************************************************)
THEOREM NothingDangles == Spec => []References
<1>1. Kept => References
  BY DEF Kept
<1> QED
  BY <1>1, KeptAlways, PTL

-----------------------------------------------------------------------------
(***************************************************************************)
(* Overlapping calls never undo each other's change: a column changes only *)
(* to what a call that ends asked for, or to NULL by a deletion.           *)
(***************************************************************************)
OnlyAsked ==
  \A c \in Columns : card'[c] # card[c] =>
    \/ c \in Links /\ card'[c] = None /\ card[c] \notin live'
    \/ \E r \in Requests : req[r] # Idle /\ req'[r] = Idle
          /\ c \in DOMAIN req[r].asked /\ req[r].asked[c] = card'[c]

LEMMA OnlyAskedStep ==
  ASSUME Typed, [Next]_vars
  PROVE  [OnlyAsked]_vars
<1>1. CASE UNCHANGED card
  BY <1>1 DEF OnlyAsked
<1>2. ASSUME NEW r \in Requests, CommitChange(r) PROVE OnlyAsked
  <2>1. card' = Merged(req[r]) /\ req[r] # Idle /\ req'[r] = Idle
    BY <1>2 DEF CommitChange, Idle, Typed, TypeOK
  <2>2. ASSUME NEW c \in Columns, card'[c] # card[c]
        PROVE  c \in DOMAIN req[r].asked /\ req[r].asked[c] = card'[c]
    <3>1. c \in DOMAIN req[r].asked
      BY <2>1, <2>2 DEF Merged
    <3>2. req[r].asked \in Piece
      BY <1>2, RequestFields DEF CommitChange, Typed, TypeOK
    <3>3. c = "completed" => req[r].asked[c] \in BOOLEAN
      BY <3>1, <3>2, PieceCells DEF Cells
    <3> QED
      BY <2>1, <2>2, <3>1, <3>3 DEF Merged, Column
  <2> QED
    BY <2>1, <2>2 DEF OnlyAsked
<1>3. ASSUME NEW x \in live, Delete(x) PROVE OnlyAsked
  BY <1>3 DEF Delete, OnlyAsked
<1>4. ASSUME NEW r \in Requests, CheckStep(r) PROVE UNCHANGED card
  BY <1>4 DEF CheckStep, CheckStatus, CheckPriority, CheckBlock, CheckDelegate, CheckMove,
     CheckRate, CheckRequest, Begin
<1>5. ASSUME NEW r \in Requests, Load(r) \/ CommitRating(r) \/ CommitRequest(r) \/ Abandon(r)
      PROVE  UNCHANGED card
  BY <1>5 DEF Load, CommitRating, CommitRequest, Abandon
<1> QED
  BY <1>1, <1>2, <1>3, <1>4, <1>5 DEF Next, CommitStep, vars

THEOREM OnlyAskedChange == Spec => OnlyAskedColumnsChange
<1>1. [OnlyAsked]_vars =>
        [\A c \in Columns : card'[c] # card[c] =>
           \/ c \in Links /\ card'[c] = None /\ card[c] \notin live'
           \/ \E r \in Requests : req[r] # Idle /\ req'[r] = Idle
                 /\ c \in DOMAIN req[r].asked /\ req[r].asked[c] = card'[c]]_vars
  BY DEF OnlyAsked
<1> QED
  BY <1>1, Types, OnlyAskedStep, PTL DEF Spec, OnlyAskedColumnsChange

-----------------------------------------------------------------------------
(***************************************************************************)
(* Pairs.  A call asks for both columns of a pair or for neither, and what *)
(* it asks for agrees.  While it is the only one to change the pair, what  *)
(* it has loaded is what is stored (Steady), so that its commit stores all *)
(* it asked for.                                                           *)
(***************************************************************************)
Firsts == {"status", "blocked"}
Partner(c) == IF c = "status" THEN "completed" ELSE "reason"
Agree(c, v, w) == IF c = "status" THEN w <=> v = "DONE" ELSE w => v

AsksPairs ==
  \A r \in Requests, c \in Firsts :
    c \in Changing(req[r]) => Agree(c, req[r].asked[c], req[r].asked[Partner(c)])

Steady(c) ==
  /\ Agree(c, card[c], card[Partner(c)])
  /\ \A r \in Requests : c \in Changing(req[r]) /\ req[r].stage = "loaded" =>
       req[r].loaded[c] = card[c] /\ req[r].loaded[Partner(c)] = card[Partner(c)]

PairsKept ==
  /\ Typed /\ AsksPairs /\ Disputed \subseteq fought
  /\ \A c \in Firsts : c \notin fought => Steady(c)

LEMMA BothOrNeither ==
  ASSUME NEW p \in Piece, NEW c \in Firsts
  PROVE  /\ c \in DOMAIN p <=> Partner(c) \in DOMAIN p
         /\ {c, Partner(c)} \subseteq Columns
         /\ c \notin Links /\ Partner(c) \notin Links
BY PieceShapes DEF Firsts, Partner, Columns, Links

LEMMA NobodyElse ==
  ASSUME Disputed \subseteq fought, NEW c \in Firsts, c \notin fought,
         NEW r \in Requests, NEW s \in Requests,
         c \in Changing(req[r]), c \in Changing(req[s])
  PROVE  r = s
BY DEF Disputed, Firsts, Columns

(***************************************************************************)
(* What a call brings to its slot.                                         *)
(***************************************************************************)
LEMMA BeginPairs ==
  ASSUME PairsKept, NEW r \in Requests, NEW m \in Members, NEW call,
         NEW asked \in Piece, NEW score,
         \A c \in Firsts : c \in DOMAIN asked => Agree(c, asked[c], asked[Partner(c)]),
         Begin(r, m, call, asked, score)
  PROVE  AsksPairs' /\ \A c \in Firsts : Steady(c) => Steady(c)'
<1>1. PICK q : q = [stage |-> "checked", call |-> call, by |-> m, asked |-> asked,
                    score |-> score, seen |-> Restrict(card, Links), loaded |-> Nothing]
  OBVIOUS
<1>2. \A s \in Requests : req'[s] = IF s = r THEN q ELSE req[s]
  BY <1>1 DEF Begin, PairsKept, Typed, TypeOK
<1>3. q.asked = asked /\ q.stage = "checked" /\ card' = card
  BY <1>1 DEF Begin
<1>4. AsksPairs'
  BY <1>2, <1>3 DEF PairsKept, AsksPairs, Changing
<1>5. ASSUME NEW c \in Firsts, Steady(c) PROVE Steady(c)'
  BY <1>2, <1>3, <1>5 DEF Steady, Changing
<1> QED
  BY <1>4, <1>5

LEMMA CheckPairs ==
  ASSUME PairsKept, NEW r \in Requests, CheckStep(r)
  PROVE  AsksPairs' /\ \A c \in Firsts : Steady(c) => Steady(c)'
<1> DEFINE Goal == AsksPairs' /\ \A c \in Firsts : Steady(c) => Steady(c)'
<1>1. PICK m \in Members :
        \/ \E asked \in Statusing : CheckStatus(r, m, asked)
        \/ \E asked \in Prioritizing : CheckPriority(r, m, asked)
        \/ \E asked \in Blocking : CheckBlock(r, m, asked)
        \/ \E asked \in Delegating : CheckDelegate(r, m, asked)
        \/ \E asked \in Moving : CheckMove(r, m, asked)
        \/ \E score \in Scores : CheckRate(r, m, score)
        \/ CheckRequest(r, m)
  BY DEF CheckStep
<1>2. ASSUME NEW asked \in Statusing, CheckStatus(r, m, asked) PROVE Goal
  <2>0. PICK s \in Statuses, b \in BOOLEAN :
          asked = [status |-> s, completed |-> b] /\ (b <=> s = "DONE")
    <3>1. \A s \in Statuses : (s = "DONE") \in BOOLEAN
      OBVIOUS
    <3> QED
      BY <3>1 DEF Statusing
  <2>1. asked \in Piece
    BY <2>0 DEF Piece
  <2>2. \A c \in Firsts : c \in DOMAIN asked => Agree(c, asked[c], asked[Partner(c)])
    BY <2>0 DEF Firsts, Partner, Agree
  <2> QED
    BY <1>2, <2>1, <2>2, BeginPairs DEF CheckStatus
<1>3. ASSUME NEW asked \in Blocking, CheckBlock(r, m, asked) PROVE Goal
  <2>0. PICK b \in BOOLEAN, g \in BOOLEAN : asked = [blocked |-> b, reason |-> g] /\ (g => b)
    <3>1. \A b, g \in BOOLEAN : (b /\ g) \in BOOLEAN
      OBVIOUS
    <3> QED
      BY <3>1 DEF Blocking
  <2>1. asked \in Piece
    BY <2>0 DEF Piece
  <2>2. \A c \in Firsts : c \in DOMAIN asked => Agree(c, asked[c], asked[Partner(c)])
    BY <2>0 DEF Firsts, Partner, Agree
  <2> QED
    BY <1>3, <2>1, <2>2, BeginPairs DEF CheckBlock
<1>4. ASSUME NEW asked \in Prioritizing \cup Delegating \cup Moving \cup {Nothing}
      PROVE  /\ asked \in Piece
             /\ \A c \in Firsts : c \notin DOMAIN asked
  BY DEF Prioritizing, Delegating, Moving, Nothing, Piece, Firsts
<1>5. ASSUME NEW asked \in Prioritizing, CheckPriority(r, m, asked) PROVE Goal
  BY <1>4, <1>5, BeginPairs DEF CheckPriority
<1>6. ASSUME NEW asked \in Delegating, CheckDelegate(r, m, asked) PROVE Goal
  BY <1>4, <1>6, BeginPairs DEF CheckDelegate
<1>7. ASSUME NEW asked \in Moving, CheckMove(r, m, asked) PROVE Goal
  BY <1>4, <1>7, BeginPairs DEF CheckMove
<1>8. ASSUME NEW score \in Scores, CheckRate(r, m, score) PROVE Goal
  BY <1>4, <1>8, BeginPairs DEF CheckRate
<1>9. ASSUME CheckRequest(r, m) PROVE Goal
  BY <1>4, <1>9, BeginPairs DEF CheckRequest
<1> QED
  BY <1>1, <1>2, <1>3, <1>5, <1>6, <1>7, <1>8, <1>9

LEMMA LoadPairs ==
  ASSUME PairsKept, NEW r \in Requests, Load(r)
  PROVE  AsksPairs' /\ \A c \in Firsts : Steady(c) => Steady(c)'
<1>1. PICK q : q = req[r]
  OBVIOUS
<1>2. q \in Request /\ q # Idle /\ q.asked \in Piece
  BY <1>1, RequestFields DEF Load, PairsKept, Typed, TypeOK
<1>3. PICK l : l = Restrict(card, DOMAIN q.asked)
  OBVIOUS
<1>4. PICK n : n = [q EXCEPT !.stage = "loaded", !.loaded = l]
  OBVIOUS
<1>5. /\ n.asked = q.asked /\ n.loaded = l /\ n # Idle
  BY <1>2, <1>4 DEF Request, Idle
<1>6. \A s \in Requests : req'[s] = IF s = r THEN n ELSE req[s]
  BY <1>1, <1>3, <1>4 DEF Load, PairsKept, Typed, TypeOK
<1>7. AsksPairs'
  BY <1>1, <1>2, <1>5, <1>6 DEF PairsKept, AsksPairs, Changing
<1>8. ASSUME NEW c \in Firsts, c \in DOMAIN q.asked
      PROVE  l[c] = card[c] /\ l[Partner(c)] = card[Partner(c)]
  BY <1>2, <1>3, <1>8, BothOrNeither DEF Restrict
<1>9. card' = card
  BY DEF Load
<1>10. ASSUME NEW c \in Firsts, Steady(c) PROVE Steady(c)'
  BY <1>1, <1>2, <1>5, <1>6, <1>8, <1>9, <1>10 DEF Steady, Changing
<1> QED
  BY <1>7, <1>10

(***************************************************************************)
(* The slot of a call that ends, or none, is emptied and the pair is left  *)
(* alone.                                                                  *)
(***************************************************************************)
LEMMA EndPairs ==
  ASSUME PairsKept, NEW r \in Requests, req' = [req EXCEPT ![r] = Idle]
  PROVE  /\ AsksPairs'
         /\ \A s \in Requests : req'[s] = IF s = r THEN Idle ELSE req[s]
         /\ \A c \in Firsts :
              /\ Steady(c) /\ card'[c] = card[c] /\ card'[Partner(c)] = card[Partner(c)]
              => Steady(c)'
<1>1. \A s \in Requests : req'[s] = IF s = r THEN Idle ELSE req[s]
  BY DEF PairsKept, Typed, TypeOK
<1>2. AsksPairs'
  BY <1>1 DEF PairsKept, AsksPairs, Changing
<1>3. ASSUME NEW c \in Firsts, Steady(c), card'[c] = card[c],
             card'[Partner(c)] = card[Partner(c)]
      PROVE  Steady(c)'
  BY <1>1, <1>3 DEF Steady, Changing
<1> QED
  BY <1>1, <1>2, <1>3

LEMMA ChangePairs ==
  ASSUME PairsKept, NEW r \in Requests, CommitChange(r)
  PROVE  AsksPairs' /\ \A c \in Firsts : c \notin fought /\ Steady(c) => Steady(c)'
<1>1. PICK q : q = req[r]
  OBVIOUS
<1>2. q \in Request /\ q # Idle /\ q.asked \in Piece /\ q.stage = "loaded"
  BY <1>1, RequestFields DEF CommitChange, PairsKept, Typed, TypeOK
<1>3. card' = Merged(q) /\ req' = [req EXCEPT ![r] = Idle]
  BY <1>1 DEF CommitChange
<1>4. AsksPairs' /\ \A s \in Requests : req'[s] = IF s = r THEN Idle ELSE req[s]
  BY <1>3, EndPairs
<1>5. ASSUME NEW c \in Firsts, c \notin fought, Steady(c) PROVE Steady(c)'
  <2>1. CASE c \notin DOMAIN q.asked
    <3>1. card'[c] = card[c] /\ card'[Partner(c)] = card[Partner(c)]
      BY <1>2, <1>3, <2>1, BothOrNeither DEF Merged
    <3> QED
      BY <1>3, <1>5, <3>1, EndPairs
  <2>2. CASE c \in DOMAIN q.asked
    <3>1. c \in Changing(req[r])
      BY <1>1, <1>2, <2>2 DEF Changing
    <3>2. q.loaded[c] = card[c] /\ q.loaded[Partner(c)] = card[Partner(c)]
      BY <1>1, <1>2, <1>5, <3>1 DEF Steady
    <3>3. Partner(c) \in DOMAIN q.asked /\ {c, Partner(c)} \subseteq Columns
      BY <1>2, <2>2, BothOrNeither
    <3>4. q.asked[Partner(c)] \in BOOLEAN
      BY <1>2, <3>3, PieceCells DEF Cells, Partner
    <3>5. card'[c] = q.asked[c] /\ card'[Partner(c)] = q.asked[Partner(c)]
      BY <1>3, <2>2, <3>2, <3>3, <3>4 DEF Merged, Column, Partner, Firsts
    <3>6. Agree(c, q.asked[c], q.asked[Partner(c)])
      BY <1>1, <3>1 DEF PairsKept, AsksPairs
    <3>7. \A s \in Requests : c \in Changing(req[s]) => s = r
      BY <1>5, <3>1, NobodyElse DEF PairsKept
    <3>8. \A s \in Requests : c \notin Changing(req'[s])
      BY <1>4, <3>7 DEF Changing
    <3> QED
      BY <3>5, <3>6, <3>8 DEF Steady
  <2> QED
    BY <2>1, <2>2
<1> QED
  BY <1>4, <1>5

LEMMA DeletePairs ==
  ASSUME PairsKept, NEW x \in live, Delete(x)
  PROVE  AsksPairs' /\ \A c \in Firsts : Steady(c) => Steady(c)'
<1>1. /\ card' = [c \in Columns |-> IF c \in Links /\ card[c] = x THEN None ELSE card[c]]
      /\ req' = req
  BY DEF Delete
<1>2. Nothing \in Piece
  BY DEF Piece
<1>3. \A c \in Firsts : card'[c] = card[c] /\ card'[Partner(c)] = card[Partner(c)]
  BY <1>1, <1>2, BothOrNeither
<1> QED
  BY <1>1, <1>3 DEF PairsKept, AsksPairs, Steady

LEMMA PairsInit == HistoryInit => PairsKept
<1> SUFFICES ASSUME HistoryInit PROVE PairsKept
  OBVIOUS
<1>1. Typed
  BY TypedInit DEF HistoryInit
<1>2. \A r \in Requests : Changing(req[r]) = {}
  BY DEF HistoryInit, Init, Changing
<1>3. AsksPairs /\ Disputed \subseteq fought
  BY <1>2 DEF AsksPairs, Disputed, RatesUnderChange, HistoryInit, Init
<1>4. \A c \in Firsts : Steady(c)
  BY <1>2 DEF HistoryInit, Init, NewCard, Firsts, Partner, Agree, Steady
<1> QED
  BY <1>1, <1>3, <1>4 DEF PairsKept

LEMMA PairsStep ==
  ASSUME PairsKept, [HistoryNext]_<<vars, fought>>
  PROVE  PairsKept'
<1> DEFINE Goal == AsksPairs' /\ \A c \in Firsts : c \notin fought /\ Steady(c) => Steady(c)'
<1>1. CASE UNCHANGED <<vars, fought>>
  BY <1>1 DEF vars, PairsKept, Typed, TypeOK, Asking, Asks, AsksPairs, Disputed,
     RatesUnderChange, Changing, Steady
<1>2. CASE HistoryNext
  <2>1. ASSUME NEW r \in Requests, CheckStep(r) PROVE Goal
    BY <2>1, CheckPairs
  <2>2. ASSUME NEW r \in Requests, Load(r) PROVE Goal
    BY <2>2, LoadPairs
  <2>3. ASSUME NEW r \in Requests, CommitChange(r) PROVE Goal
    BY <2>3, ChangePairs
  <2>4. ASSUME NEW r \in Requests, CommitRating(r) \/ CommitRequest(r) \/ Abandon(r) PROVE Goal
    <3>1. req' = [req EXCEPT ![r] = Idle] /\ card' = card
      BY <2>4 DEF CommitRating, CommitRequest, Abandon
    <3> QED
      BY <3>1, EndPairs
  <2>5. ASSUME NEW x \in live, Delete(x) PROVE Goal
    BY <2>5, DeletePairs
  <2>6. Goal
    BY <1>2, <2>1, <2>2, <2>3, <2>4, <2>5 DEF HistoryNext, Next, CommitStep
  <2>7. Typed'
    BY <1>2, TypedStep DEF HistoryNext, PairsKept
  <2>8. fought' = fought \cup Disputed'
    BY <1>2 DEF HistoryNext
  <2> QED
    BY <2>6, <2>7, <2>8 DEF PairsKept
<1> QED
  BY <1>1, <1>2

(***************************************************************************)
(* Status and completion agree, and so do flag and reason, whatever other  *)
(* calls overlap, unless two calls changed the same pair at once.          *)
(***************************************************************************)
THEOREM PairsHold == HistorySpec => []PairsAgree
<1>1. PairsKept => PairsAgree
  BY DEF PairsKept, Firsts, Partner, Agree, Steady, PairsAgree, CompletedIffDone,
     ReasonOnlyWhenBlocked
<1> QED
  BY <1>1, PairsInit, PairsStep, PTL DEF HistorySpec

-----------------------------------------------------------------------------
(***************************************************************************)
(* A rating under way found the task DONE, and the task still is, unless a *)
(* change of the status was under way as well.                             *)
(***************************************************************************)
RatesDone ==
  \A r \in Requests : req[r] # Idle /\ req[r].call = "rate" =>
    card.status = "DONE" \/ "rating" \in fought

RatesKept == Typed /\ Disputed \subseteq fought /\ RatesDone

LEMMA BeginDone ==
  ASSUME RatesKept, NEW r \in Requests, NEW m, NEW call, NEW asked, NEW score,
         Begin(r, m, call, asked, score), call = "rate" => card.status = "DONE",
         fought \subseteq fought'
  PROVE  RatesDone'
<1>1. PICK q : q = [stage |-> "checked", call |-> call, by |-> m, asked |-> asked,
                    score |-> score, seen |-> Restrict(card, Links), loaded |-> Nothing]
  OBVIOUS
<1>2. \A s \in Requests : req'[s] = IF s = r THEN q ELSE req[s]
  BY <1>1 DEF Begin, RatesKept, Typed, TypeOK
<1> QED
  BY <1>1, <1>2 DEF Begin, RatesKept, RatesDone

LEMMA LoadDone ==
  ASSUME RatesKept, NEW r \in Requests, Load(r), fought \subseteq fought'
  PROVE  RatesDone'
<1>1. req[r] \in Request /\ req[r] # Idle /\ card' = card
  BY RequestFields DEF Load, RatesKept, Typed, TypeOK
<1>2. PICK n : n = [req[r] EXCEPT !.stage = "loaded",
                                  !.loaded = Restrict(card, DOMAIN req[r].asked)]
  OBVIOUS
<1>3. n.call = req[r].call
  BY <1>1, <1>2 DEF Request
<1>4. \A s \in Requests : req'[s] = IF s = r THEN n ELSE req[s]
  BY <1>2 DEF Load, RatesKept, Typed, TypeOK
<1> QED
  BY <1>1, <1>3, <1>4 DEF RatesKept, RatesDone

LEMMA ChangeDone ==
  ASSUME RatesKept, NEW r \in Requests, CommitChange(r), fought \subseteq fought'
  PROVE  RatesDone'
<1>1. \A s \in Requests : req'[s] = IF s = r THEN Idle ELSE req[s]
  BY DEF CommitChange, RatesKept, Typed, TypeOK
<1>2. card' = Merged(req[r]) /\ req[r] # Idle
  BY RequestFields DEF CommitChange, RatesKept, Typed, TypeOK
<1>3. CASE "status" \in DOMAIN req[r].asked
  <2>1. ASSUME NEW s \in Requests, req[s] # Idle, req[s].call = "rate"
        PROVE  "rating" \in fought
    BY <1>2, <1>3, <2>1 DEF RatesKept, Disputed, RatesUnderChange, Changing
  <2> QED
    BY <1>1, <2>1 DEF RatesDone
<1>4. CASE "status" \notin DOMAIN req[r].asked
  <2>1. card'.status = card.status
    BY <1>2, <1>4 DEF Merged, Columns
  <2> QED
    BY <1>1, <2>1 DEF RatesKept, RatesDone
<1> QED
  BY <1>3, <1>4

LEMMA RatesStep ==
  ASSUME RatesKept, [HistoryNext]_<<vars, fought>>
  PROVE  RatesKept'
<1>1. CASE UNCHANGED <<vars, fought>>
  BY <1>1 DEF vars, RatesKept, Typed, TypeOK, Asking, Asks, Disputed, RatesUnderChange,
     Changing, RatesDone
<1>2. CASE HistoryNext
  <2>0. Typed' /\ fought \subseteq fought' /\ Disputed' \subseteq fought'
    BY <1>2, TypedStep DEF HistoryNext, RatesKept
  <2>1. ASSUME NEW r \in Requests, CheckStep(r) PROVE RatesDone'
    BY <2>0, <2>1, BeginDone DEF CheckStep, CheckStatus, CheckPriority, CheckBlock, CheckDelegate,
       CheckMove, CheckRate, CheckRequest
  <2>2. ASSUME NEW r \in Requests, Load(r) PROVE RatesDone'
    BY <2>0, <2>2, LoadDone
  <2>3. ASSUME NEW r \in Requests, CommitChange(r) PROVE RatesDone'
    BY <2>0, <2>3, ChangeDone
  <2>4. ASSUME NEW r \in Requests, CommitRating(r) \/ CommitRequest(r) \/ Abandon(r)
        PROVE  RatesDone'
    <3>1. req' = [req EXCEPT ![r] = Idle] /\ card' = card
      BY <2>4 DEF CommitRating, CommitRequest, Abandon
    <3>2. \A s \in Requests : req'[s] = IF s = r THEN Idle ELSE req[s]
      BY <3>1 DEF RatesKept, Typed, TypeOK
    <3> QED
      BY <2>0, <3>1, <3>2 DEF RatesKept, RatesDone
  <2>5. ASSUME NEW x \in live, Delete(x) PROVE RatesDone'
    <3>1. card'.status = card.status /\ req' = req
      BY <2>5 DEF Delete, Columns, Links
    <3> QED
      BY <2>0, <3>1 DEF RatesKept, RatesDone
  <2>6. RatesDone'
    BY <1>2, <2>1, <2>2, <2>3, <2>4, <2>5 DEF HistoryNext, Next, CommitStep
  <2> QED
    BY <2>0, <2>6 DEF RatesKept
<1> QED
  BY <1>1, <1>2

(***************************************************************************)
(* However calls overlap, a task gets one rating and gets it while it is   *)
(* DONE, unless the status was being changed while the rating was under    *)
(* way: a change cannot begin and end between the look and the insert      *)
(* without having been under way together with the rating.                 *)
(***************************************************************************)
THEOREM RatingsAreOfFinishedWork == HistorySpec => RatesFinishedWork
<1> DEFINE OfFinished ==
      live' = live /\ ratings' # ratings =>
        ratings = {} /\ (card.status = "DONE" \/ "rating" \in fought)
<1>1. HistoryInit => RatesKept
  <2> SUFFICES ASSUME HistoryInit PROVE RatesKept
    OBVIOUS
  <2>1. \A r \in Requests : req[r] = Idle /\ Changing(req[r]) = {}
    BY DEF HistoryInit, Init, Changing
  <2>2. Disputed \subseteq fought
    BY <2>1 DEF Disputed, RatesUnderChange
  <2> QED
    BY <2>1, <2>2, TypedInit DEF HistoryInit, RatesKept, RatesDone
<1>2. RatesKept /\ [HistoryNext]_<<vars, fought>> => [OfFinished]_<<vars, fought>>
  <2> SUFFICES ASSUME RatesKept, HistoryNext PROVE OfFinished
    OBVIOUS
  <2>1. ASSUME NEW r \in Requests, CommitRating(r) PROVE OfFinished
    BY <2>1 DEF CommitRating, RatingIndexAllows, RatesKept, RatesDone, Idle
  <2>2. ASSUME NEW x \in live, Delete(x) PROVE live' # live
    BY <2>2 DEF Delete
  <2>3. ASSUME NEW r \in Requests,
               CheckStep(r) \/ Load(r) \/ CommitChange(r) \/ CommitRequest(r) \/ Abandon(r)
        PROVE  ratings' = ratings
    BY <2>3 DEF CheckStep, CheckStatus, CheckPriority, CheckBlock, CheckDelegate, CheckMove,
       CheckRate, CheckRequest, Begin, Load, CommitChange, CommitRequest, Abandon
  <2> QED
    BY <2>1, <2>2, <2>3 DEF HistoryNext, Next, CommitStep
<1>3. [OfFinished]_<<vars, fought>> =>
        [live' = live /\ ratings' # ratings =>
           ratings = {} /\ (card.status = "DONE" \/ "rating" \in fought)]_<<vars, fought>>
  OBVIOUS
<1> QED
  BY <1>1, <1>2, <1>3, RatesStep, PTL DEF HistorySpec, RatesFinishedWork

-----------------------------------------------------------------------------
(***************************************************************************)
(* The stream and the card.  While a call is the only one to change a      *)
(* column, what it has in hand is what is stored, but for a link to        *)
(* something deleted since.                                                *)
(***************************************************************************)
Lost(c, v) == c \in Links /\ card[c] = None /\ v \notin live

InHand(q, c) ==
  /\ c \in Links => card[c] = q.seen[c] \/ Lost(c, q.seen[c])
  /\ q.stage = "loaded" => card[c] = q.loaded[c] \/ Lost(c, q.loaded[c])

Known(c) ==
  LogTells(c) /\ \A r \in Requests : c \in Changing(req[r]) => InHand(req[r], c)

Quiet == \A c \in ToldColumns \ Followed : told[c] = Untold

MovesLinks ==
  \A r \in Requests : req[r] # Idle /\ req[r].call = "move" => DOMAIN req[r].asked \subseteq Links

Stories == ToldColumns \ {"blocked"}

Story ==
  /\ Typed /\ Disputed \subseteq fought
  /\ Quiet /\ MovesLinks
  /\ \A c \in Stories : c \notin fought => Known(c)

LEMMA NoneIsNobody ==
  ASSUME Typed
  PROVE  None \notin live
BY CardAssumption DEF Typed, TypeOK

LEMMA BeginStory ==
  ASSUME Story, NEW r \in Requests, NEW m, NEW call, NEW asked, NEW score,
         Begin(r, m, call, asked, score), call = "move" => DOMAIN asked \subseteq Links
  PROVE  Quiet' /\ MovesLinks' /\ \A c \in Stories : Known(c) => Known(c)'
<1>1. PICK q : q = [stage |-> "checked", call |-> call, by |-> m, asked |-> asked,
                    score |-> score, seen |-> Restrict(card, Links), loaded |-> Nothing]
  OBVIOUS
<1>2. \A s \in Requests : req'[s] = IF s = r THEN q ELSE req[s]
  BY <1>1 DEF Begin, Story, Typed, TypeOK
<1>3. UNCHANGED <<card, told, live>>
  BY DEF Begin
<1>4. ASSUME NEW c \in Stories PROVE InHand(q, c)
  <2>1. c \in Links => q.seen[c] = card[c]
    BY <1>1 DEF Restrict, Links, Story, Typed, TypeOK, Row
  <2> QED
    BY <1>1, <2>1 DEF InHand
<1>5. ASSUME NEW c \in Stories, Known(c) PROVE Known(c)'
  <2>1. \A s \in Requests : c \in Changing(req'[s]) => InHand(req'[s], c)
    BY <1>2, <1>4, <1>5 DEF Known
  <2> QED
    BY <1>3, <1>5, <2>1 DEF Known, LogTells, InHand, Lost, Changing
<1>6. Quiet' /\ MovesLinks'
  BY <1>1, <1>2, <1>3 DEF Story, Quiet, MovesLinks
<1> QED
  BY <1>5, <1>6

LEMMA CheckStory ==
  ASSUME Story, NEW r \in Requests, CheckStep(r)
  PROVE  Quiet' /\ MovesLinks' /\ \A c \in Stories : Known(c) => Known(c)'
<1>1. PICK m \in Members :
        \/ \E asked \in Statusing : CheckStatus(r, m, asked)
        \/ \E asked \in Prioritizing : CheckPriority(r, m, asked)
        \/ \E asked \in Blocking : CheckBlock(r, m, asked)
        \/ \E asked \in Delegating : CheckDelegate(r, m, asked)
        \/ \E asked \in Moving : CheckMove(r, m, asked)
        \/ \E score \in Scores : CheckRate(r, m, score)
        \/ CheckRequest(r, m)
  BY DEF CheckStep
<1>2. PICK call, asked, score :
        Begin(r, m, call, asked, score) /\ (call = "move" => DOMAIN asked \subseteq Links)
  <2>1. \A asked \in Moving : DOMAIN asked \subseteq Links
    BY DEF Moving, Links
  <2> QED
    BY <1>1, <2>1 DEF CheckStatus, CheckPriority, CheckBlock, CheckDelegate, CheckMove,
       CheckRate, CheckRequest
<1> QED
  BY <1>2, BeginStory

LEMMA LoadStory ==
  ASSUME Story, NEW r \in Requests, Load(r)
  PROVE  Quiet' /\ MovesLinks' /\ \A c \in Stories : Known(c) => Known(c)'
<1>1. PICK q : q = req[r]
  OBVIOUS
<1>2. q \in Request /\ q # Idle /\ q.asked \in Piece
  BY <1>1, RequestFields DEF Load, Story, Typed, TypeOK
<1>3. PICK l : l = Restrict(card, DOMAIN q.asked)
  OBVIOUS
<1>4. \A c \in DOMAIN q.asked : l[c] = card[c]
  BY <1>3 DEF Restrict
<1>5. PICK n : n = [q EXCEPT !.stage = "loaded", !.loaded = l]
  OBVIOUS
<1>6. n.asked = q.asked /\ n.call = q.call /\ n.seen = q.seen /\ n.loaded = l /\ n # Idle
  BY <1>2, <1>5 DEF Request, Idle
<1>7. \A s \in Requests : req'[s] = IF s = r THEN n ELSE req[s]
  BY <1>1, <1>3, <1>5 DEF Load, Story, Typed, TypeOK
<1>8. UNCHANGED <<card, told, live>>
  BY DEF Load
<1>9. ASSUME NEW c \in Stories, Known(c) PROVE Known(c)'
  <2>1. c \in Changing(n) => InHand(n, c)
    BY <1>1, <1>2, <1>4, <1>6, <1>9 DEF Known, InHand, Changing
  <2>2. \A s \in Requests : c \in Changing(req'[s]) => InHand(req'[s], c)
    BY <1>7, <1>9, <2>1 DEF Known
  <2> QED
    BY <1>8, <1>9, <2>2 DEF Known, LogTells, InHand, Lost, Changing
<1>10. Quiet' /\ MovesLinks'
  BY <1>1, <1>2, <1>6, <1>7, <1>8 DEF Story, Quiet, MovesLinks
<1> QED
  BY <1>9, <1>10

(***************************************************************************)
(* A call that ends: a column it does not touch stays known.               *)
(***************************************************************************)
LEMMA EndStory ==
  ASSUME Story, NEW r \in Requests, req' = [req EXCEPT ![r] = Idle], live' = live,
         NEW c \in Stories, Known(c), card'[c] = card[c], told'[c] = told[c]
  PROVE  Known(c)'
<1>1. \A s \in Requests : req'[s] = IF s = r THEN Idle ELSE req[s]
  BY DEF Story, Typed, TypeOK
<1>2. \A s \in Requests : c \in Changing(req'[s]) => InHand(req'[s], c)
  BY <1>1 DEF Known, Changing
<1> QED
  BY <1>2 DEF Known, LogTells, InHand, Lost, Changing

(***************************************************************************)
(* The column a commit writes, and what it tells about it.                 *)
(***************************************************************************)
LEMMA ColumnStory ==
  ASSUME Story, NEW r \in Requests, CommitChange(r),
         NEW c \in Stories, Known(c), c \in DOMAIN req[r].asked
  PROVE  LogTells(c)'
<1>1. PICK q : q = req[r]
  OBVIOUS
<1>2. q \in Request /\ q # Idle /\ q.asked \in Piece /\ InHand(q, c) /\ q.stage = "loaded"
      /\ c \in DOMAIN q.asked
  BY <1>1, RequestFields DEF CommitChange, Story, Typed, TypeOK, Known, Changing
<1>3. /\ card'[c] = Merged(q)[c] /\ live' = live
      /\ told'[c] = IF c \in Tells(q) \cap Followed THEN Tale(q, c) ELSE told[c]
      /\ Accepts(Merged(q))
  BY <1>1 DEF CommitChange, Stories
<1>4. c \in Columns /\ c # "completed" /\ c # "blocked" /\ c \in ToldColumns
  BY DEF Stories, ToldColumns, Columns
<1>5. Merged(q)[c] = Column(card[c], q.loaded[c], q.asked[c])
  BY <1>2, <1>4 DEF Merged
<1>6. LogTells(c) /\ (c \notin Followed => told[c] = Untold)
  BY <1>4 DEF Story, Known, Quiet
<1>7. None \notin live
  BY NoneIsNobody DEF Story
<1>8. CASE c \notin Followed
  BY <1>3, <1>6, <1>8 DEF LogTells
<1>9. CASE c \in Followed /\ q.call = "move"
  <2>1. c \in Links /\ Merged(q)[c] \in live \cup {None}
    BY <1>1, <1>2, <1>3, <1>9 DEF Story, MovesLinks, Accepts
  <2>2. card[c] = q.seen[c] \/ Lost(c, q.seen[c])
    BY <1>2, <2>1 DEF InHand
  <2>3. CASE Merged(q)[c] = q.seen[c]
    <3>1. card'[c] = card[c]
      BY <1>3, <2>1, <2>2, <2>3 DEF Lost
    <3>2. told'[c] = told[c]
      BY <1>3, <1>9, <2>3 DEF Tells
    <3> QED
      BY <1>3, <1>6, <3>1, <3>2 DEF LogTells
  <2>4. CASE Merged(q)[c] # q.seen[c]
    BY <1>2, <1>3, <1>9, <2>4 DEF LogTells, Tells, Tale
  <2> QED
    BY <2>3, <2>4
<1>10. CASE c \in Followed /\ q.call # "move"
  <2>1. told'[c] = q.asked[c]
    BY <1>2, <1>3, <1>4, <1>10 DEF Tells, Tale
  <2>2. card[c] = q.loaded[c] \/ Lost(c, q.loaded[c])
    BY <1>2 DEF InHand
  <2>3. card'[c] = Column(card[c], q.loaded[c], q.asked[c])
    BY <1>3, <1>5
  <2>4. CASE q.asked[c] # q.loaded[c]
    BY <2>1, <2>3, <2>4 DEF Column, LogTells
  <2>5. CASE q.asked[c] = q.loaded[c]
    <3>1. card'[c] = card[c] /\ told'[c] = q.loaded[c]
      BY <2>1, <2>3, <2>5 DEF Column
    <3> QED
      BY <1>3, <2>2, <3>1 DEF Lost, LogTells
  <2> QED
    BY <2>4, <2>5
<1> QED
  BY <1>8, <1>9, <1>10

LEMMA ChangeStory ==
  ASSUME Story, NEW r \in Requests, CommitChange(r)
  PROVE  /\ Quiet' /\ MovesLinks'
         /\ \A c \in Stories : c \notin fought /\ Known(c) => Known(c)'
<1>1. \A s \in Requests : req'[s] = IF s = r THEN Idle ELSE req[s]
  BY DEF CommitChange, Story, Typed, TypeOK
<1>2. req[r] # Idle
  BY RequestFields DEF CommitChange, Story, Typed, TypeOK
<1>3. Quiet' /\ MovesLinks'
  BY <1>1 DEF CommitChange, Story, Quiet, MovesLinks
<1>4. ASSUME NEW c \in Stories, c \notin fought, Known(c) PROVE Known(c)'
  <2>1. CASE c \in DOMAIN req[r].asked
    <3>1. \A s \in Requests : c \in Changing(req[s]) => s = r
      BY <1>2, <1>4, <2>1 DEF Story, Disputed, Changing, Stories, ToldColumns, Columns
    <3>2. \A s \in Requests : c \notin Changing(req'[s])
      BY <1>1, <3>1 DEF Changing
    <3> QED
      BY <1>4, <2>1, <3>2, ColumnStory DEF Known, Changing
  <2>2. CASE c \notin DOMAIN req[r].asked
    <3>1. card'[c] = card[c] /\ told'[c] = told[c] /\ live' = live
      BY <2>2 DEF CommitChange, Merged, Tells, Stories, ToldColumns, Columns
    <3> QED
      BY <1>4, <3>1, EndStory DEF CommitChange
  <2> QED
    BY <2>1, <2>2
<1> QED
  BY <1>3, <1>4

LEMMA DeleteStory ==
  ASSUME Story, NEW x \in live, Delete(x)
  PROVE  Quiet' /\ MovesLinks' /\ \A c \in Stories : Known(c) => Known(c)'
<1>1. live' = live \ {x} /\ told' = told /\ req' = req
  BY DEF Delete
<1>2. x # None
  BY NoneIsNobody DEF Story
<1>3. \A c \in Columns : card'[c] = IF c \in Links /\ card[c] = x THEN None ELSE card[c]
  BY DEF Delete
<1>4. ASSUME NEW c \in Columns, NEW v, card[c] = v \/ Lost(c, v)
      PROVE  card'[c] = v \/ (c \in Links /\ card'[c] = None /\ v \notin live')
  BY <1>1, <1>2, <1>3, <1>4 DEF Lost
<1>5. ASSUME NEW c \in Stories, Known(c) PROVE Known(c)'
  <2>1. c \in Columns
    BY DEF Stories, ToldColumns, Columns
  <2>2. told[c] = Untold \/ card[c] = told[c] \/ Lost(c, told[c])
    BY <1>5 DEF Known, LogTells, Lost
  <2>3. LogTells(c)'
    BY <1>1, <1>4, <2>1, <2>2 DEF LogTells
  <2>4. ASSUME NEW q, InHand(q, c)
        PROVE  /\ c \in Links =>
                    card'[c] = q.seen[c] \/ (card'[c] = None /\ q.seen[c] \notin live')
               /\ q.stage = "loaded" =>
                    card'[c] = q.loaded[c]
                      \/ (c \in Links /\ card'[c] = None /\ q.loaded[c] \notin live')
    BY <1>4, <2>1, <2>4 DEF InHand
  <2>5. \A r \in Requests : c \in Changing(req[r]) => InHand(req[r], c)
    BY <1>5 DEF Known
  <2> QED
    BY <1>1, <2>3, <2>4, <2>5 DEF Known, Changing, InHand, Lost
<1>6. Quiet' /\ MovesLinks'
  BY <1>1 DEF Story, Quiet, MovesLinks
<1> QED
  BY <1>5, <1>6

LEMMA StoryInit == HistoryInit => Story
<1> SUFFICES ASSUME HistoryInit PROVE Story
  OBVIOUS
<1>1. \A r \in Requests : req[r] = Idle /\ Changing(req[r]) = {}
  BY DEF HistoryInit, Init, Changing
<1>2. Disputed \subseteq fought
  BY <1>1 DEF Disputed, RatesUnderChange
<1>3. \A c \in ToldColumns : told[c] = Untold
  BY DEF HistoryInit, Init
<1>4. \A c \in Stories : Known(c)
  BY <1>1, <1>3 DEF Known, LogTells, Stories
<1>5. Quiet /\ MovesLinks
  BY <1>1, <1>3 DEF Quiet, MovesLinks
<1> QED
  BY <1>2, <1>4, <1>5, TypedInit DEF HistoryInit, Story

LEMMA StoryStep ==
  ASSUME Story, [HistoryNext]_<<vars, fought>>
  PROVE  Story'
<1> DEFINE Goal == /\ Quiet' /\ MovesLinks'
                   /\ \A c \in Stories : c \notin fought /\ Known(c) => Known(c)'
<1>1. CASE UNCHANGED <<vars, fought>>
  BY <1>1 DEF vars, Story, Typed, TypeOK, Asking, Asks, Disputed, RatesUnderChange, Changing,
     Quiet, MovesLinks, Known, LogTells, InHand, Lost
<1>2. CASE HistoryNext
  <2>1. ASSUME NEW r \in Requests, CommitChange(r) PROVE Goal
    BY <2>1, ChangeStory
  <2>2. ASSUME NEW r \in Requests, CommitRequest(r) \/ CommitRating(r) \/ Abandon(r) PROVE Goal
    <3>1. /\ card' = card /\ live' = live /\ req' = [req EXCEPT ![r] = Idle]
          /\ \A c \in ToldColumns : c # "blocked" \/ c \notin Followed => told'[c] = told[c]
      BY <2>2 DEF CommitRequest, CommitRating, Abandon
    <3>2. \A s \in Requests : req'[s] = IF s = r THEN Idle ELSE req[s]
      BY <3>1 DEF Story, Typed, TypeOK
    <3>3. Quiet' /\ MovesLinks'
      BY <3>1, <3>2 DEF Story, Quiet, MovesLinks
    <3>4. \A c \in Stories : Known(c) => Known(c)'
      BY <3>1, EndStory DEF Stories
    <3> QED
      BY <3>3, <3>4
  <2>3. ASSUME NEW r \in Requests, CheckStep(r) PROVE Goal
    BY <2>3, CheckStory
  <2>4. ASSUME NEW r \in Requests, Load(r) PROVE Goal
    BY <2>4, LoadStory
  <2>5. ASSUME NEW x \in live, Delete(x) PROVE Goal
    BY <2>5, DeleteStory
  <2>6. Goal
    BY <1>2, <2>1, <2>2, <2>3, <2>4, <2>5 DEF HistoryNext, Next, CommitStep
  <2>7. Typed' /\ fought' = fought \cup Disputed'
    BY <1>2, TypedStep DEF HistoryNext, Story
  <2> QED
    BY <2>6, <2>7 DEF Story
<1> QED
  BY <1>1, <1>2

(***************************************************************************)
(* However calls and deletions overlap, the activity stream tells what a   *)
(* column of the card is, unless two calls were changing it at once.       *)
(***************************************************************************)
THEOREM TheStreamTellsTheCard == HistorySpec => []UncontestedStream
<1>1. Story => UncontestedStream
  BY DEF Story, Stories, Known, UncontestedStream
<1> QED
  BY <1>1, StoryInit, StoryStep, PTL DEF HistorySpec
=============================================================================
