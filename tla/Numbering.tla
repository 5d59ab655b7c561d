----------------------------- MODULE Numbering ------------------------------
(***************************************************************************)
(* What the public ids of a workspace promise: the tasks form one list     *)
(* that only grows at its end.  The number of a task is its place in it,   *)
(* so numbers start at 1, have no gap, are never shared and never change.  *)
(***************************************************************************)
EXTENDS Sequences, Naturals

CONSTANT Tasks
VARIABLE book

Listed == {book[n] : n \in DOMAIN book}

Init == book = << >>

Next == \E t \in Tasks \ Listed : book' = Append(book, t)

Spec == Init /\ [][Next]_book
=============================================================================
