------------------------------ MODULE Swap2Game ------------------------------
(***************************************************************************)
(* The Swap2 game as a specification: the abstract behaviour a board       *)
(* implements.                                                             *)
(***************************************************************************)
EXTENDS Swap2

VARIABLE view

Init == view = NewGame

Next == view' \in Successors(view)

Spec == Init /\ [][Next]_view
=============================================================================
