-------------------------- MODULE MCGameController --------------------------
(***************************************************************************)
(* Two matches of the desktop application on a board of four cells, which  *)
(* fills up after the opening: every match can be played to its end.       *)
(***************************************************************************)
EXTENDS GameController

MCScripts == {[BLACK |-> <<0, 2, 1, 3>>, WHITE |-> <<1, 0, 3, 2>>]}

MCPlies == <<1, 5>>
=============================================================================
