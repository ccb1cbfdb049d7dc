---------------------------- MODULE MCMatchClient ----------------------------
(* A game in which seat A acts twice in a row: the client's own two moves, or *)
(* two of the opponent, by the seat the client has.                          *)
EXTENDS MatchClient

MCTurns == <<"A", "A", "B", "A", "A", "B">>
=============================================================================
