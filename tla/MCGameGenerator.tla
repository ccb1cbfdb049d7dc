--------------------------- MODULE MCGameGenerator ---------------------------
(* Games of three plies: seat A acts again after the other one. *)
EXTENDS GameGenerator

MCTurns == <<"A", "B", "A">>
=============================================================================
