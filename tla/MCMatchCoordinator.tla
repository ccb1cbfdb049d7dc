------------------------- MODULE MCMatchCoordinator -------------------------
(* A match of two humans and one of a human against an engine. *)
EXTENDS MatchCoordinator

MCOpponents == {[A |-> "human", B |-> "human"], [A |-> "engine", B |-> "human"]}
=============================================================================
