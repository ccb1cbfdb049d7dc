---------------------------- MODULE MCMatchServer ----------------------------
(***************************************************************************)
(* Connections and names are interchangeable for the safety runs.          *)
(***************************************************************************)
EXTENDS MatchServer, TLC

ConnSymmetry == Permutations(Conns) \cup Permutations(Names)
=============================================================================
