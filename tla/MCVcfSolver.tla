---------------------------- MODULE MCVcfSolver ----------------------------
(* Positions of a game under way on a side of 6: a row of three for each     *)
(* colour, whose ends are empty, blocked or extended towards an overline,    *)
(* and a column of three that crosses both; a white stone far away.          *)
EXTENDS VcfSolver

Fixed == 1 :> "BLACK" @@ 2 :> "BLACK" @@ 3 :> "BLACK" @@ 17 :> "BLACK" @@ 23 :> "BLACK" @@ 29 :> "BLACK"
         @@ 6 :> "WHITE" @@ 7 :> "WHITE" @@ 8 :> "WHITE" @@ 30 :> "WHITE"
Free == {0, 4, 5, 9, 10, 11}

Balance(f) == Cardinality({c \in Free : f[c] = "BLACK"}) - Cardinality({c \in Free : f[c] = "WHITE"})

MCBoards ==
    {pos \in {[c \in Cells(6) |-> IF c \in DOMAIN Fixed THEN Fixed[c]
                                 ELSE IF c \in Free THEN f[c] ELSE "EMPTY"] :
                 f \in {g \in [Free -> Stones] : Balance(g) \in {-2, -1}}} :
        \A stone \in Colours : ~HasExactFive(pos, stone)}
=============================================================================
