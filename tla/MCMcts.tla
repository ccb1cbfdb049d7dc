------------------------------- MODULE MCMcts -------------------------------
(* A small game.  p0 to p2 are the opening, where seat A acts twice; the two *)
(* orders of the actions 1 and 2 meet in p3.  There B is under a threat that *)
(* only action 4 meets: after 3 the solver proves A's win in p6.  The        *)
(* evaluator gives the saving action no prior.                               *)
EXTENDS Mcts

MCSucc ==
    [p0 |-> (1 :> "p1" @@ 2 :> "p2"), p1 |-> (2 :> "p3" @@ 3 :> "p4"),
     p2 |-> (1 :> "p3"), p3 |-> (3 :> "p6" @@ 4 :> "p7"), p4 |-> (5 :> "p10"),
     p6 |-> (5 :> "p8"), p7 |-> (5 :> "p9"),
     p8 |-> <<>>, p9 |-> <<>>, p10 |-> <<>>]
MCMover ==
    [p \in DOMAIN MCSucc |->
        IF p \in {"p3", "p4", "p8", "p9"} THEN "B" ELSE "A"]
MCOpening == {"p0", "p1", "p2"}
MCOutcome == [p8 |-> 1, p9 |-> 0, p10 |-> -1]
MCValue == [p \in DOMAIN MCSucc |-> IF p \in {"p3", "p4"} THEN 1 ELSE 0]
MCZeroPrior == [p \in DOMAIN MCSucc |-> IF p = "p3" THEN {4} ELSE {}]
MCSolved == [p6 |-> 5]
MCSafeActions == [p3 |-> {4}]
=============================================================================
