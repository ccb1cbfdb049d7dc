------------------------------ MODULE VcfSolver ------------------------------
(***************************************************************************)
(* The endgame solver of the engine (engine/src/vcf_solver.cpp): a search  *)
(* for a victory by continuous fours, and the defence analysis built on    *)
(* it.  Both are pure functions of a position; the specification asks them *)
(* once about every position of a set.  A position of the transposition    *)
(* table is its stones (the 64-bit hash is taken to be free of collisions).*)
(***************************************************************************)
EXTENDS Gomoku, Sequences, SequencesExt

CONSTANTS
    Side,     \* kVcfBoardSize
    Boards,   \* the positions asked about: [Cells(Side) -> Stones]
    Budgets   \* the values of max_nodes

ASSUME InputsAreBoards ==
    Boards \subseteq [Cells(Side) -> Stones] /\ Budgets \subseteq Nat

VARIABLES cells, current_player, answer

vars == <<cells, current_player, answer>>

-----------------------------------------------------------------------------
(* Geometry.                                                                *)

IsEmpty(pos, action) == pos[action] = "EMPTY"

HasExactFive(pos, stone) ==
    \E a \in Cells(Side), d \in Directions :
        LET x == a % Side
            y == a \div Side
        IN  /\ pos[a] = stone
            /\ ~Holds(Side, pos, x - d[1], y - d[2], stone)
            /\ 1 + Reach(Side, pos, x, y, d[1], d[2], stone) = WinLength

MakesExactFive(pos, action, stone) ==
    IsEmpty(pos, action) /\ CheckWin(Side, pos, action, stone)

WinningMoves(pos, stone) ==
    {a \in Cells(Side) : MakesExactFive(pos, a, stone)}

\* The cells up to four steps away along a direction, with the step.
Steps == (-4 .. 4) \ {0}

Neighbour(action, d, k) == [x |-> (action % Side) + k * d[1], y |-> (action \div Side) + k * d[2]]

Neighbours(action, d) ==
    {c.x + c.y * Side : c \in {e \in {Neighbour(action, d, k) : k \in Steps} :
                                  OnBoard(Side, e.x, e.y)}}

Collinear(action) == UNION {Neighbours(action, d) : d \in Directions}

FindWinningMovesAround(pos, placed, stone) ==
    {a \in Collinear(placed) : MakesExactFive(pos, a, stone)}

\* The five must lie along the direction scanned and contain the placed stone.
FindCreatedWinningMoves(pos, placed, stone) ==
    {a \in Collinear(placed) :
        /\ IsEmpty(pos, a)
        /\ \E d \in Directions, k \in Steps :
              LET x == a % Side
                  y == a \div Side
                  ahead == Reach(Side, pos, x, y, d[1], d[2], stone)
                  behind == Reach(Side, pos, x, y, -d[1], -d[2], stone)
              IN  /\ Neighbour(placed, d, k) = [x |-> x, y |-> y]
                  /\ 1 + behind + ahead = WinLength
                  /\ -k \in -behind .. ahead}

HasStoneWithinLineDistance4(pos, action, stone) ==
    \E a \in Collinear(action) : pos[a] = stone

-----------------------------------------------------------------------------
(* The search.  s is the position, the SearchContext and the result of the  *)
(* call: the code changes position and context in place.                    *)

MakeMove(s, action, stone) == [s EXCEPT !.cells[action] = stone]
UnmakeMove(s, action) == [s EXCEPT !.cells[action] = "EMPTY"]

Solved(s, line) == [s EXCEPT !.found = TRUE, !.line = line]
Failed(s) == [s EXCEPT !.found = FALSE]

\* A plausible slip: a win the defender has left is not looked at.
MutAttacks(s, defender_wins) ==
    {a \in Cells(Side) : IsEmpty(s.cells, a) /\ HasStoneWithinLineDistance4(s.cells, a, s.attacker)}

\* The attacks worth trying: the defender must have no win of his own left.
Attacks(s, defender_wins) ==
    {a \in Cells(Side) :
        /\ IsEmpty(s.cells, a)
        /\ defender_wins \subseteq {a}
        /\ HasStoneWithinLineDistance4(s.cells, a, s.attacker)}

RECURSIVE Search(_), TryAttacks(_, _)

\* The attacks in row-major order, each made, answered and taken back.
TryAttacks(s, attacks) ==
    IF attacks = {} THEN Failed([s EXCEPT !.failed = @ \cup {s.cells}])
    ELSE LET a == Min(attacks)
             made == MakeMove(s, a, s.attacker)
             wins == FindCreatedWinningMoves(made.cells, a, s.attacker)
             rest == attacks \ {a}
         IN  CASE wins = {} -> TryAttacks(UnmakeMove(made, a), rest)
               [] Cardinality(wins) >= 2 -> Solved(UnmakeMove(made, a), <<a>>)
               [] OTHER ->
                    LET reply == Min(wins)
                        after == Search(MakeMove(made, reply, OtherStone(s.attacker)))
                        undone == UnmakeMove(UnmakeMove(after, reply), a)
                    IN  IF after.found THEN Solved(undone, <<a, reply>> \o after.line)
                        ELSE TryAttacks(undone, rest)

Search(s) ==
    LET t == [s EXCEPT !.visited = @ + 1]
        immediate_wins == WinningMoves(s.cells, s.attacker)
    IN  CASE t.visited > t.max_nodes -> Failed(t)
          [] s.cells \in s.failed -> Failed(t)
          [] immediate_wins # {} -> Solved(t, <<Min(immediate_wins)>>)
          [] OTHER -> TryAttacks(t, Attacks(t, WinningMoves(t.cells, OtherStone(t.attacker))))

SearchContext(pos, player, max_nodes) ==
    [cells |-> pos, attacker |-> player, max_nodes |-> max_nodes, visited |-> 0,
     failed |-> {}, found |-> FALSE, line |-> <<>>]

\* A position with a five on it is over and has no line.
SolveVCF(pos, player, max_nodes) ==
    LET context == SearchContext(pos, player, max_nodes)
    IN  IF \E stone \in Colours : HasExactFive(pos, stone) THEN context ELSE Search(context)

-----------------------------------------------------------------------------
(* The defence analysis.                                                    *)

\* The position after the first i plies of the attacker's line.
Replay(pos, line, i, attacker) ==
    [a \in Cells(Side) |->
        IF \E j \in 1 .. i : line[j] = a
        THEN LET j == CHOOSE k \in 1 .. i : line[k] = a
             IN  IF j % 2 = 1 THEN attacker ELSE OtherStone(attacker)
        ELSE pos[a]]

\* The line, what each attack on it threatens and lies next to, the defender's
\* own wins and his counter-fours.
Candidates(pos, line, attacker) ==
    LET defender == OtherStone(attacker)
        attacks == {i \in DOMAIN line : i % 2 = 1}
        counter == {a \in Cells(Side) :
                      /\ IsEmpty(pos, a)
                      /\ HasStoneWithinLineDistance4(pos, a, defender)
                      /\ FindWinningMovesAround([pos EXCEPT ![a] = defender], a, defender) # {}}
        threats(i) == FindWinningMovesAround(Replay(pos, line, i, attacker), line[i], attacker)
    IN  {a \in ToSet(line) \cup UNION {threats(i) \cup Collinear(line[i]) : i \in attacks}
                   \cup WinningMoves(pos, defender) \cup counter : IsEmpty(pos, a)}

\* A plausible slip: the reply is tried for the wrong side to move.
MutIsSafe(pos, action, attacker, max_nodes) ==
    SolveVCF([pos EXCEPT ![action] = OtherStone(attacker)],
             OtherStone(attacker), max_nodes).line = <<>>

IsSafe(pos, action, attacker, max_nodes) ==
    SolveVCF([pos EXCEPT ![action] = OtherStone(attacker)], attacker, max_nodes).line = <<>>

\* A plausible slip: the current player is left as it was.
MutThreat(pos, attacker, max_nodes) == SolveVCF(pos, OtherStone(attacker), max_nodes)

Threat(pos, attacker, max_nodes) == SolveVCF(pos, attacker, max_nodes)

AnalyzeVCFDefense(pos, player, max_nodes) ==
    LET attacker == OtherStone(player)
        threat == Threat(pos, attacker, max_nodes)
    IN  [threat_detected |-> threat.line # <<>>,
         safe_actions |-> IF threat.line = <<>> THEN {}
                          ELSE {a \in Candidates(pos, threat.line, attacker) :
                                   IsSafe(pos, a, attacker, max_nodes)}]

-----------------------------------------------------------------------------

Unanswered == [ask |-> "nothing"]

\* The stones alternate, black first: MakeVcfPosition takes the stone to place
\* from the board.
StoneToPlace(pos) ==
    LET Count(stone) == Cardinality({a \in Cells(Side) : pos[a] = stone})
    IN  IF Count("BLACK") > Count("WHITE") THEN "WHITE" ELSE "BLACK"

Init == cells \in Boards /\ current_player = StoneToPlace(cells) /\ answer = Unanswered

Solve(max_nodes) ==
    /\ answer = Unanswered
    /\ answer' = [ask |-> "solve", result |-> SolveVCF(cells, current_player, max_nodes)]
    /\ UNCHANGED <<cells, current_player>>

Analyze(max_nodes) ==
    /\ answer = Unanswered
    /\ answer' = [ask |-> "defend", budget |-> max_nodes,
                  result |-> AnalyzeVCFDefense(cells, current_player, max_nodes)]
    /\ UNCHANGED <<cells, current_player>>

Next == \E max_nodes \in Budgets : Solve(max_nodes) \/ Analyze(max_nodes)

Spec == Init /\ [][Next]_vars

-----------------------------------------------------------------------------
(* What the search is meant to find, said without prunes, tables or         *)
(* budgets: the attacker wins now, or has a move that threatens to, such    *)
(* that every reply that does not win at once leaves him winning still.     *)

RECURSIVE ForcedWin(_, _)
ForcedWin(pos, attacker) ==
    LET defender == OtherStone(attacker)
        empty == {a \in Cells(Side) : IsEmpty(pos, a)}
    IN  \/ WinningMoves(pos, attacker) # {}
        \/ \E a \in empty :
              LET made == [pos EXCEPT ![a] = attacker]
                  wins == WinningMoves(made, attacker)
              IN  /\ wins # {}
                  /\ WinningMoves(made, defender) = {}
                  /\ \A reply \in empty \ {a} :
                        wins \ {reply} = {} => ForcedWin([made EXCEPT ![reply] = defender], attacker)

HasVCF(pos, attacker) ==
    ~(\E stone \in Colours : HasExactFive(pos, stone)) /\ ForcedWin(pos, attacker)

\* A line is found exactly when a victory by continuous fours exists: the
\* prunes vcf_solver.cpp calls lossless lose nothing, the failed positions are
\* rightly remembered, a search cut short by its budget claims nothing, and
\* the board it plays on in place is as it was on every way out.
SearchIsExact ==
    answer.ask = "solve" =>
        LET r == answer.result
            wins == HasVCF(cells, current_player)
        IN  /\ r.found => wins
            /\ wins /\ ~r.found => r.visited > r.max_nodes
            /\ r.cells = cells

\* A move the defence analysis calls safe is legal and leaves the opponent no
\* victory by continuous fours, if the budget sufficed to look for one.
SafeActionsHold ==
    answer.ask = "defend" /\ answer.budget = Max(Budgets) =>
        \A a \in answer.result.safe_actions :
            /\ IsEmpty(cells, a)
            /\ ~HasVCF([cells EXCEPT ![a] = current_player], OtherStone(current_player))

\* AnalyzeVCFDefense looks at no move when the opponent has no victory now: a
\* stone of the defender cannot give him one.  It holds of the moves that do
\* not spoil a win of the defender's own; one that turns his four into an
\* overline does expose him.
QuietMeansSafe ==
    answer.ask = "defend" /\ answer.budget = Max(Budgets) /\ ~answer.result.threat_detected =>
        \A a \in {b \in Cells(Side) : IsEmpty(cells, b)} :
            LET after == [cells EXCEPT ![a] = current_player]
            IN  WinningMoves(cells, current_player) \ {a} \subseteq WinningMoves(after, current_player)
                    => ~HasVCF(after, OtherStone(current_player))
=============================================================================
