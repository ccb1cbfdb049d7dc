------------------------------- MODULE Gomoku -------------------------------
(***************************************************************************)
(* The vocabulary the repository's three boards share: seats, stones,      *)
(* phases of the Swap2 opening, results, the action encoding and the       *)
(* geometry of runs.  Each board is a module of its own (RefereeBoard,     *)
(* EngineBoard, PluginBoard) over these definitions; the side n of the     *)
(* board is a parameter of every operator that needs it.                   *)
(***************************************************************************)
EXTENDS Integers, FiniteSets

Seats == {"A", "B"}

Other(seat) == IF seat = "A" THEN "B" ELSE "A"

Colours == {"BLACK", "WHITE"}
Stones == Colours \cup {"EMPTY"}

OtherStone(stone) == IF stone = "BLACK" THEN "WHITE" ELSE "BLACK"

Phases == {"PLACE_INITIAL_THREE", "SWAP2_DECISION", "SWAP2_PLACE_TWO",
           "CHOOSE_COLOR", "STANDARD"}

\* The phases in which an action puts a stone on the board.
PlacingPhases == {"PLACE_INITIAL_THREE", "SWAP2_PLACE_TWO", "STANDARD"}

Results == {"UNDETERMINED", "PLAYER_A_WIN", "PLAYER_B_WIN", "DRAW"}

WinFor(seat) == IF seat = "A" THEN "PLAYER_A_WIN" ELSE "PLAYER_B_WIN"

-----------------------------------------------------------------------------
(* Actions.  0 .. n*n-1 place a stone, the five ids that follow are the     *)
(* control actions of the opening.                                          *)

NumCells(n) == n * n

Cells(n) == 0 .. NumCells(n) - 1

swap2_choose_white(n) == NumCells(n)
swap2_choose_black(n) == NumCells(n) + 1
swap2_place_two(n)    == NumCells(n) + 2
choose_white(n)       == NumCells(n) + 3
choose_black(n)       == NumCells(n) + 4

IsPlacement(n, action) == action \in Cells(n)

-----------------------------------------------------------------------------
(* Geometry.  A cell is x + y * n.                                          *)

Directions == {<<1, 0>>, <<0, 1>>, <<1, 1>>, <<1, -1>>}

OnBoard(n, x, y) == x \in 0 .. n - 1 /\ y \in 0 .. n - 1

Holds(n, cells, x, y, stone) ==
    OnBoard(n, x, y) /\ cells[x + y * n] = stone

\* How many consecutive cells beyond (x, y) in direction (dx, dy) hold stone:
\* the loop stops at the edge of the board or at the first other cell.
Reach(n, cells, x, y, dx, dy, stone) ==
    Cardinality({k \in 1 .. n : \A i \in 1 .. k :
                     Holds(n, cells, x + i * dx, y + i * dy, stone)})

\* The run through a cell is the cell and what it reaches on both sides.
RunLength(n, cells, cell, d, stone) ==
    LET x == cell % n
        y == cell \div n
    IN  1 + Reach(n, cells, x, y, d[1], d[2], stone)
          + Reach(n, cells, x, y, -d[1], -d[2], stone)

WinLength == 5

\* A plausible slip: an overline wins too.
MutCheckWin(n, cells, cell, stone) ==
    \E d \in Directions : RunLength(n, cells, cell, d, stone) >= WinLength

\* Exact five: a run of exactly five wins, an overline does not.
CheckWin(n, cells, cell, stone) ==
    \E d \in Directions : RunLength(n, cells, cell, d, stone) = WinLength

-----------------------------------------------------------------------------
(* What CheckWin is meant to compute, said without counting: five cells in  *)
(* a line through the given one hold the stone and neither end continues.   *)
ExactFiveThrough(n, cells, cell, stone) ==
    \E d \in Directions, back \in 0 .. WinLength - 1 :
        LET x0 == (cell % n) - back * d[1]
            y0 == (cell \div n) - back * d[2]
            At(i) == Holds(n, cells, x0 + i * d[1], y0 + i * d[2], stone)
        IN  /\ \A i \in 0 .. WinLength - 1 : At(i)
            /\ ~At(-1)
            /\ ~At(WinLength)
=============================================================================
