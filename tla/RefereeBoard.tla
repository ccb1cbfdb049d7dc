----------------------------- MODULE RefereeBoard -----------------------------
(***************************************************************************)
(* The match server's board (protocol/python/gomoku_match/board.py).       *)
(***************************************************************************)
EXTENDS Gomoku

RefereeInit(n) ==
    [cells   |-> [c \in Cells(n) |-> "EMPTY"],
     phase   |-> "PLACE_INITIAL_THREE",
     current |-> "A",
     stone   |-> "BLACK",
     stones  |-> [s \in Seats |-> "EMPTY"],
     count   |-> 0,
     plies   |-> 0,
     result  |-> "UNDETERMINED"]

LegalSet(n, b) ==
    IF b.result # "UNDETERMINED" THEN {}
    ELSE CASE b.phase \in PlacingPhases -> {c \in Cells(n) : b.cells[c] = "EMPTY"}
           [] b.phase = "SWAP2_DECISION" ->
                  {swap2_choose_white(n), swap2_choose_black(n), swap2_place_two(n)}
           [] b.phase = "CHOOSE_COLOR" -> {choose_white(n), choose_black(n)}

-----------------------------------------------------------------------------
\* The winner is whoever holds the colour of the winning stone; a colour
\* nobody holds yet would make it a draw.
SetWinnerForStone(b, stone) ==
    CASE b.stones["A"] = stone -> "PLAYER_A_WIN"
      [] b.stones["A"] # stone /\ b.stones["B"] = stone -> "PLAYER_B_WIN"
      [] OTHER -> "DRAW"

CheckTerminal(n, b, cell) ==
    IF CheckWin(n, b.cells, cell, b.cells[cell])
    THEN SetWinnerForStone(b, b.cells[cell])
    ELSE IF \A c \in Cells(n) : b.cells[c] # "EMPTY" THEN "DRAW"
    ELSE b.result

ApplyPlacement(n, b, cell) ==
    LET p == [b EXCEPT !.cells[cell] = b.stone, !.count = @ + 1]
    IN  CASE b.phase = "PLACE_INITIAL_THREE" /\ p.count = 3 ->
               [p EXCEPT !.phase = "SWAP2_DECISION", !.current = "B",
                         !.stone = "EMPTY"]
          [] b.phase = "PLACE_INITIAL_THREE" /\ p.count # 3 ->
               [p EXCEPT !.stone = IF p.count = 1 THEN "WHITE" ELSE "BLACK"]
          [] b.phase = "SWAP2_PLACE_TWO" /\ p.count = 4 ->
               [p EXCEPT !.stone = "BLACK"]
          [] b.phase = "SWAP2_PLACE_TWO" /\ p.count = 5 ->
               [p EXCEPT !.phase = "CHOOSE_COLOR", !.current = "A",
                         !.stone = "EMPTY"]
          [] b.phase = "SWAP2_PLACE_TWO" /\ p.count \notin {4, 5} -> p
          [] b.phase \notin {"PLACE_INITIAL_THREE", "SWAP2_PLACE_TWO"} ->
               LET result == CheckTerminal(n, p, cell)
               IN  IF result # "UNDETERMINED" THEN [p EXCEPT !.result = result]
                   ELSE [p EXCEPT !.current = Other(@), !.stone = OtherStone(@)]

\* A plausible slip: the seat that moves first is the one without white.
MutBindColours(b, white) ==
    [b EXCEPT !.stones = [s \in Seats |-> IF s = white THEN "WHITE" ELSE "BLACK"],
              !.phase = "STANDARD", !.current = Other(white), !.stone = "WHITE"]

\* Binding the colours starts standard play, white to move.
BindColours(b, white) ==
    [b EXCEPT !.stones = [s \in Seats |-> IF s = white THEN "WHITE" ELSE "BLACK"],
              !.phase = "STANDARD", !.current = white, !.stone = "WHITE"]

ApplyControl(n, b, action) ==
    CASE action = swap2_choose_white(n) -> BindColours(b, "B")
      [] action = swap2_choose_black(n) -> BindColours(b, "A")
      [] action = swap2_place_two(n) ->
           [b EXCEPT !.phase = "SWAP2_PLACE_TWO", !.current = "B",
                     !.stone = "WHITE"]
      [] action = choose_white(n) -> BindColours(b, "A")
      [] action = choose_black(n) -> BindColours(b, "B")

\* apply() raises unless the action is legal, so callers guard with LegalSet.
RefereeApply(n, b, action) ==
    LET moved == IF IsPlacement(n, action)
                 THEN ApplyPlacement(n, b, action)
                 ELSE ApplyControl(n, b, action)
    IN  [moved EXCEPT !.plies = @ + 1]
=============================================================================
