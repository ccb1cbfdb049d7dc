----------------------------- MODULE PluginBoard -----------------------------
(***************************************************************************)
(* The board of the plugin host and of the desktop application             *)
(* (plugin/src/gomoku_types.cpp, BoardState).                              *)
(***************************************************************************)
EXTENDS Gomoku

PluginInit(n) ==
    [cells   |-> [c \in Cells(n) |-> "EMPTY"],
     phase   |-> "PLACE_INITIAL_THREE",
     current |-> "A",
     stone   |-> "BLACK",
     stones  |-> [s \in Seats |-> "EMPTY"],
     count   |-> 0,
     result  |-> "UNDETERMINED"]

IsLegalAction(n, b, action) ==
    /\ b.result = "UNDETERMINED"
    /\ CASE b.phase \in PlacingPhases ->
              IsPlacement(n, action) /\ b.cells[action] = "EMPTY"
         [] b.phase = "SWAP2_DECISION" ->
              action \in {swap2_choose_white(n), swap2_choose_black(n),
                          swap2_place_two(n)}
         [] b.phase = "CHOOSE_COLOR" -> action \in {choose_white(n), choose_black(n)}

\* The pair after swap2_place_two is black, then white.
PluginTransition(b) ==
    CASE b.phase = "PLACE_INITIAL_THREE" /\ b.count = 1 -> [b EXCEPT !.stone = "WHITE"]
      [] b.phase = "PLACE_INITIAL_THREE" /\ b.count = 2 -> [b EXCEPT !.stone = "BLACK"]
      [] b.phase = "PLACE_INITIAL_THREE" /\ b.count = 3 ->
           [b EXCEPT !.phase = "SWAP2_DECISION", !.current = "B", !.stone = "EMPTY"]
      [] b.phase = "SWAP2_PLACE_TWO" /\ b.count = 4 -> [b EXCEPT !.stone = "WHITE"]
      [] b.phase = "SWAP2_PLACE_TWO" /\ b.count = 5 ->
           [b EXCEPT !.phase = "CHOOSE_COLOR", !.current = "A", !.stone = "EMPTY"]
      [] b.phase = "STANDARD" ->
           [b EXCEPT !.current = Other(@), !.stone = OtherStone(@)]
      [] OTHER -> b

\* Wins are looked for in every placing phase, and go to the seat that moved.
PluginPlace(n, b, cell) ==
    LET p == [b EXCEPT !.cells[cell] = b.stone, !.count = @ + 1]
    IN  CASE CheckWin(n, p.cells, cell, p.stone) ->
               [p EXCEPT !.result = WinFor(b.current)]
          [] ~CheckWin(n, p.cells, cell, p.stone) /\ p.count = NumCells(n) ->
               [p EXCEPT !.result = "DRAW"]
          [] OTHER -> PluginTransition(p)

\* A plausible slip: the responder who swaps to black still moves next.
MutPluginControl(n, b, action) ==
    LET Bind(white) ==
          [b EXCEPT !.stones = [s \in Seats |-> IF s = white THEN "WHITE" ELSE "BLACK"],
                    !.phase = "STANDARD", !.current = "B", !.stone = "WHITE"]
    IN  CASE action \in {swap2_choose_white(n), choose_black(n)} -> Bind("B")
          [] action \in {swap2_choose_black(n), choose_white(n)} -> Bind("A")
          [] action = swap2_place_two(n) ->
               [b EXCEPT !.phase = "SWAP2_PLACE_TWO", !.current = "B",
                         !.stone = "BLACK"]

PluginControl(n, b, action) ==
    LET Bind(white) ==
          [b EXCEPT !.stones = [s \in Seats |-> IF s = white THEN "WHITE" ELSE "BLACK"],
                    !.phase = "STANDARD", !.current = white, !.stone = "WHITE"]
    IN  CASE action \in {swap2_choose_white(n), choose_black(n)} -> Bind("B")
          [] action \in {swap2_choose_black(n), choose_white(n)} -> Bind("A")
          [] action = swap2_place_two(n) ->
               [b EXCEPT !.phase = "SWAP2_PLACE_TWO", !.current = "B",
                         !.stone = "BLACK"]

\* An illegal action is ignored.
PluginApply(n, b, action) ==
    IF ~IsLegalAction(n, b, action) THEN b
    ELSE IF IsPlacement(n, action) THEN PluginPlace(n, b, action)
    ELSE PluginControl(n, b, action)
=============================================================================
