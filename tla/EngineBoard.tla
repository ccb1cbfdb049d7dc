----------------------------- MODULE EngineBoard -----------------------------
(***************************************************************************)
(* The search engine's board (engine/src/board.cpp): Apply and Retract     *)
(* walk the MCTS tree, GetChildCurrentPlayer forecasts the seat after an   *)
(* action, and a signature is maintained incrementally for the evaluation  *)
(* cache.                                                                  *)
(*                                                                         *)
(* A Zobrist signature is the exclusive-or of one random key per feature;  *)
(* it is modelled as the set of the features whose keys are in, and the    *)
(* exclusive-or as symmetric difference.  Key collisions are left out.     *)
(***************************************************************************)
EXTENDS Gomoku

Xor(S, T) == (S \ T) \cup (T \ S)

CellFeature(b, c) == <<"cell", c, b.cells[c]>>

StatusFeatures(b) ==
    {<<"phase", b.phase>>, <<"player", b.current>>, <<"stone", b.stone>>,
     <<"seat_a", b.stones["A"]>>, <<"seat_b", b.stones["B"]>>,
     <<"result", b.result>>}

\* What a signature is for: one key for every feature of the position.
Signature(n, b) == {CellFeature(b, c) : c \in Cells(n)} \cup StatusFeatures(b)

\* A plausible slip: the touched cell is left out.
MutToggleHash(n, b, action) == [b EXCEPT !.sig = Xor(@, StatusFeatures(b))]

ToggleHash(n, b, action) ==
    [b EXCEPT !.sig = Xor(@, StatusFeatures(b) \cup
                             (IF IsPlacement(n, action)
                              THEN {CellFeature(b, action)} ELSE {}))]

EngineInit(n) ==
    LET b == [cells   |-> [c \in Cells(n) |-> "EMPTY"],
              phase   |-> "PLACE_INITIAL_THREE",
              current |-> "A",
              stone   |-> "BLACK",
              stones  |-> [s \in Seats |-> "EMPTY"],
              count   |-> 0,
              result  |-> "UNDETERMINED",
              sig     |-> {}]
    IN  ToggleHash(n, [b EXCEPT !.sig = {CellFeature(b, c) : c \in Cells(n)}], -1)

GetLegalActions(n, b) ==
    IF b.result # "UNDETERMINED" THEN {}
    ELSE CASE b.phase \in PlacingPhases -> {c \in Cells(n) : b.cells[c] = "EMPTY"}
           [] b.phase = "SWAP2_DECISION" ->
                  {swap2_choose_white(n), swap2_choose_black(n), swap2_place_two(n)}
           [] b.phase = "CHOOSE_COLOR" -> {choose_white(n), choose_black(n)}

-----------------------------------------------------------------------------
\* Standard play toggles the turn even after the stone that ended the game.
TransitionPhase(b) ==
    CASE b.phase = "PLACE_INITIAL_THREE" /\ b.count = 1 -> [b EXCEPT !.stone = "WHITE"]
      [] b.phase = "PLACE_INITIAL_THREE" /\ b.count = 2 -> [b EXCEPT !.stone = "BLACK"]
      [] b.phase = "PLACE_INITIAL_THREE" /\ b.count = 3 ->
           [b EXCEPT !.phase = "SWAP2_DECISION", !.stone = "EMPTY", !.current = "B"]
      [] b.phase = "SWAP2_PLACE_TWO" /\ b.count = 4 -> [b EXCEPT !.stone = "BLACK"]
      [] b.phase = "SWAP2_PLACE_TWO" /\ b.count = 5 ->
           [b EXCEPT !.phase = "CHOOSE_COLOR", !.stone = "EMPTY", !.current = "A"]
      [] b.phase = "STANDARD" ->
           [b EXCEPT !.stone = OtherStone(@), !.current = Other(@)]
      [] OTHER -> b

\* A plausible slip: five or more wins.
MutStandardResult(n, b, cell) ==
    IF \E d \in Directions : RunLength(n, b.cells, cell, d, b.stone) >= WinLength
    THEN IF b.stones["A"] = b.stone THEN "PLAYER_A_WIN" ELSE "PLAYER_B_WIN"
    ELSE IF b.count = NumCells(n) THEN "DRAW" ELSE b.result

StandardResult(n, b, cell) ==
    IF CheckWin(n, b.cells, cell, b.stone)
    THEN IF b.stones["A"] = b.stone THEN "PLAYER_A_WIN" ELSE "PLAYER_B_WIN"
    ELSE IF b.count = NumCells(n) THEN "DRAW" ELSE b.result

Place(n, b, cell) ==
    LET p == [b EXCEPT !.cells[cell] = b.stone, !.count = @ + 1]
    IN  TransitionPhase(
            IF p.phase = "STANDARD"
            THEN [p EXCEPT !.result = StandardResult(n, p, cell)] ELSE p)

StartStandard(b, white) ==
    [b EXCEPT !.stones = [s \in Seats |-> IF s = white THEN "WHITE" ELSE "BLACK"],
              !.phase = "STANDARD", !.stone = "WHITE", !.current = white]

Control(n, b, action) ==
    CASE action = swap2_choose_white(n) -> StartStandard(b, "B")
      [] action = swap2_choose_black(n) -> StartStandard(b, "A")
      [] action = swap2_place_two(n) ->
           [b EXCEPT !.phase = "SWAP2_PLACE_TWO", !.stone = "WHITE", !.current = "B"]
      [] action = choose_white(n) -> StartStandard(b, "A")
      [] action = choose_black(n) -> StartStandard(b, "B")
      [] OTHER -> b

EngineApply(n, b, action) ==
    IF b.result # "UNDETERMINED" THEN b
    ELSE LET out == ToggleHash(n, b, action)
         IN  ToggleHash(n, IF IsPlacement(n, action) THEN Place(n, out, action)
                           ELSE Control(n, out, action), action)

-----------------------------------------------------------------------------
\* A plausible slip: the pair of extra stones is taken to end one stone late.
MutGetChildCurrentPlayer(n, b, action) ==
    CASE b.phase = "STANDARD" -> Other(b.current)
      [] b.phase = "PLACE_INITIAL_THREE" -> IF b.count = 2 THEN "B" ELSE "A"
      [] b.phase = "SWAP2_DECISION" ->
           IF action \in {swap2_choose_white(n), swap2_place_two(n)} THEN "B" ELSE "A"
      [] b.phase = "SWAP2_PLACE_TWO" -> IF b.count = 5 THEN "A" ELSE "B"
      [] b.phase = "CHOOSE_COLOR" -> IF action = choose_white(n) THEN "A" ELSE "B"

\* The seat to act once action is applied, without applying it.
GetChildCurrentPlayer(n, b, action) ==
    CASE b.phase = "STANDARD" -> Other(b.current)
      [] b.phase = "PLACE_INITIAL_THREE" -> IF b.count = 2 THEN "B" ELSE "A"
      [] b.phase = "SWAP2_DECISION" ->
           IF action \in {swap2_choose_white(n), swap2_place_two(n)} THEN "B" ELSE "A"
      [] b.phase = "SWAP2_PLACE_TWO" -> IF b.count = 4 THEN "A" ELSE "B"
      [] b.phase = "CHOOSE_COLOR" -> IF action = choose_white(n) THEN "A" ELSE "B"

-----------------------------------------------------------------------------
(* Retract undoes the last action from the board alone: it infers the       *)
(* phase before the action from the number of stones that remain.           *)

Unbind(b, phase, seat) ==
    [b EXCEPT !.stones = [s \in Seats |-> "EMPTY"], !.phase = phase,
              !.stone = "EMPTY", !.current = seat]

RetractControl(n, b, action) ==
    CASE action \in {swap2_choose_white(n), swap2_choose_black(n), swap2_place_two(n)} ->
           Unbind(b, "SWAP2_DECISION", "B")
      [] action \in {choose_white(n), choose_black(n)} ->
           Unbind(b, "CHOOSE_COLOR", "A")
      [] OTHER -> b

Turned(b) == [b EXCEPT !.stone = OtherStone(@), !.current = Other(@)]

Back(b, phase, stone, seat) ==
    [b EXCEPT !.phase = phase, !.stone = stone, !.current = seat]

\* A plausible slip: every later stone is taken to be one of standard play.
MutRetractPlacement(b) ==
    CASE b.count \in {0, 2} -> Back(b, "PLACE_INITIAL_THREE", "BLACK", "A")
      [] b.count = 1 -> Back(b, "PLACE_INITIAL_THREE", "WHITE", "A")
      [] b.count = 3 /\ b.phase = "SWAP2_PLACE_TWO" -> Back(b, b.phase, "WHITE", "B")
      [] OTHER -> Turned(b)

RetractPlacement(b) ==
    CASE b.count \in {0, 2} -> Back(b, "PLACE_INITIAL_THREE", "BLACK", "A")
      [] b.count = 1 -> Back(b, "PLACE_INITIAL_THREE", "WHITE", "A")
      [] b.count = 3 /\ b.phase = "SWAP2_PLACE_TWO" -> Back(b, b.phase, "WHITE", "B")
      [] b.count = 3 /\ b.phase # "SWAP2_PLACE_TWO" ->
           Back(b, b.phase, "WHITE", Other(b.current))
      [] b.count = 4 /\ b.phase = "CHOOSE_COLOR" ->
           Back(b, "SWAP2_PLACE_TWO", "BLACK", "B")
      [] OTHER -> Turned(b)

Retract(n, b, action) ==
    LET open == [ToggleHash(n, b, action) EXCEPT !.result = "UNDETERMINED"]
    IN  ToggleHash(n, IF IsPlacement(n, action)
                      THEN RetractPlacement([open EXCEPT !.cells[action] = "EMPTY",
                                                         !.count = @ - 1])
                      ELSE RetractControl(n, open, action), action)
=============================================================================
