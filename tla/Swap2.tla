-------------------------------- MODULE Swap2 --------------------------------
(***************************************************************************)
(* What every board of the repository promises about a Swap2 game, with    *)
(* the stones left out: who is to act, in which phase, after how many      *)
(* stones and actions, and who may be declared the winner.  RefereeBoard   *)
(* is shown to implement it; MatchServer is built on it, because the       *)
(* server tells games apart by no more than this.                          *)
(***************************************************************************)
EXTENDS Gomoku

GameView == [phase : Phases, count : Nat, plies : Nat, current : Seats,
             result : Results]

NewGame == [phase |-> "PLACE_INITIAL_THREE", count |-> 0, plies |-> 0,
            current |-> "A", result |-> "UNDETERMINED"]

\* The opener puts down three stones and hands the decision to the responder.
PlaceInitial(v) ==
    [v EXCEPT !.count = @ + 1, !.plies = @ + 1,
              !.phase = IF v.count = 2 THEN "SWAP2_DECISION" ELSE @,
              !.current = IF v.count = 2 THEN "B" ELSE "A"]

\* The responder takes a colour or asks for two more stones.
Decide(v, phase, seat) ==
    [v EXCEPT !.plies = @ + 1, !.phase = phase, !.current = seat]

\* The responder puts down two more stones and hands the choice back.
PlaceTwo(v) ==
    [v EXCEPT !.count = @ + 1, !.plies = @ + 1,
              !.phase = IF v.count = 4 THEN "CHOOSE_COLOR" ELSE @,
              !.current = IF v.count = 4 THEN "A" ELSE "B"]

\* In standard play only the mover can win, and the turn passes only when
\* the game goes on.
PlayOn(v) ==
    [v EXCEPT !.count = @ + 1, !.plies = @ + 1, !.current = Other(@)]

PlayLast(v, result) ==
    [v EXCEPT !.count = @ + 1, !.plies = @ + 1, !.result = result]

\* Every game that one accepted action can lead to.
Successors(v) ==
    IF v.result # "UNDETERMINED" THEN {}
    ELSE CASE v.phase = "PLACE_INITIAL_THREE" -> {PlaceInitial(v)}
           [] v.phase = "SWAP2_DECISION" ->
                  {Decide(v, "STANDARD", "A"), Decide(v, "STANDARD", "B"),
                   Decide(v, "SWAP2_PLACE_TWO", "B")}
           [] v.phase = "SWAP2_PLACE_TWO" -> {PlaceTwo(v)}
           [] v.phase = "CHOOSE_COLOR" ->
                  {Decide(v, "STANDARD", "A"), Decide(v, "STANDARD", "B")}
           [] v.phase = "STANDARD" ->
                  {PlayOn(v), PlayLast(v, WinFor(v.current)),
                   PlayLast(v, "DRAW")}
=============================================================================
