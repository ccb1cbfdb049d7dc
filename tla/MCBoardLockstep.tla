-------------------------- MODULE MCBoardLockstep --------------------------
(***************************************************************************)
(* Games for BoardLockstep on boards of side five and six.  In a line one  *)
(* colour fills six cells of a row, column or diagonal in every order      *)
(* while the other plays elsewhere: fives and overlines of both colours.   *)
(* In a melee both colours fight for the same cells.  The full boards are  *)
(* played in a fixed order: one fills without a five, the last stone of    *)
(* the other makes five on a diagonal.                                     *)
(***************************************************************************)
EXTENDS BoardLockstep

Setup(n, free, black, white) ==
    [size |-> n, free |-> free, script |-> [BLACK |-> black, WHITE |-> white]]

Row     == 0 .. 5
Column  == {6 * i + 2 : i \in 0 .. 5}
Falling == {7 * i : i \in 0 .. 5}
Rising  == {5 * i : i \in 1 .. 6}

BlackRow     == Setup(6, Row, <<>>, <<12, 14, 24, 26, 33, 35>>)
WhiteColumn  == Setup(6, Column, <<0, 4, 9, 12, 15, 28, 35>>, <<>>)
BlackFalling == Setup(6, Falling, <<>>, <<1, 3, 12, 17, 31, 33>>)
WhiteRising  == Setup(6, Rising, <<0, 4, 8, 13, 23, 33, 35>>, <<>>)
Melee        == Setup(5, {0, 1, 2, 3, 4, 10, 12}, <<>>, <<>>)

Checkered == Setup(5, {}, [i \in 1 .. 13 |-> 2 * (i - 1)],
                          [i \in 1 .. 12 |-> 2 * i - 1])
Filled == Setup(5, {}, <<0, 1, 7, 8, 9, 10, 11, 17, 18, 19, 20, 21, 24>>,
                       <<2, 3, 4, 5, 6, 12, 13, 14, 15, 16, 22, 23>>)

MCSetups == {BlackRow, WhiteColumn, BlackFalling, WhiteRising, Melee,
             Checkered, Filled}
=============================================================================
