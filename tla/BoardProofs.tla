----------------------------- MODULE BoardProofs -----------------------------
(***************************************************************************)
(* Proofs about the boards, action by action, for every side n of the      *)
(* board: what the server's board does with a legal action (RefereeStep)   *)
(* and what the engine's does, Retract and the forecast of the next seat   *)
(* included (EngineStep).  LockstepProofs lifts them to whole games.       *)
(*                                                                         *)
(* Everything rests on Shape: phase and stone count determine whose turn   *)
(* it is, which stone comes next and whether the colours are bound, which  *)
(* is what Retract relies on when it infers the phase from the count.      *)
(***************************************************************************)
EXTENDS BoardLockstep, TLAPS

\* The number of cells is a natural number.
LEMMA CellCount ==
    ASSUME NEW n \in Nat
    PROVE  NumCells(n) \in Nat
  BY DEF NumCells

\* The control actions are no cells and differ from one another.
LEMMA ControlIds ==
    ASSUME NEW n \in Nat
    PROVE  /\ swap2_choose_white(n) \notin Cells(n) /\ swap2_choose_black(n) \notin Cells(n)
           /\ swap2_place_two(n) \notin Cells(n)
           /\ choose_white(n) \notin Cells(n) /\ choose_black(n) \notin Cells(n)
           /\ -1 \notin Cells(n)
           /\ swap2_choose_white(n) # swap2_choose_black(n)
           /\ swap2_choose_white(n) # swap2_place_two(n)
           /\ swap2_choose_black(n) # swap2_place_two(n)
           /\ choose_white(n) # choose_black(n)
           /\ {choose_white(n), choose_black(n)} \cap
              {swap2_choose_white(n), swap2_choose_black(n), swap2_place_two(n)} = {}
  BY CellCount DEF Cells, swap2_choose_white, swap2_choose_black, swap2_place_two,
     choose_white, choose_black

-----------------------------------------------------------------------------
(* The shape of a board. *)

\* The colours are bound: one seat has black, the other white.
Bound(stones) == /\ stones \in [Seats -> Colours] /\ stones["A"] # stones["B"]

\* The colours before they are bound.
Unbound == [s \in Seats |-> "EMPTY"]

\* Phase and count determine the rest of the state of a game in the opening;
\* in standard play the stone to place is that of the seat to act, and the
\* game began with white.
Shape(n, b) ==
    /\ b.cells \in [Cells(n) -> Stones]
    /\ b.count \in Nat
    /\ \/ /\ b.phase = "PLACE_INITIAL_THREE" /\ b.count \in 0 .. 2
          /\ b.current = "A" /\ b.stone = IF b.count = 1 THEN "WHITE" ELSE "BLACK"
          /\ b.stones = Unbound /\ b.result = "UNDETERMINED"
       \/ /\ b.phase = "SWAP2_DECISION" /\ b.count = 3
          /\ b.current = "B" /\ b.stone = "EMPTY"
          /\ b.stones = Unbound /\ b.result = "UNDETERMINED"
       \/ /\ b.phase = "SWAP2_PLACE_TWO" /\ b.count \in 3 .. 4
          /\ b.current = "B" /\ b.stone = IF b.count = 3 THEN "WHITE" ELSE "BLACK"
          /\ b.stones = Unbound /\ b.result = "UNDETERMINED"
       \/ /\ b.phase = "CHOOSE_COLOR" /\ b.count = 5
          /\ b.current = "A" /\ b.stone = "EMPTY"
          /\ b.stones = Unbound /\ b.result = "UNDETERMINED"
       \/ /\ b.phase = "STANDARD" /\ b.count >= 3
          /\ b.current \in Seats /\ Bound(b.stones)
          /\ b.stone = b.stones[b.current] /\ b.result \in Results
          /\ b.count = 3 => b.stone = "WHITE"

-----------------------------------------------------------------------------
(* The server's board. *)

\* The type of the server's board.
RefereeRecord(n) ==
    [cells : [Cells(n) -> Stones], phase : Phases, current : Seats, stone : Stones,
     stones : [Seats -> Stones], count : Nat, plies : Nat, result : Results]

\* The inductive invariant of the server's board.
RefereeOK(n, b) == b \in RefereeRecord(n) /\ Shape(n, b)

\* It holds of a new board, which shows a new game.
LEMMA RefereeInitOK ==
    ASSUME NEW n \in Nat
    PROVE  RefereeOK(n, RefereeInit(n)) /\ View(RefereeInit(n)) = NewGame
  BY DEF RefereeInit, RefereeOK, RefereeRecord, Shape, Unbound, View, NewGame, Stones,
     Phases, Seats, Results, Colours

\* The fields of the view of a board.
LEMMA ViewIsAView ==
    ASSUME NEW n \in Nat, NEW b \in RefereeRecord(n)
    PROVE  /\ View(b) \in GameView
           /\ View(b).phase = b.phase /\ View(b).count = b.count /\ View(b).plies = b.plies
           /\ View(b).current = b.current /\ View(b).result = b.result
  BY DEF RefereeRecord, GameView, View

\* Two views with equal fields are equal.
LEMMA SameView ==
    ASSUME NEW v \in GameView, NEW w \in GameView, v.phase = w.phase,
           v.count = w.count, v.plies = w.plies, v.current = w.current,
           v.result = w.result
    PROVE  v = w
  BY DEF GameView

\* The fields of a view, named together.
Reads(w, phase, count, plies, current, result) ==
    /\ w \in GameView /\ w.phase = phase /\ w.count = count /\ w.plies = plies
    /\ w.current = current /\ w.result = result

\* What each rule of the Swap2 game leaves in each field.
LEMMA SwapFields ==
    ASSUME NEW v \in GameView
    PROVE  /\ \A phase \in Phases, seat \in Seats :
                Reads(Decide(v, phase, seat), phase, v.count, v.plies + 1, seat, v.result)
           /\ Reads(PlaceInitial(v), IF v.count = 2 THEN "SWAP2_DECISION" ELSE v.phase,
                    v.count + 1, v.plies + 1, IF v.count = 2 THEN "B" ELSE "A", v.result)
           /\ Reads(PlaceTwo(v), IF v.count = 4 THEN "CHOOSE_COLOR" ELSE v.phase,
                    v.count + 1, v.plies + 1, IF v.count = 4 THEN "A" ELSE "B", v.result)
           /\ Reads(PlayOn(v), v.phase, v.count + 1, v.plies + 1, Other(v.current), v.result)
           /\ \A result \in Results :
                Reads(PlayLast(v, result), v.phase, v.count + 1, v.plies + 1,
                      v.current, result)
<1>1. /\ v.count + 1 \in Nat /\ v.plies + 1 \in Nat /\ Other(v.current) \in Seats
      /\ "SWAP2_DECISION" \in Phases /\ "CHOOSE_COLOR" \in Phases
      /\ "A" \in Seats /\ "B" \in Seats /\ v.phase \in Phases
  BY DEF GameView, Phases, Seats, Other
<1>2. \A phase \in Phases, seat \in Seats :
         Reads(Decide(v, phase, seat), phase, v.count, v.plies + 1, seat, v.result)
  BY <1>1 DEF Reads, GameView, Decide
<1>3. Reads(PlaceInitial(v), IF v.count = 2 THEN "SWAP2_DECISION" ELSE v.phase,
            v.count + 1, v.plies + 1, IF v.count = 2 THEN "B" ELSE "A", v.result)
  BY <1>1 DEF Reads, GameView, PlaceInitial
<1>4. Reads(PlaceTwo(v), IF v.count = 4 THEN "CHOOSE_COLOR" ELSE v.phase,
            v.count + 1, v.plies + 1, IF v.count = 4 THEN "A" ELSE "B", v.result)
  BY <1>1 DEF Reads, GameView, PlaceTwo
<1>5. Reads(PlayOn(v), v.phase, v.count + 1, v.plies + 1, Other(v.current), v.result)
  BY <1>1 DEF Reads, GameView, PlayOn
<1>6. \A result \in Results :
         Reads(PlayLast(v, result), v.phase, v.count + 1, v.plies + 1, v.current, result)
  BY <1>1 DEF Reads, GameView, PlayLast
<1> QED
  BY <1>2, <1>3, <1>4, <1>5, <1>6

\* Binding the colours starts standard play with white to move.
LEMMA BindOK ==
    ASSUME NEW n \in Nat, NEW b, NEW white \in Seats, RefereeOK(n, b),
           b.phase \in {"SWAP2_DECISION", "CHOOSE_COLOR"}
    PROVE  LET h == [BindColours(b, white) EXCEPT !.plies = @ + 1]
           IN  /\ RefereeOK(n, h) /\ View(h) = Decide(View(b), "STANDARD", white)
               /\ h.cells = b.cells /\ h.count = b.count /\ h.result = b.result
               /\ h.phase = "STANDARD" /\ h.current = white /\ h.stone = "WHITE"
               /\ h.stones = [s \in Seats |-> IF s = white THEN "WHITE" ELSE "BLACK"]
<1> DEFINE colours == [s \in Seats |-> IF s = white THEN "WHITE" ELSE "BLACK"]
           h == [b EXCEPT !.stones = colours, !.phase = "STANDARD", !.current = white,
                          !.stone = "WHITE", !.plies = @ + 1]
<1>1. Bound(colours) /\ colours \in [Seats -> Stones] /\ colours[white] = "WHITE"
  BY DEF Bound, Seats, Stones, Colours
<1>2. [BindColours(b, white) EXCEPT !.plies = @ + 1] = h
  BY DEF BindColours, RefereeOK, RefereeRecord
<1>3. b \in RefereeRecord(n) /\ b.count >= 3 /\ b.plies + 1 \in Nat
  BY DEF RefereeOK, Shape, RefereeRecord
<1> HIDE DEF colours
<1>4. /\ h \in RefereeRecord(n) /\ h.cells = b.cells /\ h.count = b.count
      /\ h.phase = "STANDARD" /\ h.current = white /\ h.stone = "WHITE"
      /\ h.stones = colours /\ h.result = b.result /\ h.plies = b.plies + 1
  BY <1>1, <1>3 DEF RefereeRecord, Phases, Stones, Colours
<1> HIDE DEF h
<1>5. Shape(n, h)
  BY <1>1, <1>3, <1>4 DEF Shape, RefereeRecord
<1>6. View(h) = Decide(View(b), "STANDARD", white)
  <2>1. "STANDARD" \in Phases
    BY DEF Phases
  <2>2. Reads(Decide(View(b), "STANDARD", white), "STANDARD", b.count, b.plies + 1,
              white, b.result)
    BY <1>3, <2>1, ViewIsAView, SwapFields
  <2> QED
    BY <1>4, <2>2, ViewIsAView, SameView DEF Reads
<1> QED
  BY <1>2, <1>4, <1>5, <1>6 DEF RefereeOK, colours

\* A board with the stone that is due put on a cell, and nothing else done.
Placed(b, cell) == [b EXCEPT !.cells[cell] = b.stone, !.count = @ + 1]

\* What is common to both boards after a placement: the stone is on the cell,
\* the opening moves on with the count, and standard play passes the turn
\* unless result ends the game.
Lands(b, cell, k, result) ==
    /\ k.cells = [b.cells EXCEPT ![cell] = b.stone]
    /\ k.count = b.count + 1 /\ k.stones = b.stones
    /\ \/ /\ b.phase = "STANDARD" /\ k.phase = "STANDARD" /\ k.result = result
          /\ \/ result # "UNDETERMINED"
             \/ k.current = Other(b.current) /\ k.stone = OtherStone(b.stone)
       \/ /\ b.phase # "STANDARD"
          /\ k.phase = CASE b.count = 2 -> "SWAP2_DECISION"
                         [] b.count = 4 -> "CHOOSE_COLOR"
                         [] OTHER -> b.phase

\* The seat that gets white.
WhiteSeat(n, action) ==
    IF action \in {swap2_choose_white(n), choose_black(n)} THEN "B" ELSE "A"

\* What is common to both boards after a control action.
Binds(n, b, action, k) ==
    /\ k.cells = b.cells /\ k.count = b.count /\ k.result = b.result
    /\ \/ /\ action = swap2_place_two(n) /\ k.phase = "SWAP2_PLACE_TWO"
       \/ /\ action # swap2_place_two(n) /\ k.phase = "STANDARD"
          /\ k.current = WhiteSeat(n, action) /\ k.stone = "WHITE"
          /\ k.stones = [s \in Seats |-> IF s = WhiteSeat(n, action)
                                        THEN "WHITE" ELSE "BLACK"]

\* A board in shape whose view reads like w is the server's board of w.
LEMMA Settled ==
    ASSUME NEW n \in Nat, NEW b \in RefereeRecord(n), NEW w, NEW k \in RefereeRecord(n),
           k.plies = b.plies + 1, Shape(n, k),
           Reads(w, k.phase, k.count, b.plies + 1, k.current, k.result)
    PROVE  RefereeOK(n, k) /\ View(k) = w
  BY ViewIsAView, SameView DEF Reads, RefereeOK

\* The server's board after a placement, phase by phase.
LEMMA PlacementOK ==
    ASSUME NEW n \in Nat, NEW b, RefereeOK(n, b), NEW cell \in Cells(n),
           b.result = "UNDETERMINED", b.phase \in PlacingPhases
    PROVE  LET k == [ApplyPlacement(n, b, cell) EXCEPT !.plies = @ + 1]
           IN  /\ RefereeOK(n, k) /\ View(k) \in Successors(View(b))
               /\ Lands(b, cell, k, CheckTerminal(n, Placed(b, cell), cell))
<1> DEFINE p == [b EXCEPT !.cells[cell] = b.stone, !.count = @ + 1]
           z == ApplyPlacement(n, b, cell)
           k == [z EXCEPT !.plies = @ + 1]
           v == View(b)
           verdict == CheckTerminal(n, p, cell)
<1> SUFFICES /\ RefereeOK(n, k) /\ View(k) \in Successors(v)
             /\ Lands(b, cell, k, verdict)
  BY DEF Placed
<1>1. /\ b \in RefereeRecord(n) /\ Shape(n, b) /\ b.cells \in [Cells(n) -> Stones]
      /\ b.count \in Nat /\ b.plies \in Nat /\ b.count + 1 \in Nat /\ b.plies + 1 \in Nat
      /\ [b.cells EXCEPT ![cell] = b.stone] \in [Cells(n) -> Stones]
  BY DEF RefereeOK, RefereeRecord
<1>2. /\ p \in RefereeRecord(n) /\ p.cells \in [Cells(n) -> Stones]
      /\ p.count = b.count + 1 /\ p.plies = b.plies /\ p.phase = b.phase
      /\ p.current = b.current /\ p.stone = b.stone /\ p.stones = b.stones
      /\ p.result = b.result /\ p.cells[cell] = b.stone
      /\ p.cells = [b.cells EXCEPT ![cell] = b.stone]
  BY <1>1 DEF RefereeRecord
<1>3. /\ v \in GameView /\ v.phase = b.phase /\ v.count = b.count /\ v.plies = b.plies
      /\ v.current = b.current /\ v.result = b.result
  BY <1>1, ViewIsAView
<1>4. z = CASE b.phase = "PLACE_INITIAL_THREE" /\ p.count = 3 ->
                  [p EXCEPT !.phase = "SWAP2_DECISION", !.current = "B",
                            !.stone = "EMPTY"]
            [] b.phase = "PLACE_INITIAL_THREE" /\ p.count # 3 ->
                  [p EXCEPT !.stone = IF p.count = 1 THEN "WHITE" ELSE "BLACK"]
            [] b.phase = "SWAP2_PLACE_TWO" /\ p.count = 4 ->
                  [p EXCEPT !.stone = "BLACK"]
            [] b.phase = "SWAP2_PLACE_TWO" /\ p.count = 5 ->
                  [p EXCEPT !.phase = "CHOOSE_COLOR", !.current = "A",
                            !.stone = "EMPTY"]
            [] b.phase = "SWAP2_PLACE_TWO" /\ p.count \notin {4, 5} -> p
            [] b.phase \notin {"PLACE_INITIAL_THREE", "SWAP2_PLACE_TWO"} ->
                  IF verdict # "UNDETERMINED"
                  THEN [p EXCEPT !.result = verdict]
                  ELSE [p EXCEPT !.current = Other(@), !.stone = OtherStone(@)]
  BY DEF ApplyPlacement
<1>5. k = [z EXCEPT !.plies = @ + 1]
  OBVIOUS
<1> HIDE DEF p, v, k, z, verdict
<1>6. CASE b.phase = "PLACE_INITIAL_THREE"
  <2>1. Reads(PlaceInitial(v), IF b.count = 2 THEN "SWAP2_DECISION" ELSE b.phase,
              b.count + 1, b.plies + 1, IF b.count = 2 THEN "B" ELSE "A", b.result)
    BY <1>3, SwapFields
  <2>2. PlaceInitial(v) \in Successors(v)
    BY <1>3, <1>6 DEF Successors
  <2>3. /\ b.count \in 0 .. 2 /\ b.current = "A" /\ b.stones = Unbound
    BY <1>1, <1>6 DEF Shape
  <2>4. CASE b.count = 2
    <3>0. z = [p EXCEPT !.phase = "SWAP2_DECISION", !.current = "B", !.stone = "EMPTY"]
      BY <1>2, <1>6, <1>4, <2>4
    <3>1. k = [[p EXCEPT !.phase = "SWAP2_DECISION", !.current = "B", !.stone = "EMPTY"]
                 EXCEPT !.plies = @ + 1]
      BY <1>5, <3>0
    <3>2. /\ k \in RefereeRecord(n) /\ k.cells = p.cells /\ k.phase = "SWAP2_DECISION"
          /\ k.current = "B" /\ k.stone = "EMPTY" /\ k.stones = p.stones
          /\ k.count = p.count /\ k.plies = b.plies + 1 /\ k.result = p.result
      BY <1>1, <1>2, <3>1 DEF RefereeRecord, Phases, Seats, Stones, Colours
    <3>3. Shape(n, k)
      BY <1>2, <2>3, <2>4, <3>2 DEF Shape
    <3>4. Lands(b, cell, k, verdict)
      BY <1>2, <1>6, <2>4, <3>2 DEF Lands
    <3> QED
      BY <1>1, <1>2, <2>1, <2>2, <2>4, <3>2, <3>3, <3>4, Settled
  <2>5. CASE b.count # 2
    <3> DEFINE stone == IF p.count = 1 THEN "WHITE" ELSE "BLACK"
    <3>0. z = [p EXCEPT !.stone = stone]
      BY <1>1, <1>2, <1>6, <1>4, <2>3, <2>5
    <3>1. k = [[p EXCEPT !.stone = stone] EXCEPT !.plies = @ + 1]
      BY <1>5, <3>0
    <3>2. stone \in Stones
      BY DEF Stones, Colours
    <3> HIDE DEF stone
    <3>3. /\ k \in RefereeRecord(n) /\ k.cells = p.cells /\ k.phase = p.phase
          /\ k.current = p.current /\ k.stone = stone /\ k.stones = p.stones
          /\ k.count = p.count /\ k.plies = b.plies + 1 /\ k.result = p.result
      BY <1>1, <1>2, <3>1, <3>2 DEF RefereeRecord
    <3>4. Shape(n, k)
      BY <1>2, <1>6, <2>3, <2>5, <3>3 DEF Shape, stone
    <3>5. Lands(b, cell, k, verdict)
      BY <1>2, <1>6, <2>3, <2>5, <3>3 DEF Lands
    <3> QED
      BY <1>1, <1>2, <1>6, <2>1, <2>2, <2>3, <2>5, <3>3, <3>4, <3>5, Settled
  <2> QED
    BY <2>4, <2>5
<1>7. CASE b.phase = "SWAP2_PLACE_TWO"
  <2>1. Reads(PlaceTwo(v), IF b.count = 4 THEN "CHOOSE_COLOR" ELSE b.phase,
              b.count + 1, b.plies + 1, IF b.count = 4 THEN "A" ELSE "B", b.result)
    BY <1>3, SwapFields
  <2>2. PlaceTwo(v) \in Successors(v)
    BY <1>3, <1>7 DEF Successors
  <2>3. b.count \in 3 .. 4 /\ b.current = "B" /\ b.stones = Unbound
    BY <1>1, <1>7 DEF Shape
  <2>4. CASE b.count = 4
    <3>0. z = [p EXCEPT !.phase = "CHOOSE_COLOR", !.current = "A", !.stone = "EMPTY"]
      BY <1>2, <1>7, <1>4, <2>4
    <3>1. k = [[p EXCEPT !.phase = "CHOOSE_COLOR", !.current = "A", !.stone = "EMPTY"]
                 EXCEPT !.plies = @ + 1]
      BY <1>5, <3>0
    <3>2. /\ k \in RefereeRecord(n) /\ k.cells = p.cells /\ k.phase = "CHOOSE_COLOR"
          /\ k.current = "A" /\ k.stone = "EMPTY" /\ k.stones = p.stones
          /\ k.count = p.count /\ k.plies = b.plies + 1 /\ k.result = p.result
      BY <1>1, <1>2, <3>1 DEF RefereeRecord, Phases, Seats, Stones, Colours
    <3>3. Shape(n, k)
      BY <1>2, <2>3, <2>4, <3>2 DEF Shape
    <3>4. Lands(b, cell, k, verdict)
      BY <1>2, <1>7, <2>4, <3>2 DEF Lands
    <3> QED
      BY <1>1, <1>2, <2>1, <2>2, <2>4, <3>2, <3>3, <3>4, Settled
  <2>5. CASE b.count = 3
    <3>0. z = [p EXCEPT !.stone = "BLACK"]
      BY <1>2, <1>7, <1>4, <2>5
    <3>1. k = [[p EXCEPT !.stone = "BLACK"] EXCEPT !.plies = @ + 1]
      BY <1>5, <3>0
    <3>2. /\ k \in RefereeRecord(n) /\ k.cells = p.cells /\ k.phase = p.phase
          /\ k.current = p.current /\ k.stone = "BLACK" /\ k.stones = p.stones
          /\ k.count = p.count /\ k.plies = b.plies + 1 /\ k.result = p.result
      BY <1>1, <1>2, <3>1 DEF RefereeRecord, Stones, Colours
    <3>3. Shape(n, k)
      BY <1>2, <1>7, <2>3, <2>5, <3>2 DEF Shape
    <3>4. Lands(b, cell, k, verdict)
      BY <1>2, <1>7, <2>5, <3>2 DEF Lands
    <3> QED
      BY <1>1, <1>2, <1>7, <2>1, <2>2, <2>3, <2>5, <3>2, <3>3, <3>4, Settled
  <2> QED
    BY <2>3, <2>4, <2>5
<1>8. CASE b.phase = "STANDARD"
  <2>1. /\ b.count >= 3 /\ b.current \in Seats /\ Bound(b.stones)
        /\ b.stone = b.stones[b.current]
    BY <1>1, <1>8 DEF Shape
  <2>2. verdict \in {WinFor(b.current), "DRAW", "UNDETERMINED"}
    <3>1. SetWinnerForStone(p, b.stone) \in {WinFor(b.current), "DRAW"}
      BY <1>2, <2>1 DEF SetWinnerForStone, WinFor, Bound, Seats
    <3> QED
      BY <1>2, <3>1 DEF CheckTerminal, verdict
  <2>3. k = [IF verdict # "UNDETERMINED" THEN [p EXCEPT !.result = verdict]
             ELSE [p EXCEPT !.current = Other(@), !.stone = OtherStone(@)]
                EXCEPT !.plies = @ + 1]
    BY <1>8, <1>4, <1>5
  <2>4. CASE verdict # "UNDETERMINED"
    <3>1. verdict \in Results /\ PlayLast(v, verdict) \in Successors(v)
      BY <1>3, <1>8, <2>2, <2>4 DEF Successors, Results, WinFor
    <3>2. Reads(PlayLast(v, verdict), b.phase, b.count + 1, b.plies + 1, b.current, verdict)
      BY <1>3, <3>1, SwapFields
    <3>3. k = [[p EXCEPT !.result = verdict] EXCEPT !.plies = @ + 1]
      BY <2>3, <2>4
    <3>4. /\ k \in RefereeRecord(n) /\ k.cells = p.cells /\ k.phase = p.phase
          /\ k.current = p.current /\ k.stone = p.stone /\ k.stones = p.stones
          /\ k.count = p.count /\ k.plies = b.plies + 1 /\ k.result = verdict
      BY <1>1, <1>2, <3>1, <3>3 DEF RefereeRecord
    <3>5. Shape(n, k)
      BY <1>1, <1>2, <1>8, <2>1, <3>1, <3>4 DEF Shape
    <3>6. Lands(b, cell, k, verdict)
      BY <1>2, <1>8, <2>4, <3>4 DEF Lands
    <3> QED
      BY <1>1, <1>2, <3>1, <3>2, <3>4, <3>5, <3>6, Settled
  <2>5. CASE verdict = "UNDETERMINED"
    <3>1. PlayOn(v) \in Successors(v)
      BY <1>3, <1>8 DEF Successors
    <3>2. Reads(PlayOn(v), b.phase, b.count + 1, b.plies + 1, Other(b.current), b.result)
      BY <1>3, SwapFields
    <3>3. k = [[p EXCEPT !.current = Other(b.current), !.stone = OtherStone(b.stone)]
                 EXCEPT !.plies = @ + 1]
      BY <1>2, <2>3, <2>5
    <3>4. /\ Other(b.current) \in Seats /\ OtherStone(b.stone) \in Stones
          /\ OtherStone(b.stone) = b.stones[Other(b.current)]
      BY <2>1 DEF Other, OtherStone, Seats, Stones, Colours, Bound
    <3>5. /\ k \in RefereeRecord(n) /\ k.cells = p.cells /\ k.phase = p.phase
          /\ k.current = Other(b.current) /\ k.stone = OtherStone(b.stone)
          /\ k.stones = p.stones
          /\ k.count = p.count /\ k.plies = b.plies + 1 /\ k.result = p.result
      BY <1>1, <1>2, <3>3, <3>4 DEF RefereeRecord
    <3>6. Shape(n, k)
      BY <1>1, <1>2, <1>8, <2>1, <3>4, <3>5 DEF Shape, Results
    <3>7. Lands(b, cell, k, verdict)
      BY <1>2, <1>8, <2>5, <3>5 DEF Lands
    <3> QED
      BY <1>1, <1>2, <3>1, <3>2, <3>5, <3>6, <3>7, Settled
  <2> QED
    BY <2>4, <2>5
<1> QED
  BY <1>6, <1>7, <1>8 DEF PlacingPhases

\* The server's board after a control action.
LEMMA ControlOK ==
    ASSUME NEW n \in Nat, NEW b, RefereeOK(n, b), NEW action,
           action \in LegalSet(n, b), ~IsPlacement(n, action)
    PROVE  LET k == [ApplyControl(n, b, action) EXCEPT !.plies = @ + 1]
           IN  /\ RefereeOK(n, k) /\ View(k) \in Successors(View(b))
               /\ Binds(n, b, action, k)
<1> DEFINE z == ApplyControl(n, b, action)
           k == [z EXCEPT !.plies = @ + 1]
           v == View(b)
<1> SUFFICES RefereeOK(n, k) /\ View(k) \in Successors(v) /\ Binds(n, b, action, k)
  OBVIOUS
<1>1. /\ b \in RefereeRecord(n) /\ Shape(n, b) /\ b.plies + 1 \in Nat
      /\ b.cells \in [Cells(n) -> Stones] /\ b.result = "UNDETERMINED"
  BY DEF RefereeOK, RefereeRecord, LegalSet
<1>2. /\ v \in GameView /\ v.phase = b.phase /\ v.count = b.count /\ v.plies = b.plies
      /\ v.current = b.current /\ v.result = b.result
  BY <1>1, ViewIsAView
<1>3. k = [z EXCEPT !.plies = @ + 1]
  OBVIOUS
<1>4. \/ /\ b.phase = "SWAP2_DECISION"
         /\ action \in {swap2_choose_white(n), swap2_choose_black(n), swap2_place_two(n)}
      \/ /\ b.phase = "CHOOSE_COLOR" /\ action \in {choose_white(n), choose_black(n)}
  BY <1>1 DEF LegalSet, Shape, IsPlacement, PlacingPhases
<1>5. ASSUME NEW white \in Seats, white = WhiteSeat(n, action),
             action # swap2_place_two(n), z = BindColours(b, white)
      PROVE  RefereeOK(n, k) /\ View(k) \in Successors(v) /\ Binds(n, b, action, k)
  <2>1. /\ RefereeOK(n, [BindColours(b, white) EXCEPT !.plies = @ + 1])
        /\ View([BindColours(b, white) EXCEPT !.plies = @ + 1])
             = Decide(v, "STANDARD", white)
        /\ LET h == [BindColours(b, white) EXCEPT !.plies = @ + 1]
           IN  /\ h.cells = b.cells /\ h.count = b.count /\ h.result = b.result
               /\ h.phase = "STANDARD" /\ h.current = white /\ h.stone = "WHITE"
               /\ h.stones = [s \in Seats |-> IF s = white THEN "WHITE" ELSE "BLACK"]
    BY <1>4, BindOK
  <2>2. Decide(v, "STANDARD", white) \in Successors(v)
    BY <1>1, <1>2, <1>4 DEF Successors, Seats
  <2>3. k = [BindColours(b, white) EXCEPT !.plies = @ + 1]
    BY <1>5
  <2> HIDE DEF z, k, v
  <2> QED
    BY <1>5, <2>1, <2>2, <2>3 DEF Binds
<1>6. ASSUME action = swap2_place_two(n)
      PROVE  RefereeOK(n, k) /\ View(k) \in Successors(v) /\ Binds(n, b, action, k)
  <2>1. z = [b EXCEPT !.phase = "SWAP2_PLACE_TWO", !.current = "B", !.stone = "WHITE"]
    BY <1>6, ControlIds DEF ApplyControl
  <2>2. b.phase = "SWAP2_DECISION" /\ b.count = 3 /\ b.stones = Unbound
    BY <1>1, <1>4, <1>6, ControlIds DEF Shape
  <2>3. Decide(v, "SWAP2_PLACE_TWO", "B") \in Successors(v)
    BY <1>1, <1>2, <2>2 DEF Successors
  <2>4. "SWAP2_PLACE_TWO" \in Phases /\ "B" \in Seats /\ "WHITE" \in Stones
    BY DEF Phases, Seats, Stones, Colours
  <2>5. Reads(Decide(v, "SWAP2_PLACE_TWO", "B"), "SWAP2_PLACE_TWO", b.count,
              b.plies + 1, "B", b.result)
    BY <1>2, <2>4, SwapFields
  <2> HIDE DEF z, k, v
  <2>6. /\ k \in RefereeRecord(n) /\ k.cells = b.cells /\ k.phase = "SWAP2_PLACE_TWO"
        /\ k.current = "B" /\ k.stone = "WHITE" /\ k.stones = b.stones
        /\ k.count = b.count /\ k.plies = b.plies + 1 /\ k.result = b.result
    BY <1>1, <1>3, <2>1, <2>4 DEF RefereeRecord
  <2>7. Shape(n, k)
    BY <1>1, <2>2, <2>6 DEF Shape
  <2>8. Binds(n, b, action, k)
    BY <1>6, <2>6 DEF Binds
  <2> QED
    BY <1>1, <2>3, <2>5, <2>6, <2>7, <2>8, Settled
<1>7. \/ action = swap2_place_two(n)
      \/ /\ action # swap2_place_two(n) /\ WhiteSeat(n, action) \in Seats
         /\ z = BindColours(b, WhiteSeat(n, action))
  BY <1>4, ControlIds DEF ApplyControl, Seats, WhiteSeat
<1> HIDE DEF z, k, v
<1> QED
  BY <1>5, <1>6, <1>7

\* Every legal action keeps the invariant of the server's board (apply in
\* board.py), is a step of the Swap2 game, and has the common effect.
THEOREM RefereeStep ==
    ASSUME NEW n \in Nat, NEW b, RefereeOK(n, b), NEW action \in LegalSet(n, b)
    PROVE  /\ RefereeOK(n, RefereeApply(n, b, action))
           /\ View(RefereeApply(n, b, action)) \in Successors(View(b))
           /\ IF IsPlacement(n, action)
              THEN Lands(b, action, RefereeApply(n, b, action),
                         CheckTerminal(n, Placed(b, action), action))
              ELSE Binds(n, b, action, RefereeApply(n, b, action))
<1>1. CASE IsPlacement(n, action)
  <2>1. action \in Cells(n) /\ b.result = "UNDETERMINED" /\ b.phase \in PlacingPhases
    BY <1>1, ControlIds DEF IsPlacement, LegalSet, RefereeOK, Shape, PlacingPhases
  <2> QED
    BY <1>1, <2>1, PlacementOK DEF RefereeApply
<1>2. CASE ~IsPlacement(n, action)
  BY <1>2, ControlOK DEF RefereeApply
<1> QED
  BY <1>1, <1>2

-----------------------------------------------------------------------------
(* The engine's board. *)

\* The type of the engine's board; sigs holds its signature.
EngineRecord(n, sigs) ==
    [cells : [Cells(n) -> Stones], phase : Phases, current : Seats, stone : Stones,
     stones : [Seats -> Stones], count : Nat, result : Results, sig : sigs]

\* The inductive invariant of the engine's board.
EngineOK(n, b) == b \in EngineRecord(n, {b.sig}) /\ Shape(n, b)

\* Two boards that differ at most in their signatures.
SamePlace(b, c) ==
    /\ b.cells = c.cells /\ b.phase = c.phase /\ b.current = c.current
    /\ b.stone = c.stone /\ b.stones = c.stones /\ b.count = c.count
    /\ b.result = c.result

\* The features ToggleHash switches.
Touched(n, b, action) ==
    StatusFeatures(b) \cup (IF IsPlacement(n, action) THEN {CellFeature(b, action)} ELSE {})

\* Boards with equal fields and signatures are equal.
LEMMA SameEngine ==
    ASSUME NEW n \in Nat, NEW b, NEW c, b \in EngineRecord(n, {b.sig}),
           c \in EngineRecord(n, {c.sig}), SamePlace(b, c), b.sig = c.sig
    PROVE  b = c
  BY DEF EngineRecord, SamePlace

\* ToggleHash changes the signature only.
LEMMA ToggleFields ==
    ASSUME NEW n \in Nat, NEW b, NEW action, b \in EngineRecord(n, {b.sig})
    PROVE  LET t == ToggleHash(n, b, action)
           IN  /\ t \in EngineRecord(n, {t.sig}) /\ SamePlace(t, b)
               /\ t.sig = Xor(b.sig, Touched(n, b, action))
  BY DEF EngineRecord, ToggleHash, SamePlace, Touched

\* The features depend on the position only.
LEMMA TouchedSame ==
    ASSUME NEW n, NEW b, NEW c, NEW action, SamePlace(b, c)
    PROVE  Touched(n, b, action) = Touched(n, c, action)
  BY DEF Touched, SamePlace, StatusFeatures, CellFeature

\* So does the shape.
LEMMA ShapeSame ==
    ASSUME NEW n, NEW b, NEW c, SamePlace(b, c), Shape(n, b)
    PROVE  Shape(n, c)
  BY DEF SamePlace, Shape

\* The fields of a board with one more stone.
LEMMA PlacedFields ==
    ASSUME NEW n \in Nat, NEW b, b \in EngineRecord(n, {b.sig}), NEW cell \in Cells(n)
    PROVE  LET p == Placed(b, cell)
           IN  /\ p.cells = [b.cells EXCEPT ![cell] = b.stone] /\ p.count = b.count + 1
               /\ p.stone = b.stone /\ p.stones = b.stones /\ p.result = b.result
  BY DEF Placed, EngineRecord

\* The result of a stone depends on the position only.
LEMMA ResultSame ==
    ASSUME NEW n \in Nat, NEW b, NEW c, b \in EngineRecord(n, {b.sig}),
           c \in EngineRecord(n, {c.sig}), SamePlace(b, c), NEW cell \in Cells(n)
    PROVE  StandardResult(n, Placed(b, cell), cell) = StandardResult(n, Placed(c, cell), cell)
<1> DEFINE p == Placed(b, cell)
           q == Placed(c, cell)
<1>1. /\ p.cells = [b.cells EXCEPT ![cell] = b.stone] /\ p.count = b.count + 1
      /\ p.stone = b.stone /\ p.stones = b.stones /\ p.result = b.result
  BY PlacedFields
<1>2. /\ q.cells = [c.cells EXCEPT ![cell] = c.stone] /\ q.count = c.count + 1
      /\ q.stone = c.stone /\ q.stones = c.stones /\ q.result = c.result
  BY PlacedFields
<1> HIDE DEF p, q
<1>3. StandardResult(n, p, cell) = StandardResult(n, q, cell)
  BY <1>1, <1>2 DEF StandardResult, SamePlace
<1> QED
  BY <1>3 DEF p, q

\* Switching the same features twice is no change.
LEMMA XorTwice ==
    ASSUME NEW S, NEW T
    PROVE  Xor(Xor(S, T), T) = S
  BY DEF Xor

\* The engine's board d after a placement on b, its signature not yet brought
\* up to date.
Follows(n, b, cell, d) ==
    /\ EngineOK(n, d) /\ d.sig = b.sig
    /\ d.cells = [b.cells EXCEPT ![cell] = b.stone]
    /\ d.count = b.count + 1 /\ d.stones = b.stones
    /\ d.current = GetChildCurrentPlayer(n, b, cell)
    /\ \/ /\ b.phase = "STANDARD" /\ d.phase = "STANDARD"
          /\ d.stone = OtherStone(b.stone) /\ d.current = Other(b.current)
          /\ d.result = StandardResult(n, Placed(b, cell), cell)
       \/ /\ b.phase # "STANDARD"
          /\ d.phase = CASE b.count = 2 -> "SWAP2_DECISION"
                         [] b.count = 4 -> "CHOOSE_COLOR"
                         [] OTHER -> b.phase

\* The engine's placement, phase by phase: the seat to act is the one
\* GetChildCurrentPlayer forecasts.
LEMMA PlaceOK ==
    ASSUME NEW n \in Nat, NEW b, EngineOK(n, b), NEW cell \in Cells(n),
           b.result = "UNDETERMINED", b.phase \in PlacingPhases
    PROVE  Follows(n, b, cell, Place(n, b, cell))
<1> DEFINE p == [b EXCEPT !.cells[cell] = b.stone, !.count = @ + 1]
           d == Place(n, b, cell)
<1>1. /\ b \in EngineRecord(n, {b.sig}) /\ Shape(n, b) /\ b.count + 1 \in Nat
      /\ [b.cells EXCEPT ![cell] = b.stone] \in [Cells(n) -> Stones]
  BY DEF EngineOK, EngineRecord
<1>2. /\ p \in EngineRecord(n, {b.sig}) /\ p.sig = b.sig
      /\ p.cells = [b.cells EXCEPT ![cell] = b.stone]
      /\ p.count = b.count + 1 /\ p.phase = b.phase /\ p.current = b.current
      /\ p.stone = b.stone /\ p.stones = b.stones /\ p.result = b.result
  BY <1>1 DEF EngineRecord
<1>3. d = TransitionPhase(IF p.phase = "STANDARD"
                          THEN [p EXCEPT !.result = StandardResult(n, p, cell)] ELSE p)
  BY DEF Place
<1> HIDE DEF p, d
<1>4. CASE b.phase = "PLACE_INITIAL_THREE"
  <2>1. b.count \in 0 .. 2 /\ b.current = "A" /\ b.stones = Unbound
    BY <1>1, <1>4 DEF Shape
  <2>2. d = TransitionPhase(p)
    BY <1>2, <1>3, <1>4
  <2>3. CASE b.count = 2
    <3>1. d = [p EXCEPT !.phase = "SWAP2_DECISION", !.stone = "EMPTY", !.current = "B"]
      BY <1>2, <1>4, <2>2, <2>3 DEF TransitionPhase
    <3>2. /\ d \in EngineRecord(n, {d.sig}) /\ d.sig = b.sig /\ d.cells = p.cells
          /\ d.count = p.count /\ d.phase = "SWAP2_DECISION" /\ d.stone = "EMPTY"
          /\ d.current = "B" /\ d.stones = p.stones /\ d.result = p.result
      BY <1>2, <3>1 DEF EngineRecord, Phases, Seats, Stones
    <3>3. Shape(n, d)
      BY <1>1, <1>2, <2>1, <2>3, <3>2 DEF Shape
    <3>4. GetChildCurrentPlayer(n, b, cell) = "B"
      BY <1>4, <2>3 DEF GetChildCurrentPlayer
    <3> QED
      BY <1>2, <1>4, <2>3, <3>2, <3>3, <3>4 DEF EngineOK, Follows, d
  <2>4. CASE b.count # 2
    <3> DEFINE stone == IF b.count = 0 THEN "WHITE" ELSE "BLACK"
    <3>1. d = [p EXCEPT !.stone = stone]
      BY <1>2, <1>4, <2>1, <2>2, <2>4 DEF TransitionPhase
    <3>2. stone \in Stones
      BY DEF Stones, Colours
    <3> HIDE DEF stone
    <3>3. /\ d \in EngineRecord(n, {d.sig}) /\ d.sig = b.sig /\ d.cells = p.cells
          /\ d.count = p.count /\ d.phase = p.phase /\ d.stone = stone
          /\ d.current = p.current /\ d.stones = p.stones /\ d.result = p.result
      BY <1>2, <3>1, <3>2 DEF EngineRecord
    <3>4. Shape(n, d)
      BY <1>1, <1>2, <1>4, <2>1, <2>4, <3>3 DEF Shape, stone
    <3>5. GetChildCurrentPlayer(n, b, cell) = "A"
      BY <1>4, <2>4 DEF GetChildCurrentPlayer
    <3> QED
      BY <1>2, <1>4, <2>1, <2>4, <3>3, <3>4, <3>5 DEF EngineOK, Follows, d
  <2> QED
    BY <2>3, <2>4
<1>5. CASE b.phase = "SWAP2_PLACE_TWO"
  <2>1. b.count \in 3 .. 4 /\ b.current = "B" /\ b.stones = Unbound
    BY <1>1, <1>5 DEF Shape
  <2>2. d = TransitionPhase(p)
    BY <1>2, <1>3, <1>5
  <2>3. CASE b.count = 4
    <3>1. d = [p EXCEPT !.phase = "CHOOSE_COLOR", !.stone = "EMPTY", !.current = "A"]
      BY <1>2, <1>5, <2>2, <2>3 DEF TransitionPhase
    <3>2. /\ d \in EngineRecord(n, {d.sig}) /\ d.sig = b.sig /\ d.cells = p.cells
          /\ d.count = p.count /\ d.phase = "CHOOSE_COLOR" /\ d.stone = "EMPTY"
          /\ d.current = "A" /\ d.stones = p.stones /\ d.result = p.result
      BY <1>2, <3>1 DEF EngineRecord, Phases, Seats, Stones
    <3>3. Shape(n, d)
      BY <1>1, <1>2, <2>1, <2>3, <3>2 DEF Shape
    <3>4. GetChildCurrentPlayer(n, b, cell) = "A"
      BY <1>5, <2>3 DEF GetChildCurrentPlayer
    <3> QED
      BY <1>2, <1>5, <2>3, <3>2, <3>3, <3>4 DEF EngineOK, Follows, d
  <2>4. CASE b.count = 3
    <3>1. d = [p EXCEPT !.stone = "BLACK"]
      BY <1>2, <1>5, <2>2, <2>4 DEF TransitionPhase
    <3>2. /\ d \in EngineRecord(n, {d.sig}) /\ d.sig = b.sig /\ d.cells = p.cells
          /\ d.count = p.count /\ d.phase = p.phase /\ d.stone = "BLACK"
          /\ d.current = p.current /\ d.stones = p.stones /\ d.result = p.result
      BY <1>2, <3>1 DEF EngineRecord, Stones, Colours
    <3>3. Shape(n, d)
      BY <1>1, <1>2, <1>5, <2>1, <2>4, <3>2 DEF Shape
    <3>4. GetChildCurrentPlayer(n, b, cell) = "B"
      BY <1>5, <2>4 DEF GetChildCurrentPlayer
    <3> QED
      BY <1>2, <1>5, <2>1, <2>4, <3>2, <3>3, <3>4 DEF EngineOK, Follows, d
  <2> QED
    BY <2>1, <2>3, <2>4
<1>6. CASE b.phase = "STANDARD"
  <2> DEFINE result == StandardResult(n, p, cell)
             q == [p EXCEPT !.result = result]
  <2>1. /\ b.count >= 3 /\ b.current \in Seats /\ Bound(b.stones)
        /\ b.stone = b.stones[b.current]
    BY <1>1, <1>6 DEF Shape
  <2>2. result \in Results
    BY <1>2 DEF StandardResult, Results
  <2>3. d = TransitionPhase(q)
    BY <1>2, <1>3, <1>6
  <2> HIDE DEF result
  <2>4. /\ q.phase = "STANDARD" /\ q.stone = b.stone /\ q.current = b.current
    BY <1>2, <1>6 DEF EngineRecord
  <2>5. d = [q EXCEPT !.stone = OtherStone(b.stone), !.current = Other(b.current)]
    BY <2>3, <2>4 DEF TransitionPhase
  <2>6. /\ Other(b.current) \in Seats /\ OtherStone(b.stone) \in Stones
        /\ OtherStone(b.stone) = b.stones[Other(b.current)]
    BY <2>1 DEF Other, OtherStone, Seats, Stones, Colours, Bound
  <2>7. /\ d \in EngineRecord(n, {d.sig}) /\ d.sig = b.sig /\ d.cells = p.cells
        /\ d.count = p.count /\ d.phase = p.phase /\ d.stone = OtherStone(b.stone)
        /\ d.current = Other(b.current) /\ d.stones = p.stones /\ d.result = result
    BY <1>2, <2>2, <2>5, <2>6 DEF EngineRecord
  <2>8. Shape(n, d)
    BY <1>1, <1>2, <1>6, <2>1, <2>2, <2>6, <2>7 DEF Shape
  <2>9. GetChildCurrentPlayer(n, b, cell) = Other(b.current)
    BY <1>6 DEF GetChildCurrentPlayer
  <2> QED
    BY <1>2, <1>6, <2>7, <2>8, <2>9 DEF EngineOK, Follows, d, result, p, Placed
<1> QED
  BY <1>4, <1>5, <1>6 DEF PlacingPhases

\* Retract's placement branch finds back to the position before, although it
\* has only the count to go by.
LEMMA PlaceUndone ==
    ASSUME NEW n \in Nat, NEW b, EngineOK(n, b), NEW cell \in Cells(n),
           b.result = "UNDETERMINED", b.phase \in PlacingPhases,
           b.cells[cell] = "EMPTY",
           NEW d, d \in EngineRecord(n, {d.sig}), SamePlace(d, Place(n, b, cell))
    PROVE  LET r == RetractPlacement([[d EXCEPT !.result = "UNDETERMINED"]
                        EXCEPT !.cells[cell] = "EMPTY", !.count = @ - 1])
           IN  r \in EngineRecord(n, {r.sig}) /\ r.sig = d.sig /\ SamePlace(r, b)
<1> DEFINE e == Place(n, b, cell)
           o == [[d EXCEPT !.result = "UNDETERMINED"]
                    EXCEPT !.cells[cell] = "EMPTY", !.count = @ - 1]
           r == RetractPlacement(o)
<1>1. /\ e.cells = [b.cells EXCEPT ![cell] = b.stone] /\ e.count = b.count + 1
      /\ e.stones = b.stones
      /\ \/ /\ b.phase = "STANDARD" /\ e.phase = "STANDARD"
            /\ e.stone = OtherStone(b.stone) /\ e.current = Other(b.current)
         \/ /\ b.phase # "STANDARD"
            /\ e.phase = CASE b.count = 2 -> "SWAP2_DECISION"
                           [] b.count = 4 -> "CHOOSE_COLOR"
                           [] OTHER -> b.phase
  BY PlaceOK DEF Follows
<1>2. /\ b \in EngineRecord(n, {b.sig}) /\ Shape(n, b)
      /\ b.cells \in [Cells(n) -> Stones] /\ b.count \in Nat
  BY DEF EngineOK, EngineRecord
<1>3. /\ d.cells = [b.cells EXCEPT ![cell] = b.stone] /\ d.count = b.count + 1
      /\ d.stones = b.stones /\ d.phase = e.phase /\ d.stone = e.stone
      /\ d.current = e.current
  BY <1>1 DEF SamePlace
<1> HIDE DEF e
<1>4. [d.cells EXCEPT ![cell] = "EMPTY"] = b.cells /\ d.count - 1 = b.count
  BY <1>2, <1>3
<1>5. /\ o \in EngineRecord(n, {o.sig}) /\ o.sig = d.sig /\ o.cells = b.cells
      /\ o.count = b.count /\ o.stones = b.stones /\ o.result = "UNDETERMINED"
      /\ o.phase = d.phase /\ o.stone = d.stone /\ o.current = d.current
  <2> DEFINE u == [d EXCEPT !.result = "UNDETERMINED"]
  <2>1. /\ u \in EngineRecord(n, {u.sig}) /\ u.sig = d.sig /\ u.cells = d.cells
        /\ u.count = d.count /\ u.stones = d.stones /\ u.result = "UNDETERMINED"
        /\ u.phase = d.phase /\ u.stone = d.stone /\ u.current = d.current
    BY DEF EngineRecord, Results
  <2>2. o = [u EXCEPT !.cells[cell] = "EMPTY", !.count = @ - 1]
    OBVIOUS
  <2> HIDE DEF u, o
  <2>3. o = [u EXCEPT !.cells = b.cells, !.count = b.count]
    BY <1>4, <2>1, <2>2
  <2> QED
    BY <1>2, <1>3, <2>1, <2>3 DEF EngineRecord
<1>6. ASSUME NEW phase \in Phases, NEW stone \in Stones, NEW seat \in Seats,
             b.phase = phase, b.stone = stone, b.current = seat,
             r = Back(o, phase, stone, seat)
      PROVE  r \in EngineRecord(n, {r.sig}) /\ r.sig = d.sig /\ SamePlace(r, b)
  <2> HIDE DEF o, r
  <2> QED
    BY <1>5, <1>6 DEF Back, EngineRecord, SamePlace
<1>7. /\ "PLACE_INITIAL_THREE" \in Phases /\ "SWAP2_PLACE_TWO" \in Phases
      /\ "STANDARD" \in Phases
      /\ "BLACK" \in Stones /\ "WHITE" \in Stones /\ "A" \in Seats /\ "B" \in Seats
  BY DEF Phases, Stones, Colours, Seats
<1>8. r = RetractPlacement(o)
  OBVIOUS
<1> SUFFICES r \in EngineRecord(n, {r.sig}) /\ r.sig = d.sig /\ SamePlace(r, b)
  OBVIOUS
<1> HIDE DEF o, r
<1>9. CASE b.phase = "PLACE_INITIAL_THREE"
  <2>1. /\ b.count \in 0 .. 2 /\ b.current = "A"
        /\ b.stone = IF b.count = 1 THEN "WHITE" ELSE "BLACK"
    BY <1>2, <1>9 DEF Shape
  <2>2. CASE b.count = 1
    <3>1. r = Back(o, "PLACE_INITIAL_THREE", "WHITE", "A")
      BY <1>5, <1>8, <2>2 DEF RetractPlacement
    <3> QED
      BY <1>6, <1>7, <1>9, <2>1, <2>2, <3>1
  <2>3. CASE b.count \in {0, 2}
    <3>1. r = Back(o, "PLACE_INITIAL_THREE", "BLACK", "A")
      BY <1>5, <1>8, <2>3 DEF RetractPlacement
    <3> QED
      BY <1>6, <1>7, <1>9, <2>1, <2>3, <3>1
  <2> QED
    BY <2>1, <2>2, <2>3
<1>10. CASE b.phase = "SWAP2_PLACE_TWO"
  <2>1. /\ b.count \in 3 .. 4 /\ b.current = "B"
        /\ b.stone = IF b.count = 3 THEN "WHITE" ELSE "BLACK"
    BY <1>2, <1>10 DEF Shape
  <2>2. CASE b.count = 3
    <3>1. o.phase = "SWAP2_PLACE_TWO"
      BY <1>1, <1>3, <1>5, <1>10, <2>2
    <3>2. r = Back(o, "SWAP2_PLACE_TWO", "WHITE", "B")
      BY <1>5, <1>8, <2>2, <3>1 DEF RetractPlacement
    <3> QED
      BY <1>6, <1>7, <1>10, <2>1, <2>2, <3>2
  <2>3. CASE b.count = 4
    <3>1. o.phase = "CHOOSE_COLOR"
      BY <1>1, <1>3, <1>5, <1>10, <2>3
    <3>2. r = Back(o, "SWAP2_PLACE_TWO", "BLACK", "B")
      BY <1>5, <1>8, <2>3, <3>1 DEF RetractPlacement
    <3> QED
      BY <1>6, <1>7, <1>10, <2>1, <2>3, <3>2
  <2> QED
    BY <2>1, <2>2, <2>3
<1>11. CASE b.phase = "STANDARD"
  <2>1. /\ b.count >= 3 /\ b.current \in Seats /\ Bound(b.stones)
        /\ b.stone = b.stones[b.current]
    BY <1>2, <1>11 DEF Shape
  <2>2. /\ o.phase = "STANDARD" /\ o.stone = OtherStone(b.stone)
        /\ o.current = Other(b.current)
    BY <1>1, <1>3, <1>5, <1>11
  <2>3. /\ OtherStone(o.stone) = b.stone /\ Other(o.current) = b.current
        /\ b.stone \in Stones
    BY <2>1, <2>2 DEF OtherStone, Other, Bound, Colours, Seats, Stones
  <2>4. CASE b.count = 3
    <3>1. r = Back(o, "STANDARD", "WHITE", Other(o.current))
      BY <1>5, <1>8, <2>2, <2>4 DEF RetractPlacement
    <3>2. b.stone = "WHITE"
      BY <1>2, <1>11, <2>4 DEF Shape
    <3> QED
      BY <1>6, <1>7, <1>11, <2>1, <2>3, <3>1, <3>2
  <2>5. CASE b.count # 3
    <3>1. r = Turned(o)
      BY <1>2, <1>5, <1>8, <2>1, <2>2, <2>5 DEF RetractPlacement
    <3>2. r = [o EXCEPT !.stone = b.stone, !.current = b.current]
      BY <2>3, <3>1 DEF Turned
    <3>3. b.current \in Seats /\ b.stone \in Stones
      BY <1>2 DEF EngineRecord
    <3> QED
      BY <1>2, <1>5, <1>11, <2>2, <3>2, <3>3 DEF EngineRecord, SamePlace
  <2> QED
    BY <2>4, <2>5
<1> QED
  BY <1>9, <1>10, <1>11 DEF PlacingPhases

\* The engine's control actions: the seat to act is the one forecast.
LEMMA EngineControlOK ==
    ASSUME NEW n \in Nat, NEW b, EngineOK(n, b), NEW action,
           action \in GetLegalActions(n, b), ~IsPlacement(n, action)
    PROVE  LET d == Control(n, b, action)
           IN  /\ EngineOK(n, d) /\ d.sig = b.sig /\ d.cells = b.cells
               /\ d.count = b.count /\ d.result = b.result
               /\ d.current = GetChildCurrentPlayer(n, b, action)
               /\ Binds(n, b, action, d)
<1> DEFINE d == Control(n, b, action)
<1>1. /\ b \in EngineRecord(n, {b.sig}) /\ Shape(n, b) /\ b.result = "UNDETERMINED"
  BY DEF EngineOK, GetLegalActions
<1>2. \/ /\ b.phase = "SWAP2_DECISION"
         /\ action \in {swap2_choose_white(n), swap2_choose_black(n), swap2_place_two(n)}
      \/ /\ b.phase = "CHOOSE_COLOR" /\ action \in {choose_white(n), choose_black(n)}
  BY <1>1 DEF GetLegalActions, Shape, IsPlacement, PlacingPhases
<1>3. b.count >= 3 /\ b.cells \in [Cells(n) -> Stones] /\ b.count \in Nat
  BY <1>1, <1>2 DEF Shape
<1>4. ASSUME NEW white \in Seats, white = WhiteSeat(n, action),
             action # swap2_place_two(n), d = StartStandard(b, white),
             GetChildCurrentPlayer(n, b, action) = white
      PROVE  /\ EngineOK(n, d) /\ d.sig = b.sig /\ d.cells = b.cells
             /\ d.count = b.count /\ d.result = b.result
             /\ d.current = GetChildCurrentPlayer(n, b, action)
             /\ Binds(n, b, action, d)
  <2> DEFINE colours == [s \in Seats |-> IF s = white THEN "WHITE" ELSE "BLACK"]
  <2>1. Bound(colours) /\ colours \in [Seats -> Stones] /\ colours[white] = "WHITE"
    BY DEF Bound, Seats, Stones, Colours
  <2>2. d = [b EXCEPT !.stones = colours, !.phase = "STANDARD", !.stone = "WHITE",
                      !.current = white]
    BY <1>4 DEF StartStandard
  <2> HIDE DEF colours, d
  <2>3. /\ d \in EngineRecord(n, {d.sig}) /\ d.sig = b.sig /\ d.cells = b.cells
        /\ d.count = b.count /\ d.phase = "STANDARD" /\ d.stone = "WHITE"
        /\ d.current = white /\ d.stones = colours /\ d.result = b.result
    BY <1>1, <2>1, <2>2 DEF EngineRecord, Phases, Stones, Colours
  <2>4. Shape(n, d)
    BY <1>1, <1>3, <2>1, <2>3 DEF Shape, Results
  <2> QED
    BY <1>4, <2>3, <2>4 DEF EngineOK, Binds, colours
<1>5. ASSUME action = swap2_place_two(n)
      PROVE  /\ EngineOK(n, d) /\ d.sig = b.sig /\ d.cells = b.cells
             /\ d.count = b.count /\ d.result = b.result
             /\ d.current = GetChildCurrentPlayer(n, b, action)
             /\ Binds(n, b, action, d)
  <2>1. d = [b EXCEPT !.phase = "SWAP2_PLACE_TWO", !.stone = "WHITE", !.current = "B"]
    BY <1>5, ControlIds DEF Control
  <2>2. b.phase = "SWAP2_DECISION" /\ b.count = 3 /\ b.stones = Unbound
    BY <1>1, <1>2, <1>5, ControlIds DEF Shape
  <2> HIDE DEF d
  <2>3. /\ d \in EngineRecord(n, {d.sig}) /\ d.sig = b.sig /\ d.cells = b.cells
        /\ d.count = b.count /\ d.phase = "SWAP2_PLACE_TWO" /\ d.stone = "WHITE"
        /\ d.current = "B" /\ d.stones = b.stones /\ d.result = b.result
    BY <1>1, <2>1 DEF EngineRecord, Phases, Stones, Colours, Seats
  <2>4. Shape(n, d)
    BY <1>1, <1>3, <2>2, <2>3 DEF Shape
  <2>5. GetChildCurrentPlayer(n, b, action) = "B"
    BY <1>5, <2>2 DEF GetChildCurrentPlayer
  <2> QED
    BY <1>5, <2>3, <2>4, <2>5 DEF EngineOK, Binds
<1>6. \/ action = swap2_place_two(n)
      \/ /\ action # swap2_place_two(n) /\ WhiteSeat(n, action) \in Seats
         /\ d = StartStandard(b, WhiteSeat(n, action))
         /\ GetChildCurrentPlayer(n, b, action) = WhiteSeat(n, action)
  BY <1>2, ControlIds DEF Control, GetChildCurrentPlayer, Seats, WhiteSeat
<1> HIDE DEF d
<1> QED
  BY <1>4, <1>5, <1>6 DEF d

\* Retract's control branch finds back to the decision.
LEMMA ControlUndone ==
    ASSUME NEW n \in Nat, NEW b, EngineOK(n, b), NEW action,
           action \in GetLegalActions(n, b), ~IsPlacement(n, action),
           NEW d, d \in EngineRecord(n, {d.sig}), SamePlace(d, Control(n, b, action))
    PROVE  LET r == RetractControl(n, [d EXCEPT !.result = "UNDETERMINED"], action)
           IN  r \in EngineRecord(n, {r.sig}) /\ r.sig = d.sig /\ SamePlace(r, b)
<1> DEFINE o == [d EXCEPT !.result = "UNDETERMINED"]
           r == RetractControl(n, o, action)
<1>1. /\ b \in EngineRecord(n, {b.sig}) /\ Shape(n, b) /\ b.result = "UNDETERMINED"
  BY DEF EngineOK, GetLegalActions
<1>2. \/ /\ b.phase = "SWAP2_DECISION"
         /\ action \in {swap2_choose_white(n), swap2_choose_black(n), swap2_place_two(n)}
      \/ /\ b.phase = "CHOOSE_COLOR" /\ action \in {choose_white(n), choose_black(n)}
  BY <1>1 DEF GetLegalActions, Shape, IsPlacement, PlacingPhases
<1>3. d.cells = b.cells /\ d.count = b.count
  BY EngineControlOK DEF SamePlace
<1>4. /\ o \in EngineRecord(n, {o.sig}) /\ o.sig = d.sig /\ o.cells = b.cells
      /\ o.count = b.count /\ o.result = "UNDETERMINED"
  BY <1>3 DEF EngineRecord, Results
<1> HIDE DEF o
<1>5. r = IF b.phase = "SWAP2_DECISION" THEN Unbind(o, "SWAP2_DECISION", "B")
          ELSE Unbind(o, "CHOOSE_COLOR", "A")
  BY <1>2, ControlIds DEF RetractControl
<1>6. /\ b.stones = Unbound /\ b.stone = "EMPTY"
      /\ b.current = IF b.phase = "SWAP2_DECISION" THEN "B" ELSE "A"
  BY <1>1, <1>2 DEF Shape
<1>7. r = [o EXCEPT !.stones = b.stones, !.phase = b.phase, !.stone = b.stone,
                    !.current = b.current]
  BY <1>2, <1>5, <1>6 DEF Unbind, Unbound
<1> HIDE DEF r
<1>8. r \in EngineRecord(n, {r.sig}) /\ r.sig = d.sig /\ SamePlace(r, b)
  BY <1>1, <1>4, <1>7 DEF EngineRecord, SamePlace
<1> QED
  BY <1>8 DEF r, o

\* Every legal action keeps the invariant of the engine's board (Apply in
\* board.cpp), passes to the seat GetChildCurrentPlayer forecasts and is
\* undone by Retract, signature included.
THEOREM EngineStep ==
    ASSUME NEW n \in Nat, NEW b, EngineOK(n, b), NEW action \in GetLegalActions(n, b)
    PROVE  /\ EngineOK(n, EngineApply(n, b, action))
           /\ EngineApply(n, b, action).current = GetChildCurrentPlayer(n, b, action)
           /\ Retract(n, EngineApply(n, b, action), action) = b
           /\ EngineApply(n, b, action).sig
                = Xor(Xor(b.sig, Touched(n, b, action)),
                      Touched(n, EngineApply(n, b, action), action))
           /\ IF IsPlacement(n, action)
              THEN Lands(b, action, EngineApply(n, b, action),
                         StandardResult(n, Placed(b, action), action))
              ELSE Binds(n, b, action, EngineApply(n, b, action))
<1> DEFINE out == ToggleHash(n, b, action)
           d == IF IsPlacement(n, action) THEN Place(n, out, action)
                ELSE Control(n, out, action)
           a == ToggleHash(n, d, action)
           t == ToggleHash(n, a, action)
           o == [t EXCEPT !.result = "UNDETERMINED"]
           r == IF IsPlacement(n, action)
                THEN RetractPlacement([o EXCEPT !.cells[action] = "EMPTY", !.count = @ - 1])
                ELSE RetractControl(n, o, action)
           z == ToggleHash(n, r, action)
<1>1. /\ b \in EngineRecord(n, {b.sig}) /\ Shape(n, b) /\ b.result = "UNDETERMINED"
  BY DEF EngineOK, GetLegalActions
<1>2. EngineApply(n, b, action) = a
  BY <1>1 DEF EngineApply
<1>3. Retract(n, a, action) = z
  BY DEF Retract
<1>4. /\ out \in EngineRecord(n, {out.sig}) /\ SamePlace(out, b)
      /\ out.sig = Xor(b.sig, Touched(n, b, action))
  BY <1>1, ToggleFields
<1> HIDE DEF out
<1>5. /\ EngineOK(n, out) /\ out.result = "UNDETERMINED"
      /\ action \in GetLegalActions(n, out)
      /\ GetChildCurrentPlayer(n, out, action) = GetChildCurrentPlayer(n, b, action)
  BY <1>1, <1>4, ShapeSame DEF EngineOK, SamePlace, GetLegalActions, GetChildCurrentPlayer
<1>6. IsPlacement(n, action) => /\ action \in Cells(n) /\ out.phase \in PlacingPhases
                                /\ out.cells[action] = "EMPTY"
  BY <1>5, ControlIds DEF IsPlacement, GetLegalActions, EngineOK, Shape, PlacingPhases
<1>7. /\ EngineOK(n, d) /\ d.sig = out.sig
      /\ d.current = GetChildCurrentPlayer(n, b, action)
  <2>1. CASE IsPlacement(n, action)
    <3>1. LET e == Place(n, out, action)
          IN  /\ EngineOK(n, e) /\ e.sig = out.sig
              /\ e.current = GetChildCurrentPlayer(n, out, action)
      <4>1. Follows(n, out, action, Place(n, out, action))
        BY <1>5, <1>6, <2>1, PlaceOK
      <4> QED
        BY <4>1 DEF Follows
    <3> QED
      BY <1>5, <2>1, <3>1
  <2>2. CASE ~IsPlacement(n, action)
    <3>1. LET e == Control(n, out, action)
          IN  /\ EngineOK(n, e) /\ e.sig = out.sig
              /\ e.current = GetChildCurrentPlayer(n, out, action)
      BY <1>5, <2>2, EngineControlOK
    <3> QED
      BY <1>5, <2>2, <3>1
  <2> QED
    BY <2>1, <2>2
<1>8. d = IF IsPlacement(n, action) THEN Place(n, out, action)
          ELSE Control(n, out, action)
  OBVIOUS
<1> HIDE DEF d
<1>9. /\ a \in EngineRecord(n, {a.sig}) /\ SamePlace(a, d)
      /\ a.sig = Xor(d.sig, Touched(n, d, action))
  BY <1>7, ToggleFields DEF EngineOK
<1> HIDE DEF a
<1>10. EngineOK(n, a) /\ a.current = GetChildCurrentPlayer(n, b, action)
  BY <1>7, <1>9, ShapeSame DEF EngineOK, SamePlace
<1>11. /\ t \in EngineRecord(n, {t.sig}) /\ SamePlace(t, a)
       /\ t.sig = Xor(a.sig, Touched(n, a, action))
  BY <1>9, ToggleFields
<1> HIDE DEF t
<1>12. t.sig = d.sig /\ SamePlace(t, d)
  <2>1. Touched(n, a, action) = Touched(n, d, action)
    BY <1>9, TouchedSame
  <2> QED
    BY <1>9, <1>11, <2>1, XorTwice DEF SamePlace
<1>13. r \in EngineRecord(n, {r.sig}) /\ r.sig = t.sig /\ SamePlace(r, out)
  <2>1. CASE IsPlacement(n, action)
    <3>1. SamePlace(t, Place(n, out, action))
      BY <1>8, <1>12, <2>1
    <3>2. LET q == RetractPlacement([[t EXCEPT !.result = "UNDETERMINED"]
                       EXCEPT !.cells[action] = "EMPTY", !.count = @ - 1])
          IN  q \in EngineRecord(n, {q.sig}) /\ q.sig = t.sig /\ SamePlace(q, out)
      BY <1>5, <1>6, <1>11, <2>1, <3>1, PlaceUndone
    <3> QED
      BY <2>1, <3>2
  <2>2. CASE ~IsPlacement(n, action)
    <3>1. SamePlace(t, Control(n, out, action))
      BY <1>8, <1>12, <2>2
    <3>2. LET q == RetractControl(n, [t EXCEPT !.result = "UNDETERMINED"], action)
          IN  q \in EngineRecord(n, {q.sig}) /\ q.sig = t.sig /\ SamePlace(q, out)
      BY <1>5, <1>11, <2>2, <3>1, ControlUndone
    <3> QED
      BY <2>2, <3>2
  <2> QED
    BY <2>1, <2>2
<1> HIDE DEF r
<1>14. /\ z \in EngineRecord(n, {z.sig}) /\ SamePlace(z, r)
       /\ z.sig = Xor(r.sig, Touched(n, r, action))
  BY <1>13, ToggleFields
<1> HIDE DEF z
<1>15. z.sig = b.sig /\ SamePlace(z, b)
  <2>1. SamePlace(r, b)
    BY <1>4, <1>13 DEF SamePlace
  <2>2. Touched(n, r, action) = Touched(n, b, action)
    BY <2>1, TouchedSame
  <2> QED
    BY <1>4, <1>7, <1>12, <1>13, <1>14, <2>1, <2>2, XorTwice DEF SamePlace
<1>16. z = b
  BY <1>1, <1>14, <1>15, SameEngine
<1>17. IF IsPlacement(n, action)
       THEN Lands(b, action, a, StandardResult(n, Placed(b, action), action))
       ELSE Binds(n, b, action, a)
  <2>1. CASE IsPlacement(n, action)
    <3>1. Follows(n, out, action, d)
      BY <1>5, <1>6, <1>8, <2>1, PlaceOK
    <3>2. Lands(out, action, d, StandardResult(n, Placed(out, action), action))
      BY <3>1 DEF Follows, Lands
    <3>3. StandardResult(n, Placed(out, action), action)
            = StandardResult(n, Placed(b, action), action)
      BY <1>1, <1>4, <1>6, <2>1, ResultSame
    <3>4. Lands(b, action, a, StandardResult(n, Placed(b, action), action))
      BY <1>4, <1>9, <3>2, <3>3 DEF Lands, SamePlace
    <3> QED
      BY <2>1, <3>4
  <2>2. CASE ~IsPlacement(n, action)
    <3>1. Binds(n, out, action, Control(n, out, action))
      BY <1>5, <2>2, EngineControlOK
    <3>2. Binds(n, b, action, a)
      BY <1>4, <1>8, <1>9, <2>2, <3>1 DEF Binds, SamePlace
    <3> QED
      BY <2>2, <3>2
  <2> QED
    BY <2>1, <2>2
<1>18. a.sig = Xor(Xor(b.sig, Touched(n, b, action)), Touched(n, a, action))
  BY <1>4, <1>7, <1>9, TouchedSame
<1> QED
  BY <1>2, <1>3, <1>10, <1>16, <1>17, <1>18
=============================================================================
