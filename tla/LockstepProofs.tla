---------------------------- MODULE LockstepProofs ----------------------------
(***************************************************************************)
(* Proofs about whole games, for every set of setups: the engine's board   *)
(* stays the server's, Retract and the forecast are exact in every         *)
(* position, the incremental signature is the position's, and the server's *)
(* board implements the Swap2 game.                                        *)
(*                                                                         *)
(* The server declares a full board by looking at every cell, the engine   *)
(* by its stone counter: that the two agree needs the invariant that the   *)
(* counter is the number of occupied cells (Counted).                      *)
(*                                                                         *)
(* The winner needs the geometry: CheckWin looks at the runs through the   *)
(* last stone only.  LinesOK says which colours have a line of exactly     *)
(* five anywhere on the board; it is inductive because a new line goes     *)
(* through the new stone, because a stone cannot touch the other colour's  *)
(* lines, and because the opening has fewer than five stones of a colour.  *)
(* The same facts keep the plugin host's board with the server's.          *)
(***************************************************************************)
EXTENDS BoardProofs, FiniteSetTheorems

\* The cells that hold a stone.
Occupied(n, cells) == {c \in Cells(n) : cells[c] # "EMPTY"}

\* The stone counter is right.
Counted(n, b) == b.count = Cardinality(Occupied(n, b.cells))

\* There are NumCells cells.
LEMMA CellsFinite ==
    ASSUME NEW n \in Nat
    PROVE  IsFiniteSet(Cells(n)) /\ Cardinality(Cells(n)) = NumCells(n)
<1>1. NumCells(n) \in Nat /\ NumCells(n) - 1 \in Int /\ 0 \in Int
  BY CellCount
<1> HIDE DEF NumCells
<1>2. /\ IsFiniteSet(0 .. NumCells(n) - 1)
      /\ Cardinality(0 .. NumCells(n) - 1)
           = IF 0 > NumCells(n) - 1 THEN 0 ELSE NumCells(n) - 1 - 0 + 1
  BY <1>1, FS_Interval
<1> QED
  BY <1>1, <1>2 DEF Cells

\* The board is full exactly when as many cells are occupied as there are.
LEMMA FullByCount ==
    ASSUME NEW n \in Nat, NEW cells
    PROVE  Cardinality(Occupied(n, cells)) = NumCells(n)
             <=> \A c \in Cells(n) : cells[c] # "EMPTY"
<1> DEFINE O == Occupied(n, cells)
<1>1. O \in SUBSET Cells(n)
  BY DEF Occupied
<1>2. Cardinality(Cells(n)) = Cardinality(O) => Cells(n) = O
  BY <1>1, CellsFinite, FS_Subset
<1>3. O = Cells(n) <=> \A c \in Cells(n) : cells[c] # "EMPTY"
  BY DEF Occupied
<1> QED
  BY <1>2, <1>3, CellsFinite

\* A stone on an empty cell occupies one cell more.
LEMMA OneMore ==
    ASSUME NEW n \in Nat, NEW cells \in [Cells(n) -> Stones], NEW cell \in Cells(n),
           NEW stone, stone # "EMPTY", cells[cell] = "EMPTY"
    PROVE  Cardinality(Occupied(n, [cells EXCEPT ![cell] = stone]))
             = Cardinality(Occupied(n, cells)) + 1
<1>1. Occupied(n, [cells EXCEPT ![cell] = stone]) = Occupied(n, cells) \cup {cell}
  BY DEF Occupied
<1>2. cell \notin Occupied(n, cells)
  BY DEF Occupied
<1>3. Occupied(n, cells) \in SUBSET Cells(n)
  BY DEF Occupied
<1>4. IsFiniteSet(Occupied(n, cells))
  BY <1>3, CellsFinite, FS_Subset
<1> QED
  BY <1>1, <1>2, <1>4, FS_AddElement

\* No cell of a new board is occupied.
LEMMA NoneYet ==
    ASSUME NEW n \in Nat
    PROVE  Cardinality(Occupied(n, [c \in Cells(n) |-> "EMPTY"])) = 0
<1>1. Occupied(n, [c \in Cells(n) |-> "EMPTY"]) = {}
  BY DEF Occupied
<1> QED
  BY <1>1, FS_EmptySet

\* _check_terminal of the server and the result the engine computes are the
\* same: the winning colour has one holder, and full is full.
LEMMA SameVerdict ==
    ASSUME NEW n \in Nat, NEW b, NEW e, RefereeOK(n, b), EngineOK(n, e),
           b.phase = "STANDARD", b.result = "UNDETERMINED", SamePosition(b, e),
           Counted(n, b), NEW cell \in Cells(n), b.cells[cell] = "EMPTY"
    PROVE  CheckTerminal(n, Placed(b, cell), cell) = StandardResult(n, Placed(e, cell), cell)
<1> DEFINE p == Placed(b, cell)
           q == Placed(e, cell)
<1>1. /\ b \in RefereeRecord(n) /\ Bound(b.stones) /\ b.current \in Seats
      /\ b.stone = b.stones[b.current] /\ b.cells \in [Cells(n) -> Stones] /\ b.count \in Nat
  BY DEF RefereeOK, Shape
<1>2. /\ p.cells = [b.cells EXCEPT ![cell] = b.stone] /\ p.count = b.count + 1
      /\ p.stones = b.stones /\ p.result = b.result /\ p.cells[cell] = b.stone
  BY <1>1 DEF Placed, RefereeRecord
<1>3. /\ q.cells = [e.cells EXCEPT ![cell] = e.stone] /\ q.count = e.count + 1
      /\ q.stone = e.stone /\ q.stones = e.stones /\ q.result = e.result
  BY PlacedFields DEF EngineOK
<1> HIDE DEF p, q
<1>4. /\ q.cells = p.cells /\ q.count = p.count /\ q.stone = b.stone
      /\ q.stones = b.stones /\ q.result = b.result
  BY <1>2, <1>3 DEF SamePosition
<1>5. b.stone # "EMPTY"
  BY <1>1 DEF Bound, Colours, Seats
<1>6. p.count = NumCells(n) <=> \A c \in Cells(n) : p.cells[c] # "EMPTY"
  <2>1. b.stone \in Stones /\ p.count = Cardinality(Occupied(n, p.cells))
    BY <1>1, <1>2, <1>5, OneMore DEF Counted, RefereeRecord
  <2> QED
    BY <2>1, FullByCount
<1>7. SetWinnerForStone(p, b.stone)
        = IF b.stones["A"] = b.stone THEN "PLAYER_A_WIN" ELSE "PLAYER_B_WIN"
  BY <1>1, <1>2 DEF SetWinnerForStone, Bound, Seats
<1>8. CheckTerminal(n, p, cell) = StandardResult(n, q, cell)
  BY <1>2, <1>4, <1>6, <1>7 DEF CheckTerminal, StandardResult
<1> QED
  BY <1>8 DEF p, q

-----------------------------------------------------------------------------
(* The two boards together. *)

\* The joint invariant of the two boards.
Joint(n, b, e) == /\ RefereeOK(n, b) /\ EngineOK(n, e) /\ SamePosition(b, e) /\ Counted(n, b)

\* Boards that agree offer the same actions.
LEMMA SameActions ==
    ASSUME NEW n \in Nat, NEW b, NEW e, Joint(n, b, e)
    PROVE  LegalSet(n, b) = GetLegalActions(n, e)
  BY DEF Joint, SamePosition, LegalSet, GetLegalActions

\* In the opening, phase, count and cells determine the position.
LEMMA SameOpening ==
    ASSUME NEW n, NEW b, NEW e, Shape(n, b), Shape(n, e), b.phase = e.phase,
           b.phase # "STANDARD", b.count = e.count, b.cells = e.cells
    PROVE  SamePosition(b, e)
  BY DEF Shape, SamePosition

\* The features of the cells an action does not touch.
Others(n, b, action) == {CellFeature(b, c) : c \in Cells(n) \ {action}}

\* A signature is what an action touches and what it does not.
LEMMA SignatureSplits ==
    ASSUME NEW n \in Nat, NEW b, NEW action
    PROVE  /\ Signature(n, b) = Others(n, b, action) \cup Touched(n, b, action)
           /\ Others(n, b, action) \cap Touched(n, b, action) = {}
<1>1. Signature(n, b) = Others(n, b, action) \cup Touched(n, b, action)
  BY DEF Signature, Others, Touched, IsPlacement
<1>2. ASSUME NEW c \in Cells(n) \ {action}
      PROVE  /\ CellFeature(b, c) \notin StatusFeatures(b)
             /\ CellFeature(b, c) # CellFeature(b, action)
  BY DEF CellFeature, StatusFeatures
<1> QED
  BY <1>1, <1>2 DEF Others, Touched

\* Exclusive-or takes features out when they are in and puts them in when they
\* are not.
LEMMA XorDisjoint ==
    ASSUME NEW S, NEW T, S \cap T = {}
    PROVE  Xor(S \cup T, T) = S /\ Xor(S, T) = S \cup T
  BY DEF Xor

\* The features of the other cells stay.
LEMMA OthersKept ==
    ASSUME NEW n \in Nat, NEW b, NEW d, NEW action, NEW stone,
           b.cells \in [Cells(n) -> Stones],
           \/ IsPlacement(n, action) /\ d.cells = [b.cells EXCEPT ![action] = stone]
           \/ ~IsPlacement(n, action) /\ d.cells = b.cells
    PROVE  Others(n, d, action) = Others(n, b, action)
<1>1. \A c \in Cells(n) \ {action} : d.cells[c] = b.cells[c]
  OBVIOUS
<1>2. \A c \in Cells(n) \ {action} : CellFeature(d, c) = CellFeature(b, c)
  BY <1>1 DEF CellFeature
<1> QED
  BY <1>2 DEF Others

\* The invariant holds of the new boards, signature included.
LEMMA JointInit ==
    ASSUME NEW n \in Nat
    PROVE  /\ Joint(n, RefereeInit(n), EngineInit(n))
           /\ EngineInit(n).sig = Signature(n, EngineInit(n))
<1> DEFINE e == [cells   |-> [c \in Cells(n) |-> "EMPTY"],
                 phase   |-> "PLACE_INITIAL_THREE",
                 current |-> "A",
                 stone   |-> "BLACK",
                 stones  |-> [s \in Seats |-> "EMPTY"],
                 count   |-> 0,
                 result  |-> "UNDETERMINED",
                 sig     |-> {}]
           f == [e EXCEPT !.sig = {CellFeature(e, c) : c \in Cells(n)}]
           b == RefereeInit(n)
           g == EngineInit(n)
<1>1. RefereeOK(n, b) /\ b.count = 0 /\ b.cells = [c \in Cells(n) |-> "EMPTY"]
  BY RefereeInitOK DEF RefereeInit
<1>2. e \in EngineRecord(n, {e.sig}) /\ SamePlace(e, b)
  BY DEF EngineRecord, SamePlace, RefereeInit, Phases, Stones, Colours, Seats, Results
<1>3. f \in EngineRecord(n, {f.sig}) /\ SamePlace(f, e)
  <2> HIDE DEF e
  <2> QED
    BY <1>2 DEF EngineRecord, SamePlace
<1>4. g = ToggleHash(n, f, -1)
  BY DEF EngineInit
<1>5. f.sig = {CellFeature(e, c) : c \in Cells(n)}
  OBVIOUS
<1> HIDE DEF e, f, g, b
<1>6. /\ g \in EngineRecord(n, {g.sig}) /\ SamePlace(g, f)
      /\ g.sig = Xor(f.sig, Touched(n, f, -1))
  BY <1>3, <1>4, ToggleFields
<1>7. SamePlace(b, g)
  BY <1>2, <1>3, <1>6 DEF SamePlace
<1>8. Shape(n, g)
  BY <1>1, <1>7, ShapeSame DEF RefereeOK
<1>9. Counted(n, b)
  BY <1>1, NoneYet DEF Counted
<1>10. g.sig = Signature(n, g)
  <2>1. Others(n, g, -1) = {CellFeature(e, c) : c \in Cells(n)}
    BY <1>3, <1>6, ControlIds DEF Others, CellFeature, SamePlace
  <2>2. Touched(n, f, -1) = Touched(n, g, -1)
    BY <1>6, TouchedSame
  <2>3. g.sig = Xor(Others(n, g, -1), Touched(n, g, -1))
    BY <1>5, <1>6, <2>1, <2>2
  <2>4. /\ Signature(n, g) = Others(n, g, -1) \cup Touched(n, g, -1)
        /\ Others(n, g, -1) \cap Touched(n, g, -1) = {}
    BY SignatureSplits
  <2> QED
    BY <2>3, <2>4, XorDisjoint
<1>11. Joint(n, b, g)
  BY <1>1, <1>6, <1>7, <1>8, <1>9 DEF Joint, EngineOK, SamePosition, SamePlace
<1> QED
  BY <1>10, <1>11 DEF b, g

\* An action that is legal on the server keeps the two boards together.
THEOREM JointStep ==
    ASSUME NEW n \in Nat, NEW b, NEW e, Joint(n, b, e), NEW action \in LegalSet(n, b)
    PROVE  Joint(n, RefereeApply(n, b, action), EngineApply(n, e, action))
<1> DEFINE k == RefereeApply(n, b, action)
           d == EngineApply(n, e, action)
<1>1. /\ RefereeOK(n, b) /\ EngineOK(n, e) /\ SamePosition(b, e) /\ Counted(n, b)
      /\ Shape(n, b) /\ Shape(n, e) /\ b.result = "UNDETERMINED"
      /\ b.cells \in [Cells(n) -> Stones] /\ b.count \in Nat
  BY DEF Joint, RefereeOK, EngineOK, LegalSet, Shape
<1>2. action \in GetLegalActions(n, e)
  BY SameActions
<1>3. /\ RefereeOK(n, k)
      /\ IF IsPlacement(n, action)
         THEN Lands(b, action, k, CheckTerminal(n, Placed(b, action), action))
         ELSE Binds(n, b, action, k)
  BY <1>1, RefereeStep
<1>4. /\ EngineOK(n, d)
      /\ IF IsPlacement(n, action)
         THEN Lands(e, action, d, StandardResult(n, Placed(e, action), action))
         ELSE Binds(n, e, action, d)
  BY <1>1, <1>2, EngineStep
<1> HIDE DEF k, d
<1>5. Shape(n, k) /\ Shape(n, d)
  BY <1>3, <1>4 DEF RefereeOK, EngineOK
<1>6. CASE IsPlacement(n, action)
  <2>1. /\ action \in Cells(n) /\ b.cells[action] = "EMPTY" /\ b.phase \in PlacingPhases
        /\ b.stone # "EMPTY"
    BY <1>1, <1>6, ControlIds DEF IsPlacement, LegalSet, Shape, PlacingPhases, Bound, Colours,
       Seats
  <2>2. /\ k.cells = d.cells /\ k.count = d.count /\ k.stones = d.stones
        /\ k.phase = d.phase
    BY <1>1, <1>3, <1>4, <1>6 DEF Lands, SamePosition
  <2>3. Counted(n, k)
    BY <1>1, <1>3, <1>6, <2>1, OneMore DEF Counted, Lands
  <2>4. SamePosition(k, d)
    <3>1. CASE b.phase # "STANDARD"
      <4>1. k.phase # "STANDARD"
        BY <1>3, <1>6, <3>1 DEF Lands
      <4> QED
        BY <1>5, <2>2, <4>1, SameOpening
    <3>2. CASE b.phase = "STANDARD"
      <4>1. CheckTerminal(n, Placed(b, action), action)
              = StandardResult(n, Placed(e, action), action)
        BY <1>1, <2>1, <3>2, SameVerdict
      <4> QED
        BY <1>1, <1>3, <1>4, <1>6, <2>2, <3>2, <4>1 DEF Lands, SamePosition
    <3> QED
      BY <3>1, <3>2
  <2> QED
    BY <1>3, <1>4, <2>3, <2>4 DEF Joint, k, d
<1>7. CASE ~IsPlacement(n, action)
  <2>1. /\ k.cells = d.cells /\ k.count = d.count /\ k.result = d.result
        /\ k.phase = d.phase /\ k.cells = b.cells /\ k.count = b.count
    BY <1>1, <1>3, <1>4, <1>7 DEF Binds, SamePosition
  <2>2. Counted(n, k)
    BY <1>1, <2>1 DEF Counted
  <2>3. SamePosition(k, d)
    <3>1. CASE action = swap2_place_two(n)
      <4>1. k.phase # "STANDARD"
        BY <1>3, <1>7, <3>1 DEF Binds
      <4> QED
        BY <1>5, <2>1, <4>1, SameOpening
    <3>2. CASE action # swap2_place_two(n)
      BY <1>3, <1>4, <1>7, <2>1, <3>2 DEF Binds, SamePosition
    <3> QED
      BY <3>1, <3>2
  <2> QED
    BY <1>3, <1>4, <2>2, <2>3 DEF Joint, k, d
<1> QED
  BY <1>6, <1>7

\* An action brings the signature up to date: ToggleHash before and after it
\* leaves exactly the new position's features.
THEOREM SignatureStep ==
    ASSUME NEW n \in Nat, NEW b, EngineOK(n, b), NEW action \in GetLegalActions(n, b),
           b.sig = Signature(n, b)
    PROVE  EngineApply(n, b, action).sig = Signature(n, EngineApply(n, b, action))
<1> DEFINE d == EngineApply(n, b, action)
           O == Others(n, b, action)
<1>1. /\ d.sig = Xor(Xor(b.sig, Touched(n, b, action)), Touched(n, d, action))
      /\ IF IsPlacement(n, action)
         THEN Lands(b, action, d, StandardResult(n, Placed(b, action), action))
         ELSE Binds(n, b, action, d)
  BY EngineStep
<1> HIDE DEF d
<1>2. b.cells \in [Cells(n) -> Stones]
  BY DEF EngineOK, EngineRecord
<1>3. \/ IsPlacement(n, action) /\ d.cells = [b.cells EXCEPT ![action] = b.stone]
      \/ ~IsPlacement(n, action) /\ d.cells = b.cells
  BY <1>1 DEF Lands, Binds
<1>4. Others(n, d, action) = O
  BY <1>2, <1>3, OthersKept
<1>5. Xor(b.sig, Touched(n, b, action)) = O
  BY SignatureSplits, XorDisjoint
<1>6. Xor(O, Touched(n, d, action)) = Signature(n, d)
  BY <1>4, SignatureSplits, XorDisjoint
<1> QED
  BY <1>1, <1>5, <1>6 DEF d

-----------------------------------------------------------------------------
(* Lines.  CheckWin counts how far a run reaches on both sides of the cell it *)
(* is asked about.  A line is five cells in a row with neither end continued; *)
(* CheckWin is shown to find the lines through its cell, and a new line to go *)
(* through the new stone.                                                     *)

\* A place on the board has a cell,
LEMMA IndexIs ==
    ASSUME NEW n \in Nat, NEW x \in 0 .. n - 1, NEW y \in 0 .. n - 1
    PROVE  x + y * n \in Cells(n)
<1>1. y * n \in Nat
  OBVIOUS
<1>2. y * n <= (n - 1) * n
  OBVIOUS
<1>3. (n - 1) * n = n * n - n
  OBVIOUS
<1> QED
  BY <1>1, <1>2, <1>3 DEF Cells, NumCells

\* which no other place has,
LEMMA IndexIsOne ==
    ASSUME NEW n \in Nat, NEW x \in 0 .. n - 1, NEW y \in 0 .. n - 1,
           NEW u \in 0 .. n - 1, NEW v \in 0 .. n - 1, x + y * n = u + v * n
    PROVE  x = u /\ y = v
<1>1. y = v
  <2>1. ASSUME y < v PROVE FALSE
    <3>1. (y + 1) * n <= v * n
      BY <2>1
    <3>2. (y + 1) * n = y * n + n /\ y * n \in Int /\ v * n \in Int
      OBVIOUS
    <3> QED
      BY <3>1, <3>2
  <2>2. ASSUME v < y PROVE FALSE
    <3>1. (v + 1) * n <= y * n
      BY <2>2
    <3>2. (v + 1) * n = v * n + n /\ y * n \in Int /\ v * n \in Int
      OBVIOUS
    <3> QED
      BY <3>1, <3>2
  <2> QED
    BY <2>1, <2>2
<1> QED
  BY <1>1

\* and every cell has a place.
LEMMA CellIs ==
    ASSUME NEW n \in Nat, n > 0, NEW cell \in Cells(n)
    PROVE  /\ cell % n \in 0 .. n - 1 /\ cell \div n \in 0 .. n - 1
           /\ (cell % n) + (cell \div n) * n = cell
<1> DEFINE x == cell % n
           y == cell \div n
<1>1. cell \in Nat /\ cell < n * n
  BY DEF Cells, NumCells
<1>2. x \in 0 .. n - 1 /\ y \in Int
  BY <1>1
<1>3. x + y * n = cell
  BY <1>1
<1>4. y >= 0
  BY <1>1
<1> HIDE DEF x, y
<1>5. y < n
  <2>1. ASSUME y >= n PROVE FALSE
    <3>1. y * n >= n * n
      BY <1>2, <2>1
    <3>2. y * n \in Int /\ n * n \in Int
      BY <1>2
    <3> QED
      BY <1>1, <1>2, <1>3, <3>1, <3>2
  <2> QED
    BY <1>2, <2>1
<1> QED
  BY <1>2, <1>3, <1>4, <1>5 DEF x, y

\* A set of numbers closed downwards to one is 1 .. k.
LEMMA InitialSegment ==
    ASSUME NEW n \in Nat, NEW K \in SUBSET (1 .. n), \A k \in K : \A i \in 1 .. k : i \in K
    PROVE  Cardinality(K) \in 0 .. n /\ K = 1 .. Cardinality(K)
<1> DEFINE r == Cardinality(K)
<1>1. IsFiniteSet(1 .. n) /\ Cardinality(1 .. n) = IF 1 > n THEN 0 ELSE n - 1 + 1
  BY FS_Interval
<1>2. IsFiniteSet(K) /\ r <= Cardinality(1 .. n)
  BY <1>1, FS_Subset
<1>3. r \in Nat
  BY <1>2, FS_CardinalityType
<1>4. r \in 0 .. n
  BY <1>1, <1>2, <1>3
<1>5. \A m \in Nat : IsFiniteSet(1 .. m) /\ Cardinality(1 .. m) = m
  BY FS_Interval
<1>6. CASE r = 0
  <2>1. K = {}
    BY <1>2, <1>6, FS_EmptySet
  <2>2. 1 .. 0 = {}
    OBVIOUS
  <2> QED
    BY <1>4, <1>6, <2>1, <2>2
<1>7. CASE r > 0
  <2>1. r \in K
    <3> SUFFICES ASSUME r \notin K PROVE FALSE
      OBVIOUS
    <3>1. \A k \in K : k \in 1 .. n
      OBVIOUS
    <3>2. \A k \in K : k < r
      <4> SUFFICES ASSUME NEW k \in K, k >= r PROVE FALSE
        BY <1>3, <3>1
      <4>1. r \in 1 .. k
        BY <1>3, <1>7, <3>1
      <4> QED
        BY <4>1
    <3>3. K \in SUBSET (1 .. r - 1)
      BY <1>3, <3>1, <3>2
    <3>4. r - 1 \in Nat
      BY <1>3, <1>7
    <3>5. r <= Cardinality(1 .. r - 1)
      BY <1>5, <3>3, <3>4, FS_Subset
    <3>6. Cardinality(1 .. r - 1) = r - 1
      BY <1>5, <3>4
    <3> QED
      BY <1>3, <3>5, <3>6
  <2>2. 1 .. r \in SUBSET K
    BY <2>1
  <2>3. Cardinality(1 .. r) = r
    BY <1>3, <1>5
  <2>4. K = 1 .. r
    BY <1>2, <2>2, <2>3, FS_Subset
  <2> QED
    BY <1>4, <2>4
<1> QED
  BY <1>3, <1>6, <1>7

\* Reach counts the stones up to the first cell that does not hold one.
LEMMA ReachIs ==
    ASSUME NEW n \in Nat, NEW cells, NEW x, NEW y, NEW dx, NEW dy, NEW stone
    PROVE  LET r == Reach(n, cells, x, y, dx, dy, stone)
               H(i) == Holds(n, cells, x + i * dx, y + i * dy, stone)
           IN  r \in 0 .. n /\ (\A i \in 1 .. r : H(i)) /\ (r < n => ~H(r + 1))
<1> DEFINE r == Reach(n, cells, x, y, dx, dy, stone)
           H(i) == Holds(n, cells, x + i * dx, y + i * dy, stone)
           K == {k \in 1 .. n : \A i \in 1 .. k : H(i)}
<1>1. r = Cardinality(K)
  BY Zenon DEF Reach
<1> HIDE DEF H, r
<1>2. K \in SUBSET (1 .. n) /\ \A k \in K : \A i \in 1 .. k : i \in K
  OBVIOUS
<1>3. r \in 0 .. n /\ K = 1 .. r
  BY <1>1, <1>2, InitialSegment
<1>4. \A i \in 1 .. r : H(i)
  <2> SUFFICES ASSUME NEW i \in 1 .. r PROVE H(i)
    OBVIOUS
  <2>1. i \in K
    BY <1>3
  <2>2. i \in 1 .. i
    BY <1>3
  <2> QED
    BY <2>1, <2>2
<1>5. ASSUME r < n, H(r + 1) PROVE FALSE
  <2>1. r + 1 \in 1 .. n /\ r + 1 \notin 1 .. r
    BY <1>3, <1>5
  <2>2. \A i \in 1 .. r + 1 : i \in 1 .. r \/ i = r + 1
    BY <1>3
  <2>3. \A i \in 1 .. r + 1 : H(i)
    BY <1>4, <1>5, <2>2
  <2>4. r + 1 \in K
    BY <2>1, <2>3
  <2> QED
    BY <1>3, <2>1, <2>4
<1> QED
  BY <1>3, <1>4, <1>5 DEF H, r

\* Exactly five cells in a line, from (x, y) on in direction d, hold the stone.
Line(n, cells, x, y, d, stone) ==
    /\ \A i \in 0 .. 4 : Holds(n, cells, x + i * d[1], y + i * d[2], stone)
    /\ ~Holds(n, cells, x - d[1], y - d[2], stone)
    /\ ~Holds(n, cells, x + 5 * d[1], y + 5 * d[2], stone)

\* The lines through a cell, by how far behind it they begin.
LineFrom(n, cells, x, y, d, stone, back) ==
    Line(n, cells, x - back * d[1], y - back * d[2], d, stone)

\* A direction is a pair of numbers, not both zero.
LEMMA DirectionIs ==
    ASSUME NEW d \in Directions
    PROVE  d[1] \in Int /\ d[2] \in Int /\ (d[1] # 0 \/ d[2] # 0)
  BY DEF Directions

\* Steps along a line add up.
LEMMA Shift ==
    ASSUME NEW x \in Int, NEW a \in Int, NEW i \in Int, NEW k \in Int
    PROVE  /\ x - k * a + i * a = x + (i - k) * a
           /\ x - k * a - a = x + (-1 - k) * a
           /\ x - k * a + 5 * a = x + (5 - k) * a
           /\ x + i * (-a) = x + (-i) * a
           /\ x + 0 * a = x
  OBVIOUS

\* The run through a place is five long exactly when a line begins at most four
\* steps behind it.
LEMMA RunIsLine ==
    ASSUME NEW n \in Nat, n >= 5, NEW cells, NEW x \in Int, NEW y \in Int,
           NEW d \in Directions, NEW stone, Holds(n, cells, x, y, stone)
    PROVE  (1 + Reach(n, cells, x, y, d[1], d[2], stone)
              + Reach(n, cells, x, y, -d[1], -d[2], stone) = 5)
             <=> \E back \in 0 .. 4 : LineFrom(n, cells, x, y, d, stone, back)
<1> DEFINE P(j) == Holds(n, cells, x + j * d[1], y + j * d[2], stone)
           a == Reach(n, cells, x, y, d[1], d[2], stone)
           b == Reach(n, cells, x, y, -d[1], -d[2], stone)
           L(k) == LineFrom(n, cells, x, y, d, stone, k)
<1>0. d[1] \in Int /\ d[2] \in Int
  BY DirectionIs
<1>1. P(0)
  BY <1>0, Shift
<1>2. a \in 0 .. n /\ (\A i \in 1 .. a : P(i)) /\ (a < n => ~P(a + 1))
  BY ReachIs
<1>3. /\ b \in 0 .. n
      /\ \A i \in 1 .. b : Holds(n, cells, x + i * (-d[1]), y + i * (-d[2]), stone)
      /\ (b < n => ~Holds(n, cells, x + (b + 1) * (-d[1]), y + (b + 1) * (-d[2]), stone))
  BY ReachIs
<1>4. \A i \in Int : x + i * (-d[1]) = x + (-i) * d[1] /\ y + i * (-d[2]) = y + (-i) * d[2]
  BY <1>0, Shift
<1>5. (\A i \in 1 .. b : P(-i)) /\ (b < n => ~P(-(b + 1)))
  <2> HIDE DEF b
  <2>1. \A i \in Int : Holds(n, cells, x + i * (-d[1]), y + i * (-d[2]), stone) <=> P(-i)
    BY <1>4
  <2> HIDE DEF P
  <2> QED
    BY <1>3, <2>1
<1>6. ASSUME NEW k \in 0 .. 4
      PROVE  L(k) <=> (\A i \in 0 .. 4 : P(i - k)) /\ ~P(-1 - k) /\ ~P(5 - k)
  <2>0. k \in Int
    OBVIOUS
  <2> DEFINE u == d[1]
             v == d[2]
  <2>1. /\ x - k * u - u = x + (-1 - k) * u /\ x - k * u + 5 * u = x + (5 - k) * u
        /\ y - k * v - v = y + (-1 - k) * v /\ y - k * v + 5 * v = y + (5 - k) * v
    <3>1. u \in Int /\ v \in Int
      BY <1>0
    <3> HIDE DEF u, v
    <3> QED
      BY <2>0, <3>1, Shift
  <2>2. ASSUME NEW i \in Int
        PROVE  x - k * u + i * u = x + (i - k) * u /\ y - k * v + i * v = y + (i - k) * v
    <3>1. u \in Int /\ v \in Int
      BY <1>0
    <3> HIDE DEF u, v
    <3> QED
      BY <2>0, <3>1, Shift
  <2>3. \A i \in 0 .. 4 : i \in Int
    OBVIOUS
  <2> QED
    BY <2>1, <2>2, <2>3, Zenon DEF LineFrom, Line
<1> HIDE DEF P, a, b, L
<1>7. ASSUME 1 + a + b = 5 PROVE \E k \in 0 .. 4 : L(k)
  <2>1. b \in 0 .. 4 /\ a = 4 - b /\ a < n /\ b < n
    BY <1>2, <1>3, <1>7
  <2>2. \A i \in 0 .. 4 : P(i - b)
    <3> SUFFICES ASSUME NEW i \in 0 .. 4 PROVE P(i - b)
      OBVIOUS
    <3>1. CASE i = b
      <4>1. i - b = 0
        BY <2>1, <3>1
      <4> QED
        BY <1>1, <4>1
    <3>2. CASE i > b
      <4>1. i - b \in 1 .. a
        BY <2>1, <3>2
      <4> QED
        BY <1>2, <4>1
    <3>3. CASE i < b
      <4>1. b - i \in 1 .. b /\ -(b - i) = i - b
        BY <2>1, <3>3
      <4> QED
        BY <1>5, <4>1
    <3> QED
      BY <2>1, <3>1, <3>2, <3>3
  <2>3. ~P(-1 - b)
    <3>1. -(b + 1) = -1 - b
      BY <2>1
    <3> QED
      BY <1>5, <2>1, <3>1
  <2>4. ~P(5 - b)
    <3>1. a + 1 = 5 - b
      BY <2>1
    <3> QED
      BY <1>2, <2>1, <3>1
  <2>5. L(b)
    BY <1>6, <2>1, <2>2, <2>3, <2>4
  <2> QED
    BY <2>1, <2>5
<1>8. ASSUME NEW k \in 0 .. 4, L(k) PROVE 1 + a + b = 5
  <2>1. (\A i \in 0 .. 4 : P(i - k)) /\ ~P(-1 - k) /\ ~P(5 - k)
    BY <1>6, <1>8
  <2>2. a = 4 - k
    <3>1. ASSUME a > 4 - k PROVE FALSE
      <4>1. 5 - k \in 1 .. a
        BY <1>2, <3>1
      <4> QED
        BY <1>2, <2>1, <4>1
    <3>2. ASSUME a < 4 - k PROVE FALSE
      <4>1. a < n /\ a + 1 + k \in 0 .. 4 /\ (a + 1 + k) - k = a + 1
        BY <1>2, <3>2
      <4>2. P(a + 1)
        BY <2>1, <4>1
      <4> QED
        BY <1>2, <4>1, <4>2
    <3> QED
      BY <1>2, <3>1, <3>2
  <2>3. b = k
    <3>1. ASSUME b > k PROVE FALSE
      <4>1. k + 1 \in 1 .. b /\ -(k + 1) = -1 - k
        BY <1>3, <3>1
      <4>2. P(-(k + 1))
        BY <1>5, <4>1
      <4> QED
        BY <2>1, <4>1, <4>2
    <3>2. ASSUME b < k PROVE FALSE
      <4>1. b < n /\ k - (b + 1) \in 0 .. 4 /\ (k - (b + 1)) - k = -(b + 1)
        BY <1>3, <3>2
      <4>2. P(-(b + 1))
        BY <2>1, <4>1
      <4> QED
        BY <1>5, <4>1, <4>2
    <3> QED
      BY <1>3, <3>1, <3>2
  <2> QED
    BY <2>2, <2>3
<1> QED
  BY <1>7, <1>8 DEF a, b, L

AnyLine(n, cells, stone) == \E d \in Directions : \E x, y \in Int : Line(n, cells, x, y, d, stone)

Through(n, cells, cell, stone) ==
    \E d \in Directions, back \in 0 .. 4 : LineFrom(n, cells, cell % n, cell \div n, d, stone, back)

\* The runs CheckWin counts are the lines through the cell.
LEMMA WinIsLine ==
    ASSUME NEW n \in Nat, n >= 5, NEW cells, NEW cell \in Cells(n), NEW stone, cells[cell] = stone
    PROVE  CheckWin(n, cells, cell, stone) <=> Through(n, cells, cell, stone)
<1> DEFINE x == cell % n
           y == cell \div n
<1>1. x \in 0 .. n - 1 /\ y \in 0 .. n - 1 /\ x + y * n = cell
  BY CellIs
<1>2. Holds(n, cells, x, y, stone)
  BY <1>1 DEF Holds, OnBoard
<1>3. CheckWin(n, cells, cell, stone) <=>
        \E d \in Directions :
           1 + Reach(n, cells, x, y, d[1], d[2], stone)
             + Reach(n, cells, x, y, -d[1], -d[2], stone) = 5
  BY Zenon DEF CheckWin, RunLength, WinLength
<1>4. x \in Int /\ y \in Int
  BY <1>1
<1> HIDE DEF x, y
<1>5. \A d \in Directions :
        (1 + Reach(n, cells, x, y, d[1], d[2], stone)
           + Reach(n, cells, x, y, -d[1], -d[2], stone) = 5)
          <=> \E back \in 0 .. 4 : LineFrom(n, cells, x, y, d, stone, back)
  BY <1>2, <1>4, RunIsLine
<1>6. CheckWin(n, cells, cell, stone) <=>
        \E d \in Directions, back \in 0 .. 4 : LineFrom(n, cells, x, y, d, stone, back)
  BY <1>3, <1>5, Zenon
<1> QED
  BY <1>6, Zenon DEF Through, x, y

\* So is what CheckWin is meant to compute.
LEMMA FiveIsLine ==
    ASSUME NEW n \in Nat, n >= 5, NEW cells, NEW cell \in Cells(n), NEW stone
    PROVE  ExactFiveThrough(n, cells, cell, stone) <=> Through(n, cells, cell, stone)
<1> DEFINE x == cell % n
           y == cell \div n
           At(d, k, i) == Holds(n, cells, (x - k * d[1]) + i * d[1],
                                (y - k * d[2]) + i * d[2], stone)
           E(d, k) == (\A i \in 0 .. 4 : At(d, k, i)) /\ ~At(d, k, -1) /\ ~At(d, k, 5)
<1>1. x \in Int /\ y \in Int
  BY CellIs
<1>2. 0 .. WinLength - 1 = 0 .. 4 /\ WinLength = 5
  BY DEF WinLength
<1>3. ExactFiveThrough(n, cells, cell, stone) <=> \E d \in Directions, k \in 0 .. 4 : E(d, k)
  BY <1>2, Zenon DEF ExactFiveThrough
<1> HIDE DEF x, y
<1>4. ASSUME NEW d \in Directions, NEW k \in 0 .. 4
      PROVE  E(d, k) <=> LineFrom(n, cells, x, y, d, stone, k)
  <2> DEFINE u == x - k * d[1]
             v == y - k * d[2]
  <2>1. d[1] \in Int /\ d[2] \in Int
    BY DirectionIs
  <2>2. u \in Int /\ v \in Int
    BY <1>1, <2>1
  <2> HIDE DEF u, v
  <2>3. u + (-1) * d[1] = u - d[1] /\ v + (-1) * d[2] = v - d[2]
    BY <2>1, <2>2
  <2> QED
    BY <2>3, Zenon DEF LineFrom, Line, u, v
<1> HIDE DEF E
<1>5. ExactFiveThrough(n, cells, cell, stone) <=>
        \E d \in Directions, k \in 0 .. 4 : LineFrom(n, cells, x, y, d, stone, k)
  BY <1>3, <1>4, Zenon
<1> QED
  BY <1>5, Zenon DEF Through, x, y

\* The cells of a line.
LEMMA LineCells ==
    ASSUME NEW n \in Nat, NEW cells, NEW x \in Int, NEW y \in Int, NEW d \in Directions, NEW stone,
           Line(n, cells, x, y, d, stone), NEW i \in 0 .. 4
    PROVE  LET u == x + i * d[1]
               v == y + i * d[2]
               c == u + v * n
           IN  u \in 0 .. n - 1 /\ v \in 0 .. n - 1 /\ c \in Cells(n) /\ cells[c] = stone
<1> DEFINE u == x + i * d[1]
           v == y + i * d[2]
<1>1. Holds(n, cells, u, v, stone)
  BY DEF Line
<1> HIDE DEF u, v
<1>2. u \in 0 .. n - 1 /\ v \in 0 .. n - 1 /\ cells[u + v * n] = stone
  BY <1>1 DEF Holds, OnBoard
<1>3. u + v * n \in Cells(n)
  BY <1>2, IndexIs
<1> QED
  BY <1>2, <1>3 DEF u, v

\* A line takes five cells of its colour.
LEMMA LineNeedsFive ==
    ASSUME NEW n \in Nat, NEW cells, NEW stone, AnyLine(n, cells, stone), NEW S, IsFiniteSet(S),
           \A c \in Cells(n) : cells[c] = stone => c \in S
    PROVE  Cardinality(S) >= 5
<1>1. PICK d \in Directions : \E x, y \in Int : Line(n, cells, x, y, d, stone)
  BY DEF AnyLine
<1>2. PICK x \in Int, y \in Int : Line(n, cells, x, y, d, stone)
  BY <1>1
<1> DEFINE u(i) == x + i * d[1]
           v(i) == y + i * d[2]
           f == [i \in 0 .. 4 |-> u(i) + v(i) * n]
<1>3. \A i \in 0 .. 4 : /\ u(i) \in 0 .. n - 1 /\ v(i) \in 0 .. n - 1
                        /\ u(i) + v(i) * n \in Cells(n)
                        /\ cells[u(i) + v(i) * n] = stone
  BY <1>2, LineCells
<1>4. ASSUME NEW i \in 0 .. 4, NEW j \in 0 .. 4, u(i) = u(j), v(i) = v(j) PROVE i = j
  <2>1. CASE d = <<1, 0>> \/ d = <<1, 1>> \/ d = <<1, -1>>
    <3>1. d[1] = 1
      BY <2>1
    <3>2. u(i) = x + i /\ u(j) = x + j
      BY <3>1
    <3> QED
      BY <1>4, <3>2
  <2>2. CASE d = <<0, 1>>
    <3>1. d[2] = 1
      BY <2>2
    <3>2. v(i) = y + i /\ v(j) = y + j
      BY <3>1
    <3> QED
      BY <1>4, <3>2
  <2> QED
    BY <2>1, <2>2 DEF Directions
<1> HIDE DEF u, v
<1>5. \A i \in 0 .. 4 : f[i] = u(i) + v(i) * n /\ f[i] \in S
  BY <1>3
<1>6. ASSUME NEW i \in 0 .. 4, NEW j \in 0 .. 4, f[i] = f[j] PROVE i = j
  <2>1. u(i) + v(i) * n = u(j) + v(j) * n
    BY <1>5, <1>6
  <2> DEFINE p == u(i)
             q == v(i)
             r == u(j)
             s == v(j)
  <2>2. p \in 0 .. n - 1 /\ q \in 0 .. n - 1 /\ r \in 0 .. n - 1 /\ s \in 0 .. n - 1
    BY <1>3
  <2>3. p + q * n = r + s * n
    BY <2>1
  <2> HIDE DEF p, q, r, s
  <2>4. p = r /\ q = s
    BY <2>2, <2>3, IndexIsOne
  <2> QED
    BY <1>4, <2>4 DEF p, q, r, s
<1>7. f \in [0 .. 4 -> S] /\ DOMAIN f = 0 .. 4
  BY <1>5
<1> HIDE DEF f
<1>8. f \in Injection(0 .. 4, S)
  BY <1>6, <1>7 DEF Injection, IsInjective
<1>9. Cardinality(0 .. 4) = 5
  <2>1. \A a, b \in Int : Cardinality(a .. b) = IF a > b THEN 0 ELSE b - a + 1
    BY FS_Interval
  <2> DEFINE a == 0
             b == 4
  <2>2. a \in Int /\ b \in Int /\ ~ (a > b) /\ b - a + 1 = 5
    OBVIOUS
  <2> HIDE DEF a, b
  <2>3. Cardinality(a .. b) = 5
    BY <2>1, <2>2
  <2> QED
    BY <2>3 DEF a, b
<1>10. Cardinality(0 .. 4) <= Cardinality(S)
  BY <1>8, FS_Injection
<1>11. Cardinality(S) \in Nat
  BY FS_CardinalityType
<1> QED
  BY <1>9, <1>10, <1>11

\* Through each of its cells there is the line.
LEMMA LineThrough ==
    ASSUME NEW n \in Nat, n > 0, NEW cells, NEW x \in Int, NEW y \in Int, NEW d \in Directions,
           NEW stone, Line(n, cells, x, y, d, stone), NEW i \in 0 .. 4, NEW cell \in Cells(n),
           cell = (x + i * d[1]) + (y + i * d[2]) * n
    PROVE  Through(n, cells, cell, stone)
<1> DEFINE u == x + i * d[1]
           v == y + i * d[2]
           p == cell % n
           q == cell \div n
<1>1. u \in 0 .. n - 1 /\ v \in 0 .. n - 1 /\ u + v * n = cell
  BY LineCells
<1>2. p \in 0 .. n - 1 /\ q \in 0 .. n - 1 /\ p + q * n = cell
  BY CellIs
<1>3. x = u - i * d[1] /\ y = v - i * d[2]
  <2> DEFINE a == i * d[1]
             b == i * d[2]
  <2>1. a \in Int /\ b \in Int
    <3>1. d[1] \in Int /\ d[2] \in Int /\ i \in Int
      BY DirectionIs
    <3> QED
      BY <3>1
  <2>2. u = x + a /\ v = y + b
    OBVIOUS
  <2> HIDE DEF a, b, u, v
  <2>3. x = u - a /\ y = v - b
    BY <2>1, <2>2
  <2> QED
    BY <2>3, Zenon DEF a, b
<1> HIDE DEF u, v, p, q
<1>4. p = u /\ q = v
  BY <1>1, <1>2, IndexIsOne
<1>5. LineFrom(n, cells, p, q, d, stone, i)
  BY <1>3, <1>4, Zenon DEF LineFrom
<1> QED
  BY <1>5, Zenon DEF Through, p, q

\* A line through a cell is a line.
LEMMA ThroughIsLine ==
    ASSUME NEW n \in Nat, n > 0, NEW cells, NEW stone, NEW cell \in Cells(n),
           Through(n, cells, cell, stone)
    PROVE  AnyLine(n, cells, stone)
<1> DEFINE p == cell % n
           q == cell \div n
<1>1. p \in Int /\ q \in Int
  BY CellIs
<1>2. PICK d \in Directions, k \in 0 .. 4 : LineFrom(n, cells, p, q, d, stone, k)
  BY Zenon DEF Through
<1> HIDE DEF p, q
<1>3. p - k * d[1] \in Int /\ q - k * d[2] \in Int
  BY <1>1, DirectionIs
<1> QED
  BY <1>2, <1>3, Zenon DEF LineFrom, AnyLine

\* The colour has an exact five somewhere exactly when it has a line.
LEMMA FiveSomewhere ==
    ASSUME NEW n \in Nat, n >= 5, NEW cells, NEW stone
    PROVE  (\E c \in Cells(n) : cells[c] = stone /\ ExactFiveThrough(n, cells, c, stone))
             <=> AnyLine(n, cells, stone)
<1>0. n > 0
  OBVIOUS
<1>1. ASSUME NEW c \in Cells(n), ExactFiveThrough(n, cells, c, stone) PROVE AnyLine(n, cells, stone)
  BY <1>0, <1>1, FiveIsLine, ThroughIsLine
<1>2. ASSUME AnyLine(n, cells, stone)
      PROVE  \E c \in Cells(n) : cells[c] = stone /\ ExactFiveThrough(n, cells, c, stone)
  <2>1. PICK d \in Directions, x \in Int, y \in Int : Line(n, cells, x, y, d, stone)
    BY <1>2 DEF AnyLine
  <2>2. 0 \in 0 .. 4
    OBVIOUS
  <2> DEFINE i == 0
             c == (x + i * d[1]) + (y + i * d[2]) * n
  <2>3. c \in Cells(n) /\ cells[c] = stone
    BY <2>1, <2>2, LineCells
  <2>4. i \in 0 .. 4 /\ c = (x + i * d[1]) + (y + i * d[2]) * n
    OBVIOUS
  <2> HIDE DEF i, c
  <2>5. Through(n, cells, c, stone)
    BY <1>0, <2>1, <2>3, <2>4, LineThrough
  <2> QED
    BY <2>3, <2>5, FiveIsLine
<1> QED
  BY <1>1, <1>2

-----------------------------------------------------------------------------
(* One stone more. *)

\* The cells with a stone put on one of them.
Put(cells, cell, stone) == [cells EXCEPT ![cell] = stone]

\* What a place of the board holds then.
LEMMA PutHolds ==
    ASSUME NEW n \in Nat, n > 0, NEW cells \in [Cells(n) -> Stones], NEW cell \in Cells(n),
           NEW stone, NEW x \in Int, NEW y \in Int, NEW s
    PROVE  Holds(n, Put(cells, cell, stone), x, y, s)
             <=> \/ x = cell % n /\ y = cell \div n /\ s = stone
                 \/ ~(x = cell % n /\ y = cell \div n) /\ Holds(n, cells, x, y, s)
<1> DEFINE p == cell % n
           q == cell \div n
<1>1. p \in 0 .. n - 1 /\ q \in 0 .. n - 1 /\ p + q * n = cell
  BY CellIs
<1> HIDE DEF p, q
<1>2. CASE ~OnBoard(n, x, y)
  BY <1>1, <1>2 DEF Holds, OnBoard, p, q
<1>3. CASE OnBoard(n, x, y)
  <2>1. x \in 0 .. n - 1 /\ y \in 0 .. n - 1
    BY <1>3 DEF OnBoard
  <2>2. x + y * n \in Cells(n)
    BY <2>1, IndexIs
  <2>3. x + y * n = cell <=> (x = p /\ y = q)
    BY <1>1, <2>1, IndexIsOne
  <2> DEFINE c == x + y * n
  <2> HIDE DEF c
  <2>4. Put(cells, cell, stone)[c] = IF c = cell THEN stone ELSE cells[c]
    BY <2>2 DEF Put, c
  <2> QED
    BY <1>3, <2>3, <2>4 DEF Holds, c, p, q
<1> QED
  BY <1>2, <1>3

\* The lines of the other colour stay what they were.
LEMMA PutSparesOthers ==
    ASSUME NEW n \in Nat, n > 0, NEW cells \in [Cells(n) -> Stones], NEW cell \in Cells(n),
           NEW stone, cells[cell] = "EMPTY", NEW s, s # stone, s # "EMPTY"
    PROVE  AnyLine(n, Put(cells, cell, stone), s) <=> AnyLine(n, cells, s)
<1> DEFINE after == Put(cells, cell, stone)
<1>1. ASSUME NEW x \in Int, NEW y \in Int
      PROVE  Holds(n, after, x, y, s) <=> Holds(n, cells, x, y, s)
  <2>1. (x = cell % n /\ y = cell \div n) => ~Holds(n, cells, x, y, s)
    <3>1. (cell % n) + (cell \div n) * n = cell
      BY CellIs
    <3> QED
      BY <3>1 DEF Holds
  <2> QED
    BY <2>1, PutHolds
<1> HIDE DEF after
<1>2. ASSUME NEW d \in Directions, NEW x \in Int, NEW y \in Int
      PROVE  Line(n, after, x, y, d, s) <=> Line(n, cells, x, y, d, s)
  <2>1. /\ \A i \in 0 .. 4 : x + i * d[1] \in Int /\ y + i * d[2] \in Int
        /\ x - d[1] \in Int /\ y - d[2] \in Int /\ x + 5 * d[1] \in Int /\ y + 5 * d[2] \in Int
    BY DirectionIs
  <2> QED
    BY <1>1, <2>1, Zenon DEF Line
<1> QED
  BY <1>2, Zenon DEF AnyLine, after

\* A line that was not there before goes through the new stone.
LEMMA NewLineIsThrough ==
    ASSUME NEW n \in Nat, n > 0, NEW cells \in [Cells(n) -> Stones], NEW cell \in Cells(n),
           NEW stone, stone # "EMPTY", cells[cell] = "EMPTY",
           ~AnyLine(n, cells, stone), AnyLine(n, Put(cells, cell, stone), stone)
    PROVE  Through(n, Put(cells, cell, stone), cell, stone)
<1> DEFINE after == Put(cells, cell, stone)
           p == cell % n
           q == cell \div n
<1>1. p \in 0 .. n - 1 /\ q \in 0 .. n - 1 /\ p + q * n = cell
  BY CellIs
<1>2. ASSUME NEW x \in Int, NEW y \in Int
      PROVE  /\ Holds(n, after, x, y, stone) => (x = p /\ y = q) \/ Holds(n, cells, x, y, stone)
             /\ Holds(n, cells, x, y, stone) => Holds(n, after, x, y, stone)
  BY PutHolds
<1> HIDE DEF after, p, q
<1>3. PICK d \in Directions, x \in Int, y \in Int : Line(n, after, x, y, d, stone)
  BY Zenon DEF AnyLine, after
<1>4. /\ \A i \in 0 .. 4 : x + i * d[1] \in Int /\ y + i * d[2] \in Int
      /\ x - d[1] \in Int /\ y - d[2] \in Int /\ x + 5 * d[1] \in Int /\ y + 5 * d[2] \in Int
  BY DirectionIs
<1>5. CASE \E i \in 0 .. 4 : x + i * d[1] = p /\ y + i * d[2] = q
  <2>1. PICK i \in 0 .. 4 : x + i * d[1] = p /\ y + i * d[2] = q
    BY <1>5
  <2>2. cell = (x + i * d[1]) + (y + i * d[2]) * n
    BY <1>1, <2>1
  <2>3. Through(n, after, cell, stone)
    BY <1>3, <2>2, LineThrough
  <2> QED
    BY <2>3 DEF after
<1>6. CASE ~\E i \in 0 .. 4 : x + i * d[1] = p /\ y + i * d[2] = q
  <2>1. Line(n, cells, x, y, d, stone)
    BY <1>2, <1>3, <1>4, <1>6, Zenon DEF Line
  <2> QED
    BY <2>1, Zenon DEF AnyLine
<1> QED
  BY <1>5, <1>6

\* So CheckWin, asked about the new stone alone, tells whether its colour has a
\* line.
LEMMA WinIsAnyLine ==
    ASSUME NEW n \in Nat, n >= 5, NEW cells \in [Cells(n) -> Stones], NEW cell \in Cells(n),
           NEW stone, stone # "EMPTY", cells[cell] = "EMPTY", ~AnyLine(n, cells, stone)
    PROVE  CheckWin(n, Put(cells, cell, stone), cell, stone)
             <=> AnyLine(n, Put(cells, cell, stone), stone)
<1> DEFINE after == Put(cells, cell, stone)
<1>1. n > 0 /\ after[cell] = stone
  BY DEF Put
<1>2. AnyLine(n, after, stone) => Through(n, after, cell, stone)
  BY <1>1, NewLineIsThrough
<1> HIDE DEF after
<1>3. CheckWin(n, after, cell, stone) <=> Through(n, after, cell, stone)
  BY <1>1, WinIsLine
<1>4. Through(n, after, cell, stone) => AnyLine(n, after, stone)
  BY <1>1, ThroughIsLine
<1> QED
  BY <1>2, <1>3, <1>4 DEF after

-----------------------------------------------------------------------------
(* The lines of a game. *)

\* By its second stone a game has stones of both colours.
BothColours(n, b) ==
    b.phase # "STANDARD" => /\ b.count >= 1 => \E c \in Cells(n) : b.cells[c] = "BLACK"
                            /\ b.count >= 2 => \E c \in Cells(n) : b.cells[c] = "WHITE"

\* No colour has a line while the game is open or drawn, and the winner's alone
\* has one when it is won.
LinesOK(n, b) ==
    /\ BothColours(n, b)
    /\ b.result \in {"UNDETERMINED", "DRAW"} =>
           \A s \in Colours : ~AnyLine(n, b.cells, s)
    /\ \A seat \in Seats : b.result = WinFor(seat) =>
           \A s \in Colours : AnyLine(n, b.cells, s) <=> s = b.stones[seat]

\* The opening has too few stones of one colour for a line.
LEMMA OpeningHasNoLine ==
    ASSUME NEW n \in Nat, NEW b, Shape(n, b), Counted(n, b), BothColours(n, b),
           b.phase # "STANDARD", NEW s \in Colours
    PROVE  ~AnyLine(n, b.cells, s)
<1> SUFFICES ASSUME AnyLine(n, b.cells, s) PROVE FALSE
  OBVIOUS
<1> DEFINE O == Occupied(n, b.cells)
<1>1. O \in SUBSET Cells(n)
  BY DEF Occupied
<1>2. IsFiniteSet(O)
  BY <1>1, CellsFinite, FS_Subset
<1>3. Cardinality(O) = b.count /\ b.count \in 0 .. 5
  BY DEF Counted, Shape
<1>4. \A c \in Cells(n) : b.cells[c] = s => c \in O
  BY DEF Occupied, Colours
<1> HIDE DEF O
<1>5. Cardinality(O) >= 5
  BY <1>2, <1>4, LineNeedsFive
<1>6. b.count = 5
  BY <1>3, <1>5
<1>7. PICK w \in Cells(n) : b.cells[w] # s /\ b.cells[w] # "EMPTY"
  BY <1>6 DEF BothColours, Colours
<1>8. w \in O
  BY <1>7 DEF Occupied, O
<1>9. IsFiniteSet(O \ {w}) /\ Cardinality(O \ {w}) = Cardinality(O) - 1
  BY <1>2, <1>8, FS_RemoveElement
<1>10. \A c \in Cells(n) : b.cells[c] = s => c \in O \ {w}
  BY <1>4, <1>7
<1>11. Cardinality(O \ {w}) >= 5
  BY <1>9, <1>10, LineNeedsFive
<1> QED
  BY <1>3, <1>6, <1>9, <1>11

\* A legal action keeps it.
LEMMA LinesStep ==
    ASSUME NEW n \in Nat, n >= 5, NEW b, RefereeOK(n, b), LinesOK(n, b),
           NEW action \in LegalSet(n, b), Counted(n, RefereeApply(n, b, action))
    PROVE  LinesOK(n, RefereeApply(n, b, action))
<1> DEFINE k == RefereeApply(n, b, action)
<1>1. /\ RefereeOK(n, k) /\ Counted(n, k)
      /\ IF IsPlacement(n, action)
         THEN Lands(b, action, k, CheckTerminal(n, Placed(b, action), action))
         ELSE Binds(n, b, action, k)
  BY RefereeStep
<1> HIDE DEF k
<1>2. /\ Shape(n, b) /\ Shape(n, k) /\ b.result = "UNDETERMINED"
      /\ b.cells \in [Cells(n) -> Stones] /\ b \in RefereeRecord(n) /\ b.count \in Nat
  BY <1>1 DEF RefereeOK, LegalSet, Shape
<1>3. BothColours(n, b) /\ \A s \in Colours : ~AnyLine(n, b.cells, s)
  BY <1>2 DEF LinesOK
<1>4. "UNDETERMINED" # WinFor("A") /\ "UNDETERMINED" # WinFor("B")
      /\ "DRAW" # WinFor("A") /\ "DRAW" # WinFor("B") /\ WinFor("A") # WinFor("B")
  BY DEF WinFor
<1>5. CASE ~IsPlacement(n, action)
  <2>1. k.cells = b.cells /\ k.count = b.count /\ k.result = "UNDETERMINED"
    BY <1>1, <1>2, <1>5 DEF Binds
  <2>2. BothColours(n, k)
    <3>1. b.phase # "STANDARD"
      BY <1>2, <1>5 DEF LegalSet, IsPlacement, PlacingPhases, Shape
    <3> QED
      BY <1>3, <2>1, <3>1 DEF BothColours
  <2> QED
    BY <1>3, <1>4, <2>1, <2>2 DEF LinesOK, Seats, k
<1>6. CASE IsPlacement(n, action)
  <2>1. /\ action \in Cells(n) /\ b.cells[action] = "EMPTY" /\ b.phase \in PlacingPhases
        /\ b.stone \in Colours /\ b.stone # "EMPTY"
    BY <1>2, <1>6, ControlIds DEF IsPlacement, LegalSet, Shape, PlacingPhases, Bound, Colours, Seats
  <2>2. /\ k.cells = Put(b.cells, action, b.stone) /\ k.count = b.count + 1 /\ k.stones = b.stones
    BY <1>1, <1>6 DEF Lands, Put
  <2>3. CASE b.phase # "STANDARD"
    <3>1. k.phase # "STANDARD" /\ k.result = "UNDETERMINED"
      <4>1. k.phase # "STANDARD"
        BY <1>1, <1>6, <2>3 DEF Lands
      <4> QED
        BY <1>2, <4>1 DEF Shape
    <3>2. /\ k.cells[action] = b.stone
          /\ \A c \in Cells(n) : b.cells[c] # "EMPTY" => k.cells[c] = b.cells[c]
      BY <1>2, <2>1, <2>2 DEF Put
    <3>3. (b.count = 0 => b.stone = "BLACK") /\ (b.count = 1 => b.stone = "WHITE")
      BY <1>2, <2>1, <2>3 DEF Shape, PlacingPhases
    <3>4. BothColours(n, k)
      <4>1. \E c \in Cells(n) : k.cells[c] = "BLACK"
        <5>1. CASE b.count = 0
          BY <2>1, <3>2, <3>3, <5>1
        <5>2. CASE b.count >= 1
          BY <1>3, <2>3, <3>2, <5>2 DEF BothColours
        <5> QED
          BY <1>2, <5>1, <5>2
      <4>2. ASSUME k.count >= 2 PROVE \E c \in Cells(n) : k.cells[c] = "WHITE"
        <5>1. CASE b.count = 1
          BY <2>1, <3>2, <3>3, <5>1
        <5>2. CASE b.count >= 2
          BY <1>3, <2>3, <3>2, <5>2 DEF BothColours
        <5> QED
          BY <1>2, <2>2, <4>2, <5>1, <5>2
      <4> QED
        BY <4>1, <4>2 DEF BothColours
    <3>5. \A s \in Colours : ~AnyLine(n, k.cells, s)
      BY <1>1, <1>2, <3>1, <3>4, OpeningHasNoLine
    <3> QED
      BY <1>4, <3>1, <3>4, <3>5 DEF LinesOK, Seats, k
  <2>4. CASE b.phase = "STANDARD"
    <3> DEFINE p == Placed(b, action)
    <3>1. /\ p.cells = k.cells /\ p.cells[action] = b.stone /\ p.stones = b.stones
          /\ p.result = "UNDETERMINED"
      BY <1>2, <2>1, <2>2 DEF Placed, RefereeRecord, Put
    <3>2. k.phase = "STANDARD" /\ k.result = CheckTerminal(n, p, action)
      BY <1>1, <1>6, <2>4 DEF Lands
    <3>3. /\ Bound(b.stones) /\ b.current \in Seats /\ b.stone = b.stones[b.current]
      BY <1>2, <2>4 DEF Shape
    <3> HIDE DEF p
    <3>4. CheckWin(n, k.cells, action, b.stone) <=> AnyLine(n, k.cells, b.stone)
      BY <1>2, <1>3, <2>1, <2>2, WinIsAnyLine
    <3>5. \A s \in Colours : s # b.stone => ~AnyLine(n, k.cells, s)
      <4> SUFFICES ASSUME NEW s \in Colours, s # b.stone PROVE ~AnyLine(n, k.cells, s)
        OBVIOUS
      <4>1. s # "EMPTY" /\ n > 0
        BY DEF Colours
      <4>2. AnyLine(n, k.cells, s) <=> AnyLine(n, b.cells, s)
        BY <1>2, <2>1, <2>2, <4>1, PutSparesOthers
      <4> QED
        BY <1>3, <4>2
    <3>6. BothColours(n, k)
      BY <3>2 DEF BothColours
    <3>7. SetWinnerForStone(p, b.stone) = WinFor(b.current)
      BY <3>1, <3>3 DEF SetWinnerForStone, Bound, Seats, WinFor
    <3>8. CASE AnyLine(n, k.cells, b.stone)
      <4>1. k.result = WinFor(b.current)
        BY <3>1, <3>2, <3>4, <3>7, <3>8 DEF CheckTerminal
      <4>2. \A seat \in Seats : k.result = WinFor(seat) => seat = b.current
        BY <1>4, <3>3, <4>1 DEF Seats
      <4>3. k.result \notin {"UNDETERMINED", "DRAW"}
        BY <1>4, <3>3, <4>1 DEF Seats
      <4>4. \A s \in Colours : AnyLine(n, k.cells, s) <=> s = k.stones[b.current]
        BY <2>2, <3>3, <3>5, <3>8
      <4> QED
        BY <3>6, <4>2, <4>3, <4>4 DEF LinesOK, k
    <3>9. CASE ~AnyLine(n, k.cells, b.stone)
      <4>1. k.result \in {"UNDETERMINED", "DRAW"}
        BY <3>1, <3>2, <3>4, <3>9 DEF CheckTerminal
      <4>2. \A seat \in Seats : k.result # WinFor(seat)
        BY <1>4, <4>1 DEF Seats
      <4>3. \A s \in Colours : ~AnyLine(n, k.cells, s)
        BY <3>5, <3>9
      <4> QED
        BY <3>6, <4>2, <4>3 DEF LinesOK, k
    <3> QED
      BY <3>8, <3>9
  <2> QED
    BY <2>3, <2>4
<1> QED
  BY <1>5, <1>6

\* A board in shape with the right lines has its winner.
LEMMA WinnerHasTheLine ==
    ASSUME NEW n \in Nat, n >= 5, NEW b, RefereeOK(n, b), LinesOK(n, b), NEW seat \in Seats
    PROVE  (b.result = WinFor(seat)) <=>
               b.stones[seat] # "EMPTY" /\ AnyLine(n, b.cells, b.stones[seat])
<1>1. Shape(n, b) /\ b.result \in Results
  BY DEF RefereeOK, RefereeRecord
<1>2. CASE b.phase # "STANDARD"
  BY <1>1, <1>2 DEF Shape, Unbound, WinFor
<1>3. CASE b.phase = "STANDARD"
  <2>1. Bound(b.stones)
    BY <1>1, <1>3 DEF Shape
  <2>2. \A t \in Seats : b.stones[t] \in Colours /\ b.stones[t] # "EMPTY"
    BY <2>1 DEF Bound, Colours
  <2>3. \A t \in Seats : b.stones[t] = b.stones[seat] => t = seat
    BY <2>1 DEF Bound, Seats
  <2>4. CASE b.result \in {"UNDETERMINED", "DRAW"}
    BY <2>2, <2>4 DEF LinesOK, WinFor
  <2>5. CASE \E t \in Seats : b.result = WinFor(t)
    <3>1. PICK t \in Seats : b.result = WinFor(t)
      BY <2>5
    <3>2. b.result = WinFor(seat) <=> t = seat
      BY <3>1 DEF WinFor, Seats
    <3>3. AnyLine(n, b.cells, b.stones[seat]) <=> b.stones[seat] = b.stones[t]
      BY <2>2, <3>1 DEF LinesOK
    <3> QED
      BY <2>2, <2>3, <3>2, <3>3
  <2> QED
    BY <1>1, <2>4, <2>5 DEF Results, WinFor, Seats
<1> QED
  BY <1>2, <1>3

-----------------------------------------------------------------------------
(* The plugin host's board in a game without the extra pair. *)

\* The type of the plugin host's board.
PluginRecord(n) ==
    [cells : [Cells(n) -> Stones], phase : Phases, current : Seats, stone : Stones,
     stones : [Seats -> Stones], count : Nat, result : Results]

\* It is the server's position, and the pair was not asked for.
Mirrors(n, p, b) == /\ p \in PluginRecord(n) /\ SamePosition(b, p)
                    /\ b.phase \notin {"SWAP2_PLACE_TWO", "CHOOSE_COLOR"}

\* New boards are alike.
LEMMA MirrorsInit ==
    ASSUME NEW n \in Nat
    PROVE  Mirrors(n, PluginInit(n), RefereeInit(n))
  BY DEF Mirrors, PluginInit, RefereeInit, PluginRecord, SamePosition, Phases, Stones, Colours,
     Seats, Results

\* The fields of the plugin host's board with one more stone.
LEMMA PluginPlaced ==
    ASSUME NEW n \in Nat, NEW p \in PluginRecord(n), NEW cell \in Cells(n)
    PROVE  LET q == Placed(p, cell)
           IN  /\ q \in PluginRecord(n) /\ q.cells = Put(p.cells, cell, p.stone)
               /\ q.count = p.count + 1 /\ q.stones = p.stones /\ q.result = p.result
               /\ q.phase = p.phase /\ q.current = p.current /\ q.stone = p.stone
<1>1. Put(p.cells, cell, p.stone) \in [Cells(n) -> Stones] /\ p.count + 1 \in Nat
  BY DEF PluginRecord, Put
<1>2. Placed(p, cell)
        = [[p EXCEPT !.cells = Put(p.cells, cell, p.stone)] EXCEPT !.count = p.count + 1]
  BY DEF PluginRecord, Placed, Put
<1> QED
  BY <1>1, <1>2 DEF PluginRecord

\* What is on the plugin host's board after a stone that ends nothing.
LEMMA PluginMovesOn ==
    ASSUME NEW n \in Nat, NEW p \in PluginRecord(n), NEW cell \in Cells(n), NEW d,
           p.phase \in {"PLACE_INITIAL_THREE", "STANDARD"},
           p.phase = "PLACE_INITIAL_THREE" => p.count \in 0 .. 2,
           d = PluginTransition(Placed(p, cell))
    PROVE  /\ d \in PluginRecord(n) /\ d.cells = Put(p.cells, cell, p.stone)
           /\ d.count = p.count + 1 /\ d.stones = p.stones /\ d.result = p.result
           /\ p.phase = "STANDARD" => /\ d.phase = "STANDARD" /\ d.current = Other(p.current)
                                      /\ d.stone = OtherStone(p.stone)
           /\ p.phase # "STANDARD" =>
                IF p.count = 2
                THEN d.phase = "SWAP2_DECISION" /\ d.current = "B" /\ d.stone = "EMPTY"
                ELSE /\ d.phase = p.phase /\ d.current = p.current
                     /\ d.stone = IF p.count = 0 THEN "WHITE" ELSE "BLACK"
<1> DEFINE q == Placed(p, cell)
<1>1. /\ q \in PluginRecord(n) /\ q.cells = Put(p.cells, cell, p.stone) /\ q.count = p.count + 1
      /\ q.stones = p.stones /\ q.result = p.result /\ q.phase = p.phase
      /\ q.current = p.current /\ q.stone = p.stone
  BY PluginPlaced
<1>2. p.count \in Nat /\ p.current \in Seats
  BY DEF PluginRecord
<1>3. d = PluginTransition(q)
  OBVIOUS
<1> HIDE DEF q
<1>4. CASE p.phase = "STANDARD"
  <2>1. d = [q EXCEPT !.current = Other(q.current), !.stone = OtherStone(q.stone)]
    BY <1>1, <1>3, <1>4 DEF PluginTransition
  <2>2. Other(q.current) \in Seats /\ OtherStone(q.stone) \in Stones
    BY DEF Other, OtherStone, Seats, Stones, Colours
  <2> QED
    BY <1>1, <1>4, <2>1, <2>2 DEF PluginRecord
<1>5. CASE p.phase = "PLACE_INITIAL_THREE" /\ p.count = 2
  <2>1. d = [q EXCEPT !.phase = "SWAP2_DECISION", !.current = "B", !.stone = "EMPTY"]
    <3>1. q.phase = "PLACE_INITIAL_THREE" /\ q.count = 3 /\ q.count # 1 /\ q.count # 2
      BY <1>1, <1>5
    <3>2. /\ q.phase # "SWAP2_PLACE_TWO" /\ q.phase # "STANDARD"
      BY <3>1
    <3> QED
      BY <1>3, <3>1, <3>2, Zenon DEF PluginTransition
  <2> QED
    BY <1>1, <1>5, <2>1 DEF PluginRecord, Phases, Seats, Stones
<1>6. CASE p.phase = "PLACE_INITIAL_THREE" /\ p.count = 0
  <2>1. d = [q EXCEPT !.stone = "WHITE"]
    BY <1>1, <1>3, <1>6 DEF PluginTransition
  <2> QED
    BY <1>1, <1>6, <2>1 DEF PluginRecord, Stones, Colours
<1>7. CASE p.phase = "PLACE_INITIAL_THREE" /\ p.count = 1
  <2>1. d = [q EXCEPT !.stone = "BLACK"]
    BY <1>1, <1>3, <1>7 DEF PluginTransition
  <2> QED
    BY <1>1, <1>7, <2>1 DEF PluginRecord, Stones, Colours
<1> QED
  BY <1>2, <1>4, <1>5, <1>6, <1>7

\* A stone keeps the two boards alike: the plugin host looks for wins during
\* the opening too, where there can be none, gives them to the seat that moved,
\* which is the one that holds the colour, and takes the board for full by its
\* counter.
LEMMA PluginPlaces ==
    ASSUME NEW n \in Nat, n >= 5, NEW b, NEW p, RefereeOK(n, b), Counted(n, b), LinesOK(n, b),
           Mirrors(n, p, b), NEW cell \in LegalSet(n, b), IsPlacement(n, cell),
           LinesOK(n, RefereeApply(n, b, cell))
    PROVE  Mirrors(n, PluginPlace(n, p, cell), RefereeApply(n, b, cell))
<1> DEFINE k == RefereeApply(n, b, cell)
           d == PluginPlace(n, p, cell)
           q == Placed(p, cell)
<1>1. RefereeOK(n, k) /\ Lands(b, cell, k, CheckTerminal(n, Placed(b, cell), cell)) /\ LinesOK(n, k)
  BY RefereeStep
<1> HIDE DEF k
<1>2. /\ Shape(n, b) /\ Shape(n, k) /\ b.result = "UNDETERMINED" /\ b \in RefereeRecord(n)
      /\ b.cells \in [Cells(n) -> Stones] /\ b.count \in Nat /\ cell \in Cells(n)
  BY <1>1 DEF RefereeOK, LegalSet, Shape, IsPlacement
<1>3. /\ b.cells[cell] = "EMPTY" /\ b.phase \in {"PLACE_INITIAL_THREE", "STANDARD"}
      /\ b.stone \in Colours /\ b.stone # "EMPTY"
  BY <1>2, ControlIds DEF IsPlacement, LegalSet, Shape, PlacingPhases, Bound, Colours, Seats,
     Mirrors
<1>4. /\ p \in PluginRecord(n) /\ p.cells = b.cells /\ p.stones = b.stones /\ p.count = b.count
      /\ p.phase = b.phase /\ p.result = b.result /\ p.current = b.current /\ p.stone = b.stone
  BY <1>2 DEF Mirrors, SamePosition
<1>5. /\ q \in PluginRecord(n) /\ q.cells = Put(b.cells, cell, b.stone) /\ q.count = b.count + 1
      /\ q.stones = b.stones /\ q.result = b.result /\ q.phase = b.phase
      /\ q.current = b.current /\ q.stone = b.stone
  BY <1>2, <1>4, PluginPlaced
<1>6. d = IF CheckWin(n, q.cells, cell, q.stone) THEN [q EXCEPT !.result = WinFor(p.current)]
          ELSE IF q.count = NumCells(n) THEN [q EXCEPT !.result = "DRAW"]
          ELSE PluginTransition(q)
  BY DEF PluginPlace, Placed
<1>7. /\ k.cells = q.cells /\ k.count = q.count /\ k.stones = b.stones
  BY <1>1, <1>5 DEF Lands, Put
<1>8. CheckWin(n, q.cells, cell, q.stone) <=> AnyLine(n, k.cells, b.stone)
  <2>1. ~AnyLine(n, b.cells, b.stone)
    BY <1>2, <1>3 DEF LinesOK
  <2> QED
    BY <1>2, <1>3, <1>5, <1>7, <2>1, WinIsAnyLine
<1>9. b.phase = "PLACE_INITIAL_THREE" => b.count \in 0 .. 2
  BY <1>2 DEF Shape
<1>10. PluginTransition(q) = d =>
           /\ d \in PluginRecord(n) /\ d.cells = k.cells
           /\ d.count = k.count /\ d.stones = k.stones /\ d.result = b.result
           /\ b.phase = "STANDARD" => /\ d.phase = "STANDARD" /\ d.current = Other(b.current)
                                      /\ d.stone = OtherStone(b.stone)
           /\ b.phase # "STANDARD" =>
                IF b.count = 2
                THEN d.phase = "SWAP2_DECISION" /\ d.current = "B" /\ d.stone = "EMPTY"
                ELSE /\ d.phase = b.phase /\ d.current = b.current
                     /\ d.stone = IF b.count = 0 THEN "WHITE" ELSE "BLACK"
  <2> HIDE DEF d
  <2> QED
    BY <1>2, <1>3, <1>4, <1>5, <1>7, <1>9, PluginMovesOn
<1> HIDE DEF d
<1>11. CASE b.phase = "PLACE_INITIAL_THREE"
  <2>1. k.phase = IF b.count = 2 THEN "SWAP2_DECISION" ELSE b.phase
    BY <1>1, <1>9, <1>11 DEF Lands
  <2>2. ~CheckWin(n, q.cells, cell, q.stone)
    BY <1>1, <1>2, <1>3, <1>8, <1>11, <2>1 DEF LinesOK, Shape
  <2>3. q.count # NumCells(n)
    <3>1. NumCells(n) >= 25
      BY DEF NumCells
    <3>2. NumCells(n) \in Nat
      BY CellCount
    <3> HIDE DEF NumCells
    <3> QED
      BY <1>5, <1>9, <1>11, <3>1, <3>2
  <2>4. d = PluginTransition(q)
    BY <1>6, <2>2, <2>3
  <2>5. /\ k.result = "UNDETERMINED"
        /\ k.current = (IF b.count = 2 THEN "B" ELSE "A")
        /\ k.stone = (IF b.count = 2 THEN "EMPTY" ELSE IF b.count = 0 THEN "WHITE" ELSE "BLACK")
    BY <1>2, <1>5, <1>7, <1>9, <1>11, <2>1 DEF Shape
  <2>6. b.current = "A"
    BY <1>2, <1>11 DEF Shape
  <2>7. SamePosition(k, d)
    BY <1>2, <1>9, <1>10, <1>11, <2>1, <2>4, <2>5, <2>6 DEF SamePosition
  <2> QED
    BY <1>10, <1>11, <2>1, <2>4, <2>7 DEF Mirrors, k, d
<1>12. CASE b.phase = "STANDARD"
  <2> DEFINE r == Placed(b, cell)
  <2>1. /\ r.cells = k.cells /\ r.cells[cell] = b.stone /\ r.stones = b.stones
        /\ r.result = "UNDETERMINED"
    BY <1>2, <1>3, <1>5, <1>7 DEF Placed, RefereeRecord, Put
  <2>2. /\ k.phase = "STANDARD" /\ k.result = CheckTerminal(n, r, cell)
        /\ \/ k.result # "UNDETERMINED"
           \/ k.current = Other(b.current) /\ k.stone = OtherStone(b.stone)
    BY <1>1, <1>12 DEF Lands
  <2> HIDE DEF r
  <2>3. /\ Bound(b.stones) /\ b.current \in Seats /\ b.stone = b.stones[b.current]
    BY <1>2, <1>12 DEF Shape
  <2>4. SetWinnerForStone(r, b.stone) = WinFor(b.current)
    BY <2>1, <2>3 DEF SetWinnerForStone, Bound, Seats, WinFor
  <2>5. q.count = NumCells(n) <=> \A c \in Cells(n) : k.cells[c] # "EMPTY"
    <3>1. q.count = Cardinality(Occupied(n, k.cells))
      BY <1>2, <1>3, <1>5, <1>7, OneMore DEF Counted, Put
    <3> QED
      BY <3>1, FullByCount
  <2>6. k.result = IF CheckWin(n, q.cells, cell, q.stone) THEN WinFor(b.current)
                   ELSE IF q.count = NumCells(n) THEN "DRAW" ELSE "UNDETERMINED"
    BY <1>5, <1>7, <2>1, <2>2, <2>4, <2>5 DEF CheckTerminal
  <2>7. /\ WinFor(b.current) # "UNDETERMINED" /\ WinFor(b.current) \in Results
        /\ "DRAW" \in Results
    BY DEF WinFor, Results
  <2>8. CASE k.result = "UNDETERMINED"
    <3>1. d = PluginTransition(q)
      BY <1>6, <2>6, <2>7, <2>8
    <3> QED
      BY <1>2, <1>10, <1>12, <2>2, <2>8, <3>1 DEF Mirrors, SamePosition, k, d
  <2>9. CASE k.result # "UNDETERMINED"
    <3>1. d = [q EXCEPT !.result = k.result] /\ k.result \in Results
      BY <1>4, <1>6, <2>6, <2>7, <2>9
    <3>2. /\ d \in PluginRecord(n) /\ d.cells = k.cells /\ d.count = k.count
          /\ d.stones = k.stones /\ d.phase = k.phase /\ d.result = k.result
      BY <1>5, <1>7, <1>12, <2>2, <3>1 DEF PluginRecord
    <3> QED
      BY <2>2, <2>9, <3>2 DEF Mirrors, SamePosition, k, d
  <2> QED
    BY <2>8, <2>9
<1> QED
  BY <1>3, <1>11, <1>12

\* So does a colour taken at once.
LEMMA PluginChooses ==
    ASSUME NEW n \in Nat, NEW b, NEW p, RefereeOK(n, b), Mirrors(n, p, b),
           NEW action \in LegalSet(n, b), ~IsPlacement(n, action), action # swap2_place_two(n)
    PROVE  Mirrors(n, PluginControl(n, p, action), RefereeApply(n, b, action))
<1> DEFINE k == RefereeApply(n, b, action)
           d == PluginControl(n, p, action)
           w == WhiteSeat(n, action)
           held == [s \in Seats |-> IF s = w THEN "WHITE" ELSE "BLACK"]
<1>1. RefereeOK(n, k) /\ Binds(n, b, action, k)
  BY RefereeStep
<1>2. /\ b.result = "UNDETERMINED" /\ b.phase = "SWAP2_DECISION"
      /\ action \in {swap2_choose_white(n), swap2_choose_black(n)}
  BY DEF Mirrors, LegalSet, IsPlacement, PlacingPhases, RefereeOK, Shape
<1>3. /\ p \in PluginRecord(n) /\ p.cells = b.cells /\ p.count = b.count /\ p.result = b.result
  BY <1>2 DEF Mirrors, SamePosition
<1>4. w \in Seats /\ held \in [Seats -> Stones]
  BY DEF WhiteSeat, Seats, Stones, Colours
<1>5. d = [p EXCEPT !.stones = held, !.phase = "STANDARD", !.current = w, !.stone = "WHITE"]
  BY <1>2, ControlIds DEF PluginControl, WhiteSeat
<1> HIDE DEF k, d, w, held
<1>6. /\ d \in PluginRecord(n) /\ d.cells = p.cells /\ d.count = p.count /\ d.result = p.result
      /\ d.stones = held /\ d.phase = "STANDARD" /\ d.current = w /\ d.stone = "WHITE"
  BY <1>3, <1>4, <1>5 DEF PluginRecord, Phases, Stones, Colours
<1>7. /\ k.cells = b.cells /\ k.count = b.count /\ k.result = b.result /\ k.stones = held
      /\ k.phase = "STANDARD" /\ k.current = w /\ k.stone = "WHITE"
  BY <1>1 DEF Binds, w, held
<1> QED
  BY <1>3, <1>6, <1>7 DEF Mirrors, SamePosition, k, d

\* Every action other than the demand for two more stones keeps the plugin
\* host's board the server's.
LEMMA PluginStep ==
    ASSUME NEW n \in Nat, n >= 5, NEW b, NEW p, RefereeOK(n, b), Counted(n, b), LinesOK(n, b),
           Mirrors(n, p, b), NEW action \in LegalSet(n, b), action # swap2_place_two(n),
           LinesOK(n, RefereeApply(n, b, action))
    PROVE  Mirrors(n, PluginApply(n, p, action), RefereeApply(n, b, action))
<1>1. /\ b.result = "UNDETERMINED" /\ p.result = b.result /\ p.cells = b.cells /\ p.phase = b.phase
  BY DEF Mirrors, SamePosition, LegalSet
<1>2. IsLegalAction(n, p, action)
  BY <1>1 DEF Mirrors, RefereeOK, Shape, LegalSet, IsLegalAction, PlacingPhases, IsPlacement
<1>3. CASE IsPlacement(n, action)
  BY <1>2, <1>3, PluginPlaces DEF PluginApply
<1>4. CASE ~IsPlacement(n, action)
  BY <1>2, <1>4, PluginChooses DEF PluginApply
<1> QED
  BY <1>3, <1>4

-----------------------------------------------------------------------------
(* Whole games. *)

\* The inductive invariant of the game.
IInv == /\ setup \in Setups
        /\ Joint(Size, referee, engine)
        /\ SignatureIsExact

\* The side of the board is a natural number.
LEMMA SizeIsNat ==
    ASSUME setup \in Setups
    PROVE  Size \in Nat
  BY SetupsAreBoards DEF Size

\* The invariant holds in every reachable state.
LEMMA IInvHolds ==
    Spec => []IInv
<1>1. Init => IInv
  BY SizeIsNat, JointInit DEF Init, IInv, Size, SignatureIsExact
<1>2. IInv /\ [Next]_vars => IInv'
  <2> SUFFICES ASSUME IInv, [Next]_vars
               PROVE  IInv'
    OBVIOUS
  <2>1. /\ Size \in Nat /\ setup \in Setups /\ Joint(Size, referee, engine)
        /\ engine.sig = Signature(Size, engine)
    BY SizeIsNat DEF IInv, SignatureIsExact
  <2>2. ASSUME NEW action, Play(action)
        PROVE  IInv'
    <3>1. /\ action \in LegalSet(Size, referee) /\ setup' = setup /\ Size' = Size
          /\ referee' = RefereeApply(Size, referee, action)
          /\ engine' = EngineApply(Size, engine, action)
      BY <2>2 DEF Play, Size
    <3>2. Joint(Size, referee', engine')
      BY <2>1, <3>1, JointStep
    <3>3. engine'.sig = Signature(Size, engine')
      <4>1. action \in GetLegalActions(Size, engine) /\ EngineOK(Size, engine)
        BY <2>1, <3>1, SameActions DEF Joint
      <4> QED
        BY <2>1, <3>1, <4>1, SignatureStep
    <3> QED
      BY <2>1, <3>1, <3>2, <3>3 DEF IInv, SignatureIsExact
  <2>3. CASE UNCHANGED vars
    BY <2>1, <2>3 DEF IInv, vars, Size, SignatureIsExact
  <2> QED
    BY <2>2, <2>3 DEF Next, Placing, Deciding
<1> QED
  BY <1>1, <1>2, PTL DEF Spec

\* The engine's board (board.cpp) stays in the server's (board.py) position
\* and offers the same actions throughout every game, on boards of every size.
THEOREM EngineIsTheReferee == Spec => []EngineAgrees
<1>1. IInv => EngineAgrees
  BY SizeIsNat, SameActions DEF IInv, Joint, EngineAgrees
<1> QED
  BY <1>1, IInvHolds, PTL

\* The signature that Apply maintains incrementally is that of the position in
\* every game.
THEOREM SignatureIsThePosition == Spec => []SignatureIsExact
<1>1. IInv => SignatureIsExact
  BY DEF IInv
<1> QED
  BY <1>1, IInvHolds, PTL

\* In every position of every game, Retract undoes any legal action.
THEOREM RetractIsExact == Spec => []RetractUndoesApply
<1>1. IInv => RetractUndoesApply
  <2> SUFFICES ASSUME IInv, NEW action \in Explored
               PROVE  Retract(Size, EngineApply(Size, engine, action), action) = engine
    BY DEF RetractUndoesApply
  <2>1. /\ Size \in Nat /\ EngineOK(Size, engine)
        /\ action \in GetLegalActions(Size, engine)
    BY SizeIsNat DEF IInv, Joint, Explored
  <2> QED
    BY <2>1, EngineStep
<1> QED
  BY <1>1, IInvHolds, PTL

\* In every position of every game, GetChildCurrentPlayer names the seat that
\* Apply makes current.
THEOREM ForecastIsExact == Spec => []ChildForecastIsExact
<1>1. IInv => ChildForecastIsExact
  <2> SUFFICES ASSUME IInv, NEW action \in Explored
               PROVE  GetChildCurrentPlayer(Size, engine, action)
                        = EngineApply(Size, engine, action).current
    BY DEF ChildForecastIsExact
  <2>1. /\ Size \in Nat /\ EngineOK(Size, engine)
        /\ action \in GetLegalActions(Size, engine)
    BY SizeIsNat DEF IInv, Joint, Explored
  <2> QED
    BY <2>1, EngineStep
<1> QED
  BY <1>1, IInvHolds, PTL

\* The inductive invariant with the lines and the plugin host's board.
GameInv == /\ IInv
           /\ LinesOK(Size, referee)
           /\ extra \in BOOLEAN
           /\ ~extra => Mirrors(Size, plugin, referee)

\* The server's boards have room for a line.
LEMMA SizeIsEnough ==
    ASSUME setup \in Setups
    PROVE  Size \in Nat /\ Size >= 5
  BY SetupsAreBoards DEF Size, WinLength

\* A new board has no line.
LEMMA LinesInit ==
    ASSUME NEW n \in Nat
    PROVE  LinesOK(n, RefereeInit(n))
<1> DEFINE b == RefereeInit(n)
<1>1. /\ b.count = 0 /\ b.phase = "PLACE_INITIAL_THREE" /\ b.result = "UNDETERMINED"
  BY DEF RefereeInit
<1>2. RefereeOK(n, b) /\ Counted(n, b)
  BY JointInit DEF Joint
<1> HIDE DEF b
<1>3. BothColours(n, b)
  BY <1>1 DEF BothColours
<1>4. \A s \in Colours : ~AnyLine(n, b.cells, s)
  BY <1>1, <1>2, <1>3, OpeningHasNoLine DEF RefereeOK
<1>5. \A seat \in Seats : b.result # WinFor(seat)
  BY <1>1 DEF WinFor
<1> QED
  BY <1>3, <1>4, <1>5 DEF LinesOK, b

\* It holds in every reachable state.
LEMMA GameInvHolds ==
    Spec => []GameInv
<1>1. Init => GameInv
  <2> SUFFICES ASSUME Init, IInv PROVE GameInv
    BY SizeIsNat, JointInit DEF Init, IInv, Size, SignatureIsExact
  <2>1. /\ Size \in Nat /\ extra = FALSE
        /\ referee = RefereeInit(Size) /\ plugin = PluginInit(Size)
    BY SizeIsNat DEF Init, Size
  <2> QED
    BY <2>1, LinesInit, MirrorsInit DEF GameInv
<1>2. GameInv /\ IInv' /\ [Next]_vars => GameInv'
  <2> SUFFICES ASSUME GameInv, IInv', [Next]_vars
               PROVE  GameInv'
    OBVIOUS
  <2>1. /\ Size \in Nat /\ Size >= 5 /\ RefereeOK(Size, referee) /\ Counted(Size, referee)
        /\ LinesOK(Size, referee) /\ extra \in BOOLEAN
        /\ ~extra => Mirrors(Size, plugin, referee)
    BY SizeIsEnough DEF GameInv, IInv, Joint
  <2>2. ASSUME NEW action, Play(action)
        PROVE  GameInv'
    <3>1. /\ action \in LegalSet(Size, referee) /\ Size' = Size
          /\ referee' = RefereeApply(Size, referee, action)
          /\ plugin' = PluginApply(Size, plugin, action)
          /\ extra' = (extra \/ action = swap2_place_two(Size))
      BY <2>2 DEF Play, Size
    <3>2. Counted(Size, referee')
      BY <3>1 DEF IInv, Joint
    <3>3. LinesOK(Size, referee')
      BY <2>1, <3>1, <3>2, LinesStep
    <3>4. ASSUME ~extra' PROVE Mirrors(Size, plugin', referee')
      <4>1. ~extra /\ action # swap2_place_two(Size)
        BY <2>1, <3>1, <3>4
      <4> QED
        BY <2>1, <3>1, <3>3, <4>1, PluginStep
    <3>5. extra' \in BOOLEAN
      BY <2>1, <3>1
    <3> QED
      BY <3>1, <3>3, <3>4, <3>5 DEF GameInv
  <2>3. CASE UNCHANGED vars
    BY <2>1, <2>3 DEF GameInv, vars, Size
  <2> QED
    BY <2>2, <2>3 DEF Next, Placing, Deciding
<1> QED
  BY <1>1, <1>2, IInvHolds, PTL DEF Spec

\* On boards of every size of at least five and in every game, the server
\* (board.py) declares a winner exactly when that seat's colour has a maximal run
\* of five: no win is missed, and neither an overline nor the opening counts.
THEOREM WinnersAreRight == Spec => []WinnerHasExactFive
<1>1. GameInv => WinnerHasExactFive
  <2> SUFFICES ASSUME GameInv, NEW seat \in Seats
               PROVE  (referee.result = WinFor(seat)) <=>
                        /\ referee.stones[seat] # "EMPTY"
                        /\ ExactFive(referee, referee.stones[seat])
    BY DEF WinnerHasExactFive
  <2>1. Size \in Nat /\ Size >= 5 /\ RefereeOK(Size, referee) /\ LinesOK(Size, referee)
    BY SizeIsEnough DEF GameInv, IInv, Joint
  <2>2. ExactFive(referee, referee.stones[seat])
          <=> AnyLine(Size, referee.cells, referee.stones[seat])
    BY <2>1, FiveSomewhere DEF ExactFive
  <2> QED
    BY <2>1, <2>2, WinnerHasTheLine
<1> QED
  BY <1>1, GameInvHolds, PTL

\* In every game in which the responder takes a colour at once, the plugin
\* host's board (gomoku_types.cpp) stays the server's (board.py), although it
\* looks for wins in the opening too, gives a win to the seat that moved and not
\* to the holder of the colour, and finds a full board by its counter.
THEOREM PluginIsTheReferee == Spec => []PluginAgreesOnDirectChoice
<1>1. GameInv => PluginAgreesOnDirectChoice
  BY DEF GameInv, Mirrors, PluginAgreesOnDirectChoice
<1> QED
  BY <1>1, GameInvHolds, PTL

\* The rules of the instance are the rules.
LEMMA SameRules ==
    /\ Abstract!NewGame = NewGame
    /\ \A v : Abstract!Successors(v) = Successors(v)
<1>1. Abstract!NewGame = NewGame
  BY DEF Abstract!NewGame, NewGame
<1>2. ASSUME NEW v
      PROVE  Abstract!Successors(v) = Successors(v)
  BY DEF Abstract!Successors, Successors, Abstract!PlaceInitial, PlaceInitial,
     Abstract!Decide, Decide, Abstract!PlaceTwo, PlaceTwo, Abstract!PlayOn, PlayOn,
     Abstract!PlayLast, PlayLast, Abstract!Other, Other, Abstract!WinFor, WinFor
<1> QED
  BY <1>1, <1>2

\* The server's board implements the Swap2 game: board.py's phases, turns and
\* results are those of the rules, and only the player who moves can win.
THEOREM RefereePlaysSwap2 == Spec => ImplementsSwap2
<1>1. Init => Abstract!Init
  BY SizeIsNat, RefereeInitOK, SameRules DEF Init, Abstract!Init, Size
<1>2. IInv /\ [Next]_vars => [Abstract!Next]_(View(referee))
  <2> SUFFICES ASSUME IInv, [Next]_vars
               PROVE  \/ View(referee') \in Successors(View(referee))
                      \/ referee' = referee
    BY SameRules DEF Abstract!Next
  <2>1. Size \in Nat /\ RefereeOK(Size, referee)
    BY SizeIsNat DEF IInv, Joint
  <2>2. ASSUME NEW action, Play(action)
        PROVE  View(referee') \in Successors(View(referee))
    BY <2>1, <2>2, RefereeStep DEF Play
  <2> QED
    BY <2>2 DEF Next, Placing, Deciding, vars
<1> QED
  BY <1>1, <1>2, IInvHolds, PTL DEF Spec, ImplementsSwap2, Abstract!Spec
=============================================================================
