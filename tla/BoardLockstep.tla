---------------------------- MODULE BoardLockstep ----------------------------
(***************************************************************************)
(* One game replayed on the repository's three boards: every action the    *)
(* match server's board accepts is applied to the search engine's board    *)
(* (the match client rebuilds it from the server's move list) and to the   *)
(* plugin host's board.                                                    *)
(*                                                                         *)
(* Setups is the environment: each setup fixes the side of the board and,  *)
(* for each colour, where its stones are tried: the cells of a script in   *)
(* order, or, without a script, any of the free cells.  Wins, overlines    *)
(* and full boards then happen on boards of a size the code accepts.       *)
(***************************************************************************)
EXTENDS Swap2, Sequences, RefereeBoard, EngineBoard, PluginBoard

CONSTANT Setups

ASSUME SetupsAreBoards ==
    \A s \in Setups : /\ s.size \in Nat /\ s.size >= WinLength
                      /\ s.free \subseteq Cells(s.size)
                      /\ \A colour \in Colours : s.script[colour] \in Seq(Cells(s.size))

VARIABLES setup,    \* the environment, fixed at the start
          referee,  \* board.py
          engine,   \* board.cpp
          plugin,   \* gomoku_types.cpp
          extra     \* whether the responder asked for two more stones

vars == <<setup, referee, engine, plugin, extra>>

Size == setup.size

Count(b, stone) == Cardinality({c \in Cells(Size) : b.cells[c] = stone})

Tried ==
    LET stone == referee.stone
        script == IF stone = "EMPTY" THEN <<>> ELSE setup.script[stone]
    IN  IF script = <<>> THEN setup.free
        ELSE {script[i] : i \in DOMAIN script \cap {Count(referee, stone) + 1}}

Init == /\ setup \in Setups
        /\ referee = RefereeInit(setup.size)
        /\ engine = EngineInit(setup.size)
        /\ plugin = PluginInit(setup.size)
        /\ extra = FALSE

Play(action) ==
    /\ action \in LegalSet(Size, referee)
    /\ referee' = RefereeApply(Size, referee, action)
    /\ engine' = EngineApply(Size, engine, action)
    /\ plugin' = PluginApply(Size, plugin, action)
    /\ extra' = (extra \/ action = swap2_place_two(Size))
    /\ UNCHANGED setup

Placing == \E cell \in Tried : Play(cell)

Deciding == \E action \in LegalSet(Size, referee) :
                ~IsPlacement(Size, action) /\ Play(action)

Next == Placing \/ Deciding

Spec == Init /\ [][Next]_vars

-----------------------------------------------------------------------------
SamePosition(b, c) ==
    /\ b.cells = c.cells /\ b.stones = c.stones /\ b.count = c.count
    /\ b.phase = c.phase /\ b.result = c.result
    /\ b.result = "UNDETERMINED" => b.current = c.current /\ b.stone = c.stone

\* The engine that replays the server's move list reaches the server's
\* position and offers the same actions; after the last stone alone the two
\* differ in whose turn it would be.
EngineAgrees ==
    /\ SamePosition(referee, engine)
    /\ LegalSet(Size, referee) = GetLegalActions(Size, engine)

\* In a game where the responder takes a colour at once, the plugin host's
\* board stays the server's.
PluginAgreesOnDirectChoice == ~extra => SamePosition(referee, plugin)

\* The plugin host's board stays the server's in every game: what the
\* opening rules, the application's own prompt for the pair ("W-B") and the
\* two other boards say.
PluginAgrees == SamePosition(referee, plugin)

\* The legal actions that are looked at: the cells of the setup and the
\* control actions.
Explored == GetLegalActions(Size, engine) \ (Cells(Size) \ Tried)

\* Whatever legal action the search tries, retracting it restores the board
\* it started from, field by field and signature included, although Retract
\* has only the stone count to infer the earlier phase from.
RetractUndoesApply ==
    \A action \in Explored :
        Retract(Size, EngineApply(Size, engine, action), action) = engine

\* The seat the search credits a child to, computed before the action is
\* applied, is the seat the board has once it is.
ChildForecastIsExact ==
    \A action \in Explored :
        GetChildCurrentPlayer(Size, engine, action)
            = EngineApply(Size, engine, action).current

\* The incrementally maintained signature holds exactly the features of the
\* position, so that equal signatures mean equal positions for the cache.
SignatureIsExact == engine.sig = Signature(Size, engine)

ExactFive(b, stone) ==
    \E c \in Cells(Size) :
        b.cells[c] = stone /\ ExactFiveThrough(Size, b.cells, c, stone)

\* A seat has won exactly when its colour has a maximal run of five somewhere
\* on the board: no win is missed when it happens, and neither an overline
\* nor the opening stones ever count.
WinnerHasExactFive ==
    \A seat \in Seats :
        (referee.result = WinFor(seat)) <=>
            /\ referee.stones[seat] # "EMPTY"
            /\ ExactFive(referee, referee.stones[seat])

-----------------------------------------------------------------------------
View(b) == [phase |-> b.phase, count |-> b.count, plies |-> b.plies,
            current |-> b.current, result |-> b.result]

Abstract == INSTANCE Swap2Game WITH view <- View(referee)

\* The server's board implements the Swap2 game: whoever places the winning
\* stone is the winner although the code goes by the colour of the stone.
ImplementsSwap2 == Abstract!Spec
=============================================================================
