--------------------------- MODULE GameController ---------------------------
(***************************************************************************)
(* The desktop application (app/src): the game controller on the Qt        *)
(* thread, the search thread it starts for an engine's turn, the results   *)
(* that thread posts back to the event loop, the SQLite history and the    *)
(* replay controller that reads it.                                        *)
(*                                                                         *)
(* The Qt thread is atomic between the points where it joins the search    *)
(* thread; qt names the rest of the handler that is waiting there.         *)
(***************************************************************************)
EXTENDS PluginBoard, Sequences, SequencesExt, Functions

CONSTANTS
    Side,        \* the side of the board
    Scripts,     \* the order in which each colour considers the cells
    Plies,       \* bound on the length of the first, second, ... match; their
                 \* number bounds the calls of startMatch
    MaxFaults    \* bound on the database writes that fail

ASSUME DesktopConstants ==
    /\ Side \in Nat \ {0} /\ Plies \in Seq(Nat) /\ MaxFaults \in Nat
    /\ Scripts # {}
    /\ \A s \in Scripts : s \in [Colours -> Seq(Cells(Side))]

Kinds == {"human", "engine"}
NoId == -1

VARIABLES
    \* the controller
    board, move_history, over, epoch, outcome, players, opening_path, dbId, qt,
    \* the search thread and the lambdas queued on the Qt event loop
    ai, posted,
    \* the database and what the history screen lists of it
    rows, nextId, listed,
    \* the live board on the screen, and the replay screen
    view, replay,
    \* not in the program: the script of the match, the matches started, the
    \* actions each recorded match really took, the matches with a failed write
    script, started, played, faults

controller == <<board, move_history, over, epoch, outcome, players,
                opening_path, dbId>>
database == <<rows, nextId, listed>>
ghosts == <<script, started, played, faults>>
vars == <<controller, qt, ai, posted, database, view, replay, ghosts>>

-----------------------------------------------------------------------------
(* The board on the screen: the stone, the move number and the marker of    *)
(* the latest move of every cell.                                           *)

Blank == [c \in Cells(Side) |-> [stone |-> "EMPTY", number |-> 0, latest |-> FALSE]]

\* The number move_num gives to action i: how many placements there are up to it.
Placements(actions, i) == Cardinality({j \in 1 .. i : IsPlacement(Side, actions[j])})

SyncFromBoardState(cells, latest, actions) ==
    [c \in Cells(Side) |->
        [stone  |-> cells[c],
         number |-> LET at == {i \in DOMAIN actions : actions[i] = c}
                    IN  IF at = {} THEN 0 ELSE Placements(actions, Max(at)),
         latest |-> c = latest]]

\* The replay screen puts the stored stones down one after the other; only
\* the move the replay stands on is marked, and only if it placed a stone.
Reconstruct(moves, ply) ==
    LET actions == [i \in DOMAIN moves |-> moves[i].action]
        Put(v, i) == [v EXCEPT ![actions[i]] = [stone  |-> moves[i].stone,
                                                number |-> Placements(actions, i),
                                                latest |-> i = ply]]
        v[i \in 0 .. ply] ==
            IF i = 0 THEN Blank
            ELSE IF IsPlacement(Side, actions[i]) THEN Put(v[i - 1], i) ELSE v[i - 1]
    IN  v[ply]

-----------------------------------------------------------------------------
(* The database.  A write that fails leaves the tables as they are.         *)

NewRow == [result |-> "UNDETERMINED", winner |-> "", reason |-> "in_progress",
           total_plies |-> 0, opening_path |-> 0, moves |-> <<>>]

\* An INSERT under the next id.
Insert(table, id, row) ==
    [i \in DOMAIN table \cup {id} |-> IF i = id THEN row ELSE table[i]]

\* A write the database refuses, or one that reports success.
Write(id, newRows) ==
    \/ rows' = newRows /\ UNCHANGED faults
    \/ /\ Cardinality(faults) < MaxFaults
       /\ id \notin faults
       /\ rows' = rows
       /\ faults' = faults \cup {id}

\* With foreign keys on, a move of a deleted match is refused; the UPDATE of a
\* deleted match changes no row.
RecordMove(id, move) ==
    IF id \in DOMAIN rows
    THEN Write(id, [rows EXCEPT ![id].moves = Append(@, move)])
    ELSE UNCHANGED <<rows, faults>>

FinishMatch(id, result, winner, reason) ==
    IF id \in DOMAIN rows
    THEN Write(id, [rows EXCEPT ![id] =
             [@ EXCEPT !.result = result, !.winner = winner, !.reason = reason,
                       !.total_plies = Len(move_history),
                       !.opening_path = opening_path]])
    ELSE UNCHANGED <<rows, faults>>

\* The newest match first; far fewer than the limit of 100.
GetRecentMatches(table) ==
    LET ids == SetToSortSeq(DOMAIN table, LAMBDA i, j : i > j)
    IN  [i \in DOMAIN ids |-> [match_id |-> ids[i], row |-> table[ids[i]]]]

\* In the order of their plies, which is the order they were recorded in.
GetMovesForMatch(id) == rows[id].moves

\* The moves of the match go with it (ON DELETE CASCADE).
DeleteMatch(id) == Restrict(rows, DOMAIN rows \ {id})

-----------------------------------------------------------------------------
(* The controller.                                                          *)

Idle == [pc |-> "none", epoch |-> 0, about |-> <<>>]

\* std::thread::join: the search thread does not exist or has returned.
Joined == ai.pc \in {"none", "returned"}

isHumanTurn == ~over /\ players[board.current] = "human"

NoOutcome == [result |-> "UNDETERMINED", winner |-> "", reason |-> ""]

Init ==
    /\ board = PluginInit(Side) /\ move_history = <<>> /\ over = TRUE
    /\ epoch = 0 /\ outcome = NoOutcome /\ opening_path = 0 /\ dbId = NoId
    /\ players = [s \in Seats |-> "none"]
    /\ qt = "idle" /\ ai = Idle /\ posted = <<>>
    /\ rows = <<>> /\ nextId = 1 /\ listed = <<>>
    /\ view = Blank
    /\ replay = [id |-> NoId, moves |-> <<>>, ply |-> 0, playing |-> FALSE,
                 view |-> Blank]
    /\ script \in Scripts /\ started = 0 /\ played = <<>> /\ faults = {}

\* A plausible slip: the handler does not wait for the search thread.
MutConcludeMatch(result, winner, reason) ==
    /\ over' = TRUE
    /\ epoch' = epoch + 1
    /\ outcome' = [result |-> result, winner |-> winner, reason |-> reason]
    /\ qt' = "idle"

\* ConcludeMatch up to the join: the match is over and every search result
\* still on its way belongs to an older epoch.
ConcludeMatch(result, winner, reason) ==
    /\ over' = TRUE
    /\ epoch' = epoch + 1
    /\ outcome' = [result |-> result, winner |-> winner, reason |-> reason]
    /\ qt' = "conclude"

\* The rest of ConcludeMatch, once the search thread is joined.
Concluded ==
    /\ qt = "conclude" /\ Joined
    /\ ai' = Idle
    /\ qt' = "idle"
    /\ IF dbId > 0
       THEN FinishMatch(dbId, outcome.result, outcome.winner, outcome.reason)
       ELSE UNCHANGED <<rows, faults>>
    /\ dbId' = NoId
    /\ listed' = GetRecentMatches(rows')
    /\ UNCHANGED <<board, move_history, over, epoch, outcome, players,
                   opening_path, posted, nextId, view, replay, script, started,
                   played>>

\* TriggerAiTurnIfNeeded: the previous search thread is joined and a new one
\* started with an epoch of its own.
TriggerAiTurn ==
    /\ qt = "trigger" /\ Joined
    /\ epoch' = epoch + 1
    /\ ai' = [pc |-> "searching", epoch |-> epoch + 1,
              about |-> <<started, Len(move_history)>>]
    /\ qt' = "idle"
    /\ UNCHANGED <<board, move_history, over, outcome, players, opening_path,
                   dbId, posted, database, view, replay, ghosts>>

\* A plausible slip: only a match that starts with an engine triggers it.
MutNextTurn(seat) == "idle"

NextTurn(seat) == IF players[seat] = "engine" THEN "trigger" ELSE "idle"

\* The path a match took through the opening, from its first control action.
GetOpeningPathFromAction(action) ==
    CASE action = swap2_choose_white(Side) -> 1
      [] action = swap2_choose_black(Side) -> 2
      [] action = swap2_place_two(Side)    -> 3
      [] OTHER -> 0

\* A plausible slip: the stone is read after the action is applied.
MutStoneOf(action) == PluginApply(Side, board, action).stone

\* The stone a move is recorded with, read before the action is applied.
StoneOf(action) == board.stone

ProcessMove(action) ==
    IF ~IsLegalAction(Side, board, action)
    THEN /\ ConcludeMatch(WinFor(Other(board.current)), Other(board.current),
                          "illegal_action")
         /\ UNCHANGED <<board, move_history, opening_path, rows, faults, played, view>>
    ELSE LET after == PluginApply(Side, board, action)
         IN  /\ board' = after
             /\ move_history' = Append(move_history, action)
             /\ opening_path' = IF opening_path = 0
                                THEN GetOpeningPathFromAction(action)
                                ELSE opening_path
             /\ view' = SyncFromBoardState(after.cells, action, move_history')
             /\ IF dbId > 0
                THEN /\ RecordMove(dbId, [ply    |-> Len(move_history'),
                                          action |-> action,
                                          stone  |-> StoneOf(action)])
                     /\ played' = [played EXCEPT ![dbId] = move_history']
                ELSE UNCHANGED <<rows, faults, played>>
             /\ IF after.result # "UNDETERMINED"
                THEN ConcludeMatch(after.result,
                         CASE after.result = "PLAYER_A_WIN" -> "A"
                           [] after.result = "PLAYER_B_WIN" -> "B"
                           [] OTHER -> "",
                         IF after.result = "DRAW" THEN "draw" ELSE "five_in_a_row")
                ELSE /\ qt' = NextTurn(after.current)
                     /\ UNCHANGED <<over, epoch, outcome>>

\* What a player may try: the next cell of the script, or a control action.
Considered ==
    LET free == SelectSeq(script[board.stone], LAMBDA c : board.cells[c] = "EMPTY")
    IN  IF started = 0 \/ Len(move_history) >= Plies[started] THEN {}
        ELSE IF board.phase \in PlacingPhases
        THEN {free[i] : i \in 1 .. IF free = <<>> THEN 0 ELSE 1}
        ELSE swap2_choose_white(Side) .. choose_black(Side)

\* A plausible slip: a click is taken while an engine is to move.
MutSubmit(action) ==
    /\ qt = "idle" /\ ~over
    /\ IsLegalAction(Side, board, action)
    /\ ProcessMove(action)
    /\ UNCHANGED <<players, dbId, ai, posted, nextId, listed, replay, script, started>>

\* submitBoardClick and submitSwap2Action: an illegal click does nothing.
Submit(action) ==
    /\ qt = "idle" /\ isHumanTurn
    /\ IsLegalAction(Side, board, action)
    /\ ProcessMove(action)
    /\ UNCHANGED <<players, dbId, ai, posted, nextId, listed, replay, script, started>>

\* The button names no seat: a human playing an engine resigns, otherwise the
\* seat to move does.
resigning ==
    LET humans == {s \in Seats : players[s] = "human"}
    IN  IF Cardinality(humans) = 1 THEN CHOOSE s \in humans : TRUE ELSE board.current

resignMatch ==
    /\ qt = "idle" /\ ~over
    /\ ConcludeMatch(WinFor(Other(resigning)), Other(resigning), "resignation")
    /\ UNCHANGED <<board, move_history, players, opening_path, dbId, ai, posted,
                   database, view, replay, ghosts>>

\* abortMatch up to the join; next is what its caller goes on with.
Abort(next) ==
    /\ qt = "idle" /\ ~over
    /\ over' = TRUE
    /\ epoch' = epoch + 1
    /\ qt' = next
    /\ UNCHANGED <<board, move_history, outcome, players, opening_path, dbId, ai,
                   posted, database, view, replay, ghosts>>

abortMatch == Abort("abort")

\* A plausible slip: the abandoned match is not finished.
MutAbortedUnfinished ==
    /\ qt \in {"abort", "restart"} /\ Joined
    /\ ai' = Idle
    /\ qt' = IF qt = "restart" THEN "setup" ELSE "idle"
    /\ dbId' = NoId
    /\ listed' = GetRecentMatches(rows)
    /\ UNCHANGED <<board, move_history, over, epoch, outcome, players, rows,
                   opening_path, posted, nextId, view, replay, ghosts>>

\* The rest of abortMatch, once the search thread is joined.
Aborted ==
    /\ qt \in {"abort", "restart"} /\ Joined
    /\ ai' = Idle
    /\ qt' = IF qt = "restart" THEN "setup" ELSE "idle"
    /\ IF dbId > 0
       THEN /\ FinishMatch(dbId, "UNDETERMINED", "", "aborted")
            /\ listed' = GetRecentMatches(rows')
       ELSE UNCHANGED <<rows, faults, listed>>
    /\ dbId' = NoId
    /\ UNCHANGED <<board, move_history, over, epoch, outcome, players,
                   opening_path, posted, nextId, view, replay, script, started,
                   played>>

\* startMatch begins with abortMatch, which returns at once when no match is
\* running ...
startMatch ==
    /\ started < Len(Plies)
    /\ \/ Abort("restart")
       \/ /\ qt = "idle" /\ over
          /\ qt' = "setup"
          /\ UNCHANGED <<controller, ai, posted, database, view, replay, ghosts>>

\* ... and then resets everything before the players are made.
ResetMatch ==
    /\ qt = "setup"
    /\ board' = PluginInit(Side)
    /\ move_history' = <<>>
    /\ opening_path' = 0
    /\ epoch' = epoch + 1
    /\ view' = Blank
    /\ started' = started + 1
    /\ script' \in Scripts
    /\ UNCHANGED <<ai, posted, listed, replay, faults>>

\* A human is always made, an engine's plugin may fail.
CreatePlayer(kind) == IF kind = "engine" THEN {kind, "none"} ELSE {kind}

\* A plugin that cannot make its player leaves the match over and unrecorded;
\* the player of seat B is made only after that of seat A.
SetupFails ==
    /\ ResetMatch
    /\ \E kinds \in [Seats -> Kinds] :
          \/ "none" \in CreatePlayer(kinds["A"]) /\ players' = [A |-> "none", B |-> "none"]
          \/ "none" \in CreatePlayer(kinds["B"]) /\ players' = [A |-> kinds["A"], B |-> "none"]
    /\ outcome' = [NoOutcome EXCEPT !.reason = "plugin_initialization_failed"]
    /\ dbId' = NoId
    /\ qt' = "idle"
    /\ UNCHANGED <<over, rows, nextId, played>>

\* The match starts with or without a row of its own in the database.
SetupMatch(kinds) ==
    /\ ResetMatch
    /\ players' = kinds
    /\ outcome' = NoOutcome
    /\ over' = FALSE
    /\ qt' = IF kinds["A"] = "engine" THEN "trigger" ELSE "idle"
    /\ \/ /\ rows' = Insert(rows, nextId, NewRow)
          /\ played' = Insert(played, nextId, <<>>)
          /\ dbId' = nextId
          /\ nextId' = nextId + 1
       \/ dbId' = NoId /\ UNCHANGED <<rows, played, nextId>>

-----------------------------------------------------------------------------
(* The search thread: InquireAction of the engine, then the result is       *)
(* queued for the Qt thread with the epoch of the search.                   *)

\* An engine answers with a legal action (a cancelled search with the best so
\* far), with an illegal one, or -1 when it has none or cannot be asked.
EngineAnswers == Considered \cup {-1}

InquireAction ==
    /\ ai.pc = "searching"
    /\ \E action \in EngineAnswers :
           posted' = Append(posted, [action |-> action, epoch |-> ai.epoch,
                                     about |-> ai.about])
    /\ ai' = [ai EXCEPT !.pc = "returned"]
    /\ UNCHANGED <<controller, qt, database, view, replay, ghosts>>

\* A plausible slip: the epoch is not compared.
MutIsCurrent(result) == ~over

\* The queued lambda acts only in the epoch it was searched in.
IsCurrent(result) == result.epoch = epoch /\ ~over

DeliverResult ==
    /\ qt = "idle" /\ posted # <<>>
    /\ posted' = Tail(posted)
    /\ IF IsCurrent(Head(posted))
       THEN ProcessMove(Head(posted).action)
       ELSE UNCHANGED <<board, move_history, over, epoch, outcome, opening_path,
                        qt, rows, view, played, faults>>
    /\ UNCHANGED <<players, dbId, ai, nextId, listed, replay, script, started>>

-----------------------------------------------------------------------------
(* The history and replay screens, on the Qt thread like everything above.  *)

Browse(r) ==
    /\ qt = "idle" /\ over /\ started = Len(Plies)
    /\ replay' = r
    /\ UNCHANGED <<controller, qt, ai, posted, database, view, ghosts>>

deleteMatch(id) ==
    /\ qt = "idle" /\ over
    /\ rows' = DeleteMatch(id)
    /\ listed' = GetRecentMatches(rows')
    /\ UNCHANGED <<controller, qt, ai, posted, nextId, view, replay, ghosts>>

loadMatch(id) ==
    Browse([id |-> id, moves |-> GetMovesForMatch(id), ply |-> 0, playing |-> FALSE,
            view |-> Blank])

\* seekToPly clamps the ply and rebuilds the position.
Seek(r, ply) ==
    LET target == Min({Max({ply, 0}), Len(r.moves)})
    IN  IF target = r.ply THEN r
        ELSE [r EXCEPT !.ply = target, !.view = Reconstruct(r.moves, target)]

Paused(r) == [r EXCEPT !.playing = FALSE]

seekToPly(ply) == Browse(Seek(replay, ply))
jumpToStart    == Browse(Seek(Paused(replay), 0))
jumpToEnd      == Browse(Seek(Paused(replay), Len(replay.moves)))
stepBackward   == Browse(Seek(Paused(replay), replay.ply - 1))

\* stepForward keeps playing until the last move.
Forward(r) == IF r.ply < Len(r.moves) THEN Seek(r, r.ply + 1) ELSE Paused(r)

stepForward == Browse(Forward(replay))

\* play starts again from the beginning at the end of the match.
togglePlay ==
    Browse(IF replay.playing THEN Paused(replay)
           ELSE [(IF replay.ply >= Len(replay.moves) THEN Seek(replay, 0)
                  ELSE replay) EXCEPT !.playing = TRUE])

OnPlayTimerTimeout == replay.playing /\ Browse(Forward(replay))

-----------------------------------------------------------------------------
UserSteps ==
    \/ startMatch
    \/ \E action \in Considered : Submit(action)
    \/ resignMatch
    \/ abortMatch
    \/ \E id \in DOMAIN rows : deleteMatch(id) \/ loadMatch(id)
    \/ \E ply \in -1 .. Len(replay.moves) + 1 : seekToPly(ply)
    \/ jumpToStart \/ jumpToEnd \/ stepBackward \/ stepForward \/ togglePlay

\* What goes on without the user: the rest of a handler, the search thread,
\* the event loop.
SystemSteps ==
    \/ Concluded \/ Aborted \/ TriggerAiTurn
    \/ SetupFails \/ \E kinds \in [Seats -> Kinds] : SetupMatch(kinds)
    \/ InquireAction \/ DeliverResult \/ OnPlayTimerTimeout

Next == UserSteps \/ SystemSteps

\* The search returns, the event loop delivers what is queued, and a handler
\* whose join is over goes on.
Fairness ==
    /\ WF_vars(InquireAction)
    /\ WF_vars(DeliverResult)
    /\ WF_vars(Concluded) /\ WF_vars(Aborted) /\ WF_vars(TriggerAiTurn)

Spec == Init /\ [][Next]_vars /\ Fairness

-----------------------------------------------------------------------------
(* Properties.                                                              *)

\* The search thread reads board_state_ and its player by reference, without a
\* lock: until it returns, no handler of the Qt thread changes either.
SearchOwnsItsInputs ==
    [][ai.pc = "searching" => board' = board /\ players' = players]_vars

\* The std::thread of a finished or abandoned match is joined before the Qt
\* thread goes back to its event loop (a joinable thread would terminate the
\* process when the controller is destroyed).
NoThreadOutlivesTheMatch == over /\ qt = "idle" => ai.pc = "none"

\* A search result moves the game, or ends it, only in the match and at the
\* ply it was searched for, however late it is delivered.
ResultsAreNeverStale ==
    [][Len(posted') < Len(posted) /\ <<board, over>>' # <<board, over>>
       => Head(posted).about = <<started, Len(move_history)>>]_vars

\* Every row of the database of which no write failed holds exactly the
\* actions its match took, and is in progress only while it is played.
RecordsMatchTheGame ==
    \A id \in DOMAIN rows \ faults :
        /\ rows[id].moves = [i \in 1 .. Len(played[id]) |->
               [ply |-> i, action |-> played[id][i], stone |-> rows[id].moves[i].stone]]
        /\ id # dbId => /\ rows[id].reason # "in_progress"
                        /\ rows[id].total_plies = Len(rows[id].moves)

\* The position after the first k actions of a match.
BoardAfter(actions) ==
    LET b[i \in 0 .. Len(actions)] ==
          IF i = 0 THEN PluginInit(Side) ELSE PluginApply(Side, b[i - 1], actions[i])
    IN  b[Len(actions)]

\* The replay screen shows, at every ply, what the live screen showed there:
\* the stones rebuilt from the database against those of the rules.
ReplayMatchesTheGame ==
    replay.id \in DOMAIN played \ faults =>
        LET actions == SubSeq(played[replay.id], 1, replay.ply)
        IN  replay.view = IF actions = <<>> THEN Blank
                          ELSE SyncFromBoardState(BoardAfter(actions).cells,
                                                  actions[replay.ply], actions)

EngineToMove == ~over /\ players[board.current] = "engine"

\* An engine whose turn it is answers and its answer reaches the board: the
\* match comes back to a human or to its end, two engines play it to the end.
EnginesKeepPlaying == EngineToMove ~> ~EngineToMove
=============================================================================
