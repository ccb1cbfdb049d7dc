# Gomoku: a TLA+ verification of the rules, the servers and the engine

The repository plays Gomoku with the Swap2 opening and the exact-five rule. A
Python **match server** referees games between clients over JSON-RPC; a C++
**engine** (MCTS over a neural network) plays them, generates training data and
connects to the server through a match client; a C++ **plugin host** and a Qt
**desktop application** let humans play against engines. Each of the three
programs has its own implementation of the rules.

This directory models the rules three times, as the code has them, and shows
where they agree; the server, its engine client, the desktop application and
the plugin host's match loop, with everything that interleaves in them; and the
engine's search, endgame solver and data generator. Paths below are relative to
`src/`.

## Inventory

| Component | State | Operations | Interacts with |
|---|---|---|---|
| referee board, `protocol/python/gomoku_match/board.py` | cells, phase, seat to act, stone due, colours of the seats, stone count, history, result | `apply`, `legal_actions` | match server |
| engine board, `engine/src/board.cpp` | the same and a Zobrist signature | `Apply`, `Retract`, `GetLegalActions`, `GetChildCurrentPlayer` | MCTS, VCF solver, match client |
| plugin board, `plugin/src/gomoku_types.cpp` | the same without a signature | `ApplyAction`, `IsLegalAction` | coordinator, game controller, replay |
| match server, `protocol/python/gomoku_match/server.py` | connections, players by name and by id, games with their timers | handshake, register, create_match, submit_move, resign, queries, cleanup, clock tick, shutdown | clients by messages, journal and Elo by calls under the lock |
| journal and Elo, `persistence.py`, `elo.py` | match and move rows, ratings | record_match_started, record_move, record_match_finished, update_after_match, replay_from_store | match server |
| player and observer clients, transports | pending calls, event queue | call, close, reader and dispatcher loops | match server |
| engine match client, `engine/src/match_client.cpp` | socket, pending responses, events, one game with its search tree | `RpcClient::Call`, `ReaderLoop`, `WaitForEvent`, `MatchGame::HandleTurn` | match server by messages, MCTS |
| MCTS, `engine/src/mcts.cpp` | search tree, evaluation cache, noise and mask flags | `Search`, `SelectAction`, `SetDirichletNoise` | engine board, evaluators, solver |
| inference executors, `batched_blocking_queue.h`, `batch_inference_executor.cpp` | request queue, promises, shutdown flag | `Submit`, `PopBatch`, `InferenceLoop` | workers by futures |
| VCF solver, `engine/src/vcf_solver.cpp` | failed positions, node budget | `SolveVCF`, `AnalyzeVCFDefense` | MCTS |
| self play, game generator | worker pool, counters, shard | `GenerateGame`, the worker lambda, `WriteExample` | MCTS, executors, files |
| human player, match coordinator, `plugin/src/` | mutex, waiting, cancelled, submitted; finished, result | `InquireAction`, `SubmitAction`, `CancelInquiry`, `Step`, `AbortMatch` | GUI thread and worker thread |
| desktop game controller, database, replay, `app/src/` | epoch, search thread, match row, cursor | `startMatch`, `ProcessMove`, `resignMatch`, `abortMatch`, `loadMatch`, `seekToPly` | plugin host, SQLite, event loop |
| training pipeline, `python/` | datasets, checkpoints, curriculum | train, curriculum | files of the generator |

What is hard in it:

* **Server.** Handlers run under one lock, so each is atomic, but their order is
  free: a reader thread per connection, a clock thread, clients that drop and
  come back, and a cleanup in *two* critical sections. Five ways to end a game
  (five in a row, draw, timeout, resignation, disconnect) race each other. The
  journal may fail at any of three writes in the middle of a handler.
* **Boards.** Three implementations have to agree on every position of a game.
  The engine undoes moves from the board alone, guessing the phase from the
  number of stones, and maintains its signature incrementally.
* **Plugin host and application.** A blocking inquiry cancelled from another
  thread; the result of a search queued to a thread that has moved on.
* **Executors and clients.** Waiters for an answer that a failure or a shutdown
  may take away.

`PROJECT.json` lists the hazards one by one, at their lines.

What makes each component correct: a board reaches the same position as the two
others, undoes exactly, and declares a winner exactly when an exact five is
there; the server never loses a turn, never lets a game have two endings, blames
the right player, keeps journal, ratings and events in step with the board and
ends every match; a client or a waiter always gets an answer or an error; an
abort ends a match as aborted.

## Modules

| Module | Models |
|---|---|
| `Gomoku` | seats, stones, phases, action ids and the run geometry all boards use |
| `Swap2`, `Swap2Game` | abstract game: whose turn, in which phase, after how many stones, who may win |
| `RefereeBoard` | `board.py` |
| `EngineBoard` | `board.cpp` |
| `PluginBoard` | `gomoku_types.cpp` |
| `BoardLockstep`, `MCBoardLockstep` | one game on the three boards; the games TLC plays |
| `MatchServer`, `MCMatchServer` | `server.py` on `Swap2` games, with the journal rows and ratings it causes |
| `MatchCourse` | abstract match: what the server promises about every match whatever fails |
| `GameController`, `MCGameController` | `game_controller.cpp`, `database_manager.cpp`, `replay_controller.cpp`, `board_view_model.cpp` on the plugin board |
| `MatchCoordinator`, `MCMatchCoordinator` | `match_coordinator.cpp` and `human_player.cpp` on the plugin board |
| `Mcts`, `MCMcts` | `mcts.cpp` on a game graph |
| `VcfSolver`, `MCVcfSolver` | `vcf_solver.cpp` |
| `GameGenerator`, `MCGameGenerator` | `gomoku_game_generator.cpp`, `self_play.cpp` and the executors |
| `MatchClient`, `MCMatchClient` | `match_client.cpp` against the server as it sees it |
| `BoardProofs`, `LockstepProofs` | theorems about the boards |
| `MatchServerProofs` | theorems about the server |
| `CoordinatorProofs`, `ControllerProofs` | theorems about the plugin host's match loop and the desktop application |
| `MctsProofs`, `GeneratorProofs`, `ClientProofs` | theorems about the search, the generator and the match client |

### The boards

Each board is a record with the fields of its class, and each of its methods an
operator from boards to boards. `BoardLockstep` composes them: `Play(action)`
takes an action the referee accepts and applies it to all three, which is what
`ReconstructBoard` of the match client does with the server's move list. `View`
drops the stones and maps the referee onto the abstract game, the refinement
`ImplementsSwap2`.

Abstractions: the exclusive-or of Zobrist keys is the symmetric difference of
the sets of features whose keys are in (collisions of 64-bit keys are left
out); labels and coordinates as text are left out.

`extra` is a history variable that says whether the responder asked for two more
stones.

### The server

`conns` is `_connections` and the stage of each reader thread, `online`
`_players_by_id`, `known` `_players_by_name`, `games` `_games`. A game record
also holds what the server did for it elsewhere: the journal row and the number
of moves in it, whether it was rated, how many events of each kind were
broadcast and the last `your_turn`. One action per handler: `Handshake`,
`AuthFailed`, `Register`, `CreateMatch`, `SubmitMove`, `Resign`;
`PopConnection` and `CleanupConnection` are the two critical sections of
`_cleanup_connection`; `Tick` is one turn of `_clock_loop`; `Attach`,
`Shutdown` are the public calls; `PeerDrop`, `DeadlineElapses`, `GraceElapses`
are the environment. `OpenMatch`, `SendYourTurn`, `ApplyMove`, `Resume`,
`LoseConnection`, `Expire` and `FinishGame` are the helper methods, as operators
on one game.

Abstractions: a player id is its name, since a name keeps its id for ever; a
deadline is a timer that is off, running or elapsed, and only the elapsed ones
are seen by the clock; a submitted move is any successor of the `Swap2` game
(`ImplementsSwap2` is what justifies that: every action of the referee's board
is one); rejected requests change nothing and are not actions; queries and
subscriptions change no state that the properties see; a broadcast counts as
delivered to the outbound queue. A failure (`Strike`) is an exception from the
journal at the start row (`start`), a move row (`move`) or the result row
(`store`), or from the Elo engine (`elo`). The server is modelled with a store
attached.

### The desktop application

The Qt thread runs one handler at a time; the only points where it waits are the
joins of the search thread. `qt` names the rest of a handler that waits there:
`ConcludeMatch` / `Concluded`, `Abort` / `Aborted`, `startMatch` /
`SetupMatch` or `SetupFails`, `TriggerAiTurn`. `ai` is the search thread
(`InquireAction`), `posted` the lambdas it queued, taken by `DeliverResult`.
`rows` are the tables with the moves of each match, `listed` the history screen;
a write succeeds or fails (`Write`). `replay` is the replay screen. Home screen
(delete, replay, start) and match screen exclude each other, as the QML stack
does. Each match follows a script of the cells each colour considers, so that
matches differ by their opening choices, who plays and what interrupts them;
a clicked cell that is illegal does nothing and is not an action. `played` and
`faults` are history variables.

### The match coordinator

A worker thread in `PlayMatch` and a GUI thread that submits and aborts. A human
player is a monitor; the coordinator's own fields are not locked, so `Step` and
`AbortMatch` are cut at every access that the other thread may see: `BeginStep`,
`AskHuman`, `HumanAnswers`, `Forfeit`, `Play`, `GiveReason`, `WorkerTells` on one
side, `BeginAbort` to `AbortTells` on the other. `accepted` is a history variable.

### The search

The game is a constant graph of positions with a mover, an evaluation, zero
priors, solved positions and safe actions. A node is named by its path from the
root. `BeginSearch` is `Search` up to its loop, `SelectLeaf` one descent with its
virtual losses, `EvaluateLeaves` and `Backup` the rest of a batch, `EndSearch` the
policy; `ReturnAtOnce`, `ReturnPriors`, `ReturnSolved` are its early returns.
`PlayAction` is the caller with `SelectAction`. The PUCT score is floating point:
the model lets any child that the code compares be the best, and a prior is zero
or positive, which is what mask, noise and fallback policies look at. `hits` and
`gain` are history variables: what was really backed up.

### The solver

`SolveVCF` and `AnalyzeVCFDefense` are recursive operators that thread the
position, the budget and the failed positions as the code does in place. The
reference is `ForcedWin`: no prunes, no table, no budget, all replies. Hash
collisions are left out.

### The generator

Workers (`CheckStop`, `Claim`, `Submit`, `PlayAction`, `PlaySolved`,
`BeginWrite`, `WriteExample`, `EndWrite`), an inference thread per model (`Wake`,
`PopBatch`, `InferenceLoop`, `ThreadExits`) and `main`. A game is the fixed
sequence of the seats that act, one evaluation per decision, or none where the
solver proves a win before a root is made; a tree is the ply of its root, or
empty, also when the played action is no child of a root that was never
expanded (`lost`). The network returns the names of the boards it is given, so an
answer tells whose it is. Failures: an exception in a worker, also while its
request is in the queue or in a batch (`Throw`, the callback between `Submit` and
`get`), which leaves the request behind to be answered or drained by the
shutdown; a failed write or close (`LOG(FATAL)`); an exception in the inference
thread (`std::terminate`).

### The match client

The main thread (`SendLine`, `CallReturns`, `CallFails`, `Retry`, `WaitEnds`,
`Poll`, `Start`, `HandleTurn`, `Finish`), the reader thread (`ReaderLoop`,
`ReaderEnds`) and `server.py` reduced to what one client sees of it: it sends
events before the response of the request that caused them, as the handlers do
under the lock, and may close at any time. The response itself is queued after
the lock (`server.py:464`); an event of another thread in between makes no
difference, because the reader keeps events and responses apart. `WaitEnds` and
`Poll` are two steps because `IsClosed` takes the mutex again. The tree is the
actions its root stands at.

## Runs

| Run | States | Question |
|---|---|---|
| `boards` | 13,246 | do the boards agree, undo exactly and implement Swap2 |
| `plugin_pair` (violation) | | does the plugin board agree in every game |
| `server` | 2.3 million | one match under every interleaving and one failure |
| `two_games` | 0.7 million | what one disconnect, tick or failure does to two matches |
| `server_liveness` | 0.9 million | does every match end |
| `grace` (violation) | | does a dropped player keep its grace window |
| `desktop` | 486,776 | are results fresh, threads joined, records and replay true, and do engines keep playing |
| `coordinator` | 20,309 | are clicks taken once, both players told the ending that stands, aborts effective |
| `mcts` | 138,047 | do tree, statistics, mask and selection hold over batches and moves |
| `vcf` | 900 (one per position and question) | does the solver find a forced win exactly when there is one, are its safe moves safe |
| `generator` | 1.2 million | are answers, trees and the shard right, does the program end |
| `client` | 83,599 | does the client understand every turn and end |

**Bounds of the boards.** A five needs a side of at least five and an overline
one of six, so games are played on real small boards, but stones are tried only
in the cells of a setup. In four setups one colour fills six cells of a row,
column or diagonal in every order (every five, every overline, both colours,
both openings); in one both colours fight for seven cells; two scripted games
fill the board, one without a five and one whose last stone makes five. Each
setup goes through all four openings. Games end when a setup's cells are used
up, hence no deadlock check.

**Bounds of the server.** `server`: two names, three connections, so that a
player may drop and return while the other is there; one match; five
actions, so that the third stone hands the turn over, the decision follows and
the fifth action may end the game (or place the fourth stone of the longer
opening); one failure. The game is abstract here: `Successors` offers a win and
a draw for every stone of standard play, so both endings happen on the fifth
action although a real five takes longer. The moves of a longer game repeat
these: the server sees a move only as who is next and whether the game is over.
`two_games`: two matches, two connections, no moves, one failure.
`server_liveness`: three connections, no moves, no failure (a failure in the
clock thread ends it, see *Findings*). A connection is used once, so players
reconnect finitely often: a player on the clock who reconnects for ever gets a
fresh deadline each time, and then a match need not end. A server whose games
are over and whose connections are used up stops, hence no deadlock check.
Connections and names are symmetric in the safety runs.

**Bounds of the other runs.** `desktop`: two matches of at most one and five
plies on four cells: the first to be abandoned with results under way, the
second through every opening to a full board; one failing write; history and
replay after the last match (a replay reads rows that no longer change).
`coordinator`: full games on four cells, two humans or a human and an engine; one
abort, since the second returns at once. `mcts`: a graph in which a seat acts
twice in the opening, two orders of play meet, a threat leaves one safe move and
that move has prior zero; batches of two, up to five simulations a search, so
that two descents share a node and a kept tree has been searched. `vcf`: every
filling, with the stone counts of a game, of six cells around crossing threes of both
colours on a side of six (the
smallest with overlines), to move either colour, with budget 40 (enough) and 2
(cut off). `generator`: one to three workers, three games of which two are mixed
(both champion seats) and each of three plies, so that a model acts again after
the other one; a win proved by the solver at the second; batches of two so that
one request is left over; one failure. `client`: one match, six plies in which A acts twice in a row, so that the client in one
seat makes two moves and in the other meets two of the opponent, two attempts to
create the match. None of these runs checks deadlock: matches, games and
programs end.

**Fairness.** The desktop's event loop delivers what is queued, a search
returns, a join that is possible happens. The coordinator's worker runs unless
it waits and an abort that has begun goes on; a human may never answer.
Generator threads run when they can, which is weak fairness per thread. The
client's threads run, a call on a closed connection ends, the server answers and
its clock ends every match (`EveryMatchEnds`). For the server, time passes
(`DeadlineElapses`, `GraceElapses`), the clock thread ticks and reader threads that are
on their way out finish: progress that the
operating system and the loops without waiting give. Nothing is assumed of
clients: they may stay silent for ever.

**Mutants.** Every property of a passing run has a mutant (the `Mut...`
operators, each next to the operator it distorts): a plausible slip in the code
under which TLC refutes the property.

## Findings

1. **The responder's pair in the plugin host** (`plugin_pair`). After
   `swap2_place_two` the plugin board places black then white; the referee, the
   engine, `protocol/spec.md` and the application's own prompt say white then
   black. From there on the two boards differ in the colour of stones.
2. **Grace is cut short** (`grace`). A player who dropped in a match with
   `disconnect_grace_ms` forfeits at once when the opponent's move puts it on
   the clock.

`FaultsAreContained` shows the limits of a journal failure: it spoils one match
only. It does end the clock thread when it strikes there.

Observations, not stated as runs:

* A journal failure in `_finish_game` (`server.py:889`) leaves the game finished,
  without a result row and without `game_finished`, and the guard against
  finishing twice keeps it so; `protocol_v2.md:181` promises the event
  regardless of the reason.
* An abort that falls between `Step`'s look at `finished_` and the reset of
  `cancelled_` in `InquireAction` (`human_player.cpp:21`) is lost, and the worker
  waits for a click in a match that is over, although `match_coordinator.h:38` says
  that the abort terminates. `AbortEndsTheMatch` promises the return of the thread
  outside this gap, and inside it that the thread ends or is left in an inquiry
  which a click answers and so ends.
* An abort during an inquiry returns -1 to `Step`, which replaces the aborted
  result by a loss through `illegal_action`. `PlayersHearTheFinalResult` shows
  that at least both players are told the same in the end.
* Root noise gives unsafe children a prior again after the mask was applied, and
  the selection then visits them (`mcts.h:134-136` wants them excluded).
  `UnsafeMovesAreExcluded` is stated without noise; the match client and the
  model evaluator combine noise and defence.
* A defender's stone can help the attacker, against the comment at
  `vcf_solver.cpp:420`: when it turns the defender's own four into an overline.
  `QuietMeansSafe` states the claim for the other moves.
* A `game_finished` that arrives together with the end of the stream, between
  `WaitForEvent`'s timeout and `IsClosed`, is dropped and the client reports an
  error. A restarted client gets `your_turn` before any `game_started` and
  throws, so `TurnsAreUnderstood` is about uninterrupted sessions.
* The server lets a player be in several matches. The client keeps one
  `MatchGame`: a second `game_started` replaces it, turns of another game are
  ignored (`IsFor`, `match_client.cpp:464`), and any `game_finished` ends the
  program. `MatchClient` has one match, so none of this happens in it.

## Proofs

Checked by TLAPS for all values of the constants: any set of names and
connections, any number of matches, plies, workers and failures, boards of any
side from five on, any game graph. `PROJECT.json` lists the theorems and the
properties of the runs they state.

**Server.** The inductive invariant is `IInv`: `TypeOK`, `RegistryMatches` and,
for every game, `GameOK`, the conjunction of three parts: `Sound` (the record's own
consistency: counters equal to the plies, a result exactly when finished, a
row's result only when announced), `PendingOK` (a pending forfeit names a player
without a connection) and `TurnOK` (the turn was delivered on the present
connection). The parts depend on each other: that a reconnect leaves the turn
delivered needs the registry, and that a timeout blames the right seat needs
the type of the view. The proof first shows what each operator on a game does
(`FinishGameSound`, `SendYourTurnStep`, ..., `ExpireStep`), once and for every
caller, then that each action changes games only that way (`NextGames`), then
types and registry (`NextTypeOK`, `NextRegistry`). All safety properties of the
run `server` follow, the action properties `FinishedIsFinal` and
`LosersAreToBlame` included. The only assumption is `BoundsAssumption`.
`FaultsAreContained` counts over all games and needs a fact about steps: a step
spares every game, or it uses up a failure and spoils at most one (`FaultInv`).

`ServerRunsMatches` is a refinement: `Told` reads off a game record what its
journal row and its events tell, and under this mapping the server implements
`MatchCourse`. There a match is created, moves to a successor of its position
if the journal has it, and ends by a last move or in favour of a seat; the row, the
announcement and the rating change in that ending together, or not at all when
the journal fails. Connections, timers, grace windows and threads are gone, so
the theorem says that none of them can make a match do anything else. Each
operator on a game is shown to be a step of the abstract match or to tell nothing
(`FinishGameTold`, ..., `ApplyMoveTold`), for games in play by `IInv`, and one
action may take such a step in several matches (`NextRuns`). The mapping was
model-checked with the constants of the run `server` before it was proved.

**Boards.** `BoardProofs` has what a step does: `RefereeStep` (the referee keeps
its shape, and its view moves to a successor in `Swap2`) and `EngineStep` (Apply
keeps the engine's shape, Retract undoes it, the forecast is right). The
strengthening is `Shape`: which phase goes with which stone count, seat, stone
and colours. It is what makes the guess in `Retract` right. `LockstepProofs`
joins the two boards. The invariant `Joint` adds that the counter is the number
of stones on the board, because the referee finds a draw by looking for a free
cell and the engine by counting. `SignatureIsExact` is inductive beside it.
Results: `EngineIsTheReferee`, `SignatureIsThePosition`, `RetractIsExact`,
`ForecastIsExact` and the refinement `RefereePlaysSwap2`. Assumption:
`SetupsAreBoards`.

The winner (`WinnersAreRight`) needs geometry. `check_win` looks only at the runs
through the last stone, the property at every cell. `LinesOK` says which colours
have a line of exactly five, and it is inductive because a line that was not there
before goes through the new stone, because a stone cannot change the lines of the
other colour, and because the opening, where nobody looks for a win, has at most
five stones and both colours among them. A run is turned into a line (`RunIsLine`:
five cells of one colour, the next cell at both ends not) and back, so no counting
is left in the argument. The plugin board (`PluginIsTheReferee`) is the
referee's by the same facts, and they are needed: it looks for a win in the opening
too, credits it to the mover and finds a draw by its counter.

**Coordinator.** `AnswerInv`: the worker is in at most one inquiry, and the fields
of a human player (`waiting_`, `cancelled_`, `submitted_`) fit where it is, so the
answer is the click accepted during this inquiry unless an abort took it
(`AnswersAreTheSubmittedAlways`). `HearingInv`: each player was last told the
result the coordinator keeps, or a thread that is going to tell it is under way;
this is what survives both threads writing the result in either order
(`PlayersHearTheFinalResultAlways`). Assumption: `CoordinatorConstants`.

**Desktop.** `ThreadInv` relates the Qt thread, the search thread and the queued
lambdas: a search in a running match belongs to this turn (the Qt thread is in its
event loop and an engine is to move), and at most one queued result is of the
current epoch, about the current position. The three thread properties
follow, for any number of matches and results left over from them. `RecordInv`
says that a row without a failed write holds the moves of its match as
`ProcessMove` recorded them, while it is being played and ever after
(`RecordsMatchTheGameAlways`). `ReplayInv` adds that each recorded action has the
stone that was due when it was played and that the match on the replay screen is
not the one being played, and says what the screen shows: the position after as
many plies as the cursor says. The screen is rebuilt from the rows by a loop, so the
step is an induction over a set of loop indices: the stones after i rows are those
of the plugin board after i legal actions (`ReplayMatchesTheGameAlways`).
Assumption: `DesktopConstants`.

**Search.** `TreeInv`: the nodes are closed under prefixes and every node has the
seat and legal actions of the position its path leads to, also after the root has
moved to a subtree. `MaskInv`: under the mask only safe children of the root have a prior
and there is at least one. The subtle part is the flags: while the position was not
searched they are down, so a kept root is masked again before its first descent, which is the case
that a dropped reset in `SelectAction` breaks. `StatInv`: a node's visits and value
are the backed-up ones and one virtual loss for each path of the batch through
it; the proof counts the paths that pass a node and takes them away one by one
in `Backup`. The walks that `Credited` and `Subtree` make are
handled by induction over a set of lengths. Assumption: `GameIsWellFormed`.

**Generator.** `TreeInv`: the tree of each model is empty or stands at the ply the
worker is to decide, for both kinds of games, and noise is on in the opening only;
losing a tree is harmless because the next search makes a root where the game is.
`AnswerInv` follows a request through the queue, the coalesced batch and the
promise: a request is the last one of its worker, who waits for it or was thrown
out of the wait and still stands at its position, a worker has one at most, and the slice
cut out of the flattened output is the one that its boards took in the flattened
input (a lemma on `FlattenSeq` by induction over a set of lengths). `ShardInv`
accounts for games: each claimed game is held by one worker or complete in the
shard, and the game of the worker that has the output mutex is the last one in it,
with the plies written below those still to write. When every worker has ended
without an error all games are complete. How many of them are mixed is
arithmetic of the schedule: among the first k games there are `k * Mixed` divided by
`Games`, and the champion's seat alternates among them, again by induction over a set
(`ScheduleCounts`). Assumption: `ParametersAreValid`; it says that both seats act
in a game, which Swap2 guarantees (A opens, B decides) and without which
a mixed game could have all or none of its positions kept.

**Client.** `ClientInv`: at most one call is open and its id is fresh, one match
exists, `game_started` precedes the first turn, every turn under way is of the
client's seat, and at most one token (a turn in the stream or the queue, a chosen move, a request)
exists for the position the server waits in. The last is what makes
a late or repeated turn impossible. Assumption: `GameIsGiven`. The attempt showed
that two cases of what the server tells after a move overlapped in an earlier
version of the model, on the last ply; now the end of the game takes precedence
as in the server's `submit_move` handler.

**Only model-checked.** Liveness under fairness is out of the prover's reach:
`EveryMatchEnds`, `EnginesKeepPlaying`, `SubmissionsAreHeard`,
`AbortEndsTheMatch`, `GeneratorEnds` and `ClientEnds`. Everything about the
solver, whose search is a `RECURSIVE` operator: `SearchIsExact`,
`SafeActionsHold` and `QuietMeansSafe`.

## Not modelled

Writer threads, outbound queues and subscriptions of the server and the
`create_match` of an embedding program, which runs partly without the lock; the
arithmetic of ratings; the Python clients and transports. Of the engine: the
PUCT arithmetic, the network, the packing of examples as half floats, socket
framing and JSON, and the evaluation tools, whose worker loop is the
generator's. Of the desktop: the win rate display, `is_ai_thinking_` (a display
flag), the playback speed and the schema set-up; loading plugins, the C ABI and
the scoring of the sample engine. The Gomocup adapter, command lines, QML
layout and the training pipeline are I/O, presentation or numerics and stay out.

## Plan

1. The unlocked `create_match` and the outbound queues of the server.
2. Pure algorithms: half-float packing, Elo zero sum.
3. The solver's search as a recursive function over the depth, so that what one
   level adds can be stated as a lemma.
