---------------------------- MODULE GameGenerator ----------------------------
(***************************************************************************)
(* The self-play generator: worker threads that claim games, play them     *)
(* (self_play.cpp) and write their training examples to one shard          *)
(* (gomoku_game_generator.cpp), and the inference threads that batch the   *)
(* workers' evaluations (batch_inference_executor.cpp over                 *)
(* batched_blocking_queue.h; immediate_inference_executor.cpp with one     *)
(* worker).                                                                *)
(*                                                                         *)
(* A game is the sequence Turns of the seats that act in it; each decision *)
(* makes one evaluation, or none where the solver proves a win.  A search  *)
(* tree is the ply its root stands at.                                     *)
(***************************************************************************)
EXTENDS Gomoku, Sequences, SequencesExt

CONSTANTS
    MaxWorkers,   \* bound on --workers
    Games,        \* --games
    Mixed,        \* mixed_game_count
    Turns,        \* the seat that acts at each ply of a game
    NoisePlies,   \* dirichlet_noise_plies
    SolvedPlies,  \* bound on the plies at which the solver may prove a win
    MaxBatch,     \* max_requests of a batch
    MaxFaults     \* bound on the failures of a behaviour

ASSUME ParametersAreValid ==
    /\ MaxWorkers \in Nat \ {0} /\ Games \in Nat \ {0} /\ Mixed \in 0 .. Games
    /\ Turns \in Seq(Seats) /\ {Turns[i] : i \in DOMAIN Turns} = Seats  \* Swap2: A opens, B decides
    /\ NoisePlies \in Nat /\ SolvedPlies \subseteq Nat
    /\ MaxBatch \in Nat \ {0} /\ MaxFaults \in Nat

VARIABLES
    workers_flag,     \* FLAGS_workers
    next_game, completed_games, stop, first_error,
    worker,           \* the threads: program counter and locals
    output_mutex,     \* its holder, 0 when it is free
    shard,            \* the examples written
    queue, shutdown,  \* of each executor's BatchedBlockingQueue
    inference,        \* of each executor: its inference thread
    main,             \* "joining", "closing", then how the process ended
    faults

control == <<next_game, completed_games, stop, first_error>>
pipes == <<queue, shutdown, inference>>
vars == <<workers_flag, control, worker, output_mutex, shard, pipes, main, faults>>

Workers == 1 .. (IF workers_flag < Games THEN workers_flag ELSE Games)
Models == {"champion", "previous"}
Running == main \in {"joining", "closing"}
Immediate == workers_flag = 1

-----------------------------------------------------------------------------
(* The schedule of mixed games.                                             *)

MixedThrough(game) == ((game + 1) * Mixed) \div Games
IsMixed(game) == MixedThrough(game) > (game * Mixed) \div Games

ChampionSeat(game) == IF (MixedThrough(game) - 1) % 2 = 0 THEN "A" ELSE "B"

\* The EvaluatorSelector.
ModelFor(game, ply) ==
    IF IsMixed(game) /\ Turns[ply + 1] # ChampionSeat(game) THEN "previous" ELSE "champion"

\* The TrainingPositionFilter, over the history of the game: the plies kept.
\* The vector of examples has them in the order of the history.
Examples(game) ==
    {ply \in 0 .. Len(Turns) - 1 : ~IsMixed(game) \/ Turns[ply + 1] = ChampionSeat(game)}

-----------------------------------------------------------------------------
(* Requests.  The network maps a board to an output named like the board.   *)

\* The boards worker w evaluates at a ply; batches differ in size.
BoardsOf(w, ply) == [i \in 1 .. 1 + (ply % 2) |-> <<w, ply, i>>]

NoAnswer == <<>>

\* The requests' boards run as one batch.
Concatenated(batch) == FlattenSeq([i \in DOMAIN batch |-> batch[i].boards])

Size(batch, i) == Len(batch[i].boards)

\* A plausible slip: the offset advances by one per request.
MutOffset(batch, i) == i - 1

Offset(batch, i) == Len(Concatenated(SubSeq(batch, 1, i - 1)))

\* One result per request, sliced out of the results of the batch.
RunBatch(batch) ==
    [i \in DOMAIN batch |->
        SubSeq(Concatenated(batch), Offset(batch, i) + 1, Offset(batch, i) + Size(batch, i))]

-----------------------------------------------------------------------------

Idle == [pc |-> "wait", batch |-> <<>>]
NoSearches == [m \in Models |-> [made |-> FALSE, root |-> -1, noise |-> FALSE]]
Fresh == [pc |-> "loop", game |-> -1, ply |-> 0, searches |-> NoSearches,
          answer |-> NoAnswer, todo |-> {}]

Init ==
    /\ workers_flag \in 1 .. MaxWorkers
    /\ next_game = 0 /\ completed_games = 0 /\ stop = FALSE /\ first_error = FALSE
    /\ worker = [w \in Workers |-> Fresh]
    /\ output_mutex = 0 /\ shard = <<>>
    /\ queue = [m \in Models |-> <<>>] /\ shutdown = FALSE
    /\ inference = [m \in Models |-> Idle]
    /\ main = "joining" /\ faults = 0

At(w, pc) == Running /\ worker[w].pc = pc
Goes(w, pc) == worker' = [worker EXCEPT ![w].pc = pc]

\* The head of the loop reads stop, ...
CheckStop(w) ==
    /\ At(w, "loop")
    /\ Goes(w, IF stop THEN "done" ELSE "claim")
    /\ UNCHANGED <<workers_flag, control, output_mutex, shard, pipes, main, faults>>

\* ... then a game is claimed with fetch_add.
Claim(w) ==
    /\ At(w, "claim")
    /\ next_game' = next_game + 1
    /\ worker' = [worker EXCEPT ![w] =
            IF next_game >= Games THEN [Fresh EXCEPT !.pc = "done"]
            ELSE [Fresh EXCEPT !.pc = "decide", !.game = next_game]]
    /\ UNCHANGED <<workers_flag, completed_games, stop, first_error, output_mutex, shard,
                   pipes, main, faults>>

\* The search of the model to act: made on its first turn, with root noise
\* while the opening lasts.
SearchOf(w) ==
    LET s == worker[w].searches[ModelFor(worker[w].game, worker[w].ply)]
    IN  IF s.made THEN s
        ELSE [made |-> TRUE, root |-> -1,
              noise |-> ~(NoisePlies > 0 /\ worker[w].ply >= NoisePlies)]

\* Its root is made where the tree is empty.
Searching(w) ==
    [SearchOf(w) EXCEPT !.root = IF @ = -1 THEN worker[w].ply ELSE @]

\* Evaluate: the boards are encoded and submitted.  The immediate executor
\* answers at once, the batching one queues the request.
Submit(w) ==
    /\ At(w, "decide") /\ worker[w].ply < Len(Turns)
    /\ LET m == ModelFor(worker[w].game, worker[w].ply)
           boards == BoardsOf(w, worker[w].ply)
       IN  /\ worker' = [worker EXCEPT ![w].pc = "wait",
                                       ![w].searches[m] = Searching(w),
                                       ![w].answer = IF Immediate THEN boards ELSE NoAnswer]
           /\ queue' = IF Immediate THEN queue
                       ELSE [queue EXCEPT ![m] = Append(@, [worker |-> w, boards |-> boards])]
    /\ UNCHANGED <<workers_flag, control, output_mutex, shard, shutdown, inference, main, faults>>

\* A plausible slip: only the search that chose the action follows it.
MutSelectAction(searches, lost, m, ply) == [searches EXCEPT ![m].root = @ + 1]

\* Every search follows every action, and loses its noise after the opening.  A
\* root that was never expanded has no child to go to: these trees are lost.
SelectAction(searches, lost, m, ply) ==
    [n \in Models |->
        [searches[n] EXCEPT !.root = IF @ = -1 \/ n \in lost THEN -1 ELSE @ + 1,
                            !.noise = @ /\ ~(NoisePlies > 0 /\ ply + 1 >= NoisePlies)]]

\* The future is ready: an action is sampled and applied.  The root that was
\* searched is expanded.
PlayAction(w) ==
    /\ At(w, "wait") /\ worker[w].answer # NoAnswer
    /\ LET m == ModelFor(worker[w].game, worker[w].ply)
       IN  \E lost \in SUBSET (Models \ {m}) :
             worker' = [worker EXCEPT
                ![w].pc = "decide", ![w].answer = NoAnswer, ![w].ply = @ + 1,
                ![w].searches = SelectAction(@, lost, m, worker[w].ply)]
    /\ UNCHANGED <<workers_flag, control, output_mutex, shard, pipes, main, faults>>

\* The solver proves a win: Search returns before a root is made, or with the
\* root that was kept, which need not be expanded.
PlaySolved(w) ==
    /\ At(w, "decide") /\ worker[w].ply < Len(Turns) /\ worker[w].ply \in SolvedPlies
    /\ LET m == ModelFor(worker[w].game, worker[w].ply)
       IN  \E lost \in SUBSET Models :
             worker' = [worker EXCEPT
                ![w].answer = NoAnswer, ![w].ply = @ + 1,
                ![w].searches = SelectAction([@ EXCEPT ![m] = SearchOf(w)], lost, m, worker[w].ply)]
    /\ UNCHANGED <<workers_flag, control, output_mutex, shard, pipes, main, faults>>

\* The game is over: its examples are written under output_mutex.
BeginWrite(w) ==
    /\ At(w, "decide") /\ worker[w].ply = Len(Turns)
    /\ output_mutex = 0 /\ output_mutex' = w
    /\ worker' = [worker EXCEPT ![w].pc = "write", ![w].todo = Examples(worker[w].game)]
    /\ UNCHANGED <<workers_flag, control, shard, pipes, main, faults>>

WriteExample(w) ==
    /\ At(w, "write") /\ worker[w].todo # {}
    /\ shard' = Append(shard, [game |-> worker[w].game, ply |-> Min(worker[w].todo)])
    /\ worker' = [worker EXCEPT ![w].todo = @ \ {Min(@)}]
    /\ UNCHANGED <<workers_flag, control, output_mutex, pipes, main, faults>>

EndWrite(w) ==
    /\ At(w, "write") /\ worker[w].todo = {}
    /\ completed_games' = completed_games + 1
    /\ output_mutex' = 0
    /\ Goes(w, "loop")
    /\ UNCHANGED <<workers_flag, next_game, stop, first_error, shard, pipes, main, faults>>

Fails == faults < MaxFaults /\ faults' = faults + 1

\* A plausible slip: the worker stops the others and forgets why.
MutThrow(w) ==
    /\ At(w, "decide") \/ At(w, "wait")
    /\ Fails
    /\ Goes(w, "throw")
    /\ UNCHANGED <<workers_flag, control, output_mutex, shard, pipes, main>>

\* An exception while a game is played, also between Submit and the get of the
\* future (the side work there, or a failed inference of the immediate executor),
\* which leaves the request where it is: the first is kept, ...
Throw(w) ==
    /\ At(w, "decide") \/ At(w, "wait")
    /\ Fails
    /\ first_error' = TRUE
    /\ Goes(w, "throw")
    /\ UNCHANGED <<workers_flag, next_game, completed_games, stop, output_mutex, shard, pipes, main>>

\* ... and then the others are told to stop.
StoreStop(w) ==
    /\ At(w, "throw")
    /\ stop' = TRUE
    /\ Goes(w, "done")
    /\ UNCHANGED <<workers_flag, next_game, completed_games, first_error, output_mutex, shard,
                   pipes, main, faults>>

\* A write that fails ends the process: LOG(FATAL).
WriteFails(w) ==
    /\ At(w, "write") /\ worker[w].todo # {}
    /\ Fails
    /\ main' = "aborted"
    /\ UNCHANGED <<workers_flag, control, worker, output_mutex, shard, pipes>>

-----------------------------------------------------------------------------
(* The inference threads.  A wait on the condition variable is a guard: its *)
(* predicate is tested under the mutex that every change of it takes.       *)

Thread(m, pc) == Running /\ ~Immediate /\ inference[m].pc = pc
others == <<workers_flag, control, output_mutex, shard, shutdown>>

\* A plausible slip: the thread waits until the batch is full.
MutWake(m) ==
    /\ Thread(m, "wait") /\ Len(queue[m]) >= MaxBatch
    /\ inference' = [inference EXCEPT ![m].pc = "coalesce"]
    /\ UNCHANGED <<others, worker, queue, main, faults>>

\* Phase 1 of PopBatch: an item arrived, ...
Wake(m) ==
    /\ Thread(m, "wait") /\ queue[m] # <<>>
    /\ inference' = [inference EXCEPT ![m].pc = "coalesce"]
    /\ UNCHANGED <<others, worker, queue, main, faults>>

\* How many items a batch takes.
Drained(items) == IF Len(items) < MaxBatch THEN Len(items) ELSE MaxBatch

\* ... phase 2: the window is over or the batch is full.
PopBatch(m) ==
    /\ Thread(m, "coalesce")
    /\ LET n == Drained(queue[m])
       IN  /\ inference' = [inference EXCEPT ![m] =
                               [pc |-> "run", batch |-> SubSeq(queue[m], 1, n)]]
           /\ queue' = [queue EXCEPT ![m] = SubSeq(@, n + 1, Len(@))]
    /\ UNCHANGED <<others, worker, main, faults>>

\* The forward pass, and the promises fulfilled.
InferenceLoop(m) ==
    /\ Thread(m, "run")
    /\ LET batch == inference[m].batch
           mine(w) == {i \in DOMAIN batch : batch[i].worker = w}
       IN  worker' = [w \in Workers |->
                        IF mine(w) = {} THEN worker[w]
                        ELSE [worker[w] EXCEPT !.answer = RunBatch(batch)[Min(mine(w))]]]
    /\ inference' = [inference EXCEPT ![m] = Idle]
    /\ UNCHANGED <<others, queue, main, faults>>

\* An exception leaves the inference thread: std::terminate.
InferenceFails(m) ==
    /\ Thread(m, "run")
    /\ Fails
    /\ main' = "aborted"
    /\ UNCHANGED <<others, worker, queue, inference>>

\* The queue is shut down and empty.
ThreadExits(m) ==
    /\ Thread(m, "wait") /\ shutdown /\ queue[m] = <<>>
    /\ inference' = [inference EXCEPT ![m].pc = "exited"]
    /\ UNCHANGED <<others, worker, queue, main, faults>>

-----------------------------------------------------------------------------
(* main: the workers are joined, the executors destroyed.                   *)

JoinWorkers ==
    /\ main = "joining" /\ \A w \in Workers : worker[w].pc = "done"
    /\ main' = "closing" /\ shutdown' = TRUE
    /\ UNCHANGED <<workers_flag, control, worker, output_mutex, shard, queue, inference, faults>>

\* The shard cannot be closed: LOG(FATAL).
CloseFails ==
    /\ main = "joining" /\ \A w \in Workers : worker[w].pc = "done"
    /\ ~first_error
    /\ Fails
    /\ main' = "aborted"
    /\ UNCHANGED <<workers_flag, control, worker, output_mutex, shard, pipes>>

Return ==
    /\ main = "closing"
    /\ Immediate \/ \A m \in Models : inference[m].pc = "exited"
    /\ main' = IF first_error THEN "returned 2" ELSE "returned 0"
    /\ UNCHANGED <<workers_flag, control, worker, output_mutex, shard, pipes, faults>>

WorkerStep(w) ==
    \/ CheckStop(w) \/ Claim(w) \/ Submit(w) \/ PlayAction(w) \/ PlaySolved(w)
    \/ BeginWrite(w) \/ WriteExample(w) \/ EndWrite(w) \/ StoreStop(w)

InferenceStep(m) == Wake(m) \/ PopBatch(m) \/ InferenceLoop(m) \/ ThreadExits(m)

Next ==
    \/ \E w \in Workers : WorkerStep(w) \/ Throw(w) \/ WriteFails(w)
    \/ \E m \in Models : InferenceStep(m) \/ InferenceFails(m)
    \/ JoinWorkers \/ CloseFails \/ Return

\* The operating system runs every thread that can run.
Fairness ==
    /\ \A w \in 1 .. MaxWorkers : WF_vars(w \in Workers /\ WorkerStep(w))
    /\ \A m \in Models : WF_vars(InferenceStep(m))
    /\ WF_vars(JoinWorkers \/ Return)

Spec == Init /\ [][Next]_vars /\ Fairness

-----------------------------------------------------------------------------
(* Properties.                                                              *)

\* Whatever batch a request was coalesced into, its future holds the outputs
\* of its own boards, in their order (evaluator.h: identical 1-to-1 order).
AnswersAreOwn ==
    \A w \in Workers :
        worker[w].answer # NoAnswer => worker[w].answer = BoardsOf(w, worker[w].ply)

\* When a search runs its root stands at the position to decide, also when the
\* other model decided the plies before, and it has noise in the opening only.
TreesFollowTheGame ==
    \A w \in Workers :
        worker[w].pc = "wait" =>
            LET s == worker[w].searches[ModelFor(worker[w].game, worker[w].ply)]
            IN  /\ s.root = worker[w].ply
                /\ s.noise <=> NoisePlies = 0 \/ worker[w].ply < NoisePlies

\* The games of the shard, in the order they were written.
WrittenGames == {e.game : e \in ToSet(shard)}

\* A shard the program reports as written (exit status 0) holds the examples of
\* every game, each game once and in one piece; mixed games are as many as
\* asked for, seat the champion in turn and keep the champion's positions.
ShardIsComplete ==
    main = "returned 0" =>
        LET start(g) == Min({i \in DOMAIN shard : shard[i].game = g})
            played(g) == {i \in DOMAIN shard : shard[i].game = g}
            mixed == {g \in WrittenGames : Cardinality(played(g)) < Len(Turns)}
            asA == {g \in mixed : \A i \in played(g) : Turns[shard[i].ply + 1] = "A"}
            asB == {g \in mixed : \A i \in played(g) : Turns[shard[i].ply + 1] = "B"}
        IN  /\ WrittenGames = 0 .. Games - 1
            /\ \A g \in WrittenGames :
                  /\ played(g) = start(g) .. start(g) + Cardinality(played(g)) - 1
                  /\ \A i, j \in played(g) : i < j => shard[i].ply < shard[j].ply
            /\ Cardinality(mixed) = Mixed
            /\ mixed = asA \cup asB /\ Cardinality(asA) - Cardinality(asB) \in {0, 1}

\* The program ends, with an error or without: no worker waits for ever for
\* an answer, a lock or a batch that fills.
GeneratorEnds == <>(~Running)
=============================================================================
