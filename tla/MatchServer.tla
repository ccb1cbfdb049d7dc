----------------------------- MODULE MatchServer -----------------------------
(***************************************************************************)
(* The match referee (protocol/python/gomoku_match/server.py).             *)
(*                                                                         *)
(* Every handler runs under MatchServer._lock, so each is one action.  The *)
(* threads that interleave are the reader threads (one per connection:     *)
(* requests, then the two critical sections of _cleanup_connection), the   *)
(* clock thread, and the clients that drop and return at any moment.  The  *)
(* journal and the Elo engine may fail while the lock is held; faults      *)
(* counts how many more such failures the environment has in store.        *)
(*                                                                         *)
(* A player id stands for one name for ever, so players are named by their *)
(* name.  A monotonic deadline is a timer that is off, running or elapsed; *)
(* time itself is the action that lets a running timer elapse.             *)
(***************************************************************************)
EXTENDS Swap2

CONSTANTS Names,      \* player names
          Conns,      \* connections, each used once
          NoName, NoConn,
          MaxGames,   \* bound: matches ever created
          MaxPlies,   \* bound: actions accepted in one game
          MaxFaults   \* bound: journal and rating failures

ASSUME BoundsAssumption ==
    /\ MaxGames \in Nat /\ MaxPlies \in Nat /\ MaxFaults \in Nat
    /\ NoName \notin Names /\ NoConn \notin Conns

VARIABLES conns,     \* _connections and what the reader thread is doing
          online,    \* _players_by_id: the connection of a player, or NoConn
          known,     \* _players_by_name: names that ever registered
          games,     \* _games with their journal rows, ratings and events
          faults,    \* failures the environment may still inject
          clock,     \* the clock thread: alive, or dead of an exception
          stopped    \* shutdown() was called

vars == <<conns, online, known, games, faults, clock, stopped>>

GameIds == 1 .. MaxGames      \* in the order of creation, as _games iterates

Timers == {"none", "running", "elapsed"}
Reasons == {"none", "five_in_a_row", "draw", "timeout", "resignation", "disconnect"}

-----------------------------------------------------------------------------
(* Games.  A record holds the _Game and what the server did for it outside: *)
(* its journal row (the result it shows once finished) and how many moves   *)
(* are journalled, whether Elo was applied, how many game_started,          *)
(* state_changed and game_finished events were broadcast, and the last      *)
(* your_turn.                                                               *)

NoGame == [created |-> FALSE, a |-> NoName, b |-> NoName, grace |-> FALSE,
           view |-> NewGame, deadline |-> "none", forfeit |-> "none",
           loser |-> "none", finished |-> FALSE, reason |-> "none",
           row |-> "none", moves |-> 0, rated |-> FALSE,
           started |-> 0, changed |-> 0, ended |-> 0,
           turnTo |-> NoConn, turnAt |-> 0]

NewMatch(a, b, grace) ==
    [NoGame EXCEPT !.created = TRUE, !.a = a, !.b = b, !.grace = grace]

Playing(g) == g.created /\ ~g.finished

Seated(g, name) == name \in {g.a, g.b}

OnClock(g) == IF g.view.current = "A" THEN g.a ELSE g.b

SeatOf(g, name) == IF name = g.a THEN "A" ELSE "B"

\* A plausible slip: the players are rated before the journal has the result.
MutFinishGame(g, result, reason, fault) ==
    IF g.finished THEN g
    ELSE LET over == [g EXCEPT !.view.result = IF @ = "UNDETERMINED" THEN result ELSE @,
                               !.finished = TRUE, !.reason = reason,
                               !.deadline = "none",
                               !.rated = IF g.a = g.b \/ fault = "elo" THEN @ ELSE TRUE]
         IN  IF fault = "store" THEN over
             ELSE [over EXCEPT !.row = IF @ = "none" THEN @ ELSE over.view.result,
                               !.ended = @ + 1]

\* fault is what goes wrong inside: "store" makes record_match_finished
\* raise, which leaves the game finished, unrated and unannounced; "elo" is
\* caught, and so is the refusal to rate a player against itself.
FinishGame(g, result, reason, fault) ==
    IF g.finished THEN g
    ELSE LET over == [g EXCEPT !.view.result = IF @ = "UNDETERMINED" THEN result ELSE @,
                               !.finished = TRUE, !.reason = reason,
                               !.deadline = "none"]
         IN  IF fault = "store" THEN over
             ELSE [over EXCEPT !.row = IF @ = "none" THEN @ ELSE over.view.result,
                               !.rated = IF g.a = g.b \/ fault = "elo" THEN @ ELSE TRUE,
                               !.ended = @ + 1]

\* A plausible slip: the first turn of a match has no deadline.
MutSendYourTurn(g, on, fault) ==
    IF g.finished THEN g
    ELSE IF on[OnClock(g)] = NoConn
    THEN FinishGame(g, WinFor(Other(SeatOf(g, OnClock(g)))), "disconnect", fault)
    ELSE [g EXCEPT !.turnTo = on[OnClock(g)], !.turnAt = g.view.plies]

\* A player who is on the clock and has no connection forfeits on the spot.
SendYourTurn(g, on, fault) ==
    IF g.finished THEN g
    ELSE IF on[OnClock(g)] = NoConn
    THEN FinishGame(g, WinFor(Other(SeatOf(g, OnClock(g)))), "disconnect", fault)
    ELSE [g EXCEPT !.deadline = IF @ = "none" THEN "running" ELSE @,
                   !.turnTo = on[OnClock(g)], !.turnAt = g.view.plies]

\* The first your_turn of a match, once it is journalled and announced.
OpenMatch(g, on, fault) ==
    SendYourTurn([g EXCEPT !.row = IF @ = "none" THEN "open" ELSE @,
                           !.started = @ + 1], on, fault)

\* A plausible slip: the forfeit stays pending unless the player is to move.
MutResumeForfeit(g, name, on) ==
    IF OnClock(g) # name THEN g
    ELSE SendYourTurn([g EXCEPT !.forfeit = "none", !.loser = "none",
                                !.deadline = "running"], on, "none")

\* A plausible slip: the fresh deadline comes without a new your_turn.
MutResumeSilent(g, name, on) ==
    [g EXCEPT !.forfeit = "none", !.loser = "none",
              !.deadline = IF OnClock(g) = name THEN "running" ELSE @]

\* A same-name reconnect drops whatever forfeit is pending in the game and,
\* when the player is on the clock, starts a fresh deadline.
Resume(g, name, on) ==
    LET back == [g EXCEPT !.forfeit = "none", !.loser = "none"]
    IN  IF OnClock(g) # name THEN back
        ELSE SendYourTurn([back EXCEPT !.deadline = "running"], on, "none")

\* The journal refuses a move of a match it has no row for.
JournalRefuses(g, fault) == fault = "move" \/ g.row = "none"

\* A plausible slip: the board keeps a move the journal refused.
MutApplyMoveKeep(g, next, on, fault) ==
    LET moved == [g EXCEPT !.view = next]
        told  == [moved EXCEPT !.moves = @ + 1, !.changed = @ + 1]
    IN  IF JournalRefuses(g, fault) THEN moved
        ELSE IF next.result # "UNDETERMINED"
        THEN FinishGame(told, next.result,
                        IF next.result # "DRAW" THEN "five_in_a_row" ELSE "draw", fault)
        ELSE SendYourTurn([told EXCEPT !.deadline = "running"], on, fault)

\* A plausible slip: state_changed goes out before the journal has the move.
MutApplyMoveTell(g, next, on, fault) ==
    LET snap  == g.view
        told  == [g EXCEPT !.view = next, !.changed = @ + 1]
        done  == [told EXCEPT !.moves = @ + 1]
    IN  IF JournalRefuses(g, fault) THEN [told EXCEPT !.view = snap]
        ELSE IF next.result # "UNDETERMINED"
        THEN FinishGame(done, next.result,
                        IF next.result # "DRAW" THEN "five_in_a_row" ELSE "draw", fault)
        ELSE SendYourTurn([done EXCEPT !.deadline = "running"], on, fault)

\* snap is _snapshot_board's copy: a move that cannot be journalled is undone.
ApplyMove(g, next, on, fault) ==
    LET snap  == g.view
        moved == [g EXCEPT !.view = next]
        told  == [moved EXCEPT !.moves = @ + 1, !.changed = @ + 1]
    IN  IF JournalRefuses(g, fault) THEN [moved EXCEPT !.view = snap]
        ELSE IF next.result # "UNDETERMINED"
        THEN FinishGame(told, next.result,
                        IF next.result # "DRAW" THEN "five_in_a_row" ELSE "draw", fault)
        ELSE SendYourTurn([told EXCEPT !.deadline = "running"], on, fault)

\* A plausible slip: games that are over are not skipped.
MutLoseFinished(g, name, fault) ==
    IF ~g.created \/ ~Seated(g, name) THEN g
    ELSE IF g.grace
    THEN [g EXCEPT !.forfeit = "running", !.loser = SeatOf(g, name)]
    ELSE FinishGame(g, WinFor(Other(SeatOf(g, name))), "disconnect", fault)

\* The player's seat in one game once its connection is gone.
LoseConnection(g, name, fault) ==
    IF ~Playing(g) \/ ~Seated(g, name) THEN g
    ELSE IF g.grace
    THEN [g EXCEPT !.forfeit = "running", !.loser = SeatOf(g, name)]
    ELSE FinishGame(g, WinFor(Other(SeatOf(g, name))), "disconnect", fault)

\* A plausible slip: a disconnect is charged to whoever is to move.
MutExpire(g, fault) ==
    IF g.deadline = "elapsed"
    THEN FinishGame(g, WinFor(Other(g.view.current)), "timeout", fault)
    ELSE FinishGame(g, WinFor(Other(g.view.current)), "disconnect", fault)

\* The clock's verdict on a game one of whose timers has elapsed.
Expire(g, fault) ==
    IF g.deadline = "elapsed"
    THEN FinishGame(g, WinFor(Other(g.view.current)), "timeout", fault)
    ELSE FinishGame(g, WinFor(Other(IF g.loser = "none" THEN "A" ELSE g.loser)),
                    "disconnect", fault)

-----------------------------------------------------------------------------
(* Connections.  "lost": the peer is gone but lines it sent may still be    *)
(* read; "shut": the server closed the transport; "popped": between the two *)
(* critical sections of _cleanup_connection.                                *)

Stages == {"new", "open", "lost", "shut", "popped", "gone"}

Live(c) == conns[c].stage \in {"open", "lost"}

Init ==
    /\ conns = [c \in Conns |-> [stage |-> "new", handshook |-> FALSE,
                                 admin |-> FALSE, player |-> NoName]]
    /\ online = [n \in Names |-> NoConn]
    /\ known = {}
    /\ games = [i \in GameIds |-> NoGame]
    /\ faults = MaxFaults
    /\ clock = "alive"
    /\ stopped = FALSE

\* One of the environment's failures strikes, or none.
Strike(fault) == /\ fault # "none" => faults > 0
                 /\ faults' = IF fault = "none" THEN faults ELSE faults - 1

Attach(c) ==
    /\ ~stopped /\ conns[c].stage = "new"
    /\ conns' = [conns EXCEPT ![c].stage = "open"]
    /\ UNCHANGED <<online, known, games, faults, clock, stopped>>

\* The peer goes away, or its network does.
PeerDrop(c) ==
    /\ conns[c].stage = "open"
    /\ conns' = [conns EXCEPT ![c].stage = "lost"]
    /\ UNCHANGED <<online, known, games, faults, clock, stopped>>

Handshake(c, admin) ==
    /\ Live(c)
    /\ conns' = [conns EXCEPT ![c].handshook = TRUE, ![c].admin = IF admin THEN TRUE ELSE @]
    /\ UNCHANGED <<online, known, games, faults, clock, stopped>>

\* AUTH_FAILED: a wrong token, or an admin method without the admin token.
\* The dispatcher flushes the response and closes the transport.
AuthFailed(c) ==
    /\ Live(c)
    /\ conns' = [conns EXCEPT ![c].stage = "shut"]
    /\ UNCHANGED <<online, known, games, faults, clock, stopped>>

\* A plausible slip: a name that is online can be taken over.
MutRegister(c, name) ==
    /\ Live(c) /\ conns[c].handshook /\ conns[c].player = NoName
    /\ conns' = [conns EXCEPT ![c].player = name]
    /\ online' = [online EXCEPT ![name] = c]
    /\ known' = known \cup {name}
    /\ games' = [i \in GameIds |->
                   IF name \in known /\ Playing(games[i]) /\ Seated(games[i], name)
                   THEN Resume(games[i], name, online') ELSE games[i]]
    /\ UNCHANGED <<faults, clock, stopped>>

Register(c, name) ==
    /\ Live(c) /\ conns[c].handshook /\ conns[c].player = NoName
    /\ online[name] = NoConn
    /\ conns' = [conns EXCEPT ![c].player = name]
    /\ online' = [online EXCEPT ![name] = c]
    /\ known' = known \cup {name}
    /\ games' = [i \in GameIds |->
                   IF name \in known /\ Playing(games[i]) /\ Seated(games[i], name)
                   THEN Resume(games[i], name, online') ELSE games[i]]
    /\ UNCHANGED <<faults, clock, stopped>>

\* The game is in _games before the journal row is written: a journal that
\* fails leaves a match nobody hears of.
CreateMatch(c, i, a, b, grace, fault) ==
    /\ Live(c) /\ conns[c].handshook /\ conns[c].admin
    /\ {a, b} \subseteq known
    /\ ~games[i].created /\ \A j \in 1 .. i - 1 : games[j].created
    /\ Strike(fault)
    /\ games' = [games EXCEPT ![i] =
                   IF fault = "start" THEN NewMatch(a, b, grace)
                   ELSE OpenMatch(NewMatch(a, b, grace), online, fault)]
    /\ UNCHANGED <<conns, online, known, clock, stopped>>

SubmitMove(c, i, next, fault) ==
    LET g == games[i]
    IN  /\ Live(c) /\ conns[c].player # NoName
        /\ Playing(g) /\ conns[c].player = OnClock(g)
        /\ g.view.plies < MaxPlies
        /\ next \in Successors(g.view)
        /\ Strike(fault)
        /\ games' = [games EXCEPT ![i] = ApplyMove(g, next, online, fault)]
        /\ UNCHANGED <<conns, online, known, clock, stopped>>

Resign(c, i, fault) ==
    LET g == games[i]
        name == conns[c].player
    IN  /\ Live(c) /\ name # NoName
        /\ Playing(g) /\ Seated(g, name)
        /\ Strike(fault)
        /\ games' = [games EXCEPT ![i] =
                       FinishGame(g, WinFor(Other(SeatOf(g, name))), "resignation", fault)]
        /\ UNCHANGED <<conns, online, known, clock, stopped>>

-----------------------------------------------------------------------------
(* The reader thread's way out: two critical sections, with the lock free   *)
(* between them.                                                            *)

PopConnection(c) ==
    /\ conns[c].stage \in {"lost", "shut"}
    /\ conns' = [conns EXCEPT ![c].stage = "popped"]
    /\ UNCHANGED <<online, known, games, faults, clock, stopped>>

\* bad is the game whose journal update fails, 0 for none: the exception ends
\* the reader thread, and the games after it are not looked at.
CleanupConnection(c, bad) ==
    LET name == conns[c].player
    IN  /\ conns[c].stage = "popped"
        /\ conns' = [conns EXCEPT ![c].stage = "gone"]
        /\ IF name = NoName
           THEN bad = 0 /\ UNCHANGED <<online, games, faults>>
           ELSE /\ \/ bad = 0
                   \/ bad \in GameIds /\ Playing(games[bad])
                      /\ Seated(games[bad], name) /\ ~games[bad].grace
                /\ Strike(IF bad = 0 THEN "none" ELSE "store")
                /\ online' = [online EXCEPT ![name] = NoConn]
                /\ games' = [i \in GameIds |->
                      IF bad # 0 /\ i > bad THEN games[i]
                      ELSE LoseConnection(games[i], name,
                                          IF i = bad THEN "store" ELSE "none")]
        /\ UNCHANGED <<known, clock, stopped>>

-----------------------------------------------------------------------------
(* Time and the clock thread.                                               *)

DeadlineElapses(i) ==
    /\ Playing(games[i]) /\ games[i].deadline = "running"
    /\ games' = [games EXCEPT ![i].deadline = "elapsed"]
    /\ UNCHANGED <<conns, online, known, faults, clock, stopped>>

GraceElapses(i) ==
    /\ Playing(games[i]) /\ games[i].forfeit = "running"
    /\ games' = [games EXCEPT ![i].forfeit = "elapsed"]
    /\ UNCHANGED <<conns, online, known, faults, clock, stopped>>

Due(g) == Playing(g) /\ "elapsed" \in {g.deadline, g.forfeit}

\* The tick first times games out, then applies the disconnect forfeits of
\* the games still going, each in creation order.
TickOrder(i) == IF games[i].deadline = "elapsed" THEN i ELSE MaxGames + i

\* A plausible slip: the exception is swallowed, and so is every later one of
\* the journal whose transaction is still open.
MutTick(bad) ==
    /\ clock = "alive"
    /\ \E i \in GameIds : Due(games[i])
    /\ bad = 0 \/ (bad \in GameIds /\ Due(games[bad]))
    /\ Strike(IF bad = 0 THEN "none" ELSE "store")
    /\ games' = [i \in GameIds |->
                   IF ~Due(games[i]) THEN games[i]
                   ELSE Expire(games[i], IF bad # 0 /\ TickOrder(i) >= TickOrder(bad)
                                         THEN "store" ELSE "none")]
    /\ clock' = IF stopped THEN "dead" ELSE "alive"
    /\ UNCHANGED <<conns, online, known, stopped>>

\* bad is the game whose journal update fails, 0 for none: nothing catches
\* the exception, and the clock thread is gone.  A tick that slept through
\* shutdown() is the thread's last.
Tick(bad) ==
    /\ clock = "alive"
    /\ \E i \in GameIds : Due(games[i])
    /\ bad = 0 \/ (bad \in GameIds /\ Due(games[bad]))
    /\ Strike(IF bad = 0 THEN "none" ELSE "store")
    /\ games' = [i \in GameIds |->
                   IF ~Due(games[i]) \/ (bad # 0 /\ TickOrder(i) > TickOrder(bad))
                   THEN games[i]
                   ELSE Expire(games[i], IF i = bad THEN "store" ELSE "none")]
    /\ clock' = IF bad # 0 \/ stopped THEN "dead" ELSE "alive"
    /\ UNCHANGED <<conns, online, known, stopped>>

\* shutdown() closes every transport; the readers then clean up as usual.  A
\* request that a reader has in hand when the stop flag is set counts as
\* handled before it.
Shutdown ==
    /\ ~stopped /\ stopped' = TRUE
    /\ conns' = [c \in Conns |-> IF Live(c) THEN [conns[c] EXCEPT !.stage = "shut"]
                                 ELSE conns[c]]
    /\ UNCHANGED <<online, known, games, faults, clock>>

-----------------------------------------------------------------------------
\* What can fail while a handler ends a game; one that ends none is unharmed.
EndFaults == {"none", "store", "elo"}

Next ==
    \/ \E c \in Conns :
          \/ Attach(c) \/ PeerDrop(c) \/ AuthFailed(c) \/ PopConnection(c)
          \/ \E admin \in BOOLEAN : Handshake(c, admin)
          \/ \E name \in Names : Register(c, name)
          \/ \E bad \in {0} \cup GameIds : CleanupConnection(c, bad)
          \/ \E i \in GameIds, fault \in EndFaults : Resign(c, i, fault)
          \/ \E i \in GameIds, a, b \in Names, grace \in BOOLEAN,
                fault \in EndFaults \cup {"start"} :
                CreateMatch(c, i, a, b, grace, fault)
          \/ \E i \in GameIds, fault \in EndFaults \cup {"move"} :
                \E next \in Successors(games[i].view) : SubmitMove(c, i, next, fault)
    \/ \E i \in GameIds : DeadlineElapses(i) \/ GraceElapses(i)
    \/ \E bad \in {0} \cup GameIds : Tick(bad)
    \/ Shutdown

Spec == Init /\ [][Next]_vars

\* Time passes, the clock thread ticks and every reader thread runs: the
\* progress the operating system gives.  Clients are not obliged to anything.
Fairness ==
    /\ \A i \in GameIds : WF_vars(DeadlineElapses(i)) /\ WF_vars(GraceElapses(i))
    /\ WF_vars(\E bad \in {0} \cup GameIds : Tick(bad))
    /\ \A c \in Conns : WF_vars(PopConnection(c))
                        /\ WF_vars(\E bad \in {0} \cup GameIds : CleanupConnection(c, bad))

FairSpec == Spec /\ Fairness

-----------------------------------------------------------------------------
ConnRecord == [stage : Stages, handshook : BOOLEAN, admin : BOOLEAN,
               player : Names \cup {NoName}]

GameRecord ==
    [created : BOOLEAN, a : Names \cup {NoName}, b : Names \cup {NoName},
     grace : BOOLEAN, view : GameView, deadline : Timers, forfeit : Timers,
     loser : Seats \cup {"none"}, finished : BOOLEAN, reason : Reasons,
     row : Results \cup {"none", "open"}, moves : Nat, rated : BOOLEAN,
     started : Nat, changed : Nat, ended : Nat,
     turnTo : Conns \cup {NoConn}, turnAt : Nat]

\* Every variable has its type, and only players who registered are seated.
TypeOK ==
    /\ conns \in [Conns -> ConnRecord]
    /\ online \in [Names -> Conns \cup {NoConn}]
    /\ known \in SUBSET Names
    /\ games \in [GameIds -> GameRecord]
    /\ \A i \in GameIds : games[i].created => {games[i].a, games[i].b} \subseteq known
    /\ faults \in Nat
    /\ clock \in {"alive", "dead"}
    /\ stopped \in BOOLEAN

\* The registry: a name is online through exactly the connection whose reader
\* still has to clean up after it.  The cleanup removes players by id, so a
\* second connection that got hold of the name would be thrown out with the
\* first.
RegistryMatches ==
    /\ \A n \in Names : online[n] # NoConn => conns[online[n]].player = n
    /\ \A c \in Conns : conns[c].player # NoName =>
          \/ online[conns[c].player] = c
          \/ conns[c].stage = "gone"

\* The journal and the board move in lockstep whatever fails: a match with a
\* row has one journalled move per action on the board, a match without one
\* has an untouched board.
JournalLockstep ==
    \A i \in GameIds : LET g == games[i] IN
        /\ g.moves = g.view.plies
        /\ g.row = "none" => g.view.plies = 0

\* The events spectators get tell the game: it is announced once, each action
\* once, and it ends at most once, never before it is over.
EventsTellTheGame ==
    \A i \in GameIds : LET g == games[i] IN
        /\ g.started = IF g.row = "none" THEN 0 ELSE 1
        /\ g.changed = g.view.plies
        /\ g.ended \in 0 .. 1
        /\ g.ended = 1 => g.finished

\* Server, journal and ratings tell one story about the ending: a journal row
\* shows a result exactly when the game is over and announced, and then the
\* board's; only a game that is over has a result, and only an announced one
\* is rated.
OneVerdict ==
    \A i \in GameIds : LET g == games[i] IN
        /\ g.finished <=> g.view.result # "UNDETERMINED"
        /\ g.finished <=> g.reason # "none"
        /\ g.row \in Results <=> g.ended = 1 /\ g.started = 1
        /\ g.row \in Results => g.row = g.view.result
        /\ g.rated => g.ended = 1

\* A journal failure spoils at most one match: there are never more matches
\* that were not announced, or whose ending was not, than failures so far,
\* also when one disconnect or one tick of the clock ends several games.
FaultsAreContained ==
    Cardinality({i \in GameIds : LET g == games[i] IN
                    g.created /\ (g.started = 0 \/ (g.finished /\ g.ended = 0))})
        <= MaxFaults - faults

\* A forfeit that is pending can only fall on a player who is away, in a game
\* played with a grace window: a reconnect in time always saves the player.
PendingForfeitIsDeserved ==
    \A i \in GameIds : LET g == games[i] IN
        Playing(g) /\ g.forfeit # "none" =>
            /\ g.grace
            /\ g.loser \in Seats
            /\ online[IF g.loser = "A" THEN g.a ELSE g.b] = NoConn

\* Nobody waits for a move nobody was asked for: in a match that was announced
\* the player on the clock, when connected, was sent your_turn for this very
\* position on the connection it now has, and the deadline is set.
TurnIsDelivered ==
    \A i \in GameIds : LET g == games[i] IN
        Playing(g) /\ g.started > 0 =>
            /\ g.deadline # "none"
            /\ online[OnClock(g)] # NoConn =>
                   g.turnTo = online[OnClock(g)] /\ g.turnAt = g.view.plies

\* Over is over: no late move, resignation, reconnect, disconnect, timeout or
\* second forfeit changes anything about a finished game, its journal row, its
\* rating or the events sent for it.
FinishedIsFinal ==
    [][\A i \in GameIds : games[i].finished => games'[i] = games[i]]_vars

Ends(i, reason) == /\ ~games[i].finished /\ games'[i].finished
                   /\ games'[i].reason = reason

LoserName(g) == IF g.view.result = "PLAYER_A_WIN" THEN g.b ELSE g.a

\* The loser deserves it: a timeout falls on the player whose deadline ran out
\* while on the clock, a disconnect on a player who has no connection.
LosersAreToBlame ==
    [][\A i \in GameIds :
          /\ Ends(i, "timeout") => /\ games[i].deadline = "elapsed"
                                   /\ LoserName(games'[i]) = OnClock(games[i])
          /\ Ends(i, "disconnect") => online'[LoserName(games'[i])] = NoConn]_vars

\* A player who drops in a match with a grace window has the whole window to
\* come back: no game ends by disconnect while its window is still running.
GraceIsHonoured ==
    [][\A i \in GameIds : Ends(i, "disconnect") => games[i].forfeit # "running"]_vars

\* Every match comes to an end, by its players or by the clock, unless the
\* server is shut down first.
EveryMatchEnds ==
    \A i \in GameIds : games[i].created ~> (games[i].finished \/ stopped)
=============================================================================
