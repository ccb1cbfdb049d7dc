-------------------------- MODULE MatchServerProofs --------------------------
(***************************************************************************)
(* Proofs about the match server, for any set of names and connections,    *)
(* any number of games, any length of game and any number of failures.     *)
(*                                                                         *)
(* The properties speak about one game at a time, so the inductive         *)
(* invariant IInv is the type invariant, the registry's invariant and, for *)
(* every game, GameOK.  The first part shows for each operation on a game  *)
(* (FinishGame, SendYourTurn, ...) that it keeps GameOK; the second part   *)
(* lifts this to the actions, with one lemma per action (GameStep).  The   *)
(* third part counts what failures spoil: a step spares every game, or it  *)
(* uses up a failure and spoils at most one.  The fourth part shows that   *)
(* the server implements MatchCourse, again operation by operation.        *)
(***************************************************************************)
EXTENDS MatchServer, FiniteSetTheorems, TLAPS

-----------------------------------------------------------------------------
(* Part one: the operations on one game. *)

\* What no operation on a game ever touches: the seats and the grace option.
SameMatch(g, h) ==
    h.created = g.created /\ h.a = g.a /\ h.b = g.b /\ h.grace = g.grace

\* The journal and the events agree with the board.
Books(g) ==
    /\ g.moves = g.view.plies
    /\ g.changed = g.view.plies
    /\ g.row = "none" => g.view.plies = 0
    /\ g.started = IF g.row = "none" THEN 0 ELSE 1

\* A game that is created and not over: nothing of an ending has been
\* recorded.
Undecided(g) ==
    /\ ~g.finished /\ g.created
    /\ g.reason = "none"
    /\ g.ended = 0 /\ ~g.rated
    /\ g.row \in {"none", "open"}

\* A game that is over: either its ending was journalled and announced, or the
\* journal failed and neither happened.
Decided(g) ==
    /\ g.finished /\ g.created
    /\ g.view.result # "UNDETERMINED"
    /\ g.reason # "none"
    /\ \/ g.ended = 0 /\ ~g.rated /\ g.row \in {"none", "open"}
       \/ g.ended = 1 /\ g.row \in {"none", g.view.result}

\* A game id that is not in use yet.
Absent(g) ==
    /\ ~g.created /\ ~g.finished
    /\ g.view.result = "UNDETERMINED" /\ g.view.plies = 0
    /\ g.reason = "none"
    /\ g.ended = 0 /\ ~g.rated
    /\ g.row = "none"

\* What holds of one game on its own. Decided and Undecided are stronger than
\* OneVerdict: they also say which rows a game without an announced ending can
\* have.
Sound(g) ==
    /\ Books(g)
    /\ \/ Decided(g)
       \/ Undecided(g) /\ g.view.result = "UNDETERMINED"
       \/ Absent(g)

\* The part of _finish_game before the journal is written.
Concluded(g, result, reason) ==
    [g EXCEPT !.view.result = IF @ = "UNDETERMINED" THEN result ELSE @,
              !.finished = TRUE, !.reason = reason, !.deadline = "none"]

\* The part of _finish_game from the journal on.
Announced(g, unrated) ==
    [g EXCEPT !.row = IF @ = "none" THEN @ ELSE g.view.result,
              !.rated = IF unrated THEN @ ELSE TRUE,
              !.ended = @ + 1]

\* _finish_game is one of the three: nothing, a conclusion the journal
\* refused, or a conclusion that is announced.
LEMMA FinishGameCases ==
    ASSUME NEW g, NEW result, NEW reason, NEW fault
    PROVE  FinishGame(g, result, reason, fault) =
             IF g.finished THEN g
             ELSE IF fault = "store" THEN Concluded(g, result, reason)
             ELSE Announced(Concluded(g, result, reason), g.a = g.b \/ fault = "elo")
  BY DEF FinishGame, Concluded, Announced

\* What the conclusion of a game leaves in each field.
LEMMA ConcludedFields ==
    ASSUME NEW g \in GameRecord, NEW result \in Results, NEW reason \in Reasons
    PROVE  LET h == Concluded(g, result, reason)
           IN  /\ h \in GameRecord /\ SameMatch(g, h)
               /\ h.finished /\ h.reason = reason
               /\ h.view.result = IF g.view.result = "UNDETERMINED" THEN result
                                  ELSE g.view.result
               /\ h.view.plies = g.view.plies /\ h.view.current = g.view.current
               /\ h.moves = g.moves /\ h.changed = g.changed /\ h.started = g.started
               /\ h.ended = g.ended /\ h.rated = g.rated /\ h.row = g.row
<1>1. g.view \in GameView
  BY DEF GameRecord
<1>2. [g.view EXCEPT !.result = IF @ = "UNDETERMINED" THEN result ELSE @] \in GameView
  BY <1>1 DEF GameView
<1>3. Concluded(g, result, reason) \in GameRecord
  BY <1>2 DEF Concluded, GameRecord, Timers
<1> QED
  BY <1>1, <1>2, <1>3 DEF Concluded, GameRecord, GameView, SameMatch

\* What the announcement of an ending leaves in each field.
LEMMA AnnouncedFields ==
    ASSUME NEW g \in GameRecord, NEW unrated \in BOOLEAN
    PROVE  LET h == Announced(g, unrated)
           IN  /\ h \in GameRecord /\ SameMatch(g, h)
               /\ h.finished = g.finished /\ h.reason = g.reason /\ h.view = g.view
               /\ h.moves = g.moves /\ h.changed = g.changed /\ h.started = g.started
               /\ h.ended = g.ended + 1
               /\ h.row = IF g.row = "none" THEN "none" ELSE g.view.result
<1>1. g.view.result \in Results /\ g.ended + 1 \in Nat /\ g.rated \in BOOLEAN
  BY DEF GameRecord, GameView
<1> QED
  BY <1>1 DEF Announced, GameRecord, SameMatch

\* _finish_game keeps the record of a game well formed.
LEMMA FinishGameType ==
    ASSUME NEW g \in GameRecord, NEW result \in Results, NEW reason \in Reasons,
           NEW fault
    PROVE  /\ FinishGame(g, result, reason, fault) \in GameRecord
           /\ SameMatch(g, FinishGame(g, result, reason, fault))
<1> DEFINE over == Concluded(g, result, reason)
           unrated == g.a = g.b \/ fault = "elo"
<1>1. over \in GameRecord /\ SameMatch(g, over)
  BY ConcludedFields
<1>2. unrated \in BOOLEAN
  OBVIOUS
<1> HIDE DEF over, unrated
<1>3. Announced(over, unrated) \in GameRecord /\ SameMatch(over, Announced(over, unrated))
  BY <1>1, <1>2, AnnouncedFields
<1> QED
  BY <1>1, <1>3, FinishGameCases DEF SameMatch, over, unrated

\* _finish_game turns an undecided game into a sound one that is over,
\* whatever fails, with the result on the board if there is one and else the
\* result given.
LEMMA FinishGameSound ==
    ASSUME NEW g \in GameRecord, NEW result \in Results, NEW reason \in Reasons,
           NEW fault, Books(g), Undecided(g), result # "UNDETERMINED",
           reason # "none", g.view.result \in {"UNDETERMINED", result}
    PROVE  LET h == FinishGame(g, result, reason, fault)
           IN  /\ h \in GameRecord /\ SameMatch(g, h)
               /\ Sound(h) /\ h.finished
               /\ h.view.result = result /\ h.reason = reason
<1> DEFINE over == Concluded(g, result, reason)
           unrated == g.a = g.b \/ fault = "elo"
<1>1. /\ over \in GameRecord /\ SameMatch(g, over)
      /\ over.finished /\ over.reason = reason /\ over.view.result = result
      /\ over.view.plies = g.view.plies
      /\ over.moves = g.moves /\ over.changed = g.changed /\ over.started = g.started
      /\ over.ended = g.ended /\ over.rated = g.rated /\ over.row = g.row
  BY ConcludedFields
<1>2. unrated \in BOOLEAN
  OBVIOUS
<1> HIDE DEF over, unrated
<1>3. Books(over) /\ Decided(over)
  BY <1>1 DEF Books, Undecided, Decided, SameMatch
<1> DEFINE told == Announced(over, unrated)
<1>4. /\ told \in GameRecord /\ SameMatch(over, told)
      /\ told.finished = over.finished /\ told.reason = over.reason
      /\ told.view = over.view
      /\ told.moves = over.moves /\ told.changed = over.changed
      /\ told.started = over.started /\ told.ended = over.ended + 1
      /\ told.row = IF over.row = "none" THEN "none" ELSE over.view.result
  BY <1>1, <1>2, AnnouncedFields
<1> HIDE DEF told
<1>5. Books(told) /\ Decided(told)
  <2>1. over.ended = 0 /\ result # "none"
    BY <1>1 DEF Undecided, Results
  <2>2. Books(told)
    BY <1>1, <1>3, <1>4, <2>1 DEF Books
  <2>3. Decided(told)
    BY <1>1, <1>4, <2>1 DEF Decided, Undecided, SameMatch
  <2> QED
    BY <2>2, <2>3
<1>6. FinishGame(g, result, reason, fault) \in {over, told}
  BY FinishGameCases DEF Undecided, over, told, unrated
<1> QED
  BY <1>1, <1>3, <1>4, <1>5, <1>6 DEF Sound, SameMatch

\* The type of _players_by_id.
Registry == [Names -> Conns \cup {NoConn}]

\* A pending forfeit falls on an absent player in a match with a grace window.
PendingOK(g, on) ==
    Playing(g) /\ g.forfeit # "none" =>
        /\ g.grace /\ g.loser \in Seats
        /\ on[IF g.loser = "A" THEN g.a ELSE g.b] = NoConn

\* The player on the clock has a deadline and, if connected, was asked.
TurnOK(g, on) ==
    Playing(g) /\ g.started > 0 =>
        /\ g.deadline # "none"
        /\ on[OnClock(g)] # NoConn =>
               g.turnTo = on[OnClock(g)] /\ g.turnAt = g.view.plies

\* Everything the invariant says about one game and the registry.
GameOK(g, on) == Sound(g) /\ PendingOK(g, on) /\ TurnOK(g, on)

\* A step from g to h that ends the game blames the right player.
Blame(g, h, on) ==
    ~g.finished /\ h.finished =>
        /\ h.reason = "timeout" =>
               g.deadline = "elapsed" /\ LoserName(h) = OnClock(g)
        /\ h.reason = "disconnect" => on[LoserName(h)] = NoConn

\* A sound game is being played exactly when it is undecided.
LEMMA SoundFacts ==
    ASSUME NEW g, Sound(g)
    PROVE  Playing(g) <=> Undecided(g) /\ g.view.result = "UNDETERMINED"
  BY DEF Sound, Playing, Decided, Undecided, Absent

\* A sound game that is over satisfies the rest of the invariant trivially.
LEMMA FinishedOK ==
    ASSUME NEW g, NEW on, Sound(g), g.finished
    PROVE  GameOK(g, on)
  BY DEF GameOK, PendingOK, TurnOK, Playing

\* Ending an undecided game against a seat makes that seat the loser.
LEMMA Forfeited ==
    ASSUME NEW g \in GameRecord, NEW seat \in Seats, NEW reason \in Reasons,
           NEW fault, NEW on, Books(g), Undecided(g), reason # "none",
           g.view.result = "UNDETERMINED"
    PROVE  LET h == FinishGame(g, WinFor(Other(seat)), reason, fault)
           IN  /\ h \in GameRecord /\ SameMatch(g, h)
               /\ GameOK(h, on) /\ h.finished /\ h.reason = reason
               /\ LoserName(h) = IF seat = "A" THEN g.a ELSE g.b
<1> DEFINE result == WinFor(Other(seat))
           h == FinishGame(g, result, reason, fault)
<1>1. /\ result \in Results \ {"UNDETERMINED"}
      /\ result = "PLAYER_A_WIN" <=> seat = "B"
  BY DEF WinFor, Other, Results, Seats
<1> HIDE DEF result
<1>2. /\ h \in GameRecord /\ SameMatch(g, h) /\ Sound(h) /\ h.finished
      /\ h.view.result = result /\ h.reason = reason
  BY <1>1, FinishGameSound
<1>3. GameOK(h, on)
  BY <1>2, FinishedOK
<1>4. LoserName(h) = IF seat = "A" THEN g.a ELSE g.b
  BY <1>1, <1>2 DEF LoserName, SameMatch, Seats
<1> QED
  BY <1>2, <1>3, <1>4 DEF result

\* _send_your_turn keeps the invariant of the game; if it ends the game, it is
\* by the disconnect of a player who has no connection.
LEMMA SendYourTurnStep ==
    ASSUME NEW g \in GameRecord, NEW on \in Registry, NEW fault,
           g.a \in Names, g.b \in Names, Books(g), Undecided(g),
           g.view.result = "UNDETERMINED", PendingOK(g, on)
    PROVE  LET h == SendYourTurn(g, on, fault)
           IN  /\ h \in GameRecord /\ SameMatch(g, h) /\ GameOK(h, on)
               /\ h.finished => /\ h.reason = "disconnect"
                                /\ on[LoserName(h)] = NoConn
<1>1. CASE on[OnClock(g)] = NoConn
  <2> DEFINE seat == SeatOf(g, OnClock(g))
             h == FinishGame(g, WinFor(Other(seat)), "disconnect", fault)
  <2>1. seat \in Seats /\ (IF seat = "A" THEN g.a ELSE g.b) = OnClock(g)
    BY DEF SeatOf, OnClock, Seats
  <2> HIDE DEF seat
  <2>2. /\ h \in GameRecord /\ SameMatch(g, h) /\ GameOK(h, on)
        /\ h.reason = "disconnect" /\ LoserName(h) = OnClock(g)
    BY <2>1, Forfeited DEF Reasons
  <2>3. SendYourTurn(g, on, fault) = h
    BY <1>1 DEF SendYourTurn, Undecided, seat
  <2> QED
    BY <1>1, <2>2, <2>3
<1>2. CASE on[OnClock(g)] # NoConn
  <2> DEFINE to == on[OnClock(g)]
             due == IF g.deadline = "none" THEN "running" ELSE g.deadline
             h == [g EXCEPT !.deadline = due, !.turnTo = to, !.turnAt = g.view.plies]
  <2>1. /\ to \in Conns \cup {NoConn}
        /\ g.view.plies \in Nat
        /\ due \in Timers \ {"none"}
    BY DEF Registry, OnClock, GameRecord, GameView, Timers
  <2>2. SendYourTurn(g, on, fault) = h
    BY <1>2 DEF SendYourTurn, Undecided
  <2>3. to = on[OnClock(g)]
    OBVIOUS
  <2> HIDE DEF to, due
  <2>4. /\ h \in GameRecord /\ SameMatch(g, h)
        /\ h.view = g.view /\ h.finished = g.finished /\ h.reason = g.reason
        /\ h.row = g.row /\ h.moves = g.moves /\ h.rated = g.rated
        /\ h.started = g.started /\ h.changed = g.changed /\ h.ended = g.ended
        /\ h.forfeit = g.forfeit /\ h.loser = g.loser
        /\ h.deadline # "none" /\ h.turnTo = to /\ h.turnAt = g.view.plies
    BY <2>1 DEF GameRecord, SameMatch
  <2> HIDE DEF h
  <2>5. Sound(h)
    BY <2>4 DEF Sound, Books, Undecided, SameMatch
  <2>6. PendingOK(h, on)
    BY <2>4 DEF PendingOK, Playing, SameMatch
  <2>7. TurnOK(h, on)
    BY <2>3, <2>4 DEF TurnOK, OnClock, SameMatch
  <2> QED
    BY <2>2, <2>4, <2>5, <2>6, <2>7 DEF GameOK, Undecided
<1> QED
  BY <1>1, <1>2

\* An accepted action adds one ply and is possible only while undetermined.
LEMMA SuccessorFacts ==
    ASSUME NEW v \in GameView, NEW w \in Successors(v)
    PROVE  w \in GameView /\ w.plies = v.plies + 1 /\ v.result = "UNDETERMINED"
<1>1. /\ v.plies \in Nat /\ v.plies + 1 \in Nat /\ v.count + 1 \in Nat
      /\ v.current \in Seats /\ v.phase \in Phases
  BY DEF GameView
<1>2. /\ Other(v.current) \in Seats /\ WinFor(v.current) \in Results
      /\ "DRAW" \in Results /\ {"A", "B"} \subseteq Seats
      /\ {"STANDARD", "SWAP2_PLACE_TWO", "SWAP2_DECISION", "CHOOSE_COLOR"} \subseteq Phases
  BY DEF Other, WinFor, Seats, Results, Phases
<1>3. v.result = "UNDETERMINED"
  BY DEF Successors
<1>4. \/ w = PlaceInitial(v)
      \/ \E phase \in Phases, seat \in Seats : w = Decide(v, phase, seat)
      \/ w = PlaceTwo(v)
      \/ w = PlayOn(v)
      \/ \E result \in Results : w = PlayLast(v, result)
  BY <1>1, <1>2, <1>3 DEF Successors, Phases
<1>5. CASE w = PlaceInitial(v)
  BY <1>1, <1>2, <1>3, <1>5 DEF PlaceInitial, GameView
<1>6. CASE \E phase \in Phases, seat \in Seats : w = Decide(v, phase, seat)
  BY <1>1, <1>2, <1>3, <1>6 DEF Decide, GameView
<1>7. CASE w = PlaceTwo(v)
  BY <1>1, <1>2, <1>3, <1>7 DEF PlaceTwo, GameView
<1>8. CASE w = PlayOn(v)
  BY <1>1, <1>2, <1>3, <1>8 DEF PlayOn, GameView
<1>9. CASE \E result \in Results : w = PlayLast(v, result)
  BY <1>1, <1>2, <1>3, <1>9 DEF PlayLast, GameView
<1> QED
  BY <1>4, <1>5, <1>6, <1>7, <1>8, <1>9

\* The fields of a match that was just put into _games.
LEMMA NewMatchFields ==
    ASSUME NEW a \in Names, NEW b \in Names, NEW grace \in BOOLEAN
    PROVE  LET g == NewMatch(a, b, grace)
           IN  /\ g \in GameRecord /\ g.a = a /\ g.b = b /\ g.created
               /\ Books(g) /\ Undecided(g) /\ g.view.result = "UNDETERMINED"
               /\ g.row = "none" /\ g.started = 0 /\ g.forfeit = "none"
               /\ g.view.plies = 0 /\ g.moves = 0 /\ g.changed = 0
<1>1. NewGame \in GameView /\ NewGame.result = "UNDETERMINED" /\ NewGame.plies = 0
  BY DEF NewGame, GameView, Phases, Seats, Results
<1>2. /\ NoGame \in GameRecord /\ NoGame.view = NewGame /\ NoGame.row = "none"
      /\ NoGame.moves = 0 /\ NoGame.changed = 0 /\ NoGame.started = 0
      /\ NoGame.ended = 0 /\ ~NoGame.rated /\ ~NoGame.finished
      /\ NoGame.reason = "none" /\ NoGame.forfeit = "none" /\ ~NoGame.created
  BY <1>1 DEF NoGame, GameRecord, Timers, Reasons
<1> QED
  BY <1>1, <1>2 DEF NewMatch, GameRecord, Books, Undecided

\* A match whose journal row could not be written satisfies the invariant.
LEMMA NewMatchStep ==
    ASSUME NEW a \in Names, NEW b \in Names, NEW grace \in BOOLEAN,
           NEW on \in Registry
    PROVE  LET h == NewMatch(a, b, grace)
           IN  /\ h \in GameRecord /\ h.a = a /\ h.b = b
               /\ GameOK(h, on) /\ ~h.finished
  BY NewMatchFields DEF GameOK, Sound, PendingOK, TurnOK, Undecided

\* Opening a match (row, game_started, first your_turn) establishes it too.
LEMMA OpenMatchStep ==
    ASSUME NEW a \in Names, NEW b \in Names, NEW grace \in BOOLEAN,
           NEW on \in Registry, NEW fault
    PROVE  LET h == OpenMatch(NewMatch(a, b, grace), on, fault)
           IN  /\ h \in GameRecord /\ h.a = a /\ h.b = b /\ GameOK(h, on)
               /\ h.finished => /\ h.reason = "disconnect"
                                /\ on[LoserName(h)] = NoConn
<1> DEFINE g == NewMatch(a, b, grace)
           m == [g EXCEPT !.row = IF @ = "none" THEN "open" ELSE @, !.started = @ + 1]
<1>1. /\ g \in GameRecord /\ g.a = a /\ g.b = b /\ g.created
      /\ Undecided(g) /\ g.view.result = "UNDETERMINED"
      /\ g.row = "none" /\ g.started = 0 /\ g.forfeit = "none"
      /\ g.view.plies = 0 /\ g.moves = 0 /\ g.changed = 0
  BY NewMatchFields
<1> HIDE DEF g
<1>2. m = [g EXCEPT !.row = "open", !.started = 1]
  BY <1>1
<1> HIDE DEF m
<1>3. /\ m \in GameRecord /\ m.a = a /\ m.b = b /\ m.view = g.view
      /\ m.row = "open" /\ m.started = 1 /\ m.moves = 0 /\ m.changed = 0
      /\ m.forfeit = "none" /\ m.created /\ Undecided(m)
  BY <1>1, <1>2 DEF GameRecord, Undecided
<1>4. Books(m) /\ PendingOK(m, on) /\ m.view.result = "UNDETERMINED"
  BY <1>1, <1>3 DEF Books, PendingOK
<1>5. OpenMatch(g, on, fault) = SendYourTurn(m, on, fault)
  BY DEF OpenMatch, m
<1> QED
  BY <1>3, <1>4, <1>5, SendYourTurnStep DEF SameMatch, g

\* A same-name reconnect keeps the invariant of the games of the player and
\* never ends one.
LEMMA ResumeStep ==
    ASSUME NEW g \in GameRecord, NEW on \in Registry, NEW was \in Registry,
           NEW name \in Names, g.a \in Names, g.b \in Names,
           Playing(g), GameOK(g, was), on[name] # NoConn,
           \A n \in Names : n # name => on[n] = was[n]
    PROVE  LET h == Resume(g, name, on)
           IN  h \in GameRecord /\ SameMatch(g, h) /\ GameOK(h, on) /\ ~h.finished
<1> DEFINE back == [g EXCEPT !.forfeit = "none", !.loser = "none"]
           slot == [back EXCEPT !.deadline = "running"]
<1>1. /\ Sound(g) /\ Books(g) /\ Undecided(g) /\ g.view.result = "UNDETERMINED"
      /\ TurnOK(g, was)
  BY SoundFacts DEF GameOK, Sound
<1>2. /\ back \in GameRecord /\ SameMatch(g, back)
      /\ back.view = g.view /\ back.finished = g.finished /\ back.reason = g.reason
      /\ back.row = g.row /\ back.moves = g.moves /\ back.rated = g.rated
      /\ back.started = g.started /\ back.changed = g.changed /\ back.ended = g.ended
      /\ back.forfeit = "none" /\ back.deadline = g.deadline
      /\ back.turnTo = g.turnTo /\ back.turnAt = g.turnAt
  BY DEF GameRecord, Timers, SameMatch
<1>3. Resume(g, name, on) = IF OnClock(g) # name THEN back
                            ELSE SendYourTurn(slot, on, "none")
  BY DEF Resume
<1> HIDE DEF back
<1>4. Books(back) /\ Undecided(back) /\ PendingOK(back, on)
  BY <1>1, <1>2 DEF Books, Undecided, PendingOK, SameMatch
<1>5. CASE OnClock(g) # name
  <2>1. OnClock(back) = OnClock(g) /\ on[OnClock(g)] = was[OnClock(g)]
    BY <1>2, <1>5 DEF OnClock, SameMatch
  <2>2. TurnOK(back, on)
    BY <1>1, <1>2, <2>1 DEF TurnOK, Playing, SameMatch
  <2> QED
    BY <1>1, <1>2, <1>3, <1>4, <1>5, <2>2 DEF GameOK, Sound, Undecided
<1>6. CASE OnClock(g) = name
  <2>1. /\ slot \in GameRecord /\ SameMatch(g, slot)
        /\ slot.view = g.view /\ slot.finished = g.finished /\ slot.reason = g.reason
        /\ slot.row = g.row /\ slot.moves = g.moves /\ slot.rated = g.rated
        /\ slot.started = g.started /\ slot.changed = g.changed
        /\ slot.ended = g.ended /\ slot.forfeit = "none"
    BY <1>2 DEF GameRecord, Timers, SameMatch
  <2>2. slot.a \in Names /\ slot.b \in Names /\ OnClock(slot) = name
    BY <1>6, <2>1 DEF SameMatch, OnClock
  <2> HIDE DEF slot
  <2>3. Books(slot) /\ Undecided(slot) /\ PendingOK(slot, on)
    BY <1>1, <2>1 DEF Books, Undecided, PendingOK, SameMatch
  <2> DEFINE h == SendYourTurn(slot, on, "none")
  <2>4. h \in GameRecord /\ SameMatch(slot, h) /\ GameOK(h, on)
    BY <1>1, <2>1, <2>2, <2>3, SendYourTurnStep
  <2>5. ~h.finished
    BY <2>1, <2>2, <2>3 DEF SendYourTurn, Undecided, GameRecord
  <2> QED
    BY <1>3, <1>6, <2>1, <2>4, <2>5 DEF SameMatch
<1> QED
  BY <1>5, <1>6

\* submit_move keeps the invariant of the game, with or without a journal
\* failure, and only an absent next player can be blamed for an ending.
LEMMA ApplyMoveStep ==
    ASSUME NEW g \in GameRecord, NEW on \in Registry, NEW fault,
           NEW next \in Successors(g.view), g.a \in Names, g.b \in Names,
           Playing(g), GameOK(g, on)
    PROVE  LET h == ApplyMove(g, next, on, fault)
           IN  h \in GameRecord /\ SameMatch(g, h) /\ GameOK(h, on) /\ Blame(g, h, on)
<1> DEFINE moved == [g EXCEPT !.view = next]
           told  == [moved EXCEPT !.moves = @ + 1, !.changed = @ + 1]
           slot  == [told EXCEPT !.deadline = "running"]
           ended == FinishGame(told, next.result,
                        IF next.result # "DRAW" THEN "five_in_a_row" ELSE "draw", fault)
<1>1. /\ Books(g) /\ Undecided(g) /\ g.view.result = "UNDETERMINED"
      /\ PendingOK(g, on) /\ g.view \in GameView
  BY SoundFacts DEF GameOK, Sound, GameRecord
<1>2. next \in GameView /\ next.plies = g.view.plies + 1
  BY <1>1, SuccessorFacts
<1>3. ApplyMove(g, next, on, fault) =
         IF JournalRefuses(g, fault) THEN [moved EXCEPT !.view = g.view]
         ELSE IF next.result # "UNDETERMINED" THEN ended
         ELSE SendYourTurn(slot, on, fault)
  BY DEF ApplyMove
<1>4. CASE JournalRefuses(g, fault)
  <2>1. [moved EXCEPT !.view = g.view] = g
    BY DEF GameRecord
  <2> QED
    BY <1>3, <1>4, <2>1 DEF SameMatch, Blame
<1>5. CASE ~JournalRefuses(g, fault)
  <2>1. g.moves + 1 \in Nat /\ g.changed + 1 \in Nat
    BY DEF GameRecord
  <2>2. /\ told \in GameRecord /\ SameMatch(g, told)
        /\ told.view = next /\ told.finished = g.finished /\ told.reason = g.reason
        /\ told.row = g.row /\ told.moves = g.moves + 1 /\ told.rated = g.rated
        /\ told.started = g.started /\ told.changed = g.changed + 1
        /\ told.ended = g.ended /\ told.forfeit = g.forfeit /\ told.loser = g.loser
    BY <1>2, <2>1 DEF GameRecord, SameMatch
  <2> HIDE DEF told
  <2>3. Books(told) /\ Undecided(told) /\ told.a \in Names /\ told.b \in Names
    <3>1. g.row # "none" /\ g.view.plies + 1 \in Nat
      BY <1>1, <1>5 DEF JournalRefuses, GameView
    <3> QED
      BY <1>1, <1>2, <2>2, <3>1 DEF Books, Undecided, SameMatch
  <2>4. CASE next.result # "UNDETERMINED"
    <3> DEFINE reason == IF next.result # "DRAW" THEN "five_in_a_row" ELSE "draw"
    <3>1. reason \in Reasons \ {"none", "timeout", "disconnect"} /\ next.result \in Results
      BY <1>2 DEF Reasons, GameView
    <3> HIDE DEF reason
    <3>2. LET h == FinishGame(told, next.result, reason, fault)
          IN  /\ h \in GameRecord /\ SameMatch(told, h) /\ Sound(h) /\ h.finished
              /\ h.reason = reason
      BY <2>2, <2>3, <2>4, <3>1, FinishGameSound
    <3>3. ended \in GameRecord /\ SameMatch(told, ended) /\ Sound(ended)
          /\ ended.finished /\ ended.reason = reason
      BY <3>2 DEF reason
    <3> HIDE DEF ended
    <3>4. GameOK(ended, on) /\ Blame(g, ended, on)
      BY <3>1, <3>3, FinishedOK DEF Blame
    <3> QED
      BY <1>3, <1>5, <2>2, <2>4, <3>3, <3>4 DEF SameMatch
  <2>5. CASE next.result = "UNDETERMINED"
    <3>1. /\ slot \in GameRecord /\ SameMatch(told, slot)
          /\ slot.view = next /\ slot.finished = told.finished
          /\ slot.reason = told.reason
          /\ slot.row = told.row /\ slot.moves = told.moves /\ slot.rated = told.rated
          /\ slot.started = told.started /\ slot.changed = told.changed
          /\ slot.ended = told.ended /\ slot.forfeit = told.forfeit
          /\ slot.loser = told.loser
      BY <2>2 DEF GameRecord, Timers, SameMatch
    <3> HIDE DEF slot
    <3>2. Books(slot) /\ Undecided(slot) /\ slot.a \in Names /\ slot.b \in Names
      BY <2>2, <2>3, <3>1 DEF Books, Undecided, SameMatch
    <3>3. PendingOK(slot, on)
      BY <1>1, <2>2, <3>1 DEF PendingOK, Playing, SameMatch
    <3> DEFINE h == SendYourTurn(slot, on, fault)
    <3>4. /\ h \in GameRecord /\ SameMatch(slot, h) /\ GameOK(h, on)
          /\ h.finished => h.reason = "disconnect" /\ on[LoserName(h)] = NoConn
      BY <2>5, <3>1, <3>2, <3>3, SendYourTurnStep
    <3> HIDE DEF h
    <3>5. Blame(g, h, on) /\ SameMatch(g, h)
      BY <2>2, <3>1, <3>4 DEF Blame, SameMatch
    <3> QED
      BY <1>3, <1>5, <2>5, <3>4, <3>5 DEF h
  <2> QED
    BY <2>4, <2>5
<1> QED
  BY <1>4, <1>5

\* The loss of a connection keeps the invariant of each game of the registry
\* without the player.
LEMMA LoseConnectionStep ==
    ASSUME NEW g \in GameRecord, NEW on \in Registry, NEW was \in Registry,
           NEW name \in Names, NEW fault, GameOK(g, was), g.created => {g.a, g.b} \subseteq Names,
           on[name] = NoConn, \A n \in Names : n # name => on[n] = was[n]
    PROVE  LET h == LoseConnection(g, name, fault)
           IN  /\ h \in GameRecord /\ SameMatch(g, h) /\ GameOK(h, on)
               /\ Blame(g, h, on)
               /\ g.finished => h = g
<1>1. CASE ~Playing(g) \/ ~Seated(g, name)
  <2>1. LoseConnection(g, name, fault) = g
    BY <1>1 DEF LoseConnection
  <2>2. Playing(g) => /\ on[g.a] = was[g.a] /\ on[g.b] = was[g.b]
                      /\ on[OnClock(g)] = was[OnClock(g)]
    BY <1>1 DEF Playing, Seated, OnClock
  <2>3. GameOK(g, on)
    BY <2>2 DEF GameOK, PendingOK, TurnOK
  <2> QED
    BY <2>1, <2>3 DEF Blame, SameMatch
<1>2. CASE Playing(g) /\ Seated(g, name)
  <2>1. /\ Sound(g) /\ Books(g) /\ Undecided(g) /\ g.view.result = "UNDETERMINED"
        /\ TurnOK(g, was) /\ ~g.finished
    BY <1>2, SoundFacts DEF GameOK, Sound, Playing
  <2>2. /\ SeatOf(g, name) \in Seats
        /\ (IF SeatOf(g, name) = "A" THEN g.a ELSE g.b) = name
    BY <1>2 DEF SeatOf, Seated, Seats
  <2>3. CASE g.grace
    <3> DEFINE h == [g EXCEPT !.forfeit = "running", !.loser = SeatOf(g, name)]
    <3>1. LoseConnection(g, name, fault) = h
      BY <1>2, <2>3 DEF LoseConnection
    <3>2. /\ h \in GameRecord /\ SameMatch(g, h)
          /\ h.view = g.view /\ h.finished = g.finished /\ h.reason = g.reason
          /\ h.row = g.row /\ h.moves = g.moves /\ h.rated = g.rated
          /\ h.started = g.started /\ h.changed = g.changed /\ h.ended = g.ended
          /\ h.forfeit = "running" /\ h.loser = SeatOf(g, name)
          /\ h.deadline = g.deadline /\ h.turnTo = g.turnTo /\ h.turnAt = g.turnAt
      BY <2>2 DEF GameRecord, Timers, SameMatch
    <3> HIDE DEF h
    <3>3. Sound(h)
      BY <2>1, <3>2 DEF Sound, Books, Undecided, SameMatch
    <3>4. PendingOK(h, on)
      BY <2>2, <2>3, <3>2 DEF PendingOK, SameMatch
    <3>5. TurnOK(h, on)
      <4>1. OnClock(h) = OnClock(g)
        BY <3>2 DEF OnClock, SameMatch
      <4>2. on[OnClock(g)] # NoConn => on[OnClock(g)] = was[OnClock(g)]
        BY <1>2 DEF OnClock, Playing
      <4> QED
        BY <1>2, <2>1, <3>2, <4>1, <4>2 DEF TurnOK
    <3> QED
      BY <2>1, <3>1, <3>2, <3>3, <3>4, <3>5 DEF GameOK, Blame
  <2>4. CASE ~g.grace
    <3> DEFINE seat == SeatOf(g, name)
               h == FinishGame(g, WinFor(Other(seat)), "disconnect", fault)
    <3>1. LoseConnection(g, name, fault) = h
      BY <1>2, <2>4 DEF LoseConnection
    <3>2. seat \in Seats /\ (IF seat = "A" THEN g.a ELSE g.b) = name
      BY <2>2
    <3> HIDE DEF seat
    <3>3. /\ h \in GameRecord /\ SameMatch(g, h) /\ GameOK(h, on)
          /\ h.reason = "disconnect" /\ LoserName(h) = name
      BY <2>1, <3>2, Forfeited DEF Reasons
    <3> QED
      BY <2>1, <3>1, <3>3 DEF Blame
  <2> QED
    BY <2>3, <2>4
<1> QED
  BY <1>1, <1>2

\* The verdict of the clock keeps the invariant and blames the right player.
LEMMA ExpireStep ==
    ASSUME NEW g \in GameRecord, NEW on \in Registry, NEW fault,
           Due(g), GameOK(g, on)
    PROVE  LET h == Expire(g, fault)
           IN  h \in GameRecord /\ SameMatch(g, h) /\ GameOK(h, on) /\ Blame(g, h, on)
<1>1. /\ Books(g) /\ Undecided(g) /\ g.view.result = "UNDETERMINED"
      /\ PendingOK(g, on) /\ Playing(g) /\ g.view.current \in Seats
  BY SoundFacts DEF GameOK, Sound, Due, GameRecord, GameView
<1>2. CASE g.deadline = "elapsed"
  <2> DEFINE h == FinishGame(g, WinFor(Other(g.view.current)), "timeout", fault)
  <2>1. Expire(g, fault) = h
    BY <1>2 DEF Expire
  <2>2. /\ h \in GameRecord /\ SameMatch(g, h) /\ GameOK(h, on)
        /\ h.reason = "timeout" /\ LoserName(h) = OnClock(g)
    BY <1>1, Forfeited DEF Reasons, OnClock
  <2> QED
    BY <1>2, <2>1, <2>2 DEF Blame
<1>3. CASE g.deadline # "elapsed"
  <2> DEFINE seat == IF g.loser = "none" THEN "A" ELSE g.loser
             h == FinishGame(g, WinFor(Other(seat)), "disconnect", fault)
  <2>1. Expire(g, fault) = h
    BY <1>3 DEF Expire
  <2>2. /\ seat \in Seats
        /\ on[IF seat = "A" THEN g.a ELSE g.b] = NoConn
    BY <1>1, <1>3 DEF Due, PendingOK, Seats
  <2> HIDE DEF seat
  <2>3. /\ h \in GameRecord /\ SameMatch(g, h) /\ GameOK(h, on)
        /\ h.reason = "disconnect"
        /\ LoserName(h) = IF seat = "A" THEN g.a ELSE g.b
    BY <1>1, <2>2, Forfeited DEF Reasons
  <2> QED
    BY <2>1, <2>2, <2>3 DEF Blame
<1> QED
  BY <1>2, <1>3

-----------------------------------------------------------------------------
(* Part two: the actions. *)

\* The inductive invariant.
IInv == /\ TypeOK
        /\ RegistryMatches
        /\ \A i \in GameIds : GameOK(games[i], online)

\* What every step of the server does to one game: it stays well formed, the
\* invariant holds afterwards, the loser is the right one, and a game that was
\* over is left alone.
GameStep(i) ==
    /\ games'[i] \in GameRecord
    /\ games'[i].created => {games'[i].a, games'[i].b} \subseteq known'
    /\ GameOK(games'[i], online')
    /\ Blame(games[i], games'[i], online')
    /\ games[i].finished => games'[i] = games[i]

\* The invariant holds initially.
LEMMA InitIInv == Init => IInv
<1> SUFFICES ASSUME Init PROVE IInv
  OBVIOUS
<1> USE DEF Init
<1>1. NewGame \in GameView /\ NewGame.result = "UNDETERMINED" /\ NewGame.plies = 0
  BY DEF NewGame, GameView, Phases, Seats, Results
<1>2. NoGame \in GameRecord
  BY <1>1 DEF NoGame, GameRecord, Timers, Reasons
<1>3. \A i \in GameIds : games[i] = NoGame
  OBVIOUS
<1>4. TypeOK
  BY <1>2, BoundsAssumption DEF TypeOK, ConnRecord, Stages, NoGame
<1>5. RegistryMatches
  BY DEF RegistryMatches
<1>6. Sound(NoGame)
  BY <1>1 DEF Sound, Books, Absent, NoGame
<1>7. \A on : GameOK(NoGame, on)
  BY <1>6 DEF GameOK, PendingOK, TurnOK, Playing, NoGame
<1> QED
  BY <1>3, <1>4, <1>5, <1>7 DEF IInv

\* A game that a step leaves alone keeps the invariant when the registry
\* stays.
LEMMA IdleGame ==
    ASSUME IInv, NEW i \in GameIds, games'[i] = games[i], known \subseteq known',
           online' = online
    PROVE  GameStep(i)
  BY DEF IInv, TypeOK, GameStep, Blame

\* register: every game of the player is resumed, the others are left alone.
LEMMA RegisterGames ==
    ASSUME IInv, NEW c \in Conns, NEW name \in Names, Register(c, name),
           NEW i \in GameIds
    PROVE  GameStep(i)
<1> DEFINE g == games[i]
           h == games'[i]
<1>1. /\ g \in GameRecord /\ GameOK(g, online) /\ online \in Registry
      /\ g.created => {g.a, g.b} \subseteq known
      /\ known \subseteq Names
  BY DEF IInv, TypeOK, Registry
<1>2. /\ online' \in Registry /\ online'[name] # NoConn
      /\ \A n \in Names : n # name => online'[n] = online[n]
      /\ known' = known \cup {name}
  BY <1>1, BoundsAssumption DEF Register, Registry
<1>3. h = IF name \in known /\ Playing(g) /\ Seated(g, name)
          THEN Resume(g, name, online') ELSE g
  BY DEF Register
<1>4. CASE name \in known /\ Playing(g) /\ Seated(g, name)
  <2>1. g.a \in Names /\ g.b \in Names /\ ~g.finished
    BY <1>1, <1>4 DEF Playing
  <2> HIDE DEF g
  <2>2. LET k == Resume(g, name, online')
        IN  k \in GameRecord /\ SameMatch(g, k) /\ GameOK(k, online') /\ ~k.finished
    BY <1>1, <1>2, <1>4, <2>1, ResumeStep
  <2> QED
    BY <1>1, <1>2, <1>3, <1>4, <2>1, <2>2 DEF GameStep, SameMatch, Blame, g
<1>5. CASE ~(name \in known /\ Playing(g) /\ Seated(g, name))
  <2>1. Playing(g) => name \notin {g.a, g.b}
    BY <1>1, <1>5 DEF Playing, Seated
  <2>2. Playing(g) => /\ online'[g.a] = online[g.a] /\ online'[g.b] = online[g.b]
                      /\ online'[OnClock(g)] = online[OnClock(g)]
    BY <1>1, <1>2, <2>1 DEF Playing, OnClock
  <2>3. GameOK(g, online')
    BY <1>1, <2>2 DEF GameOK, PendingOK, TurnOK
  <2> QED
    BY <1>1, <1>2, <1>3, <1>5, <2>3 DEF GameStep, Blame
<1> QED
  BY <1>4, <1>5

\* create_match: one new game, the others are left alone.
LEMMA CreateMatchGames ==
    ASSUME IInv, NEW c \in Conns, NEW m \in GameIds, NEW a \in Names, NEW b \in Names,
           NEW grace \in BOOLEAN, NEW fault, CreateMatch(c, m, a, b, grace, fault),
           NEW i \in GameIds
    PROVE  GameStep(i)
<1>1. /\ games \in [GameIds -> GameRecord] /\ online \in Registry
      /\ Sound(games[m]) /\ known' = known /\ online' = online
      /\ {a, b} \subseteq known /\ ~games[m].created
  BY DEF IInv, TypeOK, Registry, GameOK, CreateMatch
<1>2. CASE i # m
  <2>1. games'[i] = games[i]
    BY <1>1, <1>2 DEF CreateMatch
  <2> QED
    BY <1>1, <2>1, IdleGame
<1>3. CASE i = m
  <2> DEFINE h == IF fault = "start" THEN NewMatch(a, b, grace)
                  ELSE OpenMatch(NewMatch(a, b, grace), online, fault)
  <2>1. games'[i] = h
    BY <1>1, <1>3 DEF CreateMatch
  <2>2. /\ h \in GameRecord /\ h.a = a /\ h.b = b /\ GameOK(h, online)
        /\ h.finished => h.reason = "disconnect" /\ online[LoserName(h)] = NoConn
    BY <1>1, NewMatchStep, OpenMatchStep
  <2> HIDE DEF h
  <2>3. ~games[m].finished
    BY <1>1 DEF Sound, Decided, Undecided, Absent
  <2> QED
    BY <1>1, <1>3, <2>1, <2>2, <2>3 DEF GameStep, Blame
<1> QED
  BY <1>2, <1>3

\* submit_move: one game moves, the others are left alone.
LEMMA SubmitMoveGames ==
    ASSUME IInv, NEW c \in Conns, NEW m \in GameIds, NEW fault,
           NEW next \in Successors(games[m].view), SubmitMove(c, m, next, fault),
           NEW i \in GameIds
    PROVE  GameStep(i)
<1> DEFINE g == games[m]
<1>1. /\ games \in [GameIds -> GameRecord] /\ online \in Registry
      /\ GameOK(g, online) /\ known' = known /\ online' = online
      /\ Playing(g) /\ {g.a, g.b} \subseteq known /\ known \subseteq Names
      /\ games' = [games EXCEPT ![m] = ApplyMove(g, next, online, fault)]
  BY DEF IInv, TypeOK, Registry, SubmitMove, Playing
<1>2. CASE i # m
  BY <1>1, <1>2, IdleGame
<1>3. CASE i = m
  <2>1. g \in GameRecord /\ g.a \in Names /\ g.b \in Names /\ ~g.finished
    BY <1>1 DEF Playing
  <2>2. LET h == ApplyMove(g, next, online, fault)
        IN  h \in GameRecord /\ SameMatch(g, h) /\ GameOK(h, online) /\ Blame(g, h, online)
    BY <1>1, <2>1, ApplyMoveStep
  <2>3. games'[i] = ApplyMove(g, next, online, fault)
    BY <1>1, <1>3
  <2> QED
    BY <1>1, <1>3, <2>1, <2>2, <2>3 DEF GameStep, SameMatch
<1> QED
  BY <1>2, <1>3

\* resign: one game ends, the others are left alone.
LEMMA ResignGames ==
    ASSUME IInv, NEW c \in Conns, NEW m \in GameIds, NEW fault, Resign(c, m, fault),
           NEW i \in GameIds
    PROVE  GameStep(i)
<1> DEFINE g == games[m]
           seat == SeatOf(g, conns[c].player)
           h == FinishGame(g, WinFor(Other(seat)), "resignation", fault)
<1>1. /\ games \in [GameIds -> GameRecord] /\ known' = known /\ online' = online
      /\ GameOK(g, online) /\ Playing(g) /\ {g.a, g.b} \subseteq known
      /\ games' = [games EXCEPT ![m] = h]
  BY DEF IInv, TypeOK, Resign, Playing
<1>2. CASE i # m
  BY <1>1, <1>2, IdleGame
<1>3. CASE i = m
  <2>1. /\ g \in GameRecord /\ ~g.finished /\ Books(g) /\ Undecided(g)
        /\ g.view.result = "UNDETERMINED"
    BY <1>1, SoundFacts DEF GameOK, Sound, Playing
  <2>2. seat \in Seats
    BY DEF SeatOf, Seats
  <2> HIDE DEF seat
  <2>3. h \in GameRecord /\ SameMatch(g, h) /\ GameOK(h, online) /\ h.reason = "resignation"
    BY <2>1, <2>2, Forfeited DEF Reasons
  <2>4. games'[i] = h
    BY <1>1, <1>3
  <2> HIDE DEF h
  <2> QED
    BY <1>1, <1>3, <2>1, <2>3, <2>4 DEF GameStep, SameMatch, Blame
<1> QED
  BY <1>2, <1>3

\* The second section of _cleanup_connection: every game is looked at, up to
\* the one whose journal update fails.
LEMMA CleanupGames ==
    ASSUME IInv, NEW c \in Conns, NEW bad \in {0} \cup GameIds,
           CleanupConnection(c, bad), NEW i \in GameIds
    PROVE  GameStep(i)
<1> DEFINE g == games[i]
           name == conns[c].player
<1>1. /\ g \in GameRecord /\ GameOK(g, online) /\ online \in Registry
      /\ g.created => {g.a, g.b} \subseteq known
      /\ known \subseteq Names /\ name \in Names \cup {NoName}
      /\ RegistryMatches /\ conns[c].stage = "popped" /\ known' = known
  BY DEF IInv, TypeOK, Registry, ConnRecord, CleanupConnection
<1>2. CASE name = NoName
  <2>1. games'[i] = games[i] /\ online' = online
    BY <1>2 DEF CleanupConnection
  <2> QED
    BY <1>1, <2>1, IdleGame
<1>3. CASE name # NoName
  <2>1. name \in Names
    BY <1>1, <1>3
  <2>2. /\ online' = [online EXCEPT ![name] = NoConn]
        /\ \/ games'[i] = g /\ bad # 0
           \/ \E fault \in {"store", "none"} : games'[i] = LoseConnection(g, name, fault)
    BY <1>3 DEF CleanupConnection
  <2>3. /\ online' \in Registry /\ online'[name] = NoConn
        /\ \A n \in Names : n # name => online'[n] = online[n]
    BY <1>1, <2>1, <2>2 DEF Registry
  <2> HIDE DEF name
  <2>4. CASE games'[i] = g
    <3>1. Playing(g) => OnClock(g) \in Names /\ g.a \in Names /\ g.b \in Names
      BY <1>1 DEF Playing, OnClock
    <3>2. \A n \in Names : online'[n] = NoConn \/ online'[n] = online[n]
      BY <2>3
    <3>3. PendingOK(g, online')
      BY <1>1, <3>1, <3>2 DEF GameOK, PendingOK
    <3>4. TurnOK(g, online')
      BY <1>1, <3>1, <3>2 DEF GameOK, TurnOK
    <3> QED
      BY <1>1, <2>4, <3>3, <3>4 DEF GameStep, GameOK, Blame
  <2>5. ASSUME NEW fault, games'[i] = LoseConnection(g, name, fault)
        PROVE  GameStep(i)
    <3>1. LET h == LoseConnection(g, name, fault)
          IN  /\ h \in GameRecord /\ SameMatch(g, h) /\ GameOK(h, online')
              /\ Blame(g, h, online')
              /\ g.finished => h = g
      BY <1>1, <2>1, <2>3, LoseConnectionStep
    <3> QED
      BY <1>1, <2>5, <3>1 DEF GameStep, SameMatch
  <2> QED
    BY <2>2, <2>4, <2>5
<1> QED
  BY <1>2, <1>3

\* The passing of time changes a timer and nothing else.
LEMMA TimerGames ==
    ASSUME IInv, NEW m \in GameIds, DeadlineElapses(m) \/ GraceElapses(m),
           NEW i \in GameIds
    PROVE  GameStep(i)
<1> DEFINE g == games[m]
<1>1. /\ games \in [GameIds -> GameRecord] /\ known' = known /\ online' = online
      /\ GameOK(g, online)
      /\ g.created => {g.a, g.b} \subseteq known
  BY DEF IInv, TypeOK, DeadlineElapses, GraceElapses
<1>2. CASE i # m
  BY <1>1, <1>2, IdleGame DEF DeadlineElapses, GraceElapses
<1>3. CASE i = m
  <2> DEFINE h == games'[i]
  <2>1. g \in GameRecord /\ ~g.finished /\ Playing(g)
    BY <1>1 DEF DeadlineElapses, GraceElapses, Playing
  <2>2. \/ g.deadline = "running" /\ h = [g EXCEPT !.deadline = "elapsed"]
        \/ g.forfeit = "running" /\ h = [g EXCEPT !.forfeit = "elapsed"]
    BY <1>1, <1>3 DEF DeadlineElapses, GraceElapses
  <2> HIDE DEF h, g
  <2>3. /\ h \in GameRecord /\ SameMatch(g, h)
        /\ h.view = g.view /\ h.finished = g.finished /\ h.reason = g.reason
        /\ h.row = g.row /\ h.moves = g.moves /\ h.rated = g.rated
        /\ h.started = g.started /\ h.changed = g.changed /\ h.ended = g.ended
        /\ h.loser = g.loser /\ h.turnTo = g.turnTo /\ h.turnAt = g.turnAt
        /\ h.forfeit # "none" => g.forfeit # "none"
        /\ g.deadline # "none" => h.deadline # "none"
    BY <2>1, <2>2 DEF GameRecord, Timers, SameMatch
  <2>4. Sound(h)
    BY <1>1, <2>3 DEF GameOK, Sound, Books, Undecided, Decided, Absent, SameMatch
  <2>5. PendingOK(h, online)
    BY <1>1, <2>3 DEF GameOK, PendingOK, Playing, SameMatch
  <2>6. TurnOK(h, online)
    BY <1>1, <2>3 DEF GameOK, TurnOK, Playing, OnClock, SameMatch
  <2> QED
    BY <1>1, <1>3, <2>1, <2>3, <2>4, <2>5, <2>6 DEF GameStep, GameOK, Blame, SameMatch, g, h
<1> QED
  BY <1>2, <1>3

\* A tick of the clock: every game that is due ends, up to the one whose
\* journal update fails.
LEMMA TickGames ==
    ASSUME IInv, NEW bad \in {0} \cup GameIds, Tick(bad), NEW i \in GameIds
    PROVE  GameStep(i)
<1> DEFINE g == games[i]
<1>1. /\ g \in GameRecord /\ GameOK(g, online) /\ online \in Registry
      /\ g.created => {g.a, g.b} \subseteq known
      /\ known' = known /\ online' = online
  BY DEF IInv, TypeOK, Registry, Tick
<1>2. CASE games'[i] = g
  BY <1>1, <1>2, IdleGame
<1>3. ASSUME NEW fault, Due(g), games'[i] = Expire(g, fault)
      PROVE  GameStep(i)
  <2>1. LET h == Expire(g, fault)
        IN  h \in GameRecord /\ SameMatch(g, h) /\ GameOK(h, online) /\ Blame(g, h, online)
    BY <1>1, <1>3, ExpireStep
  <2> QED
    BY <1>1, <1>3, <2>1 DEF GameStep, SameMatch, Due, Playing
<1>4. \/ games'[i] = g
      \/ Due(g) /\ \E fault \in {"store", "none"} : games'[i] = Expire(g, fault)
  BY DEF Tick
<1> QED
  BY <1>2, <1>3, <1>4

\* The steps that concern a connection and no game.
ConnStep(c) == Attach(c) \/ PeerDrop(c) \/ AuthFailed(c) \/ PopConnection(c)
               \/ \E admin \in BOOLEAN : Handshake(c, admin)

\* Every step is a GameStep of every game.
LEMMA NextGames ==
    ASSUME IInv, [Next]_vars, NEW i \in GameIds
    PROVE  GameStep(i)
<1>1. ASSUME NEW c \in Conns, ConnStep(c)
      PROVE  GameStep(i)
  BY <1>1, IdleGame DEF ConnStep, Attach, PeerDrop, AuthFailed, PopConnection, Handshake
<1>2. CASE Shutdown
  BY <1>2, IdleGame DEF Shutdown
<1>3. CASE UNCHANGED vars
  BY <1>3, IdleGame DEF vars
<1> QED
  BY <1>1, <1>2, <1>3, RegisterGames, CreateMatchGames, SubmitMoveGames, ResignGames,
     CleanupGames, TimerGames, TickGames DEF Next, ConnStep

\* A step that concerns a connection changes that connection only, and never
\* its player.
LEMMA ConnStepFields ==
    ASSUME IInv, NEW c \in Conns, ConnStep(c)
    PROVE  /\ UNCHANGED <<online, known, games, faults, clock, stopped>>
           /\ conns' = [conns EXCEPT ![c] = conns'[c]]
           /\ conns'[c] \in ConnRecord
           /\ conns'[c].player = conns[c].player
           /\ conns[c].stage # "gone"
<1>1. conns \in [Conns -> ConnRecord] /\ conns[c] \in ConnRecord
  BY DEF IInv, TypeOK
<1>2. CASE \E admin \in BOOLEAN : Handshake(c, admin)
  <2>1. PICK admin \in BOOLEAN : Handshake(c, admin)
    BY <1>2
  <2> DEFINE k == [conns[c] EXCEPT !.handshook = TRUE,
                                   !.admin = IF admin THEN TRUE ELSE @]
  <2>2. k \in ConnRecord /\ k.player = conns[c].player
    BY <1>1 DEF ConnRecord
  <2>3. conns' = [conns EXCEPT ![c] = k]
    BY <1>1, <2>1 DEF Handshake
  <2>4. conns[c].stage # "gone" /\ UNCHANGED <<online, known, games, faults, clock, stopped>>
    BY <2>1 DEF Handshake, Live
  <2> HIDE DEF k
  <2> QED
    BY <1>1, <2>2, <2>3, <2>4
<1>3. CASE Attach(c) \/ PeerDrop(c) \/ AuthFailed(c) \/ PopConnection(c)
  <2>1. /\ UNCHANGED <<online, known, games, faults, clock, stopped>>
        /\ conns[c].stage # "gone"
        /\ \E s \in Stages : conns' = [conns EXCEPT ![c].stage = s]
    BY <1>3 DEF Attach, PeerDrop, AuthFailed, PopConnection, Live, Stages
  <2> QED
    BY <1>1, <2>1 DEF ConnRecord
<1> QED
  BY <1>2, <1>3 DEF ConnStep

\* Every step keeps the type invariant.
LEMMA NextTypeOK ==
    ASSUME IInv, [Next]_vars
    PROVE  TypeOK'
<1> USE DEF IInv
<1> DEFINE Shaped == games' = [i \in GameIds |-> games'[i]]
           Framed == /\ conns' \in [Conns -> ConnRecord]
                     /\ online' \in [Names -> Conns \cup {NoConn}]
                     /\ known' \in SUBSET Names /\ faults' \in Nat
                     /\ clock' \in {"alive", "dead"} /\ stopped' \in BOOLEAN
<1>1. /\ conns \in [Conns -> ConnRecord] /\ games \in [GameIds -> GameRecord]
      /\ online \in [Names -> Conns \cup {NoConn}] /\ known \in SUBSET Names
      /\ faults \in Nat /\ clock \in {"alive", "dead"} /\ stopped \in BOOLEAN
  BY DEF TypeOK
<1>2. ASSUME NEW fault, Strike(fault)
      PROVE  faults' \in Nat
  BY <1>1, <1>2 DEF Strike
<1>3. ASSUME NEW c \in Conns, ConnStep(c)
      PROVE  Shaped /\ Framed
  <2>1. /\ UNCHANGED <<online, known, games, faults, clock, stopped>>
        /\ conns' = [conns EXCEPT ![c] = conns'[c]] /\ conns'[c] \in ConnRecord
    BY <1>3, ConnStepFields
  <2> QED
    BY <1>1, <2>1
<1>4. ASSUME NEW c \in Conns, NEW name \in Names, Register(c, name)
      PROVE  Shaped /\ Framed
  BY <1>1, <1>4 DEF Register, ConnRecord
<1>5. ASSUME NEW c \in Conns, NEW bad, CleanupConnection(c, bad)
      PROVE  Shaped /\ Framed
  <2>1. conns' \in [Conns -> ConnRecord] /\ UNCHANGED <<known, clock, stopped>>
    BY <1>1, <1>5 DEF CleanupConnection, ConnRecord, Stages
  <2>2. faults' \in Nat
    BY <1>1, <1>2, <1>5 DEF CleanupConnection
  <2>3. Shaped /\ online' \in [Names -> Conns \cup {NoConn}]
    BY <1>1, <1>5 DEF CleanupConnection
  <2> QED
    BY <1>1, <2>1, <2>2, <2>3
<1>6. ASSUME NEW c \in Conns, NEW m \in GameIds, NEW fault,
             \/ Resign(c, m, fault)
             \/ \E next \in Successors(games[m].view) : SubmitMove(c, m, next, fault)
             \/ \E a, b \in Names, grace \in BOOLEAN : CreateMatch(c, m, a, b, grace, fault)
      PROVE  Shaped /\ Framed
  <2>1. /\ faults' \in Nat
        /\ UNCHANGED <<conns, online, known, clock, stopped>>
        /\ \E g : games' = [games EXCEPT ![m] = g]
    BY <1>2, <1>6 DEF Resign, SubmitMove, CreateMatch
  <2> QED
    BY <1>1, <2>1
<1>7. ASSUME NEW m \in GameIds, DeadlineElapses(m) \/ GraceElapses(m)
      PROVE  Shaped /\ Framed
  BY <1>1, <1>7 DEF DeadlineElapses, GraceElapses
<1>8. ASSUME NEW bad, Tick(bad)
      PROVE  Shaped /\ Framed
  BY <1>1, <1>2, <1>8 DEF Tick
<1>9. ASSUME Shutdown
      PROVE  Shaped /\ Framed
  BY <1>1, <1>9 DEF Shutdown, ConnRecord, Stages
<1>10. ASSUME UNCHANGED vars
       PROVE  Shaped /\ Framed
  BY <1>1, <1>10 DEF vars
<1>11. Shaped /\ Framed
  <2> HIDE DEF Shaped, Framed
  <2> QED
    BY <1>3, <1>4, <1>5, <1>6, <1>7, <1>8, <1>9, <1>10 DEF Next, ConnStep
<1>12. \A i \in GameIds : /\ games'[i] \in GameRecord
                          /\ games'[i].created => {games'[i].a, games'[i].b} \subseteq known'
  BY NextGames DEF GameStep
<1> QED
  BY <1>11, <1>12 DEF TypeOK

\* Every step keeps the registry exact: register takes only a name that is
\* offline, and a player goes offline only when its own reader has cleaned up.
LEMMA NextRegistry ==
    ASSUME IInv, [Next]_vars
    PROVE  RegistryMatches'
<1> USE DEF IInv
<1>1. conns \in [Conns -> ConnRecord] /\ online \in Registry
  BY DEF TypeOK, Registry
<1>2. ASSUME NEW c \in Conns, NEW name \in Names, Register(c, name)
      PROVE  RegistryMatches'
  BY <1>1, <1>2, BoundsAssumption DEF RegistryMatches, Register, Registry, ConnRecord, Live
<1>3. ASSUME NEW c \in Conns, NEW bad, CleanupConnection(c, bad)
      PROVE  RegistryMatches'
  BY <1>1, <1>3, BoundsAssumption DEF RegistryMatches, CleanupConnection, Registry, ConnRecord
<1>4. ASSUME NEW c \in Conns, ConnStep(c)
      PROVE  RegistryMatches'
  <2>1. /\ UNCHANGED online /\ conns' = [conns EXCEPT ![c] = conns'[c]]
        /\ conns'[c].player = conns[c].player
        /\ conns[c].stage # "gone"
    BY <1>4, ConnStepFields
  <2> QED
    BY <1>1, <2>1 DEF RegistryMatches, Registry
<1>5. CASE Shutdown
  BY <1>1, <1>5, BoundsAssumption DEF RegistryMatches, Shutdown, Registry, ConnRecord, Live
<1>6. CASE UNCHANGED <<conns, online>>
  BY <1>6 DEF RegistryMatches
<1> QED
  BY <1>2, <1>3, <1>4, <1>5, <1>6 DEF Next, vars, ConnStep, Resign, CreateMatch,
     SubmitMove, DeadlineElapses, GraceElapses, Tick

\* The invariant is inductive.
LEMMA NextIInv == IInv /\ [Next]_vars => IInv'
  BY NextGames, NextTypeOK, NextRegistry DEF IInv, GameStep

\* The invariant holds in every reachable state.
LEMMA Inductive == Spec => []IInv
  BY InitIInv, NextIInv, PTL DEF Spec

-----------------------------------------------------------------------------
(* The theorems. *)

\* Every variable of the server keeps its type, and only players who
\* registered are ever seated by create_match.
THEOREM TypeCorrect == Spec => []TypeOK
<1>1. IInv => TypeOK
  BY DEF IInv
<1> QED
  BY <1>1, Inductive, PTL

\* A name is online through exactly the connection whose reader will clean up
\* after it, so _cleanup_connection never throws out a later one.
THEOREM RegistryIsExact == Spec => []RegistryMatches
<1>1. IInv => RegistryMatches
  BY DEF IInv
<1> QED
  BY <1>1, Inductive, PTL

\* Whatever fails, the journal has one move per action on the board: the
\* rollback in submit_move is complete.
THEOREM JournalNeverDrifts == Spec => []JournalLockstep
<1>1. IInv => JournalLockstep
  BY DEF IInv, JournalLockstep, GameOK, Sound, Books
<1> QED
  BY <1>1, Inductive, PTL

\* game_started, state_changed and game_finished are broadcast as often as
\* what they report happened.
THEOREM EventsAreTrue == Spec => []EventsTellTheGame
<1>1. IInv => EventsTellTheGame
  BY DEF IInv, EventsTellTheGame, GameOK, Sound, Books, Decided, Undecided, Absent
<1> QED
  BY <1>1, Inductive, PTL

\* The property OneVerdict for one game.
VerdictOK(g) ==
    /\ g.finished <=> g.view.result # "UNDETERMINED"
    /\ g.finished <=> g.reason # "none"
    /\ g.row \in Results <=> g.ended = 1 /\ g.started = 1
    /\ g.row \in Results => g.row = g.view.result
    /\ g.rated => g.ended = 1

\* A sound game satisfies it.
LEMMA SoundVerdict ==
    ASSUME NEW g \in GameRecord, Sound(g)
    PROVE  VerdictOK(g)
<1>1. g.view.result \in Results /\ "none" \notin Results /\ "open" \notin Results
  BY DEF GameRecord, GameView, Results
<1>2. CASE Decided(g)
  BY <1>1, <1>2 DEF Sound, Books, Decided, VerdictOK
<1>3. CASE Undecided(g) /\ g.view.result = "UNDETERMINED"
  BY <1>1, <1>3 DEF Sound, Books, Undecided, VerdictOK
<1>4. CASE Absent(g)
  BY <1>1, <1>4 DEF Sound, Books, Absent, VerdictOK
<1> QED
  BY <1>2, <1>3, <1>4 DEF Sound

\* Board, journal row, ratings and announcement agree on how a game ended,
\* whatever combination of handler and clock ended it and whatever failed.
THEOREM VerdictIsOne == Spec => []OneVerdict
<1>1. IInv => OneVerdict
  <2> SUFFICES ASSUME IInv PROVE \A i \in GameIds : VerdictOK(games[i])
    BY DEF OneVerdict, VerdictOK
  <2> QED
    BY SoundVerdict DEF IInv, GameOK, TypeOK
<1> QED
  BY <1>1, Inductive, PTL

\* A pending disconnect forfeit always falls on a player who is away: the
\* reconnect in register cancels every forfeit that would not.
THEOREM ForfeitsAreDeserved == Spec => []PendingForfeitIsDeserved
<1>1. IInv => PendingForfeitIsDeserved
  BY DEF IInv, PendingForfeitIsDeserved, GameOK, PendingOK
<1> QED
  BY <1>1, Inductive, PTL

\* The player on the clock has a deadline and, when connected, was sent
\* your_turn for this position on its present connection.
THEOREM TurnsAreDelivered == Spec => []TurnIsDelivered
<1>1. IInv => TurnIsDelivered
  BY DEF IInv, TurnIsDelivered, GameOK, TurnOK
<1> QED
  BY <1>1, Inductive, PTL

\* No step changes a finished game, its row, rating or events.
THEOREM OverIsOver == Spec => FinishedIsFinal
<1>1. IInv /\ [Next]_vars =>
         [\A i \in GameIds : games[i].finished => games'[i] = games[i]]_vars
  BY NextGames DEF GameStep
<1> QED
  BY <1>1, Inductive, PTL DEF Spec, FinishedIsFinal

\* Timeouts fall on the player on the clock and disconnects on a player
\* without a connection.
THEOREM LosersDeserveIt == Spec => LosersAreToBlame
<1>1. IInv /\ [Next]_vars =>
         [\A i \in GameIds :
            /\ Ends(i, "timeout") => /\ games[i].deadline = "elapsed"
                                     /\ LoserName(games'[i]) = OnClock(games[i])
            /\ Ends(i, "disconnect") => online'[LoserName(games'[i])] = NoConn]_vars
  BY NextGames DEF GameStep, Blame, Ends
<1> QED
  BY <1>1, Inductive, PTL DEF Spec, LosersAreToBlame

-----------------------------------------------------------------------------
(* Part three: what failures spoil. *)

\* A match that was not announced, or whose ending was not.
Spoiled(g) == g.created /\ (g.started = 0 \/ (g.finished /\ g.ended = 0))

\* An operation that turns g into h spoils nothing.
Spares(g, h) == Spoiled(h) => Spoiled(g)

\* What two records of a game share when an operation is not about its ending.
SameStory(g, h) ==
    h.created = g.created /\ h.started = g.started /\ h.finished = g.finished /\ h.ended = g.ended

\* A step that neither announces nor ends the game spares it.
LEMMA SameStorySpares == ASSUME NEW g, NEW h, SameStory(g, h) PROVE Spares(g, h)
  BY DEF SameStory, Spares, Spoiled

\* Unless the journal fails, an ending is announced.
LEMMA FinishGameSpares ==
    ASSUME NEW g \in GameRecord, NEW result \in Results, NEW reason \in Reasons, NEW fault,
           fault # "store"
    PROVE  Spares(g, FinishGame(g, result, reason, fault))
<1> DEFINE over == Concluded(g, result, reason)
           unrated == g.a = g.b \/ fault = "elo"
           told == Announced(over, unrated)
<1>1. over \in GameRecord /\ SameMatch(g, over) /\ over.started = g.started /\ over.ended = g.ended
  BY ConcludedFields
<1>2. unrated \in BOOLEAN /\ g.ended \in Nat
  BY DEF GameRecord
<1>3. FinishGame(g, result, reason, fault) = IF g.finished THEN g ELSE told
  BY FinishGameCases
<1> HIDE DEF over, unrated
<1>4. SameMatch(over, told) /\ told.started = over.started /\ told.ended = over.ended + 1
  BY <1>1, <1>2, AnnouncedFields
<1> HIDE DEF told
<1>5. told.created = g.created /\ told.started = g.started /\ told.ended # 0
  BY <1>1, <1>2, <1>4 DEF SameMatch
<1> QED
  BY <1>3, <1>5 DEF Spares, Spoiled

\* Asking for a move spares the game unless the journal fails at its ending.
LEMMA SendYourTurnSpares ==
    ASSUME NEW g \in GameRecord, NEW on, NEW fault, fault # "store"
    PROVE  Spares(g, SendYourTurn(g, on, fault))
<1> DEFINE result == WinFor(Other(SeatOf(g, OnClock(g))))
           d == IF g.deadline = "none" THEN "running" ELSE g.deadline
           h == [g EXCEPT !.deadline = d, !.turnTo = on[OnClock(g)], !.turnAt = g.view.plies]
<1>1. SendYourTurn(g, on, fault) =
        IF g.finished THEN g
        ELSE IF on[OnClock(g)] = NoConn THEN FinishGame(g, result, "disconnect", fault) ELSE h
  BY Zenon DEF SendYourTurn
<1>2. result \in Results /\ "disconnect" \in Reasons
  BY DEF WinFor, Other, Results, Reasons
<1> HIDE DEF result, d
<1>3. Spares(g, FinishGame(g, result, "disconnect", fault))
  BY <1>2, FinishGameSpares
<1>4. SameStory(g, h)
  BY DEF SameStory, GameRecord
<1> HIDE DEF h
<1> QED
  BY <1>1, <1>3, <1>4, SameStorySpares DEF Spares

\* A match that opens is announced before anything can go wrong with its turn.
LEMMA OpenMatchSpares ==
    ASSUME NEW a \in Names, NEW b \in Names, NEW grace \in BOOLEAN, NEW on, NEW fault, fault # "store"
    PROVE  ~Spoiled(OpenMatch(NewMatch(a, b, grace), on, fault))
<1> DEFINE g == NewMatch(a, b, grace)
           m == [g EXCEPT !.row = IF @ = "none" THEN "open" ELSE @, !.started = @ + 1]
<1>1. g \in GameRecord /\ g.created /\ Undecided(g) /\ g.row = "none" /\ g.started = 0
  BY NewMatchFields
<1> HIDE DEF g
<1>2. m = [g EXCEPT !.row = "open", !.started = 1]
  BY <1>1
<1> HIDE DEF m
<1>3. m \in GameRecord /\ m.started = 1 /\ ~m.finished
  BY <1>1, <1>2 DEF GameRecord, Undecided
<1>4. Spares(m, SendYourTurn(m, on, fault))
  BY <1>3, SendYourTurnSpares
<1>5. OpenMatch(g, on, fault) = SendYourTurn(m, on, fault)
  BY DEF OpenMatch, m
<1> QED
  BY <1>3, <1>4, <1>5 DEF Spares, Spoiled, g

\* So does a player who comes back.
LEMMA ResumeSpares ==
    ASSUME NEW g \in GameRecord, NEW name, NEW on
    PROVE  Spares(g, Resume(g, name, on))
<1> DEFINE back == [g EXCEPT !.forfeit = "none", !.loser = "none"]
           slot == [back EXCEPT !.deadline = "running"]
<1>1. SameStory(g, back) /\ back \in GameRecord
  BY DEF SameStory, GameRecord, Timers
<1>2. Resume(g, name, on) = IF OnClock(g) # name THEN back ELSE SendYourTurn(slot, on, "none")
  BY DEF Resume
<1> HIDE DEF back
<1>3. SameStory(back, slot) /\ slot \in GameRecord
  BY <1>1 DEF SameStory, GameRecord, Timers
<1> HIDE DEF slot
<1>4. Spares(slot, SendYourTurn(slot, on, "none"))
  BY <1>3, SendYourTurnSpares
<1>5. Spares(g, back) /\ Spares(back, slot)
  BY <1>1, <1>3, SameStorySpares
<1> QED
  BY <1>2, <1>4, <1>5 DEF Spares

\* So does a move unless the journal fails at its ending.
LEMMA ApplyMoveSpares ==
    ASSUME NEW g \in GameRecord, NEW on, NEW next \in Successors(g.view), NEW fault, fault # "store"
    PROVE  Spares(g, ApplyMove(g, next, on, fault))
<1> DEFINE moved == [g EXCEPT !.view = next]
           undone == [moved EXCEPT !.view = g.view]
           told == [moved EXCEPT !.moves = @ + 1, !.changed = @ + 1]
           slot == [told EXCEPT !.deadline = "running"]
           reason == IF next.result # "DRAW" THEN "five_in_a_row" ELSE "draw"
           over == FinishGame(told, next.result, reason, fault)
           turn == SendYourTurn(slot, on, fault)
<1>1. g.view \in GameView /\ next \in GameView /\ next.result \in Results /\ reason \in Reasons
  <2>1. g.view \in GameView
    BY DEF GameRecord
  <2>2. next \in GameView
    BY <2>1, SuccessorFacts
  <2> QED
    BY <2>1, <2>2 DEF GameView, Reasons
<1>2. ApplyMove(g, next, on, fault) = IF JournalRefuses(g, fault) THEN undone
                                      ELSE IF next.result # "UNDETERMINED" THEN over ELSE turn
  BY Zenon DEF ApplyMove
<1> HIDE DEF reason
<1>3. moved \in GameRecord /\ SameStory(g, moved)
  BY <1>1 DEF GameRecord, SameStory
<1> HIDE DEF moved
<1>4. SameStory(moved, undone) /\ told \in GameRecord /\ SameStory(moved, told)
  <2>1. SameStory(moved, undone)
    BY <1>3 DEF GameRecord, SameStory
  <2>2. moved.moves + 1 \in Nat /\ moved.changed + 1 \in Nat
    BY <1>3 DEF GameRecord
  <2>3. told = [moved EXCEPT !.moves = moved.moves + 1, !.changed = moved.changed + 1]
    BY Zenon
  <2> HIDE DEF told, undone
  <2>4. told \in GameRecord /\ SameStory(moved, told)
    BY <1>3, <2>2, <2>3 DEF GameRecord, SameStory
  <2> QED
    BY <2>1, <2>4
<1> HIDE DEF undone, told
<1>5. slot \in GameRecord /\ SameStory(told, slot)
  BY <1>4 DEF GameRecord, SameStory, Timers
<1> HIDE DEF slot
<1>6. SameStory(g, undone) /\ SameStory(g, told) /\ SameStory(g, slot)
  BY <1>3, <1>4, <1>5 DEF SameStory
<1>7. Spares(g, undone) /\ Spares(g, told) /\ Spares(g, slot)
  BY <1>6, SameStorySpares
<1>8. Spares(told, over)
  BY <1>1, <1>4, FinishGameSpares
<1>9. Spares(slot, turn)
  BY <1>5, SendYourTurnSpares
<1> HIDE DEF over, turn
<1> QED
  BY <1>2, <1>7, <1>8, <1>9 DEF Spares

\* So does a lost connection when nothing fails.
LEMMA LoseConnectionSpares ==
    ASSUME NEW g \in GameRecord, NEW name
    PROVE  Spares(g, LoseConnection(g, name, "none"))
<1> DEFINE result == WinFor(Other(SeatOf(g, name)))
           away == [g EXCEPT !.forfeit = "running", !.loser = SeatOf(g, name)]
<1>1. LoseConnection(g, name, "none") =
        IF ~Playing(g) \/ ~Seated(g, name) THEN g
        ELSE IF g.grace THEN away ELSE FinishGame(g, result, "disconnect", "none")
  BY Zenon DEF LoseConnection
<1>2. result \in Results /\ "disconnect" \in Reasons
  BY DEF WinFor, Other, Results, Reasons
<1> HIDE DEF result
<1>3. Spares(g, FinishGame(g, result, "disconnect", "none"))
  BY <1>2, FinishGameSpares
<1>4. SameStory(g, away)
  BY DEF SameStory, GameRecord
<1> HIDE DEF away
<1> QED
  BY <1>1, <1>3, <1>4, SameStorySpares DEF Spares

\* So does an expired timer when nothing fails.
LEMMA ExpireSpares ==
    ASSUME NEW g \in GameRecord
    PROVE  Spares(g, Expire(g, "none"))
<1> DEFINE late == WinFor(Other(g.view.current))
           away == WinFor(Other(IF g.loser = "none" THEN "A" ELSE g.loser))
<1>1. Expire(g, "none") = IF g.deadline = "elapsed" THEN FinishGame(g, late, "timeout", "none")
                          ELSE FinishGame(g, away, "disconnect", "none")
  BY Zenon DEF Expire
<1>2. late \in Results /\ away \in Results /\ {"disconnect", "timeout"} \subseteq Reasons
  BY DEF WinFor, Other, Results, Reasons
<1> HIDE DEF late, away
<1>3. /\ Spares(g, FinishGame(g, late, "timeout", "none"))
      /\ Spares(g, FinishGame(g, away, "disconnect", "none"))
  BY <1>2, FinishGameSpares
<1> QED
  BY <1>1, <1>3

\* A step spares every game, or uses up a failure and spoils at most one.
SparesAll(ids) == \A i \in ids : Spares(games[i], games'[i])

Contained ==
    \/ faults' = faults /\ SparesAll(GameIds)
    \/ faults > 0 /\ faults' = faults - 1 /\ \E j \in GameIds : SparesAll(GameIds \ {j})

\* A failure is one of those that are left.
LEMMA StrikeIs ==
    ASSUME NEW fault, Strike(fault)
    PROVE  IF fault = "none" THEN faults' = faults ELSE faults > 0 /\ faults' = faults - 1
  BY DEF Strike

\* A step that changes one game and spares it when nothing fails.
LEMMA OneGameContained ==
    ASSUME NEW m \in GameIds, NEW fault, Strike(fault), fault = "none" => Spares(games[m], games'[m]),
           \A i \in GameIds : i # m => games'[i] = games[i]
    PROVE  Contained
<1>1. SparesAll(GameIds \ {m})
  BY DEF SparesAll, Spares
<1>2. fault = "none" => SparesAll(GameIds)
  BY <1>1 DEF SparesAll
<1> QED
  BY <1>1, <1>2, StrikeIs DEF Contained

\* A step that goes through the games up to one at which the journal fails.
LEMMA SweepContained ==
    ASSUME NEW bad \in {0} \cup GameIds, Strike(IF bad = 0 THEN "none" ELSE "store"),
           \A i \in GameIds : i # bad => Spares(games[i], games'[i])
    PROVE  Contained
<1>1. CASE bad = 0
  <2>1. \A i \in GameIds : i # 0
    BY BoundsAssumption DEF GameIds
  <2>2. SparesAll(GameIds)
    BY <1>1, <2>1 DEF SparesAll
  <2> QED
    BY <1>1, <2>2, StrikeIs DEF Contained
<1>2. CASE bad # 0
  <2>1. bad \in GameIds /\ SparesAll(GameIds \ {bad})
    BY <1>2 DEF SparesAll
  <2> QED
    BY <1>2, <2>1, StrikeIs DEF Contained
<1> QED
  BY <1>1, <1>2

\* Every step spares every game or uses up a failure and spoils at most one.
LEMMA NextContained ==
    ASSUME IInv, [Next]_vars
    PROVE  Contained
<1>0. games \in [GameIds -> GameRecord] /\ \A i \in GameIds : games[i] \in GameRecord
  BY DEF IInv, TypeOK
<1>1. ASSUME games' = games, faults' = faults PROVE Contained
  BY <1>1 DEF Contained, SparesAll, Spares
<1>2. ASSUME NEW c \in Conns, ConnStep(c) PROVE Contained
  BY <1>1, <1>2 DEF ConnStep, Attach, PeerDrop, AuthFailed, PopConnection, Handshake
<1>3. CASE Shutdown \/ UNCHANGED vars
  BY <1>1, <1>3 DEF Shutdown, vars
<1>4. ASSUME NEW c \in Conns, NEW name \in Names, Register(c, name) PROVE Contained
  <2>1. faults' = faults /\ \A i \in GameIds :
           games'[i] = IF name \in known /\ Playing(games[i]) /\ Seated(games[i], name)
                       THEN Resume(games[i], name, online') ELSE games[i]
    BY <1>4 DEF Register
  <2>2. \A i \in GameIds : Spares(games[i], Resume(games[i], name, online'))
    BY <1>0, ResumeSpares
  <2>3. SparesAll(GameIds)
    BY <2>1, <2>2 DEF SparesAll, Spares
  <2> QED
    BY <2>1, <2>3 DEF Contained
<1>5. ASSUME NEW c \in Conns, NEW i \in GameIds, NEW a \in Names, NEW b \in Names, NEW grace \in BOOLEAN,
             NEW fault, CreateMatch(c, i, a, b, grace, fault)
      PROVE  Contained
  <2> DEFINE h == OpenMatch(NewMatch(a, b, grace), online, fault)
  <2>1. /\ Strike(fault)
        /\ games' = [games EXCEPT ![i] = IF fault = "start" THEN NewMatch(a, b, grace) ELSE h]
    BY <1>5 DEF CreateMatch
  <2>2. fault = "none" => ~Spoiled(h)
    BY OpenMatchSpares
  <2> HIDE DEF h
  <2>3. fault = "none" => Spares(games[i], games'[i])
    BY <1>0, <2>1, <2>2 DEF Spares
  <2>4. \A j \in GameIds : j # i => games'[j] = games[j]
    BY <1>0, <2>1
  <2> QED
    BY <2>1, <2>3, <2>4, OneGameContained
<1>6. ASSUME NEW c \in Conns, NEW i \in GameIds, NEW next \in Successors(games[i].view), NEW fault,
             SubmitMove(c, i, next, fault)
      PROVE  Contained
  <2> DEFINE h == ApplyMove(games[i], next, online, fault)
  <2>1. Strike(fault) /\ games' = [games EXCEPT ![i] = h]
    BY <1>6 DEF SubmitMove
  <2>2. fault = "none" => Spares(games[i], h)
    BY <1>0, ApplyMoveSpares
  <2> HIDE DEF h
  <2>3. games'[i] = h /\ \A j \in GameIds : j # i => games'[j] = games[j]
    BY <1>0, <2>1
  <2> QED
    BY <2>1, <2>2, <2>3, OneGameContained
<1>7. ASSUME NEW c \in Conns, NEW i \in GameIds, NEW fault, Resign(c, i, fault) PROVE Contained
  <2> DEFINE result == WinFor(Other(SeatOf(games[i], conns[c].player)))
             h == FinishGame(games[i], result, "resignation", fault)
  <2>1. Strike(fault) /\ games' = [games EXCEPT ![i] = h]
    BY <1>7 DEF Resign
  <2>2. result \in Results /\ "resignation" \in Reasons
    BY DEF WinFor, Other, Results, Reasons
  <2> HIDE DEF result
  <2>3. fault = "none" => Spares(games[i], h)
    BY <1>0, <2>2, FinishGameSpares
  <2> HIDE DEF h
  <2>4. games'[i] = h /\ \A j \in GameIds : j # i => games'[j] = games[j]
    BY <1>0, <2>1
  <2> QED
    BY <2>1, <2>3, <2>4, OneGameContained
<1>8. ASSUME NEW c \in Conns, NEW bad \in {0} \cup GameIds, CleanupConnection(c, bad) PROVE Contained
  <2> DEFINE name == conns[c].player
  <2>1. CASE name = NoName
    BY <1>1, <1>8, <2>1 DEF CleanupConnection
  <2>2. CASE name # NoName
    <3>1. /\ Strike(IF bad = 0 THEN "none" ELSE "store")
          /\ games' = [i \in GameIds |->
                         IF bad # 0 /\ i > bad THEN games[i]
                         ELSE LoseConnection(games[i], name, IF i = bad THEN "store" ELSE "none")]
      BY <1>8, <2>2 DEF CleanupConnection
    <3> HIDE DEF name
    <3>2. \A i \in GameIds : i # bad => games'[i] \in {games[i], LoseConnection(games[i], name, "none")}
      BY <3>1
    <3>3. \A i \in GameIds : Spares(games[i], LoseConnection(games[i], name, "none"))
      BY <1>0, LoseConnectionSpares
    <3>4. \A i \in GameIds : i # bad => Spares(games[i], games'[i])
      BY <3>2, <3>3 DEF Spares
    <3> QED
      BY <3>1, <3>4, SweepContained
  <2> QED
    BY <2>1, <2>2
<1>9. ASSUME NEW i \in GameIds, DeadlineElapses(i) \/ GraceElapses(i) PROVE Contained
  <2>1. /\ faults' = faults /\ games[i] \in GameRecord
        /\ \/ games' = [games EXCEPT ![i].deadline = "elapsed"]
           \/ games' = [games EXCEPT ![i].forfeit = "elapsed"]
    BY <1>0, <1>9 DEF DeadlineElapses, GraceElapses
  <2>2. /\ \/ games'[i] = [games[i] EXCEPT !.deadline = "elapsed"]
           \/ games'[i] = [games[i] EXCEPT !.forfeit = "elapsed"]
        /\ \A j \in GameIds : j # i => games'[j] = games[j]
    BY <1>0, <2>1
  <2>3. SameStory(games[i], games'[i])
    BY <2>1, <2>2 DEF SameStory, GameRecord
  <2>4. SparesAll(GameIds)
    BY <2>2, <2>3, SameStorySpares DEF SparesAll, Spares
  <2> QED
    BY <2>1, <2>4 DEF Contained
<1>10. ASSUME NEW bad \in {0} \cup GameIds, Tick(bad) PROVE Contained
  <2>1. /\ Strike(IF bad = 0 THEN "none" ELSE "store")
        /\ \A i \in GameIds : i # bad => games'[i] \in {games[i], Expire(games[i], "none")}
    BY <1>10 DEF Tick
  <2>2. \A i \in GameIds : Spares(games[i], Expire(games[i], "none"))
    BY <1>0, ExpireSpares
  <2>3. \A i \in GameIds : i # bad => Spares(games[i], games'[i])
    BY <2>1, <2>2 DEF Spares
  <2> QED
    BY <2>1, <2>3, SweepContained
<1> QED
  BY <1>2, <1>3, <1>4, <1>5, <1>6, <1>7, <1>8, <1>9, <1>10 DEF Next, ConnStep

FaultInv == IInv /\ faults \in Nat /\ FaultsAreContained

SpoiledGames(gs) == {i \in GameIds : Spoiled(gs[i])}

\* There are finitely many spoiled games.
LEMMA SpoiledGamesFinite ==
    ASSUME NEW gs
    PROVE  IsFiniteSet(SpoiledGames(gs)) /\ Cardinality(SpoiledGames(gs)) \in Nat
<1>1. IsFiniteSet(GameIds)
  BY FS_Interval, BoundsAssumption DEF GameIds
<1>2. SpoiledGames(gs) \in SUBSET GameIds
  BY DEF SpoiledGames
<1> QED
  BY <1>1, <1>2, FS_Subset, FS_CardinalityType

\* Every step keeps the invariant.
LEMMA FaultNext ==
    ASSUME FaultInv, [Next]_vars
    PROVE  FaultInv'
<1> DEFINE S == SpoiledGames(games)
           T == SpoiledGames(games')
<1>1. /\ IInv /\ IInv' /\ Contained /\ faults \in Nat /\ faults' \in Nat
  BY NextIInv, NextContained DEF FaultInv, IInv, TypeOK
<1>2. (FaultsAreContained <=> Cardinality(S) <= MaxFaults - faults)
  BY Zenon DEF FaultsAreContained, SpoiledGames, Spoiled
<1>3. (FaultsAreContained' <=> Cardinality(T) <= MaxFaults - faults')
  BY Zenon DEF FaultsAreContained, SpoiledGames, Spoiled
<1>4. IsFiniteSet(S) /\ Cardinality(S) \in Nat /\ IsFiniteSet(T) /\ Cardinality(T) \in Nat
  BY SpoiledGamesFinite
<1>5. CASE faults' = faults /\ SparesAll(GameIds)
  <2>1. T \in SUBSET S
    BY <1>5 DEF SparesAll, Spares, SpoiledGames
  <2> HIDE DEF S, T
  <2>2. Cardinality(T) <= Cardinality(S)
    BY <1>4, <2>1, FS_Subset
  <2> QED
    BY <1>1, <1>2, <1>3, <1>4, <1>5, <2>2, BoundsAssumption DEF FaultInv
<1>6. ASSUME faults > 0, faults' = faults - 1, NEW j \in GameIds, SparesAll(GameIds \ {j})
      PROVE  FaultInv'
  <2>1. T \in SUBSET (S \cup {j})
    BY <1>6 DEF SparesAll, Spares, SpoiledGames
  <2> HIDE DEF S, T
  <2>2. IsFiniteSet(S \cup {j}) /\ Cardinality(S \cup {j}) <= Cardinality(S) + 1
          /\ Cardinality(S \cup {j}) \in Nat
    <3>1. IsFiniteSet(S \cup {j})
      BY <1>4, FS_AddElement
    <3>2. Cardinality(S \cup {j}) = IF j \in S THEN Cardinality(S) ELSE Cardinality(S) + 1
      BY <1>4, FS_AddElement
    <3>3. Cardinality(S \cup {j}) \in {Cardinality(S), Cardinality(S) + 1}
      BY <3>2, Zenon
    <3> QED
      BY <1>4, <3>1, <3>3
  <2>3. Cardinality(T) <= Cardinality(S \cup {j})
    BY <2>1, <2>2, FS_Subset
  <2> QED
    BY <1>1, <1>2, <1>3, <1>4, <1>6, <2>2, <2>3, BoundsAssumption DEF FaultInv
<1> QED
  BY <1>1, <1>5, <1>6 DEF Contained

\* A journal or rating failure spoils at most one match, for any number of
\* games ended by one disconnect or one tick of the clock (server.py,
\* _cleanup_connection and _clock_loop).
THEOREM FaultsAreContainedAlways == Spec => []FaultsAreContained
<1>1. Init => FaultInv
  <2> SUFFICES ASSUME Init PROVE FaultInv
    OBVIOUS
  <2>1. \A i \in GameIds : ~Spoiled(games[i])
    BY DEF Init, NoGame, Spoiled
  <2>2. SpoiledGames(games) = {}
    BY <2>1 DEF SpoiledGames
  <2>3. FaultsAreContained <=> Cardinality(SpoiledGames(games)) <= MaxFaults - faults
    BY Zenon DEF FaultsAreContained, SpoiledGames, Spoiled
  <2>4. faults = MaxFaults /\ MaxFaults \in Nat
    BY BoundsAssumption DEF Init
  <2> QED
    BY <2>2, <2>3, <2>4, InitIInv, FS_EmptySet DEF FaultInv
<1>2. FaultInv => FaultsAreContained
  BY DEF FaultInv
<1> QED
  BY <1>1, <1>2, FaultNext, PTL DEF Spec

-----------------------------------------------------------------------------
(* Part four: the course of a match. *)

\* What the journal row and the events of a game tell.
Told(g) == [stage |-> IF ~g.created THEN "none" ELSE IF g.finished THEN "over" ELSE "going",
            view |-> g.view, row |-> g.row, announced |-> g.ended > 0, rated |-> g.rated]

Course == INSTANCE MatchCourse WITH Matches <- GameIds, match <- [i \in GameIds |-> Told(games[i])]

\* Two records that tell the same.
SameTold(g, h) ==
    /\ h.created = g.created /\ h.finished = g.finished /\ h.view = g.view
    /\ h.row = g.row /\ h.ended = g.ended /\ h.rated = g.rated

\* A step that tells nothing new.
LEMMA SameToldIs ==
    ASSUME NEW g, NEW h, SameTold(g, h)
    PROVE  Told(h) = Told(g)
  BY DEF SameTold, Told

\* Such a step leaves an undecided game undecided.
LEMMA SameToldUndecided ==
    ASSUME NEW g, NEW h, SameTold(g, h), h.reason = g.reason, Undecided(g)
    PROVE  Undecided(h)
  BY DEF SameTold, Undecided

\* The rules of the instance are the rules.
LEMMA SameRules ==
    /\ Course!NewGame = NewGame
    /\ \A v : Course!Successors(v) = Successors(v)
    /\ \A seat : Course!WinFor(seat) = WinFor(seat)
    /\ Course!Seats = Seats
<1>1. Course!NewGame = NewGame
  BY DEF Course!NewGame, NewGame
<1>2. ASSUME NEW v
      PROVE  Course!Successors(v) = Successors(v)
  BY DEF Course!Successors, Successors, Course!PlaceInitial, PlaceInitial,
     Course!Decide, Decide, Course!PlaceTwo, PlaceTwo, Course!PlayOn, PlayOn,
     Course!PlayLast, PlayLast, Course!Other, Other, Course!WinFor, WinFor
<1>3. /\ \A seat : Course!WinFor(seat) = WinFor(seat)
      /\ Course!Seats = Seats
  BY DEF Course!WinFor, WinFor, Course!Seats, Seats
<1> QED
  BY <1>1, <1>2, <1>3

\* A game that can end: being played, or with a last move on its board.
CanEnd(g, result) ==
    /\ g.created /\ ~g.finished /\ g.view.result \in {"UNDETERMINED", result}
    /\ g.ended = 0

\* _finish_game tells the journal and the spectators together, or neither.
LEMMA FinishGameTold ==
    ASSUME NEW g \in GameRecord, NEW result \in Results, NEW reason \in Reasons, NEW fault,
           CanEnd(g, result)
    PROVE  Told(FinishGame(g, result, reason, fault)) \in Course!Endings(Told(g), result)
<1> DEFINE over == Concluded(g, result, reason)
           unrated == g.a = g.b \/ fault = "elo"
           told == Announced(over, unrated)
           v == [g.view EXCEPT !.result = result]
           Over(row, announced, rated) ==
               [stage |-> "over", view |-> v, row |-> row, announced |-> announced, rated |-> rated]
<1>1. FinishGame(g, result, reason, fault) = IF fault = "store" THEN over ELSE told
  BY FinishGameCases DEF CanEnd
<1>2. /\ over \in GameRecord /\ SameMatch(g, over) /\ over.finished
      /\ over.row = g.row /\ over.ended = g.ended /\ over.rated = g.rated
  BY ConcludedFields
<1>3. over.view = v
  <2>1. g.view \in GameView
    BY DEF GameRecord
  <2>2. over.view = [g.view EXCEPT !.result = IF g.view.result = "UNDETERMINED" THEN result
                                              ELSE g.view.result]
    BY DEF Concluded, GameRecord
  <2>3. (IF g.view.result = "UNDETERMINED" THEN result ELSE g.view.result) = result
    BY DEF CanEnd
  <2> QED
    BY <2>2, <2>3, Zenon
<1>11. v.result = result
  BY DEF GameRecord, GameView
<1> HIDE DEF over
<1>4. unrated \in BOOLEAN
  OBVIOUS
<1> HIDE DEF unrated
<1>5. /\ told \in GameRecord /\ SameMatch(over, told) /\ told.finished
      /\ told.view = over.view /\ told.ended = over.ended + 1
      /\ told.row = IF over.row = "none" THEN "none" ELSE over.view.result
  <2>1. /\ told \in GameRecord /\ SameMatch(over, told)
        /\ told.view = over.view /\ told.ended = over.ended + 1
    BY <1>2, <1>4, AnnouncedFields
  <2>2. told.row = IF over.row = "none" THEN "none" ELSE over.view.result
    BY <1>2, <1>4, AnnouncedFields
  <2>3. told.finished
    BY <1>2 DEF GameRecord, Announced
  <2> QED
    BY <2>1, <2>2, <2>3
<1>6. told.rated \in BOOLEAN
  BY <1>5 DEF GameRecord
<1> HIDE DEF told, v
<1>7. /\ Told(g).view = g.view /\ Told(g).row = g.row /\ Told(g).announced = (g.ended > 0)
      /\ Told(g).rated = g.rated
  BY DEF Told
<1>8. Told(over) = Over(g.row, g.ended > 0, g.rated)
  BY <1>2, <1>3 DEF Told, CanEnd, SameMatch
<1>9. Told(told) = Over(IF g.row = "none" THEN "none" ELSE result, TRUE, told.rated)
  <2>1. (told.ended > 0) = TRUE
    BY <1>2, <1>5 DEF CanEnd
  <2>2. told.created /\ told.finished
    BY <1>2, <1>5 DEF CanEnd, SameMatch
  <2>3. told.row = IF g.row = "none" THEN "none" ELSE result
    BY <1>2, <1>3, <1>5, <1>11
  <2> QED
    BY <1>3, <1>5, <2>1, <2>2, <2>3 DEF Told
<1>10. Course!Endings(Told(g), result) =
         {Over(g.row, g.ended > 0, g.rated)}
           \cup {Over(IF g.row = "none" THEN "none" ELSE result, TRUE, rated) : rated \in BOOLEAN}
  BY <1>7, Zenon DEF Course!Endings, v
<1> HIDE DEF Over
<1> QED
  BY <1>1, <1>6, <1>8, <1>9, <1>10

\* A game being played, with nothing of an ending on its board.
InPlay(g) == Undecided(g) /\ g.view.result = "UNDETERMINED"

\* A resignation, timeout or disconnect makes somebody the winner.
LEMMA ForfeitTold ==
    ASSUME NEW g \in GameRecord, InPlay(g), NEW seat \in Seats, NEW reason \in Reasons, NEW fault
    PROVE  Told(FinishGame(g, WinFor(seat), reason, fault)) \in Course!Forfeits(Told(g))
<1>1. CanEnd(g, WinFor(seat)) /\ WinFor(seat) \in Results
  BY DEF InPlay, Undecided, CanEnd, WinFor, Results
<1>2. Told(FinishGame(g, WinFor(seat), reason, fault)) \in Course!Endings(Told(g), WinFor(seat))
  BY <1>1, FinishGameTold
<1>3. Course!Forfeits(Told(g)) = UNION {Course!Endings(Told(g), WinFor(s)) : s \in Seats}
  BY SameRules, Zenon DEF Course!Forfeits
<1> QED
  BY <1>2, <1>3, Zenon

\* Asking for a move tells nothing, or a player who is away loses.
LEMMA SendYourTurnTold ==
    ASSUME NEW g \in GameRecord, InPlay(g), NEW on, NEW fault
    PROVE  Told(SendYourTurn(g, on, fault)) \in {Told(g)} \cup Course!Forfeits(Told(g))
<1> DEFINE seat == Other(SeatOf(g, OnClock(g)))
           d == IF g.deadline = "none" THEN "running" ELSE g.deadline
           h == [g EXCEPT !.deadline = d, !.turnTo = on[OnClock(g)], !.turnAt = g.view.plies]
<1>1. SendYourTurn(g, on, fault) =
        IF g.finished THEN g
        ELSE IF on[OnClock(g)] = NoConn THEN FinishGame(g, WinFor(seat), "disconnect", fault) ELSE h
  BY Zenon DEF SendYourTurn
<1>2. seat \in Seats /\ "disconnect" \in Reasons
  BY DEF Other, Seats, Reasons
<1> HIDE DEF seat, d
<1>3. Told(FinishGame(g, WinFor(seat), "disconnect", fault)) \in Course!Forfeits(Told(g))
  BY <1>2, ForfeitTold
<1>4. SameTold(g, h)
  BY DEF SameTold, GameRecord
<1> HIDE DEF h
<1> QED
  BY <1>1, <1>3, <1>4, SameToldIs

\* A match is created with a row, and perhaps lost at once.
LEMMA OpenMatchTold ==
    ASSUME NEW a \in Names, NEW b \in Names, NEW grace \in BOOLEAN, NEW on, NEW fault
    PROVE  /\ Told(NewMatch(a, b, grace)) \in Course!Created
           /\ Told(OpenMatch(NewMatch(a, b, grace), on, fault)) \in Course!Created
<1> DEFINE g == NewMatch(a, b, grace)
           m == [g EXCEPT !.row = IF @ = "none" THEN "open" ELSE @, !.started = @ + 1]
           Match(row) == [stage |-> "going", view |-> NewGame, row |-> row, announced |-> FALSE,
                          rated |-> FALSE]
           going == Match("none")
           open == Match("open")
<1>1. Course!Created = {going, open} \cup Course!Forfeits(open)
  <2>1. Course!Fresh("going", "none") = going /\ Course!Fresh("going", "open") = open
    BY SameRules, Zenon DEF Course!Fresh
  <2> HIDE DEF going, open
  <2> QED
    BY <2>1, Zenon DEF Course!Created
<1>2. g \in GameRecord /\ g.created /\ InPlay(g) /\ g.row = "none" /\ g.started = 0
  BY NewMatchFields DEF InPlay
<1>3. g.view = NewGame
  BY DEF NewMatch, NoGame
<1> HIDE DEF g
<1>4. m = [g EXCEPT !.row = "open", !.started = 1]
  BY <1>2
<1> HIDE DEF m
<1>5. m \in GameRecord /\ InPlay(m) /\ m.created /\ m.row = "open" /\ m.view = NewGame
  <2>1. m \in GameRecord /\ m.row = "open" /\ m.view = NewGame
    BY <1>2, <1>3, <1>4 DEF GameRecord
  <2>2. InPlay(m) /\ m.created
    BY <1>2, <1>4 DEF GameRecord, InPlay, Undecided
  <2> QED
    BY <2>1, <2>2
<1>6. Told(g) = going
  <2>1. (g.ended > 0) = FALSE /\ g.rated = FALSE
    BY <1>2 DEF InPlay, Undecided, GameRecord
  <2> QED
    BY <1>2, <1>3, <2>1 DEF Told, InPlay, Undecided
<1>7. Told(m) = open
  <2>1. (m.ended > 0) = FALSE /\ m.rated = FALSE
    BY <1>5 DEF InPlay, Undecided, GameRecord
  <2> QED
    BY <1>5, <2>1 DEF Told, InPlay, Undecided
<1> HIDE DEF going, open
<1>8. Told(SendYourTurn(m, on, fault)) \in {Told(m)} \cup Course!Forfeits(Told(m))
  BY <1>5, SendYourTurnTold
<1>9. OpenMatch(g, on, fault) = SendYourTurn(m, on, fault)
  BY DEF OpenMatch, m
<1> QED
  BY <1>1, <1>6, <1>7, <1>8, <1>9 DEF g

\* A player who comes back tells nothing, and does not lose for it either.
LEMMA ResumeTold ==
    ASSUME NEW g \in GameRecord, InPlay(g), NEW name, NEW on
    PROVE  Told(Resume(g, name, on)) \in {Told(g)} \cup Course!Forfeits(Told(g))
<1> DEFINE back == [g EXCEPT !.forfeit = "none", !.loser = "none"]
           slot == [back EXCEPT !.deadline = "running"]
<1>1. SameTold(g, back) /\ back \in GameRecord /\ InPlay(back)
  <2>1. back \in GameRecord
    BY DEF GameRecord, Timers
  <2>2. SameTold(g, back) /\ back.reason = g.reason
    BY DEF SameTold, GameRecord
  <2> HIDE DEF back
  <2>3. InPlay(back)
    BY <2>2, SameToldUndecided DEF InPlay, SameTold
  <2> QED
    BY <2>1, <2>2, <2>3
<1>2. Resume(g, name, on) = IF OnClock(g) # name THEN back ELSE SendYourTurn(slot, on, "none")
  BY DEF Resume
<1> HIDE DEF back
<1>3. SameTold(back, slot) /\ slot \in GameRecord /\ InPlay(slot)
  <2>1. slot \in GameRecord
    BY <1>1 DEF GameRecord, Timers
  <2>2. SameTold(back, slot) /\ slot.reason = back.reason
    BY <1>1 DEF SameTold, GameRecord
  <2> HIDE DEF slot
  <2>3. InPlay(slot)
    BY <1>1, <2>2, SameToldUndecided DEF InPlay, SameTold
  <2> QED
    BY <2>1, <2>2, <2>3
<1> HIDE DEF slot
<1>4. Told(SendYourTurn(slot, on, "none")) \in {Told(slot)} \cup Course!Forfeits(Told(slot))
  BY <1>3, SendYourTurnTold
<1>5. Told(back) = Told(g) /\ Told(slot) = Told(back)
  BY <1>1, <1>3, SameToldIs
<1> QED
  BY <1>2, <1>4, <1>5

\* A lost connection tells nothing, or its player loses.
LEMMA LoseConnectionTold ==
    ASSUME NEW g \in GameRecord, Playing(g) => InPlay(g), NEW name, NEW fault
    PROVE  \/ Told(LoseConnection(g, name, fault)) = Told(g)
           \/ InPlay(g) /\ Told(LoseConnection(g, name, fault)) \in Course!Forfeits(Told(g))
<1> DEFINE seat == Other(SeatOf(g, name))
           away == [g EXCEPT !.forfeit = "running", !.loser = SeatOf(g, name)]
<1>1. LoseConnection(g, name, fault) =
        IF ~Playing(g) \/ ~Seated(g, name) THEN g
        ELSE IF g.grace THEN away ELSE FinishGame(g, WinFor(seat), "disconnect", fault)
  BY Zenon DEF LoseConnection
<1>2. seat \in Seats /\ "disconnect" \in Reasons
  BY DEF Other, Seats, Reasons
<1> HIDE DEF seat
<1>3. InPlay(g) => Told(FinishGame(g, WinFor(seat), "disconnect", fault)) \in Course!Forfeits(Told(g))
  BY <1>2, ForfeitTold
<1>4. SameTold(g, away)
  BY DEF SameTold, GameRecord
<1> HIDE DEF away
<1> QED
  BY <1>1, <1>3, <1>4, SameToldIs

\* An elapsed timer makes somebody lose.
LEMMA ExpireTold ==
    ASSUME NEW g \in GameRecord, InPlay(g), NEW fault
    PROVE  Told(Expire(g, fault)) \in Course!Forfeits(Told(g))
<1> DEFINE late == Other(g.view.current)
           away == Other(IF g.loser = "none" THEN "A" ELSE g.loser)
<1>1. Expire(g, fault) = IF g.deadline = "elapsed" THEN FinishGame(g, WinFor(late), "timeout", fault)
                          ELSE FinishGame(g, WinFor(away), "disconnect", fault)
  BY Zenon DEF Expire
<1>2. late \in Seats /\ away \in Seats /\ {"disconnect", "timeout"} \subseteq Reasons
  BY DEF Other, Seats, Reasons
<1> HIDE DEF late, away
<1>3. /\ Told(FinishGame(g, WinFor(late), "timeout", fault)) \in Course!Forfeits(Told(g))
      /\ Told(FinishGame(g, WinFor(away), "disconnect", fault)) \in Course!Forfeits(Told(g))
  BY <1>2, ForfeitTold
<1> QED
  BY <1>1, <1>3

\* A move that the journal refuses tells nothing; one that it takes is a legal
\* move, and ends the game if it is the last.
LEMMA ApplyMoveTold ==
    ASSUME NEW g \in GameRecord, InPlay(g), NEW on, NEW next \in Successors(g.view), NEW fault
    PROVE  Told(ApplyMove(g, next, on, fault)) \in {Told(g)} \cup Course!Continued(Told(g))
<1> DEFINE moved == [g EXCEPT !.view = next]
           undone == [moved EXCEPT !.view = g.view]
           told == [moved EXCEPT !.moves = @ + 1, !.changed = @ + 1]
           slot == [told EXCEPT !.deadline = "running"]
           reason == IF next.result # "DRAW" THEN "five_in_a_row" ELSE "draw"
           over == FinishGame(told, next.result, reason, fault)
           turn == SendYourTurn(slot, on, fault)
           to == [Told(g) EXCEPT !.view = next]
<1>1. g.view \in GameView /\ next \in GameView /\ next.result \in Results /\ reason \in Reasons
  <2>1. g.view \in GameView
    BY DEF GameRecord
  <2>2. next \in GameView
    BY <2>1, SuccessorFacts
  <2> QED
    BY <2>1, <2>2 DEF GameView, Reasons
<1>2. ApplyMove(g, next, on, fault) = IF JournalRefuses(g, fault) THEN undone
                                      ELSE IF next.result # "UNDETERMINED" THEN over ELSE turn
  BY Zenon DEF ApplyMove
<1> HIDE DEF reason
<1>3. moved \in GameRecord /\ moved.view = next /\ Undecided(moved)
  <2>1. moved \in GameRecord
    BY <1>1 DEF GameRecord
  <2>2. moved.view = next /\ Undecided(moved)
    BY DEF GameRecord, InPlay, Undecided
  <2> QED
    BY <2>1, <2>2
<1>4. Told(moved) = to
  BY DEF Told, GameRecord
<1>5. SameTold(g, undone)
  BY DEF GameRecord, SameTold
<1> HIDE DEF moved
<1>6. told \in GameRecord /\ SameTold(moved, told) /\ Undecided(told) /\ told.view = next
  <2>1. moved.moves + 1 \in Nat /\ moved.changed + 1 \in Nat
    BY <1>3 DEF GameRecord
  <2>2. told = [moved EXCEPT !.moves = moved.moves + 1, !.changed = moved.changed + 1]
    BY Zenon
  <2> HIDE DEF told
  <2>3. told \in GameRecord
    BY <1>3, <2>1, <2>2 DEF GameRecord
  <2>4. SameTold(moved, told) /\ told.reason = moved.reason
    BY <1>3, <2>2 DEF GameRecord, SameTold
  <2>5. Undecided(told)
    BY <1>3, <2>4, SameToldUndecided
  <2>6. told.view = next
    BY <1>3, <2>4 DEF SameTold
  <2> QED
    BY <2>3, <2>4, <2>5, <2>6
<1> HIDE DEF undone, told
<1>7. slot \in GameRecord /\ SameTold(told, slot) /\ Undecided(slot) /\ slot.view = next
  <2>1. slot \in GameRecord
    BY <1>6 DEF GameRecord, Timers
  <2>2. SameTold(told, slot) /\ slot.reason = told.reason
    BY <1>6 DEF GameRecord, SameTold
  <2> HIDE DEF slot
  <2>3. Undecided(slot)
    BY <1>6, <2>2, SameToldUndecided
  <2>4. slot.view = next
    BY <1>6, <2>2 DEF SameTold
  <2> QED
    BY <2>1, <2>2, <2>3, <2>4
<1> HIDE DEF slot
<1>8. Told(undone) = Told(g) /\ Told(told) = to /\ Told(slot) = to
  BY <1>4, <1>5, <1>6, <1>7, SameToldIs
<1>9. next.result # "UNDETERMINED" => Told(over) \in Course!Endings(to, next.result)
  <2>1. CanEnd(told, next.result)
    BY <1>6 DEF CanEnd, Undecided
  <2> QED
    BY <1>1, <1>6, <1>8, <2>1, FinishGameTold
<1>10. next.result = "UNDETERMINED" => Told(turn) \in {to} \cup Course!Forfeits(to)
  <2>1. next.result = "UNDETERMINED" => InPlay(slot)
    BY <1>7 DEF InPlay
  <2> QED
    BY <1>7, <1>8, <2>1, SendYourTurnTold
<1> HIDE DEF over, turn
<1>11. Told(g).view = g.view /\ Told(g).row = g.row
  BY DEF Told
<1>12. Course!Moved(Told(g), next) =
         IF next.result # "UNDETERMINED" THEN Course!Endings(to, next.result)
         ELSE {to} \cup Course!Forfeits(to)
  BY Zenon DEF Course!Moved
<1> HIDE DEF to
<1>13. g.row # "none" => Course!Moved(Told(g), next) \subseteq Course!Continued(Told(g))
  <2>1. Course!Continued(Told(g)) =
          Course!Forfeits(Told(g)) \cup (IF g.row = "none" THEN {}
             ELSE UNION {Course!Moved(Told(g), view) : view \in Successors(g.view)})
    BY <1>11, SameRules, Zenon DEF Course!Continued
  <2> QED
    BY <2>1, Zenon
<1> QED
  BY <1>2, <1>8, <1>9, <1>10, <1>12, <1>13 DEF JournalRefuses

\* What a step makes of one match.
Runs(g, h) == Told(h) \in {Told(g)} \cup Course!Courses(Told(g))

\* A match in play goes on, or ends.
LEMMA InPlayRuns ==
    ASSUME NEW g, InPlay(g)
    PROVE  /\ Course!Courses(Told(g)) = Course!Continued(Told(g))
           /\ Course!Forfeits(Told(g)) \subseteq Course!Courses(Told(g))
<1>1. Told(g).stage = "going"
  BY DEF Told, InPlay, Undecided
<1>2. Course!Courses(Told(g)) = Course!Continued(Told(g))
  BY <1>1 DEF Course!Courses
<1> QED
  BY <1>2, Zenon DEF Course!Continued

\* A game that is not in use can be created.
LEMMA AbsentRuns ==
    ASSUME NEW g, ~g.created
    PROVE  Course!Courses(Told(g)) = Course!Created
<1>1. Told(g).stage = "none"
  BY DEF Told
<1> QED
  BY <1>1 DEF Course!Courses

\* Every step runs every match by its rules.
LEMMA NextRuns ==
    ASSUME IInv, [Next]_vars
    PROVE  \A i \in GameIds : Runs(games[i], games'[i])
<1>0. /\ games \in [GameIds -> GameRecord]
      /\ \A i \in GameIds : games[i] \in GameRecord /\ (Playing(games[i]) => InPlay(games[i]))
  <2>1. games \in [GameIds -> GameRecord] /\ \A i \in GameIds : games[i] \in GameRecord /\ Sound(games[i])
    BY DEF IInv, TypeOK, GameOK
  <2> QED
    BY <2>1, SoundFacts DEF InPlay
<1> DEFINE Goal == \A i \in GameIds : Runs(games[i], games'[i])
<1>a. ASSUME games' = games PROVE Goal
  BY <1>a DEF Runs
<1>b. ASSUME NEW i \in GameIds, NEW h, games' = [games EXCEPT ![i] = h], Runs(games[i], h) PROVE Goal
  BY <1>0, <1>b DEF Runs
<1>2. ASSUME NEW c \in Conns, ConnStep(c) PROVE Goal
  <2>1. games' = games
    BY <1>2 DEF ConnStep, Attach, PeerDrop, AuthFailed, PopConnection, Handshake
  <2> QED
    BY <1>a, <2>1
<1>3. CASE Shutdown \/ UNCHANGED vars
  <2>1. games' = games
    BY <1>3 DEF Shutdown, vars
  <2> QED
    BY <1>a, <2>1
<1>4. ASSUME NEW c \in Conns, NEW name \in Names, Register(c, name) PROVE Goal
  <2> SUFFICES ASSUME NEW i \in GameIds PROVE Runs(games[i], games'[i])
    OBVIOUS
  <2>1. games'[i] = IF name \in known /\ Playing(games[i]) /\ Seated(games[i], name)
                    THEN Resume(games[i], name, online') ELSE games[i]
    BY <1>4 DEF Register
  <2>2. Playing(games[i]) => Runs(games[i], Resume(games[i], name, online'))
    <3>1. Playing(games[i]) =>
            Told(Resume(games[i], name, online')) \in {Told(games[i])} \cup Course!Forfeits(Told(games[i]))
      BY <1>0, ResumeTold
    <3> QED
      BY <1>0, <3>1, InPlayRuns DEF Runs
  <2> QED
    BY <2>1, <2>2 DEF Runs
<1>5. ASSUME NEW c \in Conns, NEW i \in GameIds, NEW a \in Names, NEW b \in Names, NEW grace \in BOOLEAN,
             NEW fault, CreateMatch(c, i, a, b, grace, fault)
      PROVE  Goal
  <2> DEFINE h == IF fault = "start" THEN NewMatch(a, b, grace)
                  ELSE OpenMatch(NewMatch(a, b, grace), online, fault)
  <2>1. ~games[i].created /\ games' = [games EXCEPT ![i] = h]
    BY <1>5 DEF CreateMatch
  <2>2. Told(h) \in Course!Created
    BY OpenMatchTold
  <2> HIDE DEF h
  <2> QED
    BY <1>b, <2>1, <2>2, AbsentRuns DEF Runs
<1>6. ASSUME NEW c \in Conns, NEW i \in GameIds, NEW next \in Successors(games[i].view), NEW fault,
             SubmitMove(c, i, next, fault)
      PROVE  Goal
  <2> DEFINE h == ApplyMove(games[i], next, online, fault)
  <2>1. Playing(games[i]) /\ games' = [games EXCEPT ![i] = h]
    BY <1>6 DEF SubmitMove
  <2>2. InPlay(games[i]) /\ Told(h) \in {Told(games[i])} \cup Course!Continued(Told(games[i]))
    BY <1>0, <2>1, ApplyMoveTold
  <2> HIDE DEF h
  <2> QED
    BY <1>b, <2>1, <2>2, InPlayRuns DEF Runs
<1>7. ASSUME NEW c \in Conns, NEW i \in GameIds, NEW fault, Resign(c, i, fault) PROVE Goal
  <2> DEFINE seat == Other(SeatOf(games[i], conns[c].player))
             h == FinishGame(games[i], WinFor(seat), "resignation", fault)
  <2>1. Playing(games[i]) /\ games' = [games EXCEPT ![i] = h]
    BY <1>7 DEF Resign
  <2>2. seat \in Seats /\ "resignation" \in Reasons
    BY DEF Other, Seats, Reasons
  <2> HIDE DEF seat
  <2>3. InPlay(games[i]) /\ Told(h) \in Course!Forfeits(Told(games[i]))
    BY <1>0, <2>1, <2>2, ForfeitTold
  <2> HIDE DEF h
  <2> QED
    BY <1>b, <2>1, <2>3, InPlayRuns DEF Runs
<1>8. ASSUME NEW c \in Conns, NEW bad \in {0} \cup GameIds, CleanupConnection(c, bad) PROVE Goal
  <2> DEFINE name == conns[c].player
  <2>1. CASE name = NoName
    <3>1. games' = games
      BY <1>8, <2>1 DEF CleanupConnection
    <3> QED
      BY <1>a, <3>1
  <2>2. CASE name # NoName
    <3> SUFFICES ASSUME NEW i \in GameIds PROVE Runs(games[i], games'[i])
      OBVIOUS
    <3> DEFINE fault == IF i = bad THEN "store" ELSE "none"
    <3>1. games'[i] \in {games[i], LoseConnection(games[i], name, fault)}
      BY <1>8, <2>2 DEF CleanupConnection
    <3> HIDE DEF name, fault
    <3>2. Runs(games[i], LoseConnection(games[i], name, fault))
      BY <1>0, LoseConnectionTold, InPlayRuns DEF Runs
    <3> QED
      BY <3>1, <3>2 DEF Runs
  <2> QED
    BY <2>1, <2>2
<1>9. ASSUME NEW i \in GameIds, DeadlineElapses(i) \/ GraceElapses(i) PROVE Goal
  <2> DEFINE late == [games[i] EXCEPT !.deadline = "elapsed"]
             away == [games[i] EXCEPT !.forfeit = "elapsed"]
  <2>1. games' = [games EXCEPT ![i] = late] \/ games' = [games EXCEPT ![i] = away]
    BY <1>9, Zenon DEF DeadlineElapses, GraceElapses
  <2>2. SameTold(games[i], late) /\ SameTold(games[i], away)
    BY <1>0 DEF SameTold, GameRecord
  <2> HIDE DEF late, away
  <2>3. Runs(games[i], late) /\ Runs(games[i], away)
    BY <2>2, SameToldIs DEF Runs
  <2> QED
    BY <1>b, <2>1, <2>3
<1>10. ASSUME NEW bad \in {0} \cup GameIds, Tick(bad) PROVE Goal
  <2> SUFFICES ASSUME NEW i \in GameIds PROVE Runs(games[i], games'[i])
    OBVIOUS
  <2> DEFINE fault == IF i = bad THEN "store" ELSE "none"
  <2>1. games'[i] = games[i] \/ (Playing(games[i]) /\ games'[i] = Expire(games[i], fault))
    BY <1>10 DEF Tick, Due
  <2> HIDE DEF fault
  <2>2. Playing(games[i]) => Runs(games[i], Expire(games[i], fault))
    BY <1>0, ExpireTold, InPlayRuns DEF Runs
  <2> QED
    BY <2>1, <2>2 DEF Runs
<1> QED
  BY <1>2, <1>3, <1>4, <1>5, <1>6, <1>7, <1>8, <1>9, <1>10 DEF Next, ConnStep

\* The server implements MatchCourse: whatever drops, races or fails, a step of
\* any handler or of the clock (server.py) moves every match by the Swap2 rules
\* or ends it, and journal, spectators and ratings hear of the ending together
\* or not at all.
THEOREM ServerRunsMatches == Spec => Course!Spec
<1>1. Init => Course!Init
  <2> SUFFICES ASSUME Init PROVE Course!Init
    OBVIOUS
  <2>1. \A i \in GameIds : games[i] = NoGame
    BY DEF Init
  <2>2. Told(NoGame) = Course!Fresh("none", "none")
    <3>1. /\ ~NoGame.created /\ NoGame.view = NewGame /\ NoGame.row = "none"
          /\ NoGame.rated = FALSE /\ (NoGame.ended > 0) = FALSE
      BY DEF NoGame
    <3> QED
      BY <3>1, SameRules, Zenon DEF Told, Course!Fresh
  <2> QED
    BY <2>1, <2>2, Zenon DEF Course!Init
<1>2. IInv /\ [Next]_vars => [Course!Next]_([i \in GameIds |-> Told(games[i])])
  <2> SUFFICES ASSUME IInv, [Next]_vars PROVE Course!Next
    OBVIOUS
  <2>1. \A i \in GameIds : Runs(games[i], games'[i])
    BY NextRuns
  <2>2. \A i \in GameIds : [j \in GameIds |-> Told(games[j])][i] = Told(games[i])
    OBVIOUS
  <2>3. \A i \in GameIds : [j \in GameIds |-> Told(games[j])]'[i] = Told(games'[i])
    BY DEF Told
  <2> QED
    BY <2>1, <2>2, <2>3, Zenon DEF Course!Next, Runs
<1> QED
  BY <1>1, <1>2, Inductive, PTL DEF Spec, Course!Spec
=============================================================================
