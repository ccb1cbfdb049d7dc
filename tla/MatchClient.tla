----------------------------- MODULE MatchClient -----------------------------
(***************************************************************************)
(* The engine's client of the match server (engine/src/match_client.cpp):  *)
(* RunMatchClient on the main thread, the reader thread of RpcClient, and  *)
(* a MatchGame that keeps its search tree in step with the server's game.  *)
(* The server is server.py, reduced to what this client sees of it: it     *)
(* answers requests, plays the opponent's moves and ends the match; its    *)
(* own handlers, locks and threads are in MatchServer.  There is one       *)
(* match, so every turn is one of the game the client has started.         *)
(*                                                                         *)
(* The search tree is the sequence of actions its root stands at.          *)
(***************************************************************************)
EXTENDS Gomoku, Sequences

CONSTANTS
    Turns,     \* the seat that acts at each ply; the game ends after the last
    Actions,   \* the actions a player may choose
    MaxAttempts   \* the attempts at create_match that fit in match_timeout_seconds

ASSUME GameIsGiven ==
    Turns \in Seq(Seats) /\ Turns # <<>> /\ Actions # {} /\ 0 \notin Actions
    /\ MaxAttempts \in Nat \ {0}

VARIABLES
    seat, creator,   \* options: the seat, and whether --opponent is supplied
    pc, call, next_id,            \* the main thread and the Call it is in
    started, synced, tree, move,  \* MatchGame, and the move to be submitted
    responses, events, closed,    \* RpcClient, shared by the two threads
    requests, wire, link,         \* the connection, either way
    phase, moves, registered, opponent  \* the server

game == <<started, synced, tree, move>>
shared == <<responses, events, closed>>
server == <<phase, moves, registered, opponent>>
vars == <<seat, creator, pc, call, next_id, game, shared, requests, wire, link, server>>

None == <<0>>
NoCall == 0
Ended == pc \in {"returned", "failed", "confused"}

Init ==
    /\ seat \in Seats /\ creator \in BOOLEAN
    /\ pc = "handshake" /\ call = NoCall /\ next_id = 1
    /\ started = FALSE /\ synced = <<>> /\ tree = None /\ move = 0
    /\ responses = {} /\ events = <<>> /\ closed = FALSE
    /\ requests = <<>> /\ wire = <<>> /\ link = "up"
    /\ phase = "lobby" /\ moves = <<>> /\ registered = FALSE /\ opponent = FALSE

-----------------------------------------------------------------------------
(* RpcClient.                                                               *)

Calling == pc \in {"handshake", "register", "create", "submit"}

\* Call up to the wait.  What is sent to a peer that is gone is lost.
SendLine ==
    /\ Calling /\ call = NoCall
    /\ call' = next_id /\ next_id' = next_id + 1
    /\ requests' = IF link = "up"
                   THEN Append(requests, [id |-> next_id, method |-> pc, action |-> move,
                                          history |-> synced])
                   ELSE requests
    /\ UNCHANGED <<seat, creator, pc, game, shared, wire, link, server>>

\* The send fails: the client closes itself and the error leaves the program.
SendFails ==
    /\ Calling /\ call = NoCall /\ link = "down"
    /\ closed' = TRUE /\ pc' = "failed"
    /\ UNCHANGED <<seat, creator, call, next_id, game, responses, events, requests, wire, link,
                   server>>

AfterCall ==
    CASE pc = "handshake" -> "register"
      [] pc = "register" -> IF creator THEN "create" ELSE "loop"
      [] OTHER -> "loop"

\* handshake and register are the calls before the first attempt.
TimeIsLeft == next_id < 3 + MaxAttempts

\* The response to this very call is there.  Only an opponent who is not known
\* yet is waited for, until match_timeout_seconds are over; every other error
\* leaves the program.
CallReturns ==
    /\ call # NoCall /\ ~Ended
    /\ \E r \in responses :
          /\ r.id = call
          /\ responses' = responses \ {r}
          /\ pc' = CASE r.error = "" -> AfterCall
                     [] r.error = "unknown_player" /\ TimeIsLeft -> "sleep"
                     [] OTHER -> "failed"
    /\ call' = NoCall
    /\ UNCHANGED <<seat, creator, next_id, game, events, closed, requests, wire, link, server>>

\* The wait ends without it: the timeout, or the transport closed.
CallFails ==
    /\ call # NoCall /\ ~Ended
    /\ \A r \in responses : r.id # call
    /\ pc' = "failed"
    /\ UNCHANGED <<seat, creator, call, next_id, game, shared, requests, wire, link, server>>

\* The next attempt at create_match.
Retry ==
    /\ pc = "sleep" /\ pc' = "create"
    /\ UNCHANGED <<seat, creator, call, next_id, game, shared, requests, wire, link, server>>

\* The reader sorts what arrives.
ReaderLoop ==
    /\ ~closed /\ wire # <<>>
    /\ LET message == Head(wire)
       IN  IF message.kind = "response"
           THEN responses' = responses \cup {[id |-> message.id, error |-> message.error]}
                /\ UNCHANGED events
           ELSE events' = Append(events, message) /\ UNCHANGED responses
    /\ wire' = Tail(wire)
    /\ UNCHANGED <<seat, creator, pc, call, next_id, game, closed, requests, link, server>>

\* End of stream.
ReaderEnds ==
    /\ ~closed /\ wire = <<>> /\ link = "down"
    /\ closed' = TRUE
    /\ UNCHANGED <<seat, creator, pc, call, next_id, game, responses, events, requests, wire,
                   link, server>>

-----------------------------------------------------------------------------
(* RunMatchClient's event loop.                                             *)

\* WaitForEvent comes back with nothing.
WaitEnds ==
    /\ pc = "loop" /\ events = <<>>
    /\ pc' = "polled"
    /\ UNCHANGED <<seat, creator, call, next_id, game, shared, requests, wire, link, server>>

\* A plausible slip: a closed connection is polled again.
MutPoll ==
    /\ pc = "polled" /\ pc' = "loop"
    /\ UNCHANGED <<seat, creator, call, next_id, game, shared, requests, wire, link, server>>

\* IsClosed, asked after the wait: an event that came in between is not seen.
Poll ==
    /\ pc = "polled"
    /\ pc' = IF closed THEN "failed" ELSE "loop"
    /\ UNCHANGED <<seat, creator, call, next_id, game, shared, requests, wire, link, server>>

Takes(kind) == pc = "loop" /\ events # <<>> /\ Head(events).kind = kind /\ events' = Tail(events)

\* game_started: a new MatchGame.
Start ==
    /\ Takes("started")
    /\ started' = TRUE /\ synced' = <<>> /\ tree' = None
    /\ UNCHANGED <<seat, creator, pc, call, next_id, move, responses, closed, requests, wire,
                   link, server>>

IsSync(actions) == Len(synced) <= Len(actions) /\ SubSeq(actions, 1, Len(synced)) = synced

\* A plausible slip: only the last action is selected.
MutCaughtUp(actions) ==
    IF tree = None \/ ~IsSync(actions) THEN None ELSE Append(tree, actions[Len(actions)])

\* SelectAction for every action since; a tree that does not fit is reset.
CaughtUp(actions) ==
    IF tree = None \/ ~IsSync(actions) THEN None
    ELSE tree \o SubSeq(actions, Len(synced) + 1, Len(actions))

\* your_turn: the tree catches up (or is lost where it was never expanded), the
\* search makes a root if there is none, and the chosen action is selected (the
\* tree is lost again if the search answered before it expanded the root) before
\* it is submitted.
HandleTurn ==
    /\ Takes("turn")
    /\ LET actions == Head(events).moves
       IN  IF ~started \/ Turns[Len(actions) + 1] # seat
           THEN pc' = "confused" /\ UNCHANGED game
           ELSE \E action \in Actions, kept \in {CaughtUp(actions), None} :
                  /\ tree' \in {None, Append(IF kept = None THEN actions ELSE kept, action)}
                  /\ synced' = Append(actions, action)
                  /\ move' = action
                  /\ pc' = "submit"
                  /\ UNCHANGED started
    /\ UNCHANGED <<seat, creator, call, next_id, responses, closed, requests, wire, link, server>>

\* game_finished.
Finish ==
    /\ Takes("finished")
    /\ pc' = "returned"
    /\ UNCHANGED <<seat, creator, call, next_id, game, responses, closed, requests, wire, link,
                   server>>

-----------------------------------------------------------------------------
(* The server.                                                              *)

Mover(history) == Turns[Len(history) + 1]
Event(kind) == [kind |-> kind, moves |-> <<>>]

\* What a match tells the client when it stands at a history.
Tells(history) ==
    IF Len(history) = Len(Turns) THEN <<Event("finished")>>
    ELSE IF Mover(history) = seat THEN <<[kind |-> "turn", moves |-> history]>>
    ELSE <<>>

PhaseAt(history) == IF Len(history) = Len(Turns) THEN "over" ELSE "playing"

\* A request is handled under the lock: its events are sent before its response.
\* The response is queued after the lock, so an event of another thread may come
\* in between; ReaderLoop sorts the two kinds apart, and their order is not seen.
ServerAnswers ==
    /\ link = "up" /\ requests # <<>>
    /\ LET r == Head(requests)
           Reply(error) == [kind |-> "response", id |-> r.id, error |-> error]
           Accepts == phase = "playing" /\ Mover(moves) = seat
           after == Append(moves, r.action)
       IN  CASE r.method = "create" /\ opponent ->
                    /\ phase' = "playing"
                    /\ wire' = wire \o <<Event("started")>> \o Tells(<<>>) \o <<Reply("")>>
                    /\ UNCHANGED <<moves, registered>>
             [] r.method = "create" /\ ~opponent ->
                    wire' = Append(wire, Reply("unknown_player")) /\ UNCHANGED <<phase, moves, registered>>
             [] r.method = "submit" /\ Accepts ->
                    /\ moves' = after /\ phase' = PhaseAt(after)
                    /\ wire' = wire \o Tells(after) \o <<Reply("")>>
                    /\ UNCHANGED registered
             [] r.method = "submit" /\ ~Accepts ->
                    wire' = Append(wire, Reply("rejected")) /\ UNCHANGED <<phase, moves, registered>>
             [] OTHER ->
                    /\ registered' = (registered \/ r.method = "register")
                    /\ wire' = Append(wire, Reply(""))
                    /\ UNCHANGED <<phase, moves>>
    /\ requests' = Tail(requests)
    /\ UNCHANGED <<seat, creator, pc, call, next_id, game, shared, link, opponent>>

OpponentComes ==
    /\ ~opponent /\ opponent' = TRUE
    /\ UNCHANGED <<seat, creator, pc, call, next_id, game, shared, requests, wire, link, phase, moves,
                   registered>>

\* Someone else creates the match of a client that did not ask for one.
MatchIsMade ==
    /\ link = "up" /\ ~creator /\ phase = "lobby" /\ registered /\ opponent
    /\ phase' = "playing"
    /\ wire' = wire \o <<Event("started")>> \o Tells(<<>>)
    /\ UNCHANGED <<seat, creator, pc, call, next_id, game, shared, requests, link, moves,
                   registered, opponent>>

OpponentMoves ==
    /\ link = "up" /\ phase = "playing" /\ Mover(moves) # seat
    /\ \E action \in Actions :
          LET after == Append(moves, action)
          IN  moves' = after /\ phase' = PhaseAt(after) /\ wire' = wire \o Tells(after)
    /\ UNCHANGED <<seat, creator, pc, call, next_id, game, shared, requests, link, registered, opponent>>

\* The clock, a resignation or a drop ends the match early.
MatchIsCutShort ==
    /\ link = "up" /\ phase = "playing"
    /\ phase' = "over" /\ wire' = Append(wire, Event("finished"))
    /\ UNCHANGED <<seat, creator, pc, call, next_id, game, shared, requests, link, moves, registered,
                   opponent>>

\* What the server has sent still arrives.
ServerCloses ==
    /\ link = "up" /\ link' = "down"
    /\ UNCHANGED <<seat, creator, pc, call, next_id, game, shared, requests, wire, server>>

-----------------------------------------------------------------------------
Main ==
    \/ SendLine \/ SendFails \/ CallReturns \/ Retry \/ WaitEnds \/ Poll \/ Start
    \/ HandleTurn \/ Finish

Next ==
    \/ ~Ended /\ (Main \/ CallFails \/ ReaderLoop \/ ReaderEnds)
    \/ ServerAnswers \/ OpponentComes \/ MatchIsMade \/ OpponentMoves
    \/ MatchIsCutShort \/ ServerCloses

\* Both threads run, a call that cannot be answered times out, the server
\* answers and its clock ends every match.
Fairness ==
    /\ WF_vars(~Ended /\ Main)
    /\ WF_vars(~Ended /\ (ReaderLoop \/ ReaderEnds))
    /\ WF_vars(~Ended /\ CallFails /\ closed)
    /\ WF_vars(ServerAnswers) /\ WF_vars(MatchIsCutShort)

Spec == Init /\ [][Next]_vars /\ Fairness

-----------------------------------------------------------------------------
(* Properties.                                                              *)

\* In an uninterrupted session the client is never asked to move before
\* game_started or on the other seat's turn, its tree stands where the move it
\* chose leads, however many moves the opponent made in a row, and a move on
\* its way answers the position the server waits in, unless the match is over.
TurnsAreUnderstood ==
    /\ pc # "confused"
    /\ pc = "submit" => tree \in {None, synced}
    /\ \A i \in DOMAIN requests :
          requests[i].method = "submit" /\ phase = "playing" =>
              requests[i].history = Append(moves, requests[i].action)

\* A client whose match was created, or whose connection broke, does not wait
\* for ever: RunMatchClient returns or throws.
ClientEnds == phase # "lobby" \/ link = "down" ~> Ended
=============================================================================
