----------------------------- MODULE ClientProofs -----------------------------
(***************************************************************************)
(* Proofs about the engine's match client, for every order of seats, every *)
(* length of game and any number of attempts at creating the match: no     *)
(* turn is misunderstood, and a move on its way answers the position the   *)
(* server waits in.                                                        *)
(***************************************************************************)
EXTENDS MatchClient, SequenceTheorems, TLAPS

-----------------------------------------------------------------------------
(* The inductive invariant. *)

\* Actions as they appear in messages; a move that was not chosen yet is 0.
Values == Actions \cup {0}

EventMessage == [kind : {"started", "finished", "turn"}, moves : Seq(Values)]
ResponseMessage == [kind : {"response"}, id : Nat, error : {"", "unknown_player", "rejected"}]
Message == EventMessage \cup ResponseMessage
Request == [id : Nat, method : {"handshake", "register", "create", "submit"},
            action : Values, history : Seq(Values)]

Types ==
    /\ seat \in Seats /\ creator \in BOOLEAN /\ started \in BOOLEAN
    /\ pc \in {"handshake", "register", "create", "sleep", "loop", "polled", "submit",
               "returned", "failed", "confused"}
    /\ call \in Nat /\ next_id \in Nat \ {0}
    /\ synced \in Seq(Values) /\ tree \in Seq(Values) /\ move \in Values
    /\ responses \subseteq [id : Nat, error : {"", "unknown_player", "rejected"}]
    /\ events \in Seq(EventMessage) /\ wire \in Seq(Message) /\ requests \in Seq(Request)
    /\ phase \in {"lobby", "playing", "over"} /\ moves \in Seq(Values)

IsResponse(m) == m.kind = "response"
IsTurn(m) == m.kind = "turn"
IsStarted(m) == m.kind = "started"
HasTurn(s) == \E i \in 1 .. Len(s) : IsTurn(s[i])
HasStarted(s) == \E i \in 1 .. Len(s) : IsStarted(s[i])
HasResponse(s) == \E i \in 1 .. Len(s) : IsResponse(s[i])

\* One call at a time: the request, the response on the wire and the response
\* in the table exclude each other, and without a call there is none.
OneCall ==
    /\ pc \in {"loop", "polled", "sleep"} => call = NoCall
    /\ call = NoCall => requests = <<>> /\ responses = {} /\ ~HasResponse(wire)
    /\ Len(requests) <= 1
    /\ requests # <<>> => responses = {} /\ ~HasResponse(wire)
    /\ \A r, q \in responses : r = q
    /\ responses # {} => ~HasResponse(wire)
    /\ \A i, j \in 1 .. Len(wire) : IsResponse(wire[i]) /\ IsResponse(wire[j]) => i = j
    /\ requests # <<>> /\ ~Ended => requests[1].method = pc

\* One match: it is created once, and until then nothing is said of it.
OneMatch ==
    /\ pc \in {"create", "sleep"} => creator
    /\ creator /\ (pc \in {"handshake", "register", "sleep"} \/ (pc = "create" /\ call = NoCall))
         => phase = "lobby"
    /\ \A i \in 1 .. Len(requests) : requests[i].method = "create" => creator /\ phase = "lobby"
    /\ \A i \in 1 .. Len(wire) : IsResponse(wire[i]) /\ wire[i].error = "unknown_player"
         => creator /\ phase = "lobby"
    /\ \A r \in responses : r.error = "unknown_player" => creator /\ phase = "lobby"
    /\ phase = "lobby" =>
         /\ moves = <<>> /\ events = <<>> /\ pc # "submit"
         /\ \A i \in 1 .. Len(wire) : IsResponse(wire[i])
         /\ \A i \in 1 .. Len(requests) : requests[i].method # "submit"

\* game_started comes before every your_turn.
StartedFirst ==
    ~started =>
        /\ \A i \in 1 .. Len(events) : IsTurn(events[i]) =>
               \E j \in 1 .. i - 1 : IsStarted(events[j])
        /\ \A i \in 1 .. Len(wire) : IsTurn(wire[i]) =>
               \/ HasStarted(events)
               \/ \E j \in 1 .. i - 1 : IsStarted(wire[j])
        /\ phase # "lobby" => HasStarted(events) \/ HasStarted(wire)

\* Every your_turn is about a position in which the client's seat acts.
TurnsAreMine ==
    /\ \A i \in 1 .. Len(events) : IsTurn(events[i]) => Mover(events[i].moves) = seat
    /\ \A i \in 1 .. Len(wire) : IsTurn(wire[i]) => Mover(wire[i].moves) = seat

\* The move is chosen and not yet sent.
Chosen == pc = "submit" /\ call = NoCall

\* While the match is played there is at most one your_turn or answer to one,
\* the server waits for it, and it is about the position the server is in.
OneToken ==
    phase = "playing" =>
        /\ Len(moves) < Len(Turns)
        /\ \A i, j \in 1 .. Len(events) : IsTurn(events[i]) /\ IsTurn(events[j]) => i = j
        /\ \A i, j \in 1 .. Len(wire) : IsTurn(wire[i]) /\ IsTurn(wire[j]) => i = j
        /\ ~(HasTurn(events) /\ HasTurn(wire))
        /\ HasTurn(events) \/ HasTurn(wire) =>
               /\ Mover(moves) = seat /\ ~Chosen
               /\ \A i \in 1 .. Len(requests) : requests[i].method # "submit"
        /\ \A i \in 1 .. Len(events) : IsTurn(events[i]) => events[i].moves = moves
        /\ \A i \in 1 .. Len(wire) : IsTurn(wire[i]) => wire[i].moves = moves
        /\ Chosen => Mover(moves) = seat /\ synced = Append(moves, move)
        /\ \A i \in 1 .. Len(requests) : requests[i].method = "submit" =>
               Mover(moves) = seat /\ requests[i].history = Append(moves, requests[i].action)

\* The tree stands where MatchGame believes the game is, or there is none.
TreeIsSynced == tree \in {None, synced}

ClientInv == /\ Types /\ OneCall /\ OneMatch /\ StartedFirst /\ TurnsAreMine /\ OneToken
             /\ TreeIsSynced /\ pc # "confused"

-----------------------------------------------------------------------------
(* Sequences and messages. *)

\* What the server says when it has something to say, and when.
LEMMA TellsFacts ==
    ASSUME GameIsGiven, Types, NEW h \in Seq(Values), Len(h) <= Len(Turns)
    PROVE  /\ Tells(h) \in Seq(EventMessage) /\ Len(Tells(h)) \in 0 .. 1
           /\ \A i \in 1 .. Len(Tells(h)) :
                 /\ IsTurn(Tells(h)[i]) =>
                       Tells(h)[i].moves = h /\ Mover(h) = seat /\ Len(h) < Len(Turns)
                 /\ ~IsStarted(Tells(h)[i])
  <1> USE DEF IsTurn, IsStarted
  <1>0. Len(h) \in Nat /\ Len(Turns) \in Nat
    BY LenProperties DEF GameIsGiven
  <1>1. CASE Len(h) = Len(Turns)
    <2> DEFINE m == Event("finished")
    <2>1. Tells(h) = <<m>>
      BY <1>1, Zenon DEF Tells
    <2>2. m \in EventMessage /\ m.kind = "finished"
      <3>1. <<>> \in Seq(Values)
        BY EmptySeq
      <3> QED
        BY <3>1 DEF Event, EventMessage
    <2> HIDE DEF m
    <2> QED
      BY <2>1, <2>2
  <1>2. CASE Len(h) # Len(Turns) /\ Mover(h) = seat
    <2> DEFINE m == [kind |-> "turn", moves |-> h]
    <2>1. Tells(h) = <<m>>
      BY <1>2, Zenon DEF Tells
    <2>2. m \in EventMessage /\ m.kind = "turn" /\ m.moves = h
      BY DEF EventMessage
    <2> HIDE DEF m
    <2> QED
      BY <1>0, <1>2, <2>1, <2>2
  <1>3. CASE Len(h) # Len(Turns) /\ Mover(h) # seat
    <2>1. Tells(h) = <<>>
      BY <1>3, Zenon DEF Tells
    <2> QED
      BY <2>1, EmptySeq
  <1> QED
    BY <1>1, <1>2, <1>3

\* The wire after the server has sent something.
LEMMA Sent ==
    ASSUME Types, NEW new \in Seq(Message)
    PROVE  LET w == wire \o new
           IN  /\ w \in Seq(Message) /\ Len(wire) \in Nat /\ Len(new) \in Nat
               /\ Len(w) = Len(wire) + Len(new)
               /\ \A i \in 1 .. Len(wire) : w[i] = wire[i]
               /\ \A i \in 1 .. Len(new) : w[Len(wire) + i] = new[i]
               /\ \A i \in 1 .. Len(w) : i \in 1 .. Len(wire) \/ i - Len(wire) \in 1 .. Len(new)
  <1>1. wire \in Seq(Message)
    BY DEF Types
  <1>2. Len(wire) \in Nat /\ Len(new) \in Nat
    BY <1>1, LenProperties
  <1>3. /\ wire \o new \in Seq(Message) /\ Len(wire \o new) = Len(wire) + Len(new)
        /\ \A i \in 1 .. Len(wire) + Len(new) : (wire \o new)[i] =
               IF i <= Len(wire) THEN wire[i] ELSE new[i - Len(wire)]
    BY <1>1, ConcatProperties
  <1> QED
    BY <1>2, <1>3

\* The invariant holds of a client that has not connected yet.
LEMMA ClientInit == GameIsGiven /\ Init => ClientInv
  <1> SUFFICES ASSUME GameIsGiven, Init PROVE ClientInv
    OBVIOUS
  <1>1. \A S : <<>> \in Seq(S) /\ Len(<<>>) = 0
    BY EmptySeq
  <1>2. None \in Seq(Values)
    BY DEF None, Values
  <1>3. Types
    <2>1. /\ synced \in Seq(Values) /\ tree \in Seq(Values) /\ moves \in Seq(Values)
          /\ events \in Seq(EventMessage) /\ wire \in Seq(Message) /\ requests \in Seq(Request)
      BY <1>1, <1>2 DEF Init
    <2>2. seat \in Seats /\ creator \in BOOLEAN /\ started \in BOOLEAN
      BY DEF Init
    <2>3. move \in Values /\ call \in Nat /\ next_id \in Nat \ {0}
      BY DEF Init, Values, NoCall
    <2>4. responses \subseteq [id : Nat, error : {"", "unknown_player", "rejected"}]
      BY DEF Init
    <2> QED
      BY <2>1, <2>2, <2>3, <2>4 DEF Init, Types
  <1>4. OneCall /\ OneMatch
    BY <1>1 DEF Init, OneCall, OneMatch, HasResponse, NoCall, Ended
  <1>5. StartedFirst /\ TurnsAreMine
    BY <1>1 DEF Init, StartedFirst, TurnsAreMine
  <1>6. OneToken /\ TreeIsSynced /\ pc # "confused"
    BY DEF Init, OneToken, TreeIsSynced
  <1> QED
    BY <1>3, <1>4, <1>5, <1>6 DEF ClientInv

\* A step of the server that adds new to the wire keeps the invariant when
\* what it says is true, it says it once, and it answers one request at most.
LEMMA ServerStep ==
    ASSUME ClientInv, NEW new \in Seq(Message), wire' = wire \o new,
           UNCHANGED <<seat, creator, pc, call, next_id, game, shared>>,
           \/ requests' = requests /\ ~HasResponse(new)
           \/ requests # <<>> /\ requests' = <<>>,
           moves' \in Seq(Values), phase' \in {"lobby", "playing", "over"},
           \A i, j \in 1 .. Len(new) : IsResponse(new[i]) /\ IsResponse(new[j]) => i = j,
           \A i, j \in 1 .. Len(new) : IsTurn(new[i]) /\ IsTurn(new[j]) => i = j,
           \A i \in 1 .. Len(new) : IsTurn(new[i]) =>
                  new[i].moves = moves' /\ Mover(moves') = seat,
           \A i \in 1 .. Len(new) : IsResponse(new[i]) /\ new[i].error = "unknown_player"
                  => creator /\ phase' = "lobby",
           phase' = "lobby" => /\ phase = "lobby" /\ moves' = moves
                               /\ \A i \in 1 .. Len(new) : IsResponse(new[i]),
           phase = "lobby" /\ phase' # "lobby" =>
                  /\ new # <<>> /\ IsStarted(new[1])
                  /\ ~creator \/ (requests # <<>> /\ requests' = <<>>
                                    /\ requests[1].method = "create"),
           phase' = "playing" =>
                  /\ Len(moves') < Len(Turns)
                  /\ \/ phase = "playing" /\ moves' = moves /\ ~HasTurn(new)
                     \/ /\ ~HasTurn(events) /\ ~HasTurn(wire) /\ ~Chosen
                        /\ \A i \in 1 .. Len(requests') : requests'[i].method # "submit"
    PROVE  ClientInv'
  <1>w. /\ wire' \in Seq(Message) /\ Len(wire) \in Nat /\ Len(new) \in Nat
        /\ Len(wire') = Len(wire) + Len(new)
        /\ \A i \in 1 .. Len(wire) : wire'[i] = wire[i]
        /\ \A i \in 1 .. Len(new) : wire'[Len(wire) + i] = new[i]
        /\ \A i \in 1 .. Len(wire') : i \in 1 .. Len(wire) \/ i - Len(wire) \in 1 .. Len(new)
    BY Sent DEF ClientInv
  <1>l. \A i \in 1 .. Len(wire') :
            \/ i \in 1 .. Len(wire) /\ wire'[i] = wire[i]
            \/ \E k \in 1 .. Len(new) : i = Len(wire) + k /\ wire'[i] = new[k]
    BY <1>w
  <1>u. UNCHANGED <<seat, creator, pc, call, next_id, started, synced, tree, move,
                    responses, events, closed>>
    BY DEF game, shared
  <1>e. Len(<<>>) = 0 /\ <<>> \in Seq(Request)
    BY EmptySeq
  <1>n. new # <<>> => 1 \in 1 .. Len(new)
    BY <1>w, EmptySeq
  <1>1. Types'
    BY <1>w, <1>u, <1>e DEF ClientInv, Types
  <1>2. OneCall'
    <2>0. HasResponse(new) => /\ requests # <<>> /\ requests' = <<>> /\ responses = {}
                              /\ ~HasResponse(wire) /\ call # NoCall
      BY DEF ClientInv, OneCall
    <2>1. HasResponse(wire') => HasResponse(wire) \/ HasResponse(new)
      BY <1>l DEF HasResponse
    <2>2. ASSUME NEW i \in 1 .. Len(wire'), NEW j \in 1 .. Len(wire'),
                 IsResponse(wire'[i]), IsResponse(wire'[j])
          PROVE  i = j
      <3>1. CASE HasResponse(new)
        <4>1. PICK k \in 1 .. Len(new) : i = Len(wire) + k /\ wire'[i] = new[k]
          BY <1>l, <2>0, <2>2, <3>1 DEF HasResponse
        <4>2. PICK l \in 1 .. Len(new) : j = Len(wire) + l /\ wire'[j] = new[l]
          BY <1>l, <2>0, <2>2, <3>1 DEF HasResponse
        <4>3. k = l
          BY <2>2, <4>1, <4>2
        <4> QED
          BY <4>1, <4>2, <4>3
      <3>2. CASE ~HasResponse(new)
        <4>1. /\ i \in 1 .. Len(wire) /\ wire'[i] = wire[i]
              /\ j \in 1 .. Len(wire) /\ wire'[j] = wire[j]
          BY <1>l, <2>2, <3>2 DEF HasResponse
        <4> QED
          BY <2>2, <4>1 DEF ClientInv, OneCall
      <3> QED
        BY <3>1, <3>2
    <2>3. requests' = requests \/ requests' = <<>>
      OBVIOUS
    <2>4. OneCall
      BY DEF ClientInv
    <2>5. Len(requests') <= 1 /\ (requests' # <<>> => requests' = requests)
      BY <1>e, <2>3, <2>4 DEF OneCall
    <2>6. (call = NoCall => requests' = <<>> /\ ~HasResponse(wire'))
      BY <2>0, <2>1, <2>3, <2>4 DEF OneCall
    <2>7. requests' # <<>> \/ responses # {} => ~HasResponse(wire')
      BY <2>0, <2>1, <2>4, <2>5 DEF OneCall
    <2>8. Ended' <=> Ended
      BY <1>u DEF Ended
    <2>9. requests' # <<>> => responses = {} /\ (~Ended => requests'[1].method = pc)
      BY <2>4, <2>5 DEF OneCall
    <2>10. \A i, j \in 1 .. Len(wire') : IsResponse(wire'[i]) /\ IsResponse(wire'[j]) => i = j
      BY <2>2
    <2>11. (pc \in {"loop", "polled", "sleep"} => call = NoCall) /\ (\A r, q \in responses : r = q)
             /\ (call = NoCall => responses = {})
      BY <2>4 DEF OneCall
    <2>12. NoCall' = NoCall /\ (HasResponse(wire)' <=> HasResponse(wire'))
      BY DEF NoCall, HasResponse, IsResponse
    <2> QED
      BY <1>u, <2>5, <2>6, <2>7, <2>8, <2>9, <2>10, <2>11, <2>12 DEF OneCall, IsResponse
  <1>3. OneMatch'
    <2>1. \A i \in 1 .. Len(wire') : IsResponse(wire'[i]) /\ wire'[i].error = "unknown_player"
             => creator /\ phase' = "lobby"
      BY <1>l, <1>u DEF ClientInv, OneMatch, OneCall, HasResponse
    <2>2. phase' = "lobby" => \A i \in 1 .. Len(wire') : IsResponse(wire'[i])
      BY <1>l DEF ClientInv, OneMatch
    <2>3. \A i \in 1 .. Len(requests') :
             requests'[i].method = "create" => creator /\ phase' = "lobby"
      BY <1>e DEF ClientInv, OneMatch
    <2>4. \A r \in responses : r.error = "unknown_player" => creator /\ phase' = "lobby"
      BY DEF ClientInv, OneMatch, OneCall
    <2>5. ASSUME creator, phase = "lobby", phase' # "lobby"
          PROVE  pc \in {"create", "returned", "failed", "confused"} /\ call # NoCall
      BY <2>5 DEF ClientInv, OneCall, Ended
    <2>6. creator /\ (pc \in {"handshake", "register", "sleep"} \/ (pc = "create" /\ call = NoCall))
             => phase' = "lobby"
      BY <2>5 DEF ClientInv, OneMatch
    <2>7. phase' = "lobby" =>
             /\ moves' = <<>> /\ events = <<>> /\ pc # "submit"
             /\ \A i \in 1 .. Len(requests') : requests'[i].method # "submit"
      BY <1>e DEF ClientInv, OneMatch
    <2> QED
      BY <1>u, <2>1, <2>2, <2>3, <2>4, <2>6, <2>7 DEF ClientInv, OneMatch
  <1>4. StartedFirst'
    <2> SUFFICES ASSUME ~started
                 PROVE  /\ \A i \in 1 .. Len(wire') : IsTurn(wire'[i]) =>
                              HasStarted(events) \/ \E j \in 1 .. i - 1 : IsStarted(wire'[j])
                        /\ phase' # "lobby" => HasStarted(events) \/ HasStarted(wire')
      BY <1>u DEF ClientInv, StartedFirst
    <2>1. ASSUME NEW j \in 1 .. Len(wire), IsStarted(wire[j])
          PROVE  j \in 1 .. Len(wire') /\ IsStarted(wire'[j])
      BY <1>w, <2>1
    <2>2. ASSUME NEW i \in 1 .. Len(wire), IsTurn(wire[i])
          PROVE  HasStarted(events) \/ \E j \in 1 .. i - 1 : IsStarted(wire'[j])
      BY <1>w, <2>1, <2>2 DEF ClientInv, StartedFirst
    <2>3. CASE phase # "lobby"
      <3>1. HasStarted(events) \/ \E j \in 1 .. Len(wire) : IsStarted(wire'[j])
        BY <2>1, <2>3 DEF ClientInv, StartedFirst, HasStarted
      <3>2. \A k \in 1 .. Len(new) : 1 .. Len(wire) \subseteq 1 .. (Len(wire) + k) - 1
        BY <1>w
      <3>3. HasStarted(events) \/ HasStarted(wire')
        BY <1>w, <3>1 DEF HasStarted
      <3> QED
        BY <1>l, <2>2, <3>1, <3>2, <3>3
    <2>4. CASE phase = "lobby" /\ phase' # "lobby"
      <3>1. 1 \in 1 .. Len(new) /\ IsStarted(new[1])
        BY <1>n, <2>4
      <3>2. Len(wire) + 1 \in 1 .. Len(wire') /\ IsStarted(wire'[Len(wire) + 1])
        BY <1>w, <3>1
      <3>3. \A k \in 1 .. Len(new) : IsTurn(new[k]) => Len(wire) + 1 \in 1 .. (Len(wire) + k) - 1
        <4>1. ~IsTurn(new[1])
          BY <3>1 DEF IsTurn, IsStarted
        <4> QED
          BY <1>w, <4>1
      <3>4. HasStarted(wire')
        BY <3>2 DEF HasStarted
      <3> QED
        BY <1>l, <2>2, <3>2, <3>3, <3>4
    <2>5. CASE phase' = "lobby"
      <3>1. \A i \in 1 .. Len(wire') : IsResponse(wire'[i])
        BY <1>l, <2>5 DEF ClientInv, OneMatch
      <3> QED
        BY <2>5, <3>1 DEF IsResponse, IsTurn
    <2> QED
      BY <2>3, <2>4, <2>5
  <1>5. TurnsAreMine'
    <2>0. TurnsAreMine
      BY DEF ClientInv
    <2>1. ASSUME NEW i \in 1 .. Len(wire'), IsTurn(wire'[i])
          PROVE  Mover(wire'[i].moves) = seat
      <3>1. CASE i \in 1 .. Len(wire) /\ wire'[i] = wire[i]
        BY <2>0, <2>1, <3>1 DEF TurnsAreMine
      <3>2. CASE \E k \in 1 .. Len(new) : i = Len(wire) + k /\ wire'[i] = new[k]
        BY <2>1, <3>2
      <3> QED
        BY <1>l, <3>1, <3>2
    <2> QED
      BY <1>u, <2>1 DEF ClientInv, TurnsAreMine, Mover
  <1>6. OneToken'
    <2> SUFFICES ASSUME phase' = "playing" PROVE OneToken'
      BY DEF OneToken
    <2>0. Mover(moves') = Mover(moves)' /\ (Chosen' <=> Chosen)
      BY <1>u DEF Mover, Chosen
    <2>1. CASE phase = "playing" /\ moves' = moves /\ ~HasTurn(new)
      <3>1. \A i \in 1 .. Len(wire') : IsTurn(wire'[i]) =>
                i \in 1 .. Len(wire) /\ wire'[i] = wire[i]
        BY <1>l, <2>1 DEF HasTurn
      <3>2. HasTurn(wire') => HasTurn(wire)
        BY <3>1 DEF HasTurn
      <3>3. \A i \in 1 .. Len(requests') : i \in 1 .. Len(requests) /\ requests'[i] = requests[i]
        BY <1>e
      <3> QED
        BY <1>u, <2>0, <2>1, <3>1, <3>2, <3>3 DEF ClientInv, OneToken
    <2>2. CASE /\ ~HasTurn(events) /\ ~HasTurn(wire) /\ ~Chosen
               /\ \A i \in 1 .. Len(requests') : requests'[i].method # "submit"
      <3>1. \A i \in 1 .. Len(wire') : IsTurn(wire'[i]) =>
                \E k \in 1 .. Len(new) : i = Len(wire) + k /\ wire'[i] = new[k] /\ IsTurn(new[k])
        BY <1>l, <2>2 DEF HasTurn
      <3>2. \A i \in 1 .. Len(wire') : IsTurn(wire'[i]) =>
                wire'[i].moves = moves' /\ Mover(moves') = seat
        BY <3>1
      <3>3. ASSUME NEW i \in 1 .. Len(wire'), NEW j \in 1 .. Len(wire'),
                   IsTurn(wire'[i]), IsTurn(wire'[j])
            PROVE  i = j
        <4>1. PICK k \in 1 .. Len(new) : i = Len(wire) + k /\ IsTurn(new[k])
          BY <3>1, <3>3
        <4>2. PICK l \in 1 .. Len(new) : j = Len(wire) + l /\ IsTurn(new[l])
          BY <3>1, <3>3
        <4> QED
          BY <4>1, <4>2
      <3>4. \A i \in 1 .. Len(events) : ~IsTurn(events[i])
        BY <2>2 DEF HasTurn
      <3>5. HasTurn(wire') => Mover(moves') = seat
        BY <3>2 DEF HasTurn
      <3> QED
        BY <1>u, <2>0, <2>2, <3>2, <3>3, <3>4, <3>5 DEF OneToken, HasTurn
    <2> QED
      BY <2>1, <2>2
  <1>7. TreeIsSynced' /\ pc' # "confused"
    BY <1>u DEF ClientInv, TreeIsSynced
  <1> QED
    BY <1>1, <1>2, <1>3, <1>4, <1>5, <1>6, <1>7 DEF ClientInv

-----------------------------------------------------------------------------
(* The steps of the client. *)

\* Taking the first element of a sequence.
LEMMA Taken ==
    ASSUME NEW S, NEW s \in Seq(S), s # <<>>
    PROVE  /\ Head(s) \in S /\ Head(s) = s[1] /\ Len(s) \in Nat /\ 1 \in 1 .. Len(s)
           /\ Tail(s) \in Seq(S) /\ Len(Tail(s)) = Len(s) - 1
           /\ \A i \in 1 .. Len(Tail(s)) : i + 1 \in 1 .. Len(s) /\ Tail(s)[i] = s[i + 1]
  BY HeadTailProperties, EmptySeq, LenProperties

\* The connection's end and the opponent's arrival are no part of the invariant.
LEMMA Untouched ==
    ASSUME ClientInv,
           UNCHANGED <<seat, creator, pc, call, next_id, started, synced, tree, move,
                       responses, events, requests, wire, phase, moves>>
    PROVE  ClientInv'
  <1>1. Types'
    BY DEF ClientInv, Types
  <1>2. OneCall' /\ OneMatch'
    BY DEF ClientInv, OneCall, OneMatch, HasResponse, IsResponse, NoCall, Ended
  <1>3. StartedFirst' /\ TurnsAreMine' /\ TreeIsSynced' /\ pc' # "confused"
    BY DEF ClientInv, StartedFirst, TurnsAreMine, TreeIsSynced, HasStarted, IsStarted, IsTurn,
           Mover, None
  <1>4. OneToken'
    BY DEF ClientInv, OneToken, HasTurn, IsTurn, Mover, Chosen, NoCall
  <1> QED
    BY <1>1, <1>2, <1>3, <1>4 DEF ClientInv

\* A step of the main thread that only ends a call or goes elsewhere.
LEMMA MainGoes ==
    ASSUME ClientInv,
           UNCHANGED <<seat, creator, next_id, started, synced, tree, move,
                       events, requests, wire, phase, moves>>,
           pc' \in {"handshake", "register", "create", "sleep", "loop", "polled",
                    "returned", "failed"},
           responses' \subseteq responses, call' \in {call, NoCall},
           pc' \in {"loop", "polled", "sleep"} => call' = NoCall,
           call' = NoCall => requests = <<>> /\ responses' = {} /\ ~HasResponse(wire),
           requests # <<>> => pc' \in {pc, "returned", "failed"},
           pc' \in {"create", "sleep"} => creator,
           creator /\ (pc' \in {"handshake", "register", "sleep"}
                         \/ (pc' = "create" /\ call' = NoCall)) => phase = "lobby"
    PROVE  ClientInv'
  <1>0. Ended => pc \in {"returned", "failed"}
    BY DEF ClientInv, Ended
  <1>1. Types'
    <2>1. call' \in Nat
      <3>1. call \in Nat
        BY DEF ClientInv, Types
      <3>2. NoCall \in Nat
        BY DEF NoCall
      <3> QED
        BY <3>1, <3>2, Zenon
    <2>2. responses' \subseteq [id : Nat, error : {"", "unknown_player", "rejected"}]
      BY DEF ClientInv, Types
    <2>3. pc' \in {"handshake", "register", "create", "sleep", "loop", "polled", "submit",
                   "returned", "failed", "confused"}
      OBVIOUS
    <2> QED
      BY <2>1, <2>2, <2>3 DEF ClientInv, Types
  <1>2. OneCall'
    <2>1. requests # <<>> /\ ~Ended' => pc' = pc /\ ~Ended
      BY DEF Ended
    <2>2. requests # <<>> => requests[1].method = pc' \/ Ended'
      BY <1>0, <2>1 DEF ClientInv, OneCall
    <2> QED
      BY <2>2 DEF ClientInv, OneCall, HasResponse, IsResponse, NoCall
  <1>3. OneMatch'
    BY DEF ClientInv, OneMatch, IsResponse, NoCall
  <1>4. StartedFirst' /\ TurnsAreMine' /\ TreeIsSynced' /\ pc' # "confused"
    BY DEF ClientInv, StartedFirst, TurnsAreMine, TreeIsSynced, HasStarted, IsStarted, IsTurn,
           Mover, None
  <1>5. OneToken'
    <2>1. ~Chosen'
      BY DEF Chosen
    <2> QED
      BY <2>1 DEF ClientInv, OneToken, HasTurn, IsTurn, Mover
  <1> QED
    BY <1>1, <1>2, <1>3, <1>4, <1>5 DEF ClientInv

\* Steps that end a call, a retry or a wait keep it.
LEMMA CallEnds ==
    ASSUME ClientInv, SendFails \/ CallReturns \/ Retry \/ WaitEnds \/ Poll \/ CallFails
    PROVE  ClientInv'
  <1>u. UNCHANGED <<seat, creator, next_id, started, synced, tree, move,
                    events, requests, wire, phase, moves>>
    BY DEF SendFails, CallReturns, Retry, WaitEnds, Poll, CallFails, game, shared, server
  <1>1. CASE SendFails
    BY <1>u, <1>1, MainGoes DEF SendFails, ClientInv, OneCall, NoCall
  <1>2. CASE CallReturns
    <2>1. PICK r \in responses :
             /\ r.id = call /\ responses' = responses \ {r}
             /\ pc' = CASE r.error = "" -> AfterCall
                        [] r.error = "unknown_player" /\ TimeIsLeft -> "sleep"
                        [] OTHER -> "failed"
      BY <1>2 DEF CallReturns
    <2>2. responses' = {} /\ requests = <<>> /\ ~HasResponse(wire)
      BY <2>1 DEF ClientInv, OneCall
    <2>3. call' = NoCall /\ pc \in {"handshake", "register", "create", "submit"}
      BY <1>2 DEF CallReturns, ClientInv, OneCall, Types, Ended
    <2>4. \/ pc = "handshake" /\ pc' = "register"
          \/ pc = "register" /\ creator /\ pc' = "create"
          \/ pc' = "loop" \/ pc' = "failed"
          \/ pc' = "sleep" /\ r.error = "unknown_player"
      BY <2>1 DEF AfterCall
    <2>5. r.error = "unknown_player" => creator /\ phase = "lobby"
      BY DEF ClientInv, OneMatch
    <2>6. creator /\ pc \in {"handshake", "register"} => phase = "lobby"
      BY DEF ClientInv, OneMatch
    <2> QED
      BY <1>u, <2>2, <2>3, <2>4, <2>5, <2>6, MainGoes
  <1>3. CASE Retry
    <2>1. pc = "sleep" /\ pc' = "create" /\ UNCHANGED <<call, responses>>
      BY <1>3 DEF Retry, shared
    <2>2. call = NoCall /\ requests = <<>> /\ responses = {} /\ ~HasResponse(wire)
      BY <2>1 DEF ClientInv, OneCall
    <2>3. creator /\ phase = "lobby"
      BY <2>1 DEF ClientInv, OneMatch
    <2> QED
      BY <1>u, <2>1, <2>2, <2>3, MainGoes
  <1>4. CASE WaitEnds \/ Poll
    <2>1. /\ pc \in {"loop", "polled"} /\ pc' \in {"polled", "failed", "loop"}
          /\ UNCHANGED <<call, responses>>
      BY <1>4 DEF WaitEnds, Poll, shared
    <2>2. call = NoCall /\ requests = <<>> /\ responses = {} /\ ~HasResponse(wire)
      BY <2>1 DEF ClientInv, OneCall
    <2> QED
      BY <1>u, <2>1, <2>2, MainGoes
  <1>5. CASE CallFails
    <2>1. pc' = "failed" /\ UNCHANGED <<call, responses>> /\ call # NoCall
      BY <1>5 DEF CallFails, shared
    <2> QED
      BY <1>u, <2>1, MainGoes
  <1> QED
    BY <1>1, <1>2, <1>3, <1>4, <1>5

\* So does a request that is sent.
LEMMA RequestIsSent ==
    ASSUME ClientInv, SendLine
    PROVE  ClientInv'
  <1> DEFINE r == [id |-> next_id, method |-> pc, action |-> move, history |-> synced]
  <1>u. UNCHANGED <<seat, creator, pc, started, synced, tree, move,
                    responses, events, wire, phase, moves>>
    BY DEF SendLine, game, shared, server
  <1>1. /\ requests = <<>> /\ responses = {} /\ ~HasResponse(wire) /\ call = NoCall
        /\ pc \in {"handshake", "register", "create", "submit"}
    BY DEF SendLine, ClientInv, OneCall, Calling
  <1>2. r \in Request
    BY <1>1 DEF ClientInv, Types, Request
  <1>3. /\ r.method = pc /\ r.action = move /\ r.history = synced
    OBVIOUS
  <1>4. requests' = <<>> \/ requests' = <<r>>
    <2>1. requests' = requests \/ requests' = Append(requests, r)
      BY DEF SendLine
    <2> QED
      BY <1>1, <2>1
  <1>5. call' = next_id /\ next_id' = next_id + 1
    BY DEF SendLine
  <1>6. call' \in Nat /\ call' # NoCall /\ next_id' \in Nat \ {0}
    <2>1. next_id \in Nat \ {0}
      BY DEF ClientInv, Types
    <2> QED
      BY <1>5, <2>1 DEF NoCall
  <1> HIDE DEF r
  <1>7. /\ requests' \in Seq(Request) /\ Len(requests') \in 0 .. 1
        /\ \A i \in 1 .. Len(requests') : requests'[i] = r
        /\ requests' # <<>> => requests'[1] = r
    <2>1. CASE requests' = <<>>
      BY <2>1, EmptySeq
    <2>2. CASE requests' = <<r>>
      BY <1>2, <2>2
    <2> QED
      BY <1>4, <2>1, <2>2
  <1>8. Types'
    BY <1>u, <1>6, <1>7 DEF ClientInv, Types
  <1>9. OneCall'
    <2>1. Len(requests') <= 1 /\ (requests' # <<>> => requests'[1].method = pc)
      BY <1>3, <1>7
    <2>2. pc \notin {"loop", "polled", "sleep"} /\ ~HasResponse(wire')
      BY <1>1, <1>u
    <2>3. \A i, j \in 1 .. Len(wire') : IsResponse(wire'[i]) /\ IsResponse(wire'[j]) => i = j
      BY <1>u DEF ClientInv, OneCall
    <2> QED
      BY <1>u, <1>1, <1>6, <2>1, <2>2, <2>3 DEF OneCall, NoCall, IsResponse
  <1>10. OneMatch'
    <2>1. pc = "create" => creator /\ phase = "lobby"
      BY <1>1 DEF ClientInv, OneMatch
    <2>2. \A i \in 1 .. Len(requests') : requests'[i].method = "create" => creator /\ phase = "lobby"
      BY <1>3, <1>7, <2>1
    <2>3. phase = "lobby" => \A i \in 1 .. Len(requests') : requests'[i].method # "submit"
      BY <1>3, <1>7 DEF ClientInv, OneMatch
    <2> QED
      BY <1>u, <1>1, <1>6, <2>2, <2>3 DEF ClientInv, OneMatch, IsResponse, NoCall
  <1>11. StartedFirst' /\ TurnsAreMine' /\ TreeIsSynced' /\ pc' # "confused"
    BY <1>u DEF ClientInv, StartedFirst, TurnsAreMine, TreeIsSynced, HasStarted, IsStarted, IsTurn,
           Mover, None
  <1>12. OneToken'
    <2> SUFFICES ASSUME phase = "playing" PROVE OneToken'
      BY <1>u DEF OneToken
    <2>1. OneToken /\ (pc = "submit" <=> Chosen)
      BY <1>1 DEF ClientInv, Chosen
    <2>2. ~Chosen'
      BY <1>6 DEF Chosen, NoCall
    <2>3. \A i \in 1 .. Len(requests') : requests'[i].method = "submit" => Chosen
      BY <1>3, <1>7, <2>1
    <2>4. \A i \in 1 .. Len(requests') : requests'[i].method = "submit" =>
              Mover(moves) = seat /\ requests'[i].history = Append(moves, requests'[i].action)
      BY <1>3, <1>7, <2>1, <2>3 DEF OneToken
    <2>5. HasTurn(events) \/ HasTurn(wire) =>
              \A i \in 1 .. Len(requests') : requests'[i].method # "submit"
      BY <2>1, <2>3 DEF OneToken
    <2> QED
      BY <1>u, <2>1, <2>2, <2>4, <2>5 DEF OneToken, HasTurn, IsTurn, Mover
  <1> QED
    BY <1>8, <1>9, <1>10, <1>11, <1>12 DEF ClientInv

\* So does a message the reader thread takes from the socket.
LEMMA MessageIsRead ==
    ASSUME ClientInv, ReaderLoop
    PROVE  ClientInv'
  <1> DEFINE m == Head(wire)
  <1>u. UNCHANGED <<seat, creator, pc, call, next_id, started, synced, tree, move,
                    requests, phase, moves>>
    BY DEF ReaderLoop, game, server
  <1>0. Types /\ OneCall /\ OneMatch /\ StartedFirst /\ TurnsAreMine /\ OneToken
    BY DEF ClientInv
  <1>w. /\ m \in Message /\ m = wire[1] /\ Len(wire) \in Nat /\ 1 \in 1 .. Len(wire)
        /\ wire' \in Seq(Message) /\ Len(wire') = Len(wire) - 1
        /\ \A i \in 1 .. Len(wire') : i + 1 \in 1 .. Len(wire) /\ wire'[i] = wire[i + 1]
    <2>1. wire \in Seq(Message) /\ wire # <<>> /\ wire' = Tail(wire)
      BY <1>0 DEF ReaderLoop, Types
    <2> QED
      BY <2>1, Taken
  <1>c. \/ /\ IsResponse(m) /\ events' = events
           /\ responses' = responses \cup {[id |-> m.id, error |-> m.error]}
        \/ ~IsResponse(m) /\ responses' = responses /\ events' = Append(events, m)
    BY DEF ReaderLoop, IsResponse
  <1> HIDE DEF m
  <1>r. HasResponse(wire') => HasResponse(wire)
    BY <1>w DEF HasResponse
  <1>m. IsResponse(m) => HasResponse(wire) /\ ~HasResponse(wire')
    <2> SUFFICES ASSUME IsResponse(m) PROVE HasResponse(wire) /\ ~HasResponse(wire')
      OBVIOUS
    <2>1. HasResponse(wire)
      BY <1>w DEF HasResponse
    <2>2. ASSUME NEW i \in 1 .. Len(wire'), IsResponse(wire'[i]) PROVE FALSE
      <3>1. i + 1 = 1
        BY <1>0, <1>w, <2>2 DEF OneCall
      <3> QED
        BY <1>w, <3>1
    <2> QED
      BY <2>1, <2>2 DEF HasResponse
  <1>x. \A i, j \in 1 .. Len(wire') : IsResponse(wire'[i]) /\ IsResponse(wire'[j]) => i = j
    <2> SUFFICES ASSUME NEW i \in 1 .. Len(wire'), NEW j \in 1 .. Len(wire'),
                        IsResponse(wire'[i]), IsResponse(wire'[j])
                 PROVE  i = j
      OBVIOUS
    <2>1. i + 1 = j + 1
      BY <1>0, <1>w DEF OneCall
    <2> QED
      BY <1>w, <2>1
  <1>f. NoCall' = NoCall /\ (Ended' <=> Ended) /\ (HasResponse(wire)' <=> HasResponse(wire'))
          /\ (Chosen' <=> Chosen)
    BY <1>u DEF NoCall, Ended, HasResponse, IsResponse, Chosen
  <1>1. CASE IsResponse(m)
    <2> DEFINE q == [id |-> m.id, error |-> m.error]
    <2>0. call # NoCall /\ requests = <<>> /\ responses = {} /\ ~HasResponse(wire')
      BY <1>0, <1>1, <1>m DEF OneCall
    <2>1. m \in ResponseMessage
      BY <1>1, <1>w DEF Message, EventMessage, ResponseMessage, IsResponse
    <2>2. q \in [id : Nat, error : {"", "unknown_player", "rejected"}] /\ q.error = m.error
      BY <2>1 DEF ResponseMessage
    <2> HIDE DEF q
    <2>3. responses' = {q} /\ events' = events
      BY <1>c, <1>1, <2>0 DEF q
    <2>4. Types'
      <3>1. responses' \subseteq [id : Nat, error : {"", "unknown_player", "rejected"}]
        BY <2>2, <2>3
      <3> QED
        BY <1>0, <1>u, <1>w, <2>3, <3>1 DEF Types
    <2>5. OneCall'
      <3>1. pc \in {"loop", "polled", "sleep"} => call = NoCall
        BY <1>0 DEF OneCall
      <3>2. Len(requests) <= 1
        BY <1>0 DEF OneCall
      <3> QED
        BY <1>u, <1>f, <1>x, <2>0, <2>3, <3>1, <3>2 DEF OneCall, IsResponse
    <2>6. OneMatch'
      <3>1. m.error = "unknown_player" => creator /\ phase = "lobby"
        BY <1>0, <1>1, <1>w DEF OneMatch
      <3>2. \A r \in responses' : r.error = "unknown_player" => creator /\ phase = "lobby"
        BY <2>2, <2>3, <3>1
      <3>3. \A i \in 1 .. Len(wire') : IsResponse(wire'[i]) /\ wire'[i].error = "unknown_player"
               => creator /\ phase = "lobby"
        BY <1>0, <1>w DEF OneMatch
      <3>4. phase = "lobby" => \A i \in 1 .. Len(wire') : IsResponse(wire'[i])
        BY <1>0, <1>w DEF OneMatch
      <3> QED
        BY <1>0, <1>u, <1>f, <2>3, <3>2, <3>3, <3>4 DEF OneMatch, IsResponse
    <2>7. StartedFirst'
      <3> SUFFICES ASSUME ~started
                   PROVE  /\ \A i \in 1 .. Len(wire') : IsTurn(wire'[i]) =>
                                HasStarted(events) \/ \E j \in 1 .. i - 1 : IsStarted(wire'[j])
                          /\ phase # "lobby" => HasStarted(events) \/ HasStarted(wire')
        BY <1>0, <1>u, <2>3 DEF StartedFirst
      <3>1. ASSUME NEW k \in 1 .. Len(wire), IsStarted(wire[k])
            PROVE  k - 1 \in 1 .. Len(wire') /\ IsStarted(wire'[k - 1])
        <4>1. k # 1
          BY <1>1, <1>w, <3>1 DEF IsStarted, IsResponse
        <4>2. k - 1 \in 1 .. Len(wire') /\ (k - 1) + 1 = k
          BY <1>w, <4>1
        <4> QED
          BY <1>w, <3>1, <4>2
      <3>2. ASSUME NEW i \in 1 .. Len(wire'), IsTurn(wire'[i]), ~HasStarted(events)
            PROVE  \E j \in 1 .. i - 1 : IsStarted(wire'[j])
        <4>1. PICK k \in 1 .. (i + 1) - 1 : IsStarted(wire[k])
          BY <1>0, <1>w, <3>2 DEF StartedFirst
        <4>2. k \in 1 .. Len(wire) /\ k - 1 <= i - 1
          BY <1>w, <4>1
        <4>3. k - 1 \in 1 .. i - 1
          BY <1>w, <3>1, <4>1, <4>2
        <4> QED
          BY <3>1, <4>1, <4>2, <4>3
      <3>3. HasStarted(wire) => HasStarted(wire')
        BY <3>1 DEF HasStarted
      <3> QED
        BY <1>0, <3>2, <3>3 DEF StartedFirst
    <2>8. TurnsAreMine'
      BY <1>0, <1>u, <1>w, <2>3 DEF TurnsAreMine, IsTurn, Mover
    <2>9. OneToken'
      <3> SUFFICES ASSUME phase = "playing" PROVE OneToken'
        BY <1>u DEF OneToken
      <3>1. \A i, j \in 1 .. Len(wire') : IsTurn(wire'[i]) /\ IsTurn(wire'[j]) => i = j
        <4> SUFFICES ASSUME NEW i \in 1 .. Len(wire'), NEW j \in 1 .. Len(wire'),
                            IsTurn(wire'[i]), IsTurn(wire'[j])
                     PROVE  i = j
          OBVIOUS
        <4>1. i + 1 = j + 1
          BY <1>0, <1>w DEF OneToken
        <4> QED
          BY <1>w, <4>1
      <3>2. HasTurn(wire') => HasTurn(wire)
        BY <1>w DEF HasTurn
      <3>3. \A i \in 1 .. Len(wire') : IsTurn(wire'[i]) => wire'[i].moves = moves
        BY <1>0, <1>w DEF OneToken
      <3> QED
        BY <1>0, <1>u, <1>f, <2>3, <3>1, <3>2, <3>3 DEF OneToken, HasTurn, IsTurn, Mover
    <2> QED
      BY <1>u, <2>4, <2>5, <2>6, <2>7, <2>8, <2>9 DEF ClientInv, TreeIsSynced, None
  <1>2. CASE ~IsResponse(m)
    <2>1. m \in EventMessage /\ events \in Seq(EventMessage) /\ Len(events) \in Nat
      <3>1. m \in EventMessage
        BY <1>2, <1>w DEF Message, EventMessage, ResponseMessage, IsResponse
      <3>2. events \in Seq(EventMessage)
        BY <1>0 DEF Types
      <3> QED
        BY <3>1, <3>2, LenProperties
    <2>2. /\ events' \in Seq(EventMessage) /\ Len(events') = Len(events) + 1
          /\ \A i \in 1 .. Len(events) : events'[i] = events[i]
          /\ events'[Len(events) + 1] = m /\ responses' = responses
      BY <1>c, <1>2, <2>1, AppendProperties
    <2>3. \A i \in 1 .. Len(events') :
             \/ i \in 1 .. Len(events) /\ events'[i] = events[i]
             \/ i = Len(events) + 1 /\ events'[i] = wire[1]
      BY <1>w, <2>1, <2>2
    <2>4. phase # "lobby"
      BY <1>0, <1>2, <1>w DEF OneMatch
    <2>5. Types'
      BY <1>0, <1>u, <1>w, <2>2 DEF Types
    <2>6. OneCall'
      <3>1. ~HasResponse(wire) => ~HasResponse(wire')
        BY <1>r
      <3> QED
        BY <1>0, <1>u, <1>f, <1>x, <2>2, <3>1 DEF OneCall, IsResponse
    <2>7. OneMatch'
      <3>1. \A i \in 1 .. Len(wire') : IsResponse(wire'[i]) /\ wire'[i].error = "unknown_player"
               => creator /\ phase = "lobby"
        BY <1>0, <1>w DEF OneMatch
      <3> QED
        BY <1>0, <1>u, <1>f, <2>2, <2>4, <3>1 DEF OneMatch, IsResponse
    <2>8. StartedFirst'
      <3> SUFFICES ASSUME ~started
                   PROVE  /\ \A i \in 1 .. Len(events') : IsTurn(events'[i]) =>
                                \E j \in 1 .. i - 1 : IsStarted(events'[j])
                          /\ \A i \in 1 .. Len(wire') : IsTurn(wire'[i]) =>
                                HasStarted(events') \/ \E j \in 1 .. i - 1 : IsStarted(wire'[j])
                          /\ HasStarted(events') \/ HasStarted(wire')
        BY <1>u DEF StartedFirst, HasStarted, IsStarted, IsTurn
      <3>1. HasStarted(events) => HasStarted(events')
        BY <2>1, <2>2 DEF HasStarted
      <3>2. IsStarted(m) => HasStarted(events')
        <4>1. Len(events) + 1 \in 1 .. Len(events')
          BY <2>1, <2>2
        <4> QED
          BY <2>2, <4>1 DEF HasStarted
      <3>3. ASSUME NEW i \in 1 .. Len(events'), IsTurn(events'[i])
            PROVE  \E j \in 1 .. i - 1 : IsStarted(events'[j])
        <4>1. CASE i \in 1 .. Len(events) /\ events'[i] = events[i]
          <5>1. PICK j \in 1 .. i - 1 : IsStarted(events[j])
            BY <1>0, <3>3, <4>1 DEF StartedFirst
          <5>2. j \in 1 .. Len(events)
            BY <2>1, <4>1, <5>1
          <5> QED
            BY <2>2, <5>1, <5>2
        <4>2. CASE i = Len(events) + 1 /\ events'[i] = wire[1]
          <5>1. HasStarted(events) \/ \E j \in 1 .. 1 - 1 : IsStarted(wire[j])
            BY <1>0, <1>w, <3>3, <4>2 DEF StartedFirst
          <5>2. PICK j \in 1 .. Len(events) : IsStarted(events[j])
            BY <5>1 DEF HasStarted
          <5>3. j \in 1 .. i - 1
            BY <2>1, <4>2
          <5> QED
            BY <2>2, <5>2, <5>3
        <4> QED
          BY <2>3, <4>1, <4>2
      <3>4. ASSUME NEW k \in 1 .. Len(wire), IsStarted(wire[k]), ~HasStarted(events')
            PROVE  k - 1 \in 1 .. Len(wire') /\ IsStarted(wire'[k - 1])
        <4>1. k # 1
          BY <1>w, <3>2, <3>4
        <4>2. k - 1 \in 1 .. Len(wire') /\ (k - 1) + 1 = k
          BY <1>w, <4>1
        <4> QED
          BY <1>w, <3>4, <4>2
      <3>5. ASSUME NEW i \in 1 .. Len(wire'), IsTurn(wire'[i]), ~HasStarted(events')
            PROVE  \E j \in 1 .. i - 1 : IsStarted(wire'[j])
        <4>1. PICK k \in 1 .. (i + 1) - 1 : IsStarted(wire[k])
          BY <1>0, <1>w, <3>1, <3>5 DEF StartedFirst
        <4>2. k \in 1 .. Len(wire) /\ k - 1 <= i - 1
          BY <1>w, <4>1
        <4>3. k - 1 \in 1 .. i - 1
          BY <1>w, <3>4, <3>5, <4>1, <4>2
        <4> QED
          BY <3>4, <3>5, <4>1, <4>2, <4>3
      <3>6. HasStarted(events') \/ HasStarted(wire')
        BY <1>0, <2>4, <3>1, <3>4 DEF StartedFirst, HasStarted
      <3> QED
        BY <3>3, <3>5, <3>6
    <2>9. TurnsAreMine'
      <3>1. \A i \in 1 .. Len(events') : IsTurn(events'[i]) => Mover(events'[i].moves) = seat
        BY <1>0, <1>w, <2>3 DEF TurnsAreMine
      <3> QED
        BY <1>0, <1>u, <1>w, <3>1 DEF TurnsAreMine, IsTurn, Mover
    <2>10. OneToken'
      <3> SUFFICES ASSUME phase = "playing" PROVE OneToken'
        BY <1>u DEF OneToken
      <3>1. ASSUME NEW i \in 1 .. Len(wire'), NEW j \in 1 .. Len(wire'),
                   IsTurn(wire'[i]), IsTurn(wire'[j])
            PROVE  i = j
        <4>1. i + 1 = j + 1
          BY <1>0, <1>w, <3>1 DEF OneToken
        <4> QED
          BY <1>w, <4>1
      <3>2. HasTurn(wire') => HasTurn(wire) /\ ~IsTurn(wire[1])
        <4> SUFFICES ASSUME HasTurn(wire') PROVE HasTurn(wire) /\ ~IsTurn(wire[1])
          OBVIOUS
        <4>1. PICK i \in 1 .. Len(wire') : IsTurn(wire'[i])
          BY DEF HasTurn
        <4>2. i + 1 \in 1 .. Len(wire) /\ IsTurn(wire[i + 1]) /\ i + 1 # 1
          BY <1>w, <4>1
        <4> QED
          BY <1>0, <1>w, <4>2 DEF HasTurn, OneToken
      <3>3. HasTurn(events') => HasTurn(events) \/ (HasTurn(wire) /\ IsTurn(wire[1]))
        BY <1>w, <2>3 DEF HasTurn
      <3>4. ASSUME NEW i \in 1 .. Len(events'), NEW j \in 1 .. Len(events'),
                   IsTurn(events'[i]), IsTurn(events'[j])
            PROVE  i = j
        <4>1. CASE IsTurn(wire[1])
          <5>1. ~HasTurn(events)
            BY <1>0, <1>w, <4>1 DEF OneToken, HasTurn
          <5>2. i = Len(events) + 1 /\ j = Len(events) + 1
            BY <2>3, <3>4, <5>1 DEF HasTurn
          <5> QED
            BY <5>2
        <4>2. CASE ~IsTurn(wire[1])
          <5>1. /\ i \in 1 .. Len(events) /\ events'[i] = events[i]
                /\ j \in 1 .. Len(events) /\ events'[j] = events[j]
            BY <2>3, <3>4, <4>2
          <5> QED
            BY <1>0, <3>4, <5>1 DEF OneToken
        <4> QED
          BY <4>1, <4>2
      <3>5. ~(HasTurn(events') /\ HasTurn(wire'))
        BY <1>0, <3>2, <3>3 DEF OneToken
      <3>6. HasTurn(events') \/ HasTurn(wire') => HasTurn(events) \/ HasTurn(wire)
        BY <3>2, <3>3
      <3>7. \A i \in 1 .. Len(events') : IsTurn(events'[i]) => events'[i].moves = moves
        BY <1>0, <1>w, <2>3 DEF OneToken
      <3>8. \A i \in 1 .. Len(wire') : IsTurn(wire'[i]) => wire'[i].moves = moves
        BY <1>0, <1>w DEF OneToken
      <3>9. (HasTurn(wire)' <=> HasTurn(wire')) /\ (HasTurn(events)' <=> HasTurn(events'))
        BY DEF HasTurn, IsTurn
      <3> QED
        BY <1>0, <1>u, <1>f, <3>1, <3>4, <3>5, <3>6, <3>7, <3>8, <3>9 DEF OneToken, IsTurn, Mover
    <2> QED
      BY <1>u, <2>5, <2>6, <2>7, <2>8, <2>9, <2>10 DEF ClientInv, TreeIsSynced, None
  <1> QED
    BY <1>1, <1>2

\* What is left of the events when the first of them is taken in the loop.
LEMMA EventIsTaken ==
    ASSUME ClientInv, NEW kind \in {"started", "turn", "finished"}, Takes(kind)
    PROVE  /\ events[1] \in EventMessage /\ events[1].kind = kind /\ Head(events) = events[1]
           /\ Len(events) \in Nat /\ 1 \in 1 .. Len(events) /\ events' \in Seq(EventMessage)
           /\ Len(events') = Len(events) - 1
           /\ \A i \in 1 .. Len(events') :
                 i + 1 \in 1 .. Len(events) /\ i + 1 # 1 /\ events'[i] = events[i + 1]
           /\ HasTurn(events') => HasTurn(events)
           /\ pc = "loop" /\ call = NoCall /\ requests = <<>> /\ responses = {}
           /\ ~HasResponse(wire) /\ phase # "lobby"
  <1>1. events \in Seq(EventMessage) /\ events # <<>> /\ events' = Tail(events)
    BY DEF ClientInv, Types, Takes
  <1>2. /\ Head(events) \in EventMessage /\ Head(events) = events[1] /\ Len(events) \in Nat
        /\ 1 \in 1 .. Len(events) /\ events' \in Seq(EventMessage)
        /\ Len(events') = Len(events) - 1
        /\ \A i \in 1 .. Len(events') : i + 1 \in 1 .. Len(events) /\ events'[i] = events[i + 1]
    BY <1>1, Taken
  <1>3. HasTurn(events') => HasTurn(events)
    BY <1>2 DEF HasTurn
  <1>4. pc = "loop" /\ Head(events).kind = kind
    BY DEF Takes
  <1>5. call = NoCall /\ requests = <<>> /\ responses = {} /\ ~HasResponse(wire)
    BY <1>4 DEF ClientInv, OneCall
  <1>6. phase # "lobby"
    BY <1>1 DEF ClientInv, OneMatch
  <1>7. \A i \in 1 .. Len(events') : i + 1 # 1
    BY <1>2
  <1> QED
    BY <1>2, <1>3, <1>4, <1>5, <1>6, <1>7

\* What every event handler keeps.
LEMMA EventIsHandled ==
    ASSUME ClientInv, NEW kind \in {"started", "turn", "finished"}, Takes(kind),
           UNCHANGED <<seat, creator, call, next_id, responses, requests, wire, phase, moves>>,
           pc' \in {"loop", "submit", "returned"}
    PROVE  OneCall' /\ OneMatch' /\ TurnsAreMine'
  <1>1. OneCall'
    <2>1. requests' = <<>> /\ responses' = {} /\ call' = NoCall /\ ~HasResponse(wire')
      BY EventIsTaken
    <2>2. Len(requests) <= 1
      BY DEF ClientInv, OneCall
    <2>3. \A i, j \in 1 .. Len(wire') : IsResponse(wire'[i]) /\ IsResponse(wire'[j]) => i = j
      BY DEF ClientInv, OneCall
    <2> QED
      BY <2>1, <2>2, <2>3 DEF OneCall, NoCall, IsResponse, HasResponse
  <1>2. OneMatch'
    <2>1. phase' # "lobby"
      BY EventIsTaken
    <2> QED
      BY <2>1 DEF ClientInv, OneMatch, IsResponse, NoCall
  <1>3. TurnsAreMine'
    <2>1. \A i \in 1 .. Len(events') : IsTurn(events'[i]) => Mover(events'[i].moves) = seat
      BY EventIsTaken DEF ClientInv, TurnsAreMine
    <2> QED
      BY <2>1 DEF ClientInv, TurnsAreMine, IsTurn, Mover
  <1> QED
    BY <1>1, <1>2, <1>3

\* An event that is not a turn leaves the one token where it is.
LEMMA TokenStays ==
    ASSUME ClientInv, NEW kind \in {"started", "finished"}, Takes(kind),
           UNCHANGED <<seat, call, requests, wire, phase, moves>>,
           pc' \in {"loop", "returned"}
    PROVE  OneToken'
  <1> SUFFICES ASSUME phase = "playing" PROVE OneToken'
    BY DEF OneToken
  <1>t. /\ HasTurn(events') => HasTurn(events)
        /\ \A i \in 1 .. Len(events') :
              i + 1 \in 1 .. Len(events) /\ events'[i] = events[i + 1]
    BY EventIsTaken
  <1>n. Len(events) \in Nat /\ Len(events') = Len(events) - 1
    BY EventIsTaken
  <1>0. OneToken
    BY DEF ClientInv
  <1>1. ~Chosen'
    BY DEF Chosen
  <1>2. ASSUME NEW i \in 1 .. Len(events'), NEW j \in 1 .. Len(events'),
               IsTurn(events'[i]), IsTurn(events'[j])
        PROVE  i = j
    <2>1. i + 1 = j + 1
      BY <1>0, <1>t, <1>2 DEF OneToken
    <2>2. Len(events') \in Int
      BY <1>n
    <2>3. i \in Int /\ j \in Int
      BY <2>2
    <2> QED
      BY <2>1, <2>3
  <1>3. \A i \in 1 .. Len(events') : IsTurn(events'[i]) => events'[i].moves = moves
    BY <1>0, <1>t DEF OneToken
  <1>4. HasTurn(events)' <=> HasTurn(events')
    BY DEF HasTurn, IsTurn
  <1> QED
    BY <1>0, <1>t, <1>1, <1>2, <1>3, <1>4 DEF OneToken, IsTurn, HasTurn, Mover

\* So does the start of a match.
LEMMA MatchStarts ==
    ASSUME ClientInv, Start
    PROVE  ClientInv'
  <1>u. /\ UNCHANGED <<seat, creator, pc, call, next_id, move, responses, requests, wire,
                       phase, moves>>
        /\ Takes("started") /\ started' = TRUE /\ synced' = <<>> /\ tree' = None
    BY DEF Start, server
  <1>t. pc = "loop" /\ events' \in Seq(EventMessage)
    BY <1>u, EventIsTaken
  <1>1. Types'
    <2>1. synced' \in Seq(Values) /\ tree' \in Seq(Values)
      <3>1. None \in Seq(Values) /\ <<>> \in Seq(Values)
        BY EmptySeq DEF None, Values
      <3> QED
        BY <1>u, <3>1
    <2> QED
      BY <1>u, <1>t, <2>1 DEF ClientInv, Types
  <1>2. OneCall' /\ OneMatch' /\ TurnsAreMine'
    BY <1>u, <1>t, EventIsHandled
  <1>3. StartedFirst' /\ TreeIsSynced' /\ pc' # "confused"
    BY <1>u, <1>t DEF StartedFirst, TreeIsSynced, None
  <1>4. OneToken'
    BY <1>u, <1>t, TokenStays
  <1> QED
    BY <1>1, <1>2, <1>3, <1>4 DEF ClientInv

\* So does its end.
LEMMA MatchFinishes ==
    ASSUME ClientInv, Finish
    PROVE  ClientInv'
  <1>u. /\ UNCHANGED <<seat, creator, call, next_id, move, responses, requests, wire,
                       phase, moves, started, synced, tree>>
        /\ Takes("finished") /\ pc' = "returned"
    BY DEF Finish, server, game
  <1>t. /\ events[1].kind = "finished" /\ Len(events) \in Nat /\ events' \in Seq(EventMessage)
        /\ Len(events') = Len(events) - 1
        /\ \A i \in 1 .. Len(events') : i + 1 \in 1 .. Len(events) /\ events'[i] = events[i + 1]
    BY <1>u, EventIsTaken
  <1>1. Types'
    BY <1>u, <1>t DEF ClientInv, Types
  <1>2. OneCall' /\ OneMatch' /\ TurnsAreMine'
    BY <1>u, EventIsHandled
  <1>3. StartedFirst'
    <2> SUFFICES ASSUME ~started PROVE StartedFirst'
      BY <1>u DEF StartedFirst
    <2>0. StartedFirst
      BY DEF ClientInv
    <2>1. ASSUME NEW k \in 1 .. Len(events), IsStarted(events[k])
          PROVE  k - 1 \in 1 .. Len(events') /\ IsStarted(events'[k - 1])
      <3>1. k # 1
        BY <1>t, <2>1 DEF IsStarted
      <3>2. k - 1 \in 1 .. Len(events') /\ (k - 1) + 1 = k
        BY <1>t, <3>1
      <3> QED
        BY <1>t, <2>1, <3>2
    <2>2. HasStarted(events) => HasStarted(events')
      BY <2>1 DEF HasStarted
    <2>3. ASSUME NEW i \in 1 .. Len(events'), IsTurn(events'[i])
          PROVE  \E j \in 1 .. i - 1 : IsStarted(events'[j])
      <3>1. PICK k \in 1 .. (i + 1) - 1 : IsStarted(events[k])
        BY <1>t, <2>0, <2>3 DEF StartedFirst
      <3>2. k \in 1 .. Len(events) /\ k - 1 <= i - 1
        BY <1>t, <3>1
      <3>3. k - 1 \in 1 .. i - 1
        BY <1>t, <2>1, <3>1, <3>2
      <3> QED
        BY <2>1, <3>1, <3>2, <3>3
    <2> QED
      BY <1>u, <2>0, <2>2, <2>3 DEF StartedFirst, IsTurn, IsStarted, HasStarted
  <1>4. TreeIsSynced' /\ pc' # "confused"
    BY <1>u DEF ClientInv, TreeIsSynced, None
  <1>5. OneToken'
    BY <1>u, TokenStays
  <1> QED
    BY <1>1, <1>2, <1>3, <1>4, <1>5 DEF ClientInv

\* A tree that catches up stands where the server's list of actions ends.
LEMMA CaughtUpIsCurrent ==
    ASSUME ClientInv, NEW actions \in Seq(Values)
    PROVE  CaughtUp(actions) \in {None, actions}
  <1> SUFFICES ASSUME tree # None, IsSync(actions)
               PROVE  tree \o SubSeq(actions, Len(synced) + 1, Len(actions)) = actions
    BY DEF CaughtUp
  <1>1. tree = synced /\ Len(synced) <= Len(actions) /\ SubSeq(actions, 1, Len(synced)) = synced
    BY DEF ClientInv, TreeIsSynced, IsSync
  <1>2. Len(synced) \in Nat /\ Len(actions) \in Nat
    BY LenProperties DEF ClientInv, Types
  <1>3. Len(synced) \in 1 - 1 .. Len(actions) /\ Len(actions) \in Len(synced) .. Len(actions)
          /\ 1 \in 1 .. Len(actions) + 1
    BY <1>1, <1>2
  <1>4. SubSeq(actions, 1, Len(synced)) \o SubSeq(actions, Len(synced) + 1, Len(actions))
          = SubSeq(actions, 1, Len(actions))
    BY <1>3, ConcatAdjacentSubSeq
  <1> QED
    BY <1>1, <1>4, SubSeqFull

\* So does a turn: the search tree catches up with the move list and the
\* engine answers.
LEMMA TurnIsHandled ==
    ASSUME ClientInv, HandleTurn
    PROVE  ClientInv'
  <1> DEFINE actions == events[1].moves
  <1>u. /\ UNCHANGED <<seat, creator, call, next_id, responses, requests, wire, phase, moves>>
        /\ Takes("turn")
    BY DEF HandleTurn, server
  <1>t. /\ events[1] \in EventMessage /\ IsTurn(events[1]) /\ Head(events) = events[1]
        /\ Len(events) \in Nat /\ 1 \in 1 .. Len(events) /\ events' \in Seq(EventMessage)
        /\ \A i \in 1 .. Len(events') :
              i + 1 \in 1 .. Len(events) /\ i + 1 # 1 /\ events'[i] = events[i + 1]
        /\ call = NoCall /\ requests = <<>>
    BY <1>u, EventIsTaken DEF IsTurn
  <1>a. actions \in Seq(Values)
    BY <1>t DEF EventMessage
  <1>1. started
    <2>1. ~started => \E j \in 1 .. 1 - 1 : IsStarted(events[j])
      BY <1>t DEF ClientInv, StartedFirst
    <2>2. 1 .. 1 - 1 = {}
      OBVIOUS
    <2> QED
      BY <2>1, <2>2, Zenon
  <1>2. Turns[Len(actions) + 1] = seat
    BY <1>t DEF ClientInv, TurnsAreMine, Mover
  <1>3. PICK action \in Actions, kept \in {CaughtUp(actions), None} :
           /\ tree' \in {None, Append(IF kept = None THEN actions ELSE kept, action)}
           /\ synced' = Append(actions, action)
           /\ move' = action /\ pc' = "submit" /\ started' = started
    BY <1>1, <1>2, <1>t DEF HandleTurn
  <1>4. (IF kept = None THEN actions ELSE kept) = actions
    <2>1. CaughtUp(actions) \in {None, actions}
      BY <1>a, CaughtUpIsCurrent
    <2> QED
      BY <1>3, <2>1
  <1>5. tree' \in {None, synced'}
    BY <1>3, <1>4
  <1> HIDE DEF actions
  <1>6. Types'
    <2>1. action \in Values
      BY DEF Values
    <2>2. synced' \in Seq(Values)
      BY <1>a, <1>3, <2>1, AppendProperties
    <2>3. tree' \in Seq(Values)
      <3>1. None \in Seq(Values)
        BY DEF None, Values
      <3> QED
        BY <1>5, <2>2, <3>1
    <2> QED
      BY <1>u, <1>t, <1>3, <2>1, <2>2, <2>3 DEF ClientInv, Types
  <1>7. OneCall' /\ OneMatch' /\ TurnsAreMine'
    BY <1>u, <1>3, EventIsHandled
  <1>8. StartedFirst' /\ TreeIsSynced' /\ pc' # "confused"
    BY <1>1, <1>3, <1>5 DEF StartedFirst, TreeIsSynced, None
  <1>9. OneToken'
    <2> SUFFICES ASSUME phase = "playing" PROVE OneToken'
      BY <1>u DEF OneToken
    <2>0. OneToken
      BY DEF ClientInv
    <2>1. HasTurn(events) /\ moves = actions
      BY <1>t, <2>0 DEF HasTurn, OneToken, actions
    <2>2. Mover(moves) = seat /\ ~HasTurn(wire) /\ Len(moves) < Len(Turns)
      BY <2>0, <2>1 DEF OneToken
    <2>3. \A i \in 1 .. Len(events') : ~IsTurn(events'[i])
      BY <1>t, <2>0 DEF OneToken
    <2>4. synced' = Append(moves, move')
      BY <1>3, <2>1
    <2>5. Len(requests') = 0
      BY <1>u, <1>t, EmptySeq
    <2>6. \A i \in 1 .. Len(wire') : ~IsTurn(wire'[i])
      BY <1>u, <2>2 DEF HasTurn
    <2> QED
      BY <1>u, <2>2, <2>3, <2>4, <2>5, <2>6 DEF OneToken, IsTurn, HasTurn, Mover
  <1> QED
    BY <1>6, <1>7, <1>8, <1>9 DEF ClientInv

-----------------------------------------------------------------------------
(* The steps of the server. *)

\* One message, and what stands before and after a match's message.
LEMMA Single ==
    ASSUME NEW S, NEW m \in S
    PROVE  <<m>> \in Seq(S) /\ Len(<<m>>) = 1 /\ <<m>>[1] = m
  OBVIOUS

\* An appended message is a list of one message more.
LEMMA AppendIsConcatOne ==
    ASSUME NEW S, NEW s \in Seq(S), NEW m \in S
    PROVE  Append(s, m) = s \o <<m>>
  BY AppendIsConcat

\* A position one move on, as the game's length allows it.
LEMMA OneMoveOn ==
    ASSUME GameIsGiven, ClientInv, phase = "playing", NEW a \in Values
    PROVE  /\ Append(moves, a) \in Seq(Values) /\ Len(Append(moves, a)) <= Len(Turns)
           /\ PhaseAt(Append(moves, a)) \in {"playing", "over"}
           /\ PhaseAt(Append(moves, a)) = "playing" => Len(Append(moves, a)) < Len(Turns)
  <1>1. moves \in Seq(Values) /\ Len(moves) < Len(Turns)
    BY DEF ClientInv, Types, OneToken
  <1>2. Len(moves) \in Nat /\ Len(Turns) \in Nat
    BY <1>1, LenProperties DEF GameIsGiven
  <1>3. Append(moves, a) \in Seq(Values) /\ Len(Append(moves, a)) = Len(moves) + 1
    BY <1>1, AppendProperties
  <1> QED
    BY <1>1, <1>2, <1>3 DEF PhaseAt

\* A move of the opponent at the server keeps the invariant.
LEMMA OpponentActs ==
    ASSUME GameIsGiven, ClientInv, OpponentMoves
    PROVE  ClientInv'
  <1>u. UNCHANGED <<seat, creator, pc, call, next_id, game, shared, requests>>
    BY DEF OpponentMoves
  <1>1. PICK a \in Actions :
           /\ moves' = Append(moves, a) /\ phase' = PhaseAt(Append(moves, a))
           /\ wire' = wire \o Tells(Append(moves, a))
    BY DEF OpponentMoves
  <1>2. phase = "playing" /\ Mover(moves) # seat
    BY DEF OpponentMoves
  <1> DEFINE h == Append(moves, a)
             new == Tells(h)
  <1>3. /\ h \in Seq(Values) /\ Len(h) <= Len(Turns) /\ PhaseAt(h) \in {"playing", "over"}
        /\ PhaseAt(h) = "playing" => Len(h) < Len(Turns)
    <2>1. a \in Values
      BY DEF Values
    <2> QED
      BY <1>2, <2>1, OneMoveOn
  <1> HIDE DEF h
  <1>4. /\ new \in Seq(EventMessage) /\ Len(new) \in 0 .. 1
        /\ \A i \in 1 .. Len(new) : IsTurn(new[i]) => new[i].moves = h /\ Mover(h) = seat
    BY <1>3, TellsFacts DEF ClientInv
  <1> HIDE DEF new
  <1>5. new \in Seq(Message) /\ ~HasResponse(new) /\ \A i \in 1 .. Len(new) : ~IsResponse(new[i])
    <2>1. \A i \in 1 .. Len(new) : new[i] \in EventMessage
      BY <1>4, LenProperties
    <2>2. new \in Seq(Message)
      BY <1>4 DEF Message
    <2> QED
      BY <2>1, <2>2 DEF HasResponse, IsResponse, EventMessage
  <1>6. moves' = h /\ phase' = PhaseAt(h) /\ wire' = wire \o new
    BY <1>1 DEF h, new
  <1>7. \A i, j \in 1 .. Len(new) : i = j
    BY <1>4
  <1>8. /\ ~HasTurn(events) /\ ~HasTurn(wire) /\ ~Chosen
        /\ \A i \in 1 .. Len(requests') : requests'[i].method # "submit"
    BY <1>u, <1>2 DEF ClientInv, OneToken
  <1>9. /\ moves' \in Seq(Values) /\ phase' \in {"playing", "over"}
        /\ phase' = "playing" => Len(moves') < Len(Turns)
    BY <1>3, <1>6
  <1>10. \A i \in 1 .. Len(new) : IsTurn(new[i]) => new[i].moves = moves' /\ Mover(moves') = seat
    BY <1>4, <1>6
  <1> QED
    BY <1>u, <1>2, <1>5, <1>6, <1>7, <1>8, <1>9, <1>10, ServerStep

\* So does a match that the server cuts short.
LEMMA MatchEndsEarly ==
    ASSUME ClientInv, MatchIsCutShort
    PROVE  ClientInv'
  <1> DEFINE m == Event("finished")
             new == <<m>>
  <1>u. UNCHANGED <<seat, creator, pc, call, next_id, game, shared, requests, moves>>
    BY DEF MatchIsCutShort
  <1>1. phase = "playing" /\ phase' = "over" /\ wire' = Append(wire, m)
    BY DEF MatchIsCutShort
  <1>2. m \in EventMessage /\ m.kind = "finished"
    <2>1. <<>> \in Seq(Values)
      BY EmptySeq
    <2> QED
      BY <2>1 DEF Event, EventMessage
  <1> HIDE DEF m
  <1>3. new \in Seq(Message) /\ Len(new) = 1 /\ new[1] = m /\ m \in Message
    BY <1>2, Single DEF Message
  <1> HIDE DEF new
  <1>4. wire' = wire \o new
    BY <1>1, <1>3, AppendIsConcatOne DEF ClientInv, Types, new
  <1>5. \A i \in 1 .. Len(new) : i = 1 /\ ~IsTurn(new[i]) /\ ~IsResponse(new[i])
    BY <1>2, <1>3 DEF IsTurn, IsResponse
  <1>6. ~HasResponse(new)
    BY <1>5 DEF HasResponse
  <1>7. moves' \in Seq(Values)
    BY <1>u DEF ClientInv, Types
  <1> QED
    BY <1>u, <1>1, <1>3, <1>4, <1>5, <1>6, <1>7, ServerStep

\* What is said when a match is created: it started, and whose turn it is.
LEMMA Announced ==
    ASSUME GameIsGiven, ClientInv
    PROVE  LET new == <<Event("started")>> \o Tells(<<>>)
           IN  /\ <<Event("started")>> \in Seq(EventMessage) /\ Tells(<<>>) \in Seq(EventMessage)
               /\ new \in Seq(EventMessage) /\ Len(new) \in 1 .. 2 /\ IsStarted(new[1])
               /\ \A i \in 1 .. Len(new) : IsTurn(new[i]) =>
                      i = 2 /\ new[i].moves = <<>> /\ Mover(<<>>) = seat
  <1> DEFINE m == Event("started")
             t == Tells(<<>>)
             new == <<m>> \o t
  <1>1. m \in EventMessage /\ IsStarted(m)
    <2>1. <<>> \in Seq(Values)
      BY EmptySeq
    <2> QED
      BY <2>1 DEF Event, EventMessage, IsStarted
  <1>2. /\ t \in Seq(EventMessage) /\ Len(t) \in 0 .. 1
        /\ \A i \in 1 .. Len(t) : IsTurn(t[i]) => t[i].moves = <<>> /\ Mover(<<>>) = seat
    <2>1. <<>> \in Seq(Values) /\ Len(<<>>) <= Len(Turns)
      <3>1. Len(Turns) \in Nat
        BY LenProperties DEF GameIsGiven
      <3> QED
        BY <3>1, EmptySeq
    <2> QED
      BY <2>1, TellsFacts DEF ClientInv
  <1> HIDE DEF m, t
  <1>3. <<m>> \in Seq(EventMessage) /\ Len(<<m>>) = 1 /\ <<m>>[1] = m
    BY <1>1, Single
  <1>4. /\ new \in Seq(EventMessage) /\ Len(new) = 1 + Len(t)
        /\ \A i \in 1 .. 1 + Len(t) : new[i] = IF i <= 1 THEN <<m>>[i] ELSE t[i - 1]
    BY <1>2, <1>3, ConcatProperties
  <1>5. Len(new) \in 1 .. 2 /\ 1 \in 1 .. 1 + Len(t)
    BY <1>2, <1>4
  <1>6. new[1] = m
    BY <1>3, <1>4, <1>5
  <1>7. ASSUME NEW i \in 1 .. Len(new), IsTurn(new[i])
        PROVE  i = 2 /\ new[i].moves = <<>> /\ Mover(<<>>) = seat
    <2>1. i # 1
      BY <1>1, <1>6, <1>7 DEF IsTurn, IsStarted
    <2>2. i = 2 /\ i - 1 \in 1 .. Len(t) /\ new[i] = t[i - 1]
      BY <1>2, <1>4, <1>5, <2>1
    <2> QED
      BY <1>2, <1>7, <2>2
  <1> QED
    BY <1>1, <1>2, <1>3, <1>4, <1>5, <1>6, <1>7 DEF m, t

\* So does a match that the server makes.
LEMMA MatchIsCreated ==
    ASSUME GameIsGiven, ClientInv, MatchIsMade
    PROVE  ClientInv'
  <1> DEFINE new == <<Event("started")>> \o Tells(<<>>)
  <1>u. UNCHANGED <<seat, creator, pc, call, next_id, game, shared, requests, moves>>
    BY DEF MatchIsMade
  <1>1. ~creator /\ phase = "lobby" /\ phase' = "playing"
    BY DEF MatchIsMade
  <1>2. /\ new \in Seq(EventMessage) /\ Len(new) \in 1 .. 2 /\ IsStarted(new[1])
        /\ \A i \in 1 .. Len(new) : IsTurn(new[i]) =>
               i = 2 /\ new[i].moves = <<>> /\ Mover(<<>>) = seat
    BY Announced
  <1>3. wire' = wire \o new
    <2>1. wire' = wire \o <<Event("started")>> \o Tells(<<>>)
      BY DEF MatchIsMade
    <2>2. wire \in Seq(Message) /\ <<Event("started")>> \in Seq(Message) /\ Tells(<<>>) \in Seq(Message)
      <3>1. wire \in Seq(Message)
        BY DEF ClientInv, Types
      <3>2. <<Event("started")>> \in Seq(EventMessage) /\ Tells(<<>>) \in Seq(EventMessage)
        BY Announced
      <3> QED
        BY <3>1, <3>2 DEF Message
    <2> QED
      BY <2>1, <2>2, ConcatAssociative
  <1> HIDE DEF new
  <1>4. new \in Seq(Message) /\ ~HasResponse(new) /\ \A i \in 1 .. Len(new) : ~IsResponse(new[i])
    <2>1. \A i \in 1 .. Len(new) : new[i] \in EventMessage
      BY <1>2, LenProperties
    <2>2. new \in Seq(Message)
      BY <1>2 DEF Message
    <2> QED
      BY <2>1, <2>2 DEF HasResponse, IsResponse, EventMessage
  <1>5. moves' = <<>> /\ moves' \in Seq(Values) /\ Len(moves') < Len(Turns)
    <2>1. Len(Turns) \in Nat \ {0}
      BY EmptySeq DEF GameIsGiven
    <2>2. moves' = <<>>
      BY <1>u, <1>1 DEF ClientInv, OneMatch
    <2> QED
      BY <2>1, <2>2, EmptySeq
  <1>6. /\ ~HasTurn(events) /\ ~HasTurn(wire) /\ ~Chosen
        /\ \A i \in 1 .. Len(requests') : requests'[i].method # "submit"
    <2>1. /\ events = <<>> /\ pc # "submit" /\ \A i \in 1 .. Len(wire) : IsResponse(wire[i])
          /\ \A i \in 1 .. Len(requests) : requests[i].method # "submit"
      BY <1>1 DEF ClientInv, OneMatch
    <2>2. ~HasTurn(events)
      BY <2>1, EmptySeq DEF HasTurn
    <2>3. ~HasTurn(wire)
      BY <2>1 DEF HasTurn, IsTurn, IsResponse
    <2> QED
      BY <1>u, <2>1, <2>2, <2>3 DEF Chosen
  <1>7. new # <<>> /\ IsStarted(new[1])
    BY <1>2, EmptySeq
  <1>8. \A i \in 1 .. Len(new) : IsTurn(new[i]) =>
            i = 2 /\ new[i].moves = moves' /\ Mover(moves') = seat
    BY <1>2, <1>5
  <1> QED
    BY <1>u, <1>1, <1>3, <1>4, <1>5, <1>6, <1>7, <1>8, ServerStep

\* Events, and the response that follows them.
LEMMA Replied ==
    ASSUME NEW e \in Seq(EventMessage), NEW m \in ResponseMessage
    PROVE  LET new == e \o <<m>>
           IN  /\ new \in Seq(Message) /\ Len(e) \in Nat /\ Len(new) = Len(e) + 1
               /\ \A i \in 1 .. Len(new) : \/ i \in 1 .. Len(e) /\ new[i] = e[i] /\ ~IsResponse(new[i])
                                           \/ i = Len(e) + 1 /\ new[i] = m /\ IsResponse(new[i])
  <1> DEFINE new == e \o <<m>>
  <1>1. e \in Seq(Message) /\ m \in Message /\ <<m>> \in Seq(Message)
    BY Single DEF Message
  <1>2. Len(<<m>>) = 1 /\ <<m>>[1] = m /\ Len(e) \in Nat
    BY <1>1, LenProperties, Single
  <1>3. /\ new \in Seq(Message) /\ Len(new) = Len(e) + 1
        /\ \A i \in 1 .. Len(e) + 1 : new[i] = IF i <= Len(e) THEN e[i] ELSE <<m>>[i - Len(e)]
    BY <1>1, <1>2, ConcatProperties
  <1>4. \A i \in 1 .. Len(e) : ~IsResponse(e[i])
    <2>1. \A i \in 1 .. Len(e) : e[i] \in EventMessage
      BY LenProperties
    <2> QED
      BY <2>1 DEF EventMessage, IsResponse
  <1>5. IsResponse(m)
    BY DEF ResponseMessage, IsResponse
  <1> HIDE DEF new
  <1>6. ASSUME NEW i \in 1 .. Len(new)
        PROVE  \/ i \in 1 .. Len(e) /\ new[i] = e[i] /\ ~IsResponse(new[i])
               \/ i = Len(e) + 1 /\ new[i] = m /\ IsResponse(new[i])
    <2>1. CASE i <= Len(e)
      <3>1. i \in 1 .. Len(e) /\ new[i] = e[i]
        BY <1>2, <1>3, <2>1
      <3> QED
        BY <1>4, <3>1
    <2>2. CASE ~(i <= Len(e))
      <3>1. i = Len(e) + 1 /\ new[i] = <<m>>[i - Len(e)] /\ i - Len(e) = 1
        BY <1>2, <1>3, <2>2
      <3>2. new[i] = m
        BY <1>2, <3>1
      <3> QED
        BY <1>5, <3>1, <3>2
    <2> QED
      BY <2>1, <2>2
  <1> QED
    BY <1>2, <1>3, <1>6 DEF new

\* A request that only gets its response.
LEMMA OnlyAnswered ==
    ASSUME ClientInv, NEW m \in ResponseMessage, wire' = Append(wire, m),
           UNCHANGED <<seat, creator, pc, call, next_id, game, shared, phase, moves>>,
           requests # <<>>, requests' = <<>>,
           m.error = "unknown_player" => creator /\ phase = "lobby"
    PROVE  ClientInv'
  <1> DEFINE new == <<m>>
  <1>1. new \in Seq(Message) /\ Len(new) = 1 /\ new[1] = m /\ m \in Message
    BY Single DEF Message
  <1>2. wire' = wire \o new
    BY <1>1, AppendIsConcatOne DEF ClientInv, Types
  <1> HIDE DEF new
  <1>3. \A i \in 1 .. Len(new) : i = 1 /\ new[i] = m
    BY <1>1
  <1>4. IsResponse(m) /\ ~IsTurn(m)
    BY DEF ResponseMessage, IsResponse, IsTurn
  <1>5. ~HasTurn(new)
    BY <1>3, <1>4 DEF HasTurn
  <1>6. moves' \in Seq(Values) /\ phase' \in {"lobby", "playing", "over"}
    BY DEF ClientInv, Types
  <1>7. phase' = "playing" => Len(moves') < Len(Turns)
    BY DEF ClientInv, OneToken
  <1>8. /\ \A i, j \in 1 .. Len(new) : i = j
        /\ \A i \in 1 .. Len(new) : IsResponse(new[i]) /\ ~IsTurn(new[i])
        /\ \A i \in 1 .. Len(new) : IsResponse(new[i]) /\ new[i].error = "unknown_player"
              => creator /\ phase' = "lobby"
    BY <1>3, <1>4
  <1> QED
    BY <1>1, <1>2, <1>5, <1>6, <1>7, <1>8, ServerStep

\* So does an answer of the server.
LEMMA RequestIsAnswered ==
    ASSUME GameIsGiven, ClientInv, ServerAnswers
    PROVE  ClientInv'
  <1> DEFINE r == requests[1]
             Reply(error) == [kind |-> "response", id |-> r.id, error |-> error]
             Accepts == phase = "playing" /\ Mover(moves) = seat
             after == Append(moves, r.action)
             ok == Reply("")
  <1>u. UNCHANGED <<seat, creator, pc, call, next_id, game, shared>>
    BY DEF ServerAnswers
  <1>t. /\ requests \in Seq(Request) /\ requests # <<>> /\ requests' = Tail(requests)
        /\ Len(requests) <= 1
    BY DEF ServerAnswers, ClientInv, Types, OneCall
  <1>h. /\ Head(requests) = r /\ r \in Request /\ 1 \in 1 .. Len(requests)
        /\ requests' \in Seq(Request) /\ Len(requests') = Len(requests) - 1 /\ Len(requests) \in Nat
    BY <1>t, Taken
  <1>e. requests' = <<>> /\ Len(requests') = 0
    <2>1. Len(requests') = 0
      BY <1>t, <1>h
    <2> QED
      BY <1>h, <2>1, EmptySeq
  <1>p. \A error \in {"", "unknown_player", "rejected"} :
            Reply(error) \in ResponseMessage /\ Reply(error).error = error
    BY <1>h DEF ResponseMessage, Request
  <1>s. \/ /\ r.method = "create" /\ opponent /\ phase' = "playing" /\ moves' = moves
           /\ wire' = wire \o <<Event("started")>> \o Tells(<<>>) \o <<ok>>
        \/ /\ r.method = "create" /\ phase' = phase /\ moves' = moves
           /\ wire' = Append(wire, Reply("unknown_player"))
        \/ /\ r.method = "submit" /\ Accepts /\ moves' = after /\ phase' = PhaseAt(after)
           /\ wire' = wire \o Tells(after) \o <<ok>>
        \/ \E error \in {"", "rejected"} :
              phase' = phase /\ moves' = moves /\ wire' = Append(wire, Reply(error))
    BY <1>h, Zenon DEF ServerAnswers
  <1> HIDE DEF r, Reply
  <1>w. wire \in Seq(Message) /\ ok \in ResponseMessage /\ ok.error = ""
    BY <1>p DEF ClientInv, Types
  <1> HIDE DEF ok
  <1>o. <<ok>> \in Seq(Message)
    <2>1. ok \in Message
      BY <1>w DEF Message
    <2> QED
      BY <2>1, Single
  <1>1. CASE /\ r.method = "create" /\ phase' = "playing" /\ moves' = moves
             /\ wire' = wire \o <<Event("started")>> \o Tells(<<>>) \o <<ok>>
    <2> DEFINE e == <<Event("started")>> \o Tells(<<>>)
               new == e \o <<ok>>
    <2>1. creator /\ phase = "lobby"
      BY <1>h, <1>1 DEF ClientInv, OneMatch, r
    <2>2. /\ e \in Seq(EventMessage) /\ Len(e) \in 1 .. 2 /\ IsStarted(e[1])
          /\ \A i \in 1 .. Len(e) : IsTurn(e[i]) => i = 2 /\ e[i].moves = <<>> /\ Mover(<<>>) = seat
      BY Announced
    <2>3. wire' = wire \o new
      <3> DEFINE s == <<Event("started")>>
                 m == Tells(<<>>)
      <3>1. s \in Seq(EventMessage) /\ m \in Seq(EventMessage)
        BY Announced
      <3>2. wire' = ((wire \o s) \o m) \o <<ok>>
        BY <1>1
      <3> HIDE DEF s, m
      <3>3. s \in Seq(Message) /\ m \in Seq(Message)
        BY <3>1 DEF Message
      <3>4. ((wire \o s) \o m) \o <<ok>> = wire \o ((s \o m) \o <<ok>>)
        <4>1. \A a, b, c \in Seq(Message) : (a \o b) \o c = a \o (b \o c)
          BY ConcatAssociative
        <4>2. s \o m \in Seq(Message)
          BY <3>3, ConcatProperties
        <4>3. (wire \o s) \o m = wire \o (s \o m)
          BY <1>w, <3>3, <4>1, Zenon
        <4>4. (wire \o (s \o m)) \o <<ok>> = wire \o ((s \o m) \o <<ok>>)
          BY <1>w, <1>o, <4>1, <4>2, Zenon
        <4> QED
          BY <4>3, <4>4, Zenon
      <3> QED
        BY <3>2, <3>4 DEF s, m
    <2> HIDE DEF e
    <2>4. /\ new \in Seq(Message) /\ Len(e) \in Nat /\ Len(new) = Len(e) + 1
          /\ \A i \in 1 .. Len(new) :
                \/ i \in 1 .. Len(e) /\ new[i] = e[i] /\ ~IsResponse(new[i])
                \/ i = Len(e) + 1 /\ new[i] = ok /\ IsResponse(new[i])
      BY <1>w, <2>2, Replied
    <2> HIDE DEF new
    <2>5. moves' = <<>> /\ moves' \in Seq(Values) /\ Len(moves') < Len(Turns)
      <3>1. Len(Turns) \in Nat \ {0}
        BY EmptySeq DEF GameIsGiven
      <3>2. moves' = <<>>
        BY <1>1, <2>1 DEF ClientInv, OneMatch
      <3> QED
        BY <3>1, <3>2, EmptySeq
    <2>6. ~HasTurn(events) /\ ~HasTurn(wire) /\ ~Chosen
      <3>1. events = <<>> /\ pc # "submit" /\ \A i \in 1 .. Len(wire) : IsResponse(wire[i])
        BY <2>1 DEF ClientInv, OneMatch
      <3>2. ~HasTurn(events)
        BY <3>1, EmptySeq DEF HasTurn
      <3>3. ~HasTurn(wire)
        BY <3>1 DEF HasTurn, IsTurn, IsResponse
      <3> QED
        BY <3>1, <3>2, <3>3 DEF Chosen
    <2>7. \A i \in 1 .. Len(requests') : requests'[i].method # "submit"
      BY <1>e
    <2>8. \A i \in 1 .. Len(new) : IsTurn(new[i]) => i = 2 /\ new[i].moves = moves' /\ Mover(moves') = seat
      <3> SUFFICES ASSUME NEW i \in 1 .. Len(new), IsTurn(new[i])
                   PROVE  i = 2 /\ new[i].moves = moves' /\ Mover(moves') = seat
        OBVIOUS
      <3>1. i \in 1 .. Len(e) /\ new[i] = e[i]
        BY <2>4 DEF IsResponse, IsTurn
      <3> QED
        BY <2>2, <2>5, <3>1
    <2>9. \A i \in 1 .. Len(new) : IsResponse(new[i]) => i = Len(e) + 1 /\ new[i].error # "unknown_player"
      BY <1>w, <2>4
    <2>10. new # <<>> /\ IsStarted(new[1])
      <3>1. Len(e) \in 1 .. 2 /\ Len(new) = Len(e) + 1
        BY <2>2, <2>4
      <3>0. \A p, q : p \in 1 .. 2 /\ q = p + 1 => 1 \in 1 .. q /\ 1 # p + 1 /\ q # 0
        OBVIOUS
      <3>2. 1 \in 1 .. Len(new) /\ 1 # Len(e) + 1 /\ Len(new) # 0
        BY <3>0, <3>1, Zenon
      <3>3. new[1] = e[1]
        BY <2>4, <3>2
      <3>4. Len(<<>>) = 0
        BY EmptySeq
      <3>5. new # <<>>
        BY <3>2, <3>4, Zenon
      <3> QED
        BY <2>2, <3>3, <3>5
    <2>11. requests # <<>> /\ requests' = <<>> /\ requests[1].method = "create"
      BY <1>1, <1>t, <1>e DEF r
    <2>12. \A i, j \in 1 .. Len(new) : IsResponse(new[i]) /\ IsResponse(new[j]) => i = j
      BY <2>9
    <2>13. \A i, j \in 1 .. Len(new) : IsTurn(new[i]) /\ IsTurn(new[j]) => i = j
      BY <2>8
    <2> QED
      BY <1>u, <1>1, <2>1, <2>3, <2>4, <2>5, <2>6, <2>7, <2>8, <2>9, <2>10, <2>11, <2>12, <2>13,
         ServerStep
  <1>2. CASE /\ r.method = "create" /\ phase' = phase /\ moves' = moves
             /\ wire' = Append(wire, Reply("unknown_player"))
    <2>1. creator /\ phase = "lobby"
      BY <1>h, <1>2 DEF ClientInv, OneMatch, r
    <2> QED
      BY <1>u, <1>t, <1>e, <1>p, <1>2, <2>1, OnlyAnswered
  <1>3. CASE /\ r.method = "submit" /\ Accepts /\ moves' = after /\ phase' = PhaseAt(after)
             /\ wire' = wire \o Tells(after) \o <<ok>>
    <2> DEFINE e == Tells(after)
               new == e \o <<ok>>
    <2>1. r.action \in Values
      BY <1>h DEF Request
    <2>2. /\ after \in Seq(Values) /\ Len(after) <= Len(Turns) /\ PhaseAt(after) \in {"playing", "over"}
          /\ PhaseAt(after) = "playing" => Len(after) < Len(Turns)
      BY <1>3, <2>1, OneMoveOn
    <2> HIDE DEF after
    <2>3. /\ e \in Seq(EventMessage) /\ Len(e) \in 0 .. 1
          /\ \A i \in 1 .. Len(e) : IsTurn(e[i]) => e[i].moves = after /\ Mover(after) = seat
      BY <2>2, TellsFacts DEF ClientInv
    <2> HIDE DEF e
    <2>4. wire' = wire \o new
      <3>1. e \in Seq(Message)
        BY <2>3 DEF Message
      <3>2. (wire \o e) \o <<ok>> = wire \o (e \o <<ok>>)
        <4>1. \A a, b, c \in Seq(Message) : (a \o b) \o c = a \o (b \o c)
          BY ConcatAssociative
        <4> QED
          BY <1>w, <1>o, <3>1, <4>1, Zenon
      <3>3. wire' = (wire \o e) \o <<ok>>
        BY <1>3 DEF e
      <3> QED
        BY <3>2, <3>3
    <2>5. /\ new \in Seq(Message) /\ Len(e) \in Nat /\ Len(new) = Len(e) + 1
          /\ \A i \in 1 .. Len(new) :
                \/ i \in 1 .. Len(e) /\ new[i] = e[i] /\ ~IsResponse(new[i])
                \/ i = Len(e) + 1 /\ new[i] = ok /\ IsResponse(new[i])
      BY <1>w, <2>3, Replied
    <2> HIDE DEF new
    <2>6. ~HasTurn(events) /\ ~HasTurn(wire) /\ ~Chosen
      <3>1. phase = "playing" /\ requests[1].method = "submit"
        BY <1>3 DEF r
      <3>2. ~HasTurn(events) /\ ~HasTurn(wire)
        BY <1>h, <3>1 DEF ClientInv, OneToken
      <3>3. ~Chosen
        BY <1>t DEF ClientInv, OneCall, Chosen
      <3> QED
        BY <3>2, <3>3
    <2>7. \A i \in 1 .. Len(requests') : requests'[i].method # "submit"
      BY <1>e
    <2>8. \A i \in 1 .. Len(new) : IsTurn(new[i]) => i = 1 /\ new[i].moves = moves' /\ Mover(moves') = seat
      <3> SUFFICES ASSUME NEW i \in 1 .. Len(new), IsTurn(new[i])
                   PROVE  i = 1 /\ new[i].moves = moves' /\ Mover(moves') = seat
        OBVIOUS
      <3>1. i \in 1 .. Len(e) /\ new[i] = e[i]
        BY <2>5 DEF IsResponse, IsTurn
      <3>2. i = 1
        BY <2>3, <3>1
      <3> QED
        BY <1>3, <2>3, <3>1, <3>2
    <2>9. \A i \in 1 .. Len(new) : IsResponse(new[i]) => i = Len(e) + 1 /\ new[i].error # "unknown_player"
      BY <1>w, <2>5
    <2>10. moves' \in Seq(Values) /\ phase' \in {"playing", "over"}
             /\ (phase' = "playing" => Len(moves') < Len(Turns))
      BY <1>3, <2>2
    <2>11. \A i, j \in 1 .. Len(new) : IsResponse(new[i]) /\ IsResponse(new[j]) => i = j
      BY <2>9
    <2>12. \A i, j \in 1 .. Len(new) : IsTurn(new[i]) /\ IsTurn(new[j]) => i = j
      BY <2>8
    <2>13. phase = "playing"
      BY <1>3
    <2> QED
      BY <1>u, <1>t, <1>e, <2>4, <2>5, <2>6, <2>7, <2>8, <2>9, <2>10, <2>11, <2>12, <2>13, ServerStep
  <1>4. CASE \E error \in {"", "rejected"} :
                phase' = phase /\ moves' = moves /\ wire' = Append(wire, Reply(error))
    BY <1>u, <1>t, <1>e, <1>p, <1>4, OnlyAnswered
  <1> QED
    BY <1>s, <1>1, <1>2, <1>3, <1>4

-----------------------------------------------------------------------------
(* The theorem. *)

\* Every step keeps the invariant.
LEMMA ClientNext == GameIsGiven /\ ClientInv /\ [Next]_vars => ClientInv'
  <1> SUFFICES ASSUME GameIsGiven, ClientInv, [Next]_vars PROVE ClientInv'
    OBVIOUS
  <1>1. CASE SendLine
    BY <1>1, RequestIsSent
  <1>2. CASE SendFails \/ CallReturns \/ Retry \/ WaitEnds \/ Poll \/ CallFails
    BY <1>2, CallEnds
  <1>3. CASE Start
    BY <1>3, MatchStarts
  <1>4. CASE HandleTurn
    BY <1>4, TurnIsHandled
  <1>5. CASE Finish
    BY <1>5, MatchFinishes
  <1>6. CASE ReaderLoop
    BY <1>6, MessageIsRead
  <1>7. CASE ReaderEnds \/ OpponentComes \/ ServerCloses \/ UNCHANGED vars
    <2>1. UNCHANGED <<seat, creator, pc, call, next_id, started, synced, tree, move,
                      responses, events, requests, wire, phase, moves>>
      BY <1>7 DEF ReaderEnds, OpponentComes, ServerCloses, vars, game, shared, server
    <2> QED
      BY <2>1, Untouched
  <1>8. CASE ServerAnswers
    BY <1>8, RequestIsAnswered
  <1>9. CASE MatchIsMade
    BY <1>9, MatchIsCreated
  <1>10. CASE OpponentMoves
    BY <1>10, OpponentActs
  <1>11. CASE MatchIsCutShort
    BY <1>11, MatchEndsEarly
  <1> QED
    BY <1>1, <1>2, <1>3, <1>4, <1>5, <1>6, <1>7, <1>8, <1>9, <1>10, <1>11 DEF Next, Main

\* For every order of seats and any number of attempts, whatever the
\* interleaving of the main thread, the reader thread and the server: HandleTurn
\* never throws "your_turn before game_started" or on the other seat's turn, the
\* tree stands where the chosen move leads, and a submit_move on its way answers
\* the position the server waits in (RunMatchClient and MatchGame in
\* match_client.cpp).
THEOREM TurnsAreUnderstoodAlways == Spec => []TurnsAreUnderstood
  <1>1. ClientInv => TurnsAreUnderstood
    <2> SUFFICES ASSUME ClientInv PROVE TurnsAreUnderstood
      OBVIOUS
    <2>1. pc # "confused" /\ tree \in {None, synced}
      BY DEF ClientInv, TreeIsSynced
    <2>2. \A i \in DOMAIN requests :
             requests[i].method = "submit" /\ phase = "playing" =>
                 requests[i].history = Append(moves, requests[i].action)
      <3>1. DOMAIN requests = 1 .. Len(requests)
        BY LenProperties DEF ClientInv, Types
      <3> QED
        BY <3>1 DEF ClientInv, OneToken
    <2> QED
      BY <2>1, <2>2 DEF TurnsAreUnderstood
  <1> QED
    BY <1>1, ClientInit, ClientNext, GameIsGiven, PTL DEF Spec
=============================================================================
