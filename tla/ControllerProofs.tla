--------------------------- MODULE ControllerProofs ---------------------------
(***************************************************************************)
(* Proofs about the desktop application's game controller, for every board *)
(* and any number of matches: the search thread's inputs are left alone    *)
(* until it returns, no thread outlives its match, no result is applied to *)
(* a position it was not searched for, the rows of the database hold what  *)
(* was played, and the replay rebuilt from them shows it.                  *)
(***************************************************************************)
EXTENDS GameController, SequenceTheorems, WellFoundedInduction, TLAPS

-----------------------------------------------------------------------------
(* Sequences of anything. *)

\* A sequence, whatever its elements are.
Listing(s) == s \in Seq(Range(s))

\* A sequence over some set is one, and its length is a natural number.
LEMMA ListingOf ==
    ASSUME NEW S, NEW s \in Seq(S)
    PROVE  Listing(s) /\ Len(s) \in Nat /\ DOMAIN s = 1 .. Len(s)
  <1>1. /\ Len(s) \in Nat /\ s \in [1 .. Len(s) -> S] /\ DOMAIN s = 1 .. Len(s)
    BY LenProperties
  <1>2. s \in [1 .. Len(s) -> Range(s)]
    BY <1>1 DEF Range
  <1>3. s \in UNION {[1 .. n -> Range(s)] : n \in Nat}
    BY <1>1, <1>2
  <1> QED
    BY <1>1, <1>3, SeqDef DEF Listing

\* Append makes it one longer and keeps what is there.
LEMMA ListingAppend ==
    ASSUME NEW s, Listing(s), NEW e
    PROVE  /\ Listing(Append(s, e)) /\ Len(s) \in Nat
           /\ Len(Append(s, e)) = Len(s) + 1
           /\ \A i \in 1 .. Len(s) : Append(s, e)[i] = s[i]
           /\ Append(s, e)[Len(s) + 1] = e
  <1> DEFINE S == Range(s) \cup {e}
  <1>1. s \in Seq(S) /\ e \in S
    BY SeqMonotonic DEF Listing
  <1> HIDE DEF S
  <1>2. /\ Append(s, e) \in Seq(S) /\ Len(Append(s, e)) = Len(s) + 1
        /\ \A i \in 1 .. Len(s) : Append(s, e)[i] = s[i]
        /\ Append(s, e)[Len(s) + 1] = e
    BY <1>1, AppendProperties
  <1> QED
    BY <1>1, <1>2, ListingOf

\* Tail drops the first element.
LEMMA ListingTail ==
    ASSUME NEW s, Listing(s), s # <<>>
    PROVE  /\ Listing(Tail(s)) /\ Len(s) \in Nat \ {0} /\ Len(Tail(s)) = Len(s) - 1
           /\ Head(s) = s[1]
           /\ \A i \in 1 .. Len(s) - 1 : Tail(s)[i] = s[i + 1]
  <1>1. s \in Seq(Range(s))
    BY DEF Listing
  <1>2. /\ Tail(s) \in Seq(Range(s)) /\ Len(Tail(s)) = Len(s) - 1
        /\ \A i \in 1 .. Len(Tail(s)) : Tail(s)[i] = s[i + 1]
    BY <1>1, HeadTailProperties
  <1>3. Len(s) \in Nat \ {0}
    BY <1>1, EmptySeq
  <1>4. Head(s) = s[1]
    BY <1>1
  <1> QED
    BY <1>2, <1>3, <1>4, ListingOf

-----------------------------------------------------------------------------
(* The two threads. *)

\* Where the Qt thread is, and what it means for the match and the thread it
\* joins: a match that is over has no thread left unless a join is under way,
\* and only an engine's turn triggers a search.
QtInv ==
    /\ over \in BOOLEAN
    /\ over /\ qt = "idle" => ai.pc = "none"
    /\ qt = "setup" => over /\ ai.pc = "none"
    /\ qt \in {"conclude", "abort", "restart"} => over
    /\ qt = "trigger" => ~over /\ ai.pc # "searching" /\ players[board.current] = "engine"
    /\ qt \in {"idle", "setup", "conclude", "abort", "restart", "trigger"}

\* A search in a running match is the search of this turn: an engine is to
\* move and the Qt thread is in its event loop.
SearchInv ==
    /\ ai.pc \in {"none", "searching", "returned"} /\ ai.epoch \in Nat
    /\ DOMAIN ai = {"pc", "epoch", "about"} /\ ai = [x \in DOMAIN ai |-> ai[x]]
    /\ epoch \in Nat /\ ai.epoch <= epoch
    /\ ai.pc = "searching" /\ ~over =>
           /\ qt = "idle" /\ players[board.current] = "engine"
           /\ ai.epoch = epoch /\ ai.about = <<started, Len(move_history)>>

\* At most one queued result is of the current epoch, and it is about the
\* current position of the current match.
ResultInv ==
    /\ Listing(posted)
    /\ \A i \in 1 .. Len(posted) :
          /\ posted[i].epoch \in Nat /\ posted[i].epoch <= epoch
          /\ posted[i].epoch = epoch /\ ~over =>
                /\ ai.pc = "returned" /\ qt = "idle"
                /\ players[board.current] = "engine"
                /\ posted[i].about = <<started, Len(move_history)>>
                /\ \A j \in 1 .. Len(posted) : posted[j].epoch = epoch => j = i

ThreadInv == QtInv /\ SearchInv /\ ResultInv

\* What ProcessMove may do to the controller: it goes on in the same epoch,
\* or it ends the match.
LEMMA MoveOutcome ==
    ASSUME NEW action, ProcessMove(action)
    PROVE  \/ over' = TRUE /\ epoch' = epoch + 1 /\ qt' = "conclude"
           \/ /\ UNCHANGED <<over, epoch>>
              /\ qt' = IF players[board'.current] = "engine" THEN "trigger" ELSE "idle"
  BY DEF ProcessMove, ConcludeMatch, NextTurn

\* The application starts without a search.
LEMMA ThreadInit == Init => ThreadInv
  BY EmptySeq DEF Init, ThreadInv, QtInv, SearchInv, ResultInv, Idle, Listing

\* A move played while no search runs, by a human or as the result of the
\* search of this turn, which is no longer queued.
LEMMA MoveKeeps ==
    ASSUME ThreadInv, NEW action, ProcessMove(action), ~over, ai.pc # "searching",
           UNCHANGED <<ai, players, started>>, Listing(posted'),
           \A i \in 1 .. Len(posted') :
              posted'[i].epoch \in Nat /\ posted'[i].epoch < epoch
    PROVE  ThreadInv'
  <1>1. CASE over' = TRUE /\ epoch' = epoch + 1 /\ qt' = "conclude"
    BY <1>1 DEF ThreadInv, QtInv, SearchInv, ResultInv
  <1>2. CASE /\ UNCHANGED <<over, epoch>>
             /\ qt' = IF players[board'.current] = "engine" THEN "trigger" ELSE "idle"
    BY <1>2 DEF ThreadInv, QtInv, SearchInv, ResultInv
  <1> QED
    BY <1>1, <1>2, MoveOutcome

\* Every step keeps searches, results and match together.
LEMMA ThreadNext == ThreadInv /\ [Next]_vars => ThreadInv'
  <1> SUFFICES ASSUME ThreadInv, [Next]_vars PROVE ThreadInv'
    OBVIOUS
  <1> USE DEF ThreadInv, QtInv, SearchInv, ResultInv
  <1>1. ASSUME startMatch PROVE ThreadInv'
    <2>1. CASE Abort("restart")
      BY <2>1 DEF Abort, ghosts
    <2>2. CASE ~Abort("restart")
      BY <1>1, <2>2 DEF startMatch, controller, ghosts
    <2> QED
      BY <2>1, <2>2
  <1>2. ASSUME NEW action \in Considered, Submit(action) PROVE ThreadInv'
    <2>1. /\ ProcessMove(action) /\ UNCHANGED <<ai, players, started, posted>>
          /\ ~over /\ players[board.current] = "human"
      BY <1>2 DEF Submit, isHumanTurn
    <2>2. ai.pc # "searching" /\ \A i \in 1 .. Len(posted) : posted[i].epoch < epoch
      BY <2>1
    <2> QED
      BY <2>1, <2>2, MoveKeeps
  <1>3. ASSUME resignMatch PROVE ThreadInv'
    BY <1>3 DEF resignMatch, ConcludeMatch, ghosts
  <1>4. ASSUME abortMatch PROVE ThreadInv'
    BY <1>4 DEF abortMatch, Abort, ghosts
  <1>5. ASSUME NEW id, deleteMatch(id) PROVE ThreadInv'
    BY <1>5 DEF deleteMatch, controller, ghosts
  <1>6. ASSUME NEW r, Browse(r) PROVE ThreadInv'
    BY <1>6 DEF Browse, controller, ghosts
  <1>7. ASSUME Concluded \/ Aborted PROVE ThreadInv'
    <2>1. /\ ai' = Idle /\ over /\ qt' \in {"idle", "setup"}
          /\ UNCHANGED <<board, move_history, over, epoch, players, posted, started>>
      BY <1>7 DEF Concluded, Aborted
    <2>2. /\ ai'.pc = "none" /\ ai'.epoch = 0 /\ DOMAIN ai' = {"pc", "epoch", "about"}
          /\ ai' = [x \in DOMAIN ai' |-> ai'[x]]
      BY <2>1 DEF Idle
    <2>3. QtInv' /\ ResultInv'
      BY <2>1, <2>2
    <2>4. SearchInv'
      BY <2>1, <2>2
    <2> QED
      BY <2>3, <2>4
  <1>8. ASSUME TriggerAiTurn PROVE ThreadInv'
    <2>1. /\ ai' = [pc |-> "searching", epoch |-> epoch + 1,
                    about |-> <<started, Len(move_history)>>]
          /\ epoch' = epoch + 1 /\ qt = "trigger" /\ qt' = "idle"
          /\ UNCHANGED <<board, move_history, over, players, started, posted>>
      BY <1>8 DEF TriggerAiTurn, ghosts
    <2>2. /\ ai'.pc = "searching" /\ ai'.epoch = epoch'
          /\ ai'.about = <<started, Len(move_history)>>
          /\ DOMAIN ai' = {"pc", "epoch", "about"} /\ ai' = [x \in DOMAIN ai' |-> ai'[x]]
      BY <2>1
    <2>3. QtInv'
      BY <2>1, <2>2
    <2>4. SearchInv'
      BY <2>1, <2>2
    <2>5. ResultInv'
      BY <2>1
    <2> QED
      BY <2>3, <2>4, <2>5
  <1>9. ASSUME SetupFails PROVE ThreadInv'
    BY <1>9 DEF SetupFails, ResetMatch
  <1>10. ASSUME NEW kinds, SetupMatch(kinds) PROVE ThreadInv'
    <2>1. /\ board'.current = "A" /\ epoch' = epoch + 1 /\ over' = FALSE /\ qt = "setup"
          /\ players' = kinds /\ UNCHANGED <<ai, posted>>
          /\ qt' = IF kinds["A"] = "engine" THEN "trigger" ELSE "idle"
      BY <1>10 DEF SetupMatch, ResetMatch, PluginInit
    <2>2. ai.pc = "none"
      BY <2>1
    <2>3. QtInv'
      BY <2>1, <2>2
    <2>4. SearchInv'
      BY <2>1, <2>2
    <2>5. ResultInv'
      BY <2>1
    <2> QED
      BY <2>3, <2>4, <2>5
  <1>11. ASSUME InquireAction PROVE ThreadInv'
    <2>1. PICK action \in EngineAnswers :
             posted' = Append(posted, [action |-> action, epoch |-> ai.epoch,
                                       about |-> ai.about])
      BY <1>11 DEF InquireAction
    <2> DEFINE r == [action |-> action, epoch |-> ai.epoch, about |-> ai.about]
    <2>2. /\ Listing(posted') /\ Len(posted) \in Nat /\ Len(posted') = Len(posted) + 1
          /\ \A i \in 1 .. Len(posted) : posted'[i] = posted[i]
          /\ posted'[Len(posted) + 1] = r
      BY <2>1, ListingAppend
    <2>3. r.epoch = ai.epoch /\ r.about = ai.about
      OBVIOUS
    <2>4. /\ ai.pc = "searching" /\ ai'.pc = "returned"
          /\ ai'.epoch = ai.epoch /\ ai'.about = ai.about
          /\ UNCHANGED <<controller, qt, started>>
      BY <1>11 DEF InquireAction, ghosts
    <2> HIDE DEF r
    <2>5. QtInv'
      BY <2>4 DEF controller
    <2>6. SearchInv'
      <3>1. DOMAIN ai' = {"pc", "epoch", "about"} /\ ai' = [x \in DOMAIN ai' |-> ai'[x]]
        BY <1>11 DEF InquireAction
      <3> QED
        BY <2>4, <3>1 DEF controller
    <2>7. ResultInv'
      <3>1. UNCHANGED <<epoch, over, qt, players, board, started, move_history>>
        BY <2>4 DEF controller
      <3>2. ASSUME NEW i \in 1 .. Len(posted'), posted'[i].epoch = epoch', ~over'
            PROVE  i = Len(posted) + 1
        BY <2>2, <2>4, <3>1, <3>2
      <3>3. \A i \in 1 .. Len(posted') : posted'[i].epoch \in Nat /\ posted'[i].epoch <= epoch'
        BY <2>2, <2>3, <3>1
      <3>4. ~over => ai.epoch = epoch /\ ai.about = <<started, Len(move_history)>>
                     /\ qt = "idle" /\ players[board.current] = "engine"
        BY <2>4
      <3>5. ASSUME NEW i \in 1 .. Len(posted'), posted'[i].epoch = epoch', ~over'
            PROVE  /\ ai'.pc = "returned" /\ qt' = "idle"
                   /\ players'[board'.current] = "engine"
                   /\ posted'[i].about = <<started', Len(move_history')>>
        BY <2>2, <2>3, <2>4, <3>1, <3>2, <3>4, <3>5
      <3> QED
        BY <2>2, <3>2, <3>3, <3>5
    <2> QED
      BY <2>5, <2>6, <2>7
  <1>12. ASSUME DeliverResult PROVE ThreadInv'
    <2>1. /\ posted # <<>> /\ posted' = Tail(posted) /\ qt = "idle"
          /\ UNCHANGED <<players, ai, started>>
      BY <1>12 DEF DeliverResult
    <2>2. /\ Listing(posted') /\ Len(posted) \in Nat \ {0} /\ Len(posted') = Len(posted) - 1
          /\ Head(posted) = posted[1]
          /\ \A i \in 1 .. Len(posted) - 1 : posted'[i] = posted[i + 1]
      BY <2>1, ListingTail
    <2>3. \A i \in 1 .. Len(posted') : i + 1 \in 1 .. Len(posted) /\ posted'[i] = posted[i + 1]
      BY <2>2
    <2>4. CASE IsCurrent(Head(posted))
      <3>1. 1 \in 1 .. Len(posted) /\ posted[1].epoch = epoch /\ ~over
        BY <2>2, <2>4 DEF IsCurrent
      <3>2. ai.pc = "returned" /\ \A j \in 1 .. Len(posted) : posted[j].epoch = epoch => j = 1
        BY <3>1
      <3>3. \A i \in 1 .. Len(posted') : posted'[i].epoch \in Nat /\ posted'[i].epoch < epoch
        BY <2>3, <3>2
      <3>4. ProcessMove(Head(posted).action)
        BY <1>12, <2>4 DEF DeliverResult
      <3> QED
        BY <2>1, <2>2, <3>1, <3>2, <3>3, <3>4, MoveKeeps
    <2>5. CASE ~IsCurrent(Head(posted))
      <3>1. UNCHANGED <<board, move_history, over, epoch, qt, players, ai, started>>
        BY <1>12, <2>5 DEF DeliverResult
      <3> QED
        BY <2>2, <2>3, <3>1
    <2> QED
      BY <2>4, <2>5
  <1>13. ASSUME UNCHANGED vars PROVE ThreadInv'
    BY <1>13 DEF vars, controller, ghosts
  <1> QED
    BY <1>1, <1>2, <1>3, <1>4, <1>5, <1>6, <1>7, <1>8, <1>9, <1>10, <1>11, <1>12, <1>13
       DEF Next, UserSteps, SystemSteps, loadMatch, seekToPly, jumpToStart, jumpToEnd,
           stepBackward, stepForward, togglePlay, OnPlayTimerTimeout
\* The std::thread of a finished or abandoned match is joined before the Qt
\* thread goes back to its event loop, however the matches follow each other.
THEOREM NoThreadOutlivesTheMatchAlways == Spec => []NoThreadOutlivesTheMatch
  <1>1. ThreadInv => NoThreadOutlivesTheMatch
    BY DEF ThreadInv, QtInv, NoThreadOutlivesTheMatch
  <1> QED
    BY ThreadInit, ThreadNext, <1>1, PTL DEF Spec

\* Until the search thread returns, no handler of the Qt thread changes the
\* board or the players it reads without a lock.
THEOREM SearchOwnsItsInputsAlways == Spec => SearchOwnsItsInputs
  <1>1. ASSUME ThreadInv, [Next]_vars
        PROVE  [ai.pc = "searching" => board' = board /\ players' = players]_vars
    <2> SUFFICES ASSUME ai.pc = "searching", Next
                 PROVE  board' = board /\ players' = players
      BY <1>1
    <2>1. qt \notin {"setup", "trigger"} /\ (~over => players[board.current] = "engine")
      BY <1>1 DEF ThreadInv, QtInv, SearchInv
    <2>2. ASSUME NEW action, Submit(action) PROVE FALSE
      BY <2>1, <2>2 DEF Submit, isHumanTurn
    <2>3. ASSUME DeliverResult PROVE ~IsCurrent(Head(posted))
      <3>1. posted # <<>>
        BY <2>3 DEF DeliverResult
      <3>2. Len(posted) \in Nat \ {0} /\ Head(posted) = posted[1]
        BY <1>1, <3>1, ListingTail DEF ThreadInv, ResultInv
      <3> QED
        BY <1>1, <3>2 DEF ThreadInv, ResultInv, IsCurrent
    <2> QED
      BY <2>1, <2>2, <2>3 DEF Next, UserSteps, SystemSteps, startMatch, Abort, abortMatch,
         resignMatch, deleteMatch, loadMatch, seekToPly, jumpToStart, jumpToEnd,
         stepBackward, stepForward, togglePlay, OnPlayTimerTimeout, Browse, Concluded,
         Aborted, TriggerAiTurn, SetupFails, SetupMatch, ResetMatch, InquireAction,
         DeliverResult, controller, ghosts
  <1> QED
    BY ThreadInit, ThreadNext, <1>1, PTL DEF Spec, SearchOwnsItsInputs

\* A search result moves the game, or ends it, only in the match and at the
\* ply it was searched for, however late it is delivered.
THEOREM ResultsAreNeverStaleAlways == Spec => ResultsAreNeverStale
  <1> DEFINE A == Len(posted') < Len(posted) /\ <<board, over>>' # <<board, over>>
                     => Head(posted).about = <<started, Len(move_history)>>
  <1>1. ASSUME ThreadInv, [Next]_vars
        PROVE  [A]_vars
    <2> SUFFICES ASSUME Len(posted') < Len(posted), <<board, over>>' # <<board, over>>, Next
                 PROVE  Head(posted).about = <<started, Len(move_history)>>
      BY <1>1
    <2>1. Listing(posted)
      BY <1>1 DEF ThreadInv, ResultInv
    <2>2. Len(posted) \in Nat
      BY <2>1, ListingOf DEF Listing
    <2>3. ASSUME InquireAction PROVE FALSE
      BY <2>1, <2>2, <2>3, ListingAppend DEF InquireAction
    <2>4. DeliverResult
      <3>1. posted' # posted
        BY <2>2
      <3>2. \A r : ~Browse(r)
        BY <3>1 DEF Browse
      <3>3. ~UserSteps
        BY <3>1, <3>2 DEF UserSteps, startMatch, Abort, abortMatch, Submit,
           resignMatch, deleteMatch, loadMatch, seekToPly, jumpToStart, jumpToEnd,
           stepBackward, stepForward, togglePlay
      <3>4. ~(Concluded \/ Aborted \/ TriggerAiTurn \/ SetupFails \/ OnPlayTimerTimeout)
        BY <3>1, <3>2 DEF Concluded, Aborted, TriggerAiTurn, SetupFails, ResetMatch,
           OnPlayTimerTimeout
      <3>5. \A kinds : ~SetupMatch(kinds)
        BY <3>1 DEF SetupMatch, ResetMatch
      <3> QED
        BY <2>3, <3>3, <3>4, <3>5 DEF Next, SystemSteps
    <2>5. IsCurrent(Head(posted)) /\ posted # <<>>
      BY <2>4 DEF DeliverResult
    <2>6. Len(posted) \in Nat \ {0} /\ Head(posted) = posted[1]
      BY <2>1, <2>5, ListingTail
    <2> QED
      BY <1>1, <2>5, <2>6 DEF ThreadInv, ResultInv, IsCurrent
  <1> QED
    BY ThreadInit, ThreadNext, <1>1, PTL DEF Spec, ResultsAreNeverStale

-----------------------------------------------------------------------------
(* The database. *)

\* The moves of a row are the actions of its match, numbered from one.
Recorded(actions, moves) ==
    moves = [i \in 1 .. Len(actions) |->
                [ply |-> i, action |-> actions[i], stone |-> moves[i].stone]]

\* The rows and the ghosts are functions, and the columns of a row are those
\* of the table.
Tables ==
    /\ nextId \in Nat \ {0} /\ DOMAIN played = 1 .. nextId - 1
    /\ played = [id \in DOMAIN played |-> played[id]]
    /\ \A id \in DOMAIN played : Listing(played[id])
    /\ rows = [id \in DOMAIN rows |-> rows[id]] /\ DOMAIN rows \subseteq DOMAIN played
    /\ \A id \in DOMAIN rows :
          /\ DOMAIN rows[id] = DOMAIN NewRow
          /\ rows[id] = [f \in DOMAIN NewRow |-> rows[id][f]]
          /\ Listing(rows[id].moves)

\* The controller writes to the row of the match it plays, until that match
\* is finished.
Writing ==
    /\ Listing(move_history)
    /\ dbId # NoId => dbId \in DOMAIN played /\ played[dbId] = move_history
    /\ (over /\ qt = "idle") \/ qt = "setup" => dbId = NoId
    /\ outcome.reason # "in_progress"

\* A row of which no write failed is right.
RowIsRight(id) ==
    /\ Recorded(played[id], rows[id].moves)
    /\ id # dbId => /\ rows[id].reason # "in_progress"
                    /\ rows[id].total_plies = Len(rows[id].moves)

RowsAreRight == \A id \in DOMAIN rows \ faults : RowIsRight(id)

RecordInv == Tables /\ Writing /\ RowsAreRight

\* The empty sequence is the function on nothing.
LEMMA EmptyFunction == <<>> \in [{} -> {}] /\ Len(<<>>) = 0 /\ Listing(<<>>)
  <1>1. <<>> \in Seq({}) /\ Len(<<>>) = 0
    BY EmptySeq
  <1>2. <<>> \in [1 .. 0 -> {}] /\ 1 .. 0 = {}
    BY <1>1, LenProperties
  <1> QED
    BY <1>1, <1>2, ListingOf

\* No action, no move.
LEMMA RecordedNothing == Recorded(<<>>, <<>>)
  <1>1. 1 .. Len(<<>>) = {}
    BY EmptyFunction
  <1>2. <<>> = [i \in {} |-> [ply |-> i, action |-> <<>>[i], stone |-> <<>>[i].stone]]
    BY EmptyFunction, Zenon
  <1> QED
    BY <1>1, <1>2, Zenon DEF Recorded

\* One more action, one more move.
LEMMA RecordedAppend ==
    ASSUME NEW p, NEW m, Listing(p), Listing(m), Recorded(p, m), NEW a, NEW stone
    PROVE  Recorded(Append(p, a),
                    Append(m, [ply |-> Len(p) + 1, action |-> a, stone |-> stone]))
  <1> DEFINE e == [ply |-> Len(p) + 1, action |-> a, stone |-> stone]
             q == Append(p, a)
             n == Append(m, e)
  <1>1. /\ Len(p) \in Nat /\ Len(q) = Len(p) + 1 /\ q[Len(p) + 1] = a
        /\ \A i \in 1 .. Len(p) : q[i] = p[i]
    BY ListingAppend
  <1>2. /\ Listing(n) /\ Len(m) \in Nat /\ Len(n) = Len(m) + 1 /\ n[Len(m) + 1] = e
        /\ \A i \in 1 .. Len(m) : n[i] = m[i]
    BY ListingAppend
  <1>3. Len(m) = Len(p)
    <2>1. DOMAIN m = 1 .. Len(m)
      BY ListingOf DEF Listing
    <2>2. DOMAIN m = 1 .. Len(p)
      BY DEF Recorded
    <2> QED
      BY <1>1, <1>2, <2>1, <2>2
  <1>4. n = [i \in 1 .. Len(n) |-> n[i]]
    BY <1>2, ListingOf, LenProperties DEF Listing
  <1>5. e.ply = Len(p) + 1 /\ e.action = a /\ e.stone = stone
    OBVIOUS
  <1>6. e = [ply |-> Len(p) + 1, action |-> a, stone |-> e.stone]
    BY <1>5
  <1>7. \A i \in 1 .. Len(p) : m[i] = [ply |-> i, action |-> p[i], stone |-> m[i].stone]
    BY DEF Recorded
  <1> HIDE DEF e, q, n
  <1>8. \A i \in 1 .. Len(q) : n[i] = [ply |-> i, action |-> q[i], stone |-> n[i].stone]
    <2> TAKE i \in 1 .. Len(q)
    <2>1. CASE i \in 1 .. Len(p)
      <3>1. n[i] = m[i] /\ q[i] = p[i]
        BY <1>1, <1>2, <1>3, <2>1
      <3> QED
        BY <1>7, <2>1, <3>1, Zenon
    <2>2. CASE i = Len(p) + 1
      <3>1. n[i] = e /\ q[i] = a
        BY <1>1, <1>2, <1>3, <2>2
      <3> QED
        BY <1>6, <2>2, <3>1, Zenon
    <2> QED
      BY <1>1, <2>1, <2>2
  <1>9. n = [i \in 1 .. Len(q) |-> [ply |-> i, action |-> q[i], stone |-> n[i].stone]]
    <2>1. n = [i \in 1 .. Len(q) |-> n[i]]
      BY <1>1, <1>2, <1>3, <1>4
    <2> QED
      BY <2>1, <1>8, Zenon
  <1> QED
    BY <1>9, Zenon DEF Recorded, e, q, n

\* A row is as long as its match.
LEMMA RecordedLength ==
    ASSUME NEW p, NEW m, Listing(p), Listing(m), Recorded(p, m)
    PROVE  Len(m) = Len(p)
  <1>1. DOMAIN m = 1 .. Len(m) /\ Len(m) \in Nat /\ Len(p) \in Nat
    BY ListingOf DEF Listing
  <1>2. DOMAIN m = 1 .. Len(p)
    BY DEF Recorded
  <1> QED
    BY <1>1, <1>2

\* The application starts without rows.
LEMMA RecordInit == Init => RecordInv
  <1> SUFFICES ASSUME Init PROVE RecordInv
    OBVIOUS
  <1>1. /\ rows = <<>> /\ played = <<>> /\ nextId = 1 /\ dbId = NoId /\ move_history = <<>>
        /\ outcome.reason = ""
    BY DEF Init, NoOutcome
  <1>2. /\ DOMAIN rows = {} /\ DOMAIN played = {}
        /\ rows = [id \in {} |-> rows[id]] /\ played = [id \in {} |-> played[id]]
    BY <1>1, EmptyFunction, Zenon
  <1>3. Listing(<<>>)
    BY EmptyFunction
  <1>4. Tables
    <2>1. 1 .. nextId - 1 = {} /\ nextId \in Nat \ {0}
      <3>1. nextId = 1
        BY <1>1
      <3> QED
        BY <3>1
    <2>2. /\ played = [id \in DOMAIN played |-> played[id]]
          /\ rows = [id \in DOMAIN rows |-> rows[id]]
      BY <1>2, Zenon
    <2> QED
      <3>1. DOMAIN played = 1 .. nextId - 1 /\ DOMAIN rows \subseteq DOMAIN played
        BY <1>2, <2>1
      <3>2. \A id : id \notin DOMAIN rows /\ id \notin DOMAIN played
        BY <1>2
      <3> QED
        BY <2>1, <2>2, <3>1, <3>2, Zenon DEF Tables
  <1> QED
    BY <1>1, <1>2, <1>3, <1>4 DEF RecordInv, Writing, RowsAreRight

\* A step that writes to neither table nor ghost.
LEMMA NoWrite ==
    ASSUME RecordInv, UNCHANGED <<rows, played, faults, dbId, move_history, nextId>>,
           outcome'.reason # "in_progress",
           (over' /\ qt' = "idle") \/ qt' = "setup" => dbId = NoId
    PROVE  RecordInv'
  BY DEF RecordInv, Tables, Writing, RowsAreRight, RowIsRight

\* ProcessMove writes one move to the row of the match, if there is one.
LEMMA MoveWrites ==
    ASSUME RecordInv, NEW action, ProcessMove(action), UNCHANGED <<dbId, nextId>>, ~over
    PROVE  RecordInv'
  <1>1. /\ qt' # "setup" /\ (over' => qt' # "idle")
        /\ outcome'.reason # "in_progress"
    <2>1. ASSUME NEW result, NEW winner, NEW reason, reason # "in_progress",
                 ConcludeMatch(result, winner, reason)
          PROVE  qt' = "conclude" /\ outcome'.reason # "in_progress"
      BY <2>1 DEF ConcludeMatch
    <2>2. CASE ~IsLegalAction(Side, board, action)
      BY <2>1, <2>2 DEF ProcessMove
    <2>3. CASE IsLegalAction(Side, board, action)
      <3> DEFINE after == PluginApply(Side, board, action)
                 winner == CASE after.result = "PLAYER_A_WIN" -> "A"
                             [] after.result = "PLAYER_B_WIN" -> "B"
                             [] OTHER -> ""
                 reason == IF after.result = "DRAW" THEN "draw" ELSE "five_in_a_row"
      <3>1. reason # "in_progress"
        OBVIOUS
      <3>2. \/ ConcludeMatch(after.result, winner, reason)
            \/ qt' = NextTurn(after.current) /\ UNCHANGED <<over, outcome>>
        BY <2>3, Zenon DEF ProcessMove
      <3> HIDE DEF after, winner, reason
      <3> QED
        BY <2>1, <3>1, <3>2 DEF NextTurn, RecordInv, Writing
    <2> QED
      BY <2>2, <2>3
  <1>2. CASE ~IsLegalAction(Side, board, action)
    BY <1>1, <1>2, NoWrite DEF ProcessMove
  <1>3. CASE IsLegalAction(Side, board, action)
    <2> DEFINE move == [ply |-> Len(move_history'), action |-> action,
                        stone |-> StoneOf(action)]
    <2>1. /\ move_history' = Append(move_history, action)
          /\ IF dbId > 0
             THEN /\ RecordMove(dbId, move)
                  /\ played' = [played EXCEPT ![dbId] = move_history']
             ELSE UNCHANGED <<rows, faults, played>>
      BY <1>3 DEF ProcessMove
    <2>2. Listing(move_history') /\ Len(move_history') = Len(move_history) + 1
      BY <2>1, ListingAppend DEF RecordInv, Writing
    <2>3. dbId # NoId => dbId \in DOMAIN played /\ dbId > 0
      BY DEF RecordInv, Writing, Tables
    <2>4. CASE dbId = NoId
      BY <1>1, <2>1, <2>2, <2>4 DEF NoId, RecordInv, Writing, Tables, RowsAreRight, RowIsRight
    <2>5. CASE dbId # NoId
      <3>1. /\ dbId \in DOMAIN played /\ played[dbId] = move_history
            /\ RecordMove(dbId, move) /\ played' = [played EXCEPT ![dbId] = move_history']
        BY <2>1, <2>3, <2>5 DEF RecordInv, Writing
      <3>2. /\ DOMAIN played' = DOMAIN played /\ played'[dbId] = move_history'
            /\ played' = [id \in DOMAIN played' |-> played'[id]]
            /\ \A id \in DOMAIN played : id # dbId => played'[id] = played[id]
        BY <3>1 DEF RecordInv, Tables
      <3>3. Writing'
        BY <1>1, <2>2, <3>2, <3>1 DEF RecordInv, Writing
      <3>4. CASE UNCHANGED rows /\ (dbId \in DOMAIN rows => dbId \in faults') /\ faults \subseteq faults'
        <4>1. Tables'
          BY <2>2, <3>2, <3>4 DEF RecordInv, Tables
        <4>2. RowsAreRight'
          BY <3>2, <3>4 DEF RecordInv, Tables, RowsAreRight, RowIsRight
        <4> QED
          BY <3>3, <4>1, <4>2 DEF RecordInv
      <3>5. CASE /\ dbId \in DOMAIN rows /\ UNCHANGED faults
                 /\ rows' = [rows EXCEPT ![dbId].moves = Append(@, move)]
        <4> DEFINE row == [rows[dbId] EXCEPT !.moves = Append(@, move)]
        <4>1. /\ DOMAIN row = DOMAIN NewRow /\ row = [f \in DOMAIN NewRow |-> row[f]]
              /\ row.moves = Append(rows[dbId].moves, move)
          BY <3>5 DEF RecordInv, Tables, NewRow
        <4>2. rows' = [rows EXCEPT ![dbId] = row]
          BY <3>5
        <4> HIDE DEF row
        <4>3. /\ DOMAIN rows' = DOMAIN rows /\ rows'[dbId] = row
              /\ rows' = [id \in DOMAIN rows' |-> rows'[id]]
              /\ \A id \in DOMAIN rows : id # dbId => rows'[id] = rows[id]
          BY <3>5, <4>2 DEF RecordInv, Tables
        <4>4. Listing(rows[dbId].moves) /\ Listing(row.moves)
          <5>1. Listing(rows[dbId].moves)
            BY <3>5 DEF RecordInv, Tables
          <5>2. \A e : Listing(Append(rows[dbId].moves, e))
            BY <5>1, ListingAppend
          <5>3. row.moves = Append(rows[dbId].moves, move)
            BY <4>1
          <5> HIDE DEF move
          <5> QED
            BY <5>1, <5>2, <5>3
        <4>5. Tables'
          BY <2>2, <3>2, <4>1, <4>3, <4>4 DEF RecordInv, Tables
        <4>6. dbId \notin faults => Recorded(played'[dbId], rows'[dbId].moves)
          <5>1. SUFFICES ASSUME dbId \notin faults
                         PROVE  Recorded(Append(move_history, action),
                                         Append(rows[dbId].moves, move))
            BY <2>1, <3>2, <4>1, <4>3
          <5>2. Recorded(move_history, rows[dbId].moves)
            BY <3>1, <3>5, <5>1 DEF RecordInv, RowsAreRight, RowIsRight
          <5>3. move = [ply |-> Len(move_history) + 1, action |-> action,
                        stone |-> StoneOf(action)]
            BY <2>2
          <5> QED
            BY <4>4, <5>2, <5>3, RecordedAppend DEF RecordInv, Writing
        <4>7. RowsAreRight'
          BY <3>2, <3>5, <4>3, <4>6 DEF RecordInv, Tables, RowsAreRight, RowIsRight
        <4> QED
          BY <3>3, <4>5, <4>7 DEF RecordInv
      <3> QED
        BY <3>1, <3>4, <3>5 DEF RecordMove, Write
    <2> QED
      BY <2>4, <2>5
  <1> QED
    BY <1>2, <1>3

\* The rest of a handler that ends a match finishes its row.
LEMMA FinishWrites ==
    ASSUME RecordInv, NEW result, NEW winner, NEW reason, reason # "in_progress",
           IF dbId > 0 THEN FinishMatch(dbId, result, winner, reason)
           ELSE UNCHANGED <<rows, faults>>,
           dbId' = NoId, UNCHANGED <<nextId, played, move_history, outcome>>
    PROVE  RecordInv'
  <1>1. Writing'
    BY DEF RecordInv, Writing, NoId
  <1>2. dbId # NoId => dbId \in DOMAIN played /\ dbId > 0 /\ played[dbId] = move_history
    BY DEF RecordInv, Writing, Tables
  <1>3. CASE /\ UNCHANGED rows /\ faults \subseteq faults'
             /\ dbId # NoId /\ dbId \in DOMAIN rows => dbId \in faults'
    <2>1. Tables'
      BY <1>3 DEF RecordInv, Tables
    <2>2. RowsAreRight'
      BY <1>3, <2>1 DEF RecordInv, Tables, RowsAreRight, RowIsRight
    <2> QED
      BY <1>1, <2>1, <2>2 DEF RecordInv
  <1>4. CASE /\ dbId # NoId /\ dbId \in DOMAIN rows /\ UNCHANGED faults
             /\ rows' = [rows EXCEPT ![dbId] =
                   [@ EXCEPT !.result = result, !.winner = winner, !.reason = reason,
                             !.total_plies = Len(move_history),
                             !.opening_path = opening_path]]
    <2> DEFINE row == [rows[dbId] EXCEPT !.result = result, !.winner = winner,
                          !.reason = reason, !.total_plies = Len(move_history),
                          !.opening_path = opening_path]
    <2>1. /\ DOMAIN row = DOMAIN NewRow /\ row = [f \in DOMAIN NewRow |-> row[f]]
          /\ row.moves = rows[dbId].moves /\ row.reason = reason
          /\ row.total_plies = Len(move_history)
      BY <1>4 DEF RecordInv, Tables, NewRow
    <2>2. rows' = [rows EXCEPT ![dbId] = row]
      BY <1>4
    <2> HIDE DEF row
    <2>3. /\ DOMAIN rows' = DOMAIN rows /\ rows'[dbId] = row
          /\ rows' = [id \in DOMAIN rows' |-> rows'[id]]
          /\ \A id \in DOMAIN rows : id # dbId => rows'[id] = rows[id]
      BY <1>4, <2>2 DEF RecordInv, Tables
    <2>4. Tables'
      BY <1>4, <2>1, <2>3 DEF RecordInv, Tables
    <2>5. dbId \notin faults =>
             Recorded(played[dbId], row.moves) /\ row.total_plies = Len(row.moves)
      <3>1. SUFFICES ASSUME dbId \notin faults
                     PROVE  Recorded(played[dbId], row.moves) /\ row.total_plies = Len(row.moves)
        OBVIOUS
      <3>2. /\ Recorded(move_history, rows[dbId].moves) /\ Listing(move_history)
            /\ Listing(rows[dbId].moves)
        BY <1>2, <1>4, <3>1 DEF RecordInv, RowsAreRight, RowIsRight, Writing, Tables
      <3> QED
        BY <1>2, <1>4, <2>1, <3>2, RecordedLength
    <2>6. RowsAreRight'
      BY <1>4, <2>1, <2>3, <2>5 DEF RecordInv, Tables, RowsAreRight, RowIsRight
    <2> QED
      BY <1>1, <2>4, <2>6 DEF RecordInv
  <1>5. CASE dbId = NoId
    BY <1>3, <1>5 DEF NoId
  <1>6. CASE dbId # NoId
    BY <1>2, <1>3, <1>4, <1>6 DEF FinishMatch, Write
  <1> QED
    BY <1>5, <1>6

\* Every step keeps the rows true.
LEMMA RecordNext == ThreadInv /\ RecordInv /\ [Next]_vars => RecordInv'
  <1> SUFFICES ASSUME ThreadInv, RecordInv, [Next]_vars PROVE RecordInv'
    OBVIOUS
  <1>0. /\ (over /\ qt = "idle") \/ qt = "setup" => dbId = NoId
        /\ outcome.reason # "in_progress"
    BY DEF RecordInv, Writing
  <1>1. ASSUME startMatch PROVE RecordInv'
    <2>1. CASE Abort("restart")
      BY <1>0, <2>1, NoWrite DEF Abort, database, ghosts
    <2>2. CASE ~Abort("restart")
      BY <1>0, <1>1, <2>2, NoWrite DEF startMatch, controller, database, ghosts
    <2> QED
      BY <2>1, <2>2
  <1>2. ASSUME NEW action \in Considered, Submit(action) PROVE RecordInv'
    BY <1>2, MoveWrites DEF Submit, isHumanTurn
  <1>3. ASSUME resignMatch PROVE RecordInv'
    BY <1>0, <1>3, NoWrite DEF resignMatch, ConcludeMatch, database, ghosts
  <1>4. ASSUME abortMatch PROVE RecordInv'
    BY <1>0, <1>4, NoWrite DEF abortMatch, Abort, database, ghosts
  <1>5. ASSUME NEW id \in DOMAIN rows, deleteMatch(id) PROVE RecordInv'
    <2>1. /\ rows' = [x \in DOMAIN rows \ {id} |-> rows[x]]
          /\ UNCHANGED <<nextId, played, faults, dbId, move_history, over, qt, outcome>>
      BY <1>5 DEF deleteMatch, DeleteMatch, Restrict, controller, ghosts
    <2>2. /\ DOMAIN rows' = DOMAIN rows \ {id} /\ rows' = [x \in DOMAIN rows' |-> rows'[x]]
          /\ \A x \in DOMAIN rows' : rows'[x] = rows[x]
      BY <2>1
    <2> QED
      BY <2>1, <2>2 DEF RecordInv, Tables, Writing, RowsAreRight, RowIsRight
  <1>6. ASSUME NEW r, Browse(r) PROVE RecordInv'
    BY <1>0, <1>6, NoWrite DEF Browse, controller, database, ghosts
  <1>7. ASSUME Concluded PROVE RecordInv'
    BY <1>0, <1>7, FinishWrites DEF Concluded
  <1>8. ASSUME Aborted PROVE RecordInv'
    BY <1>0, <1>8, FinishWrites DEF Aborted
  <1>9. ASSUME TriggerAiTurn PROVE RecordInv'
    BY <1>0, <1>9, NoWrite DEF TriggerAiTurn, database, ghosts, ThreadInv, QtInv
  <1>10. ASSUME SetupFails PROVE RecordInv'
    <2>1. /\ UNCHANGED <<rows, nextId, played, faults>> /\ dbId = NoId /\ dbId' = NoId
          /\ move_history' = <<>> /\ outcome'.reason # "in_progress"
      BY <1>0, <1>10 DEF SetupFails, ResetMatch, NoOutcome
    <2>2. Listing(<<>>)
      BY EmptySeq DEF Listing
    <2> QED
      BY <2>1, <2>2 DEF RecordInv, Tables, Writing, RowsAreRight, RowIsRight
  <1>11. ASSUME NEW kinds, SetupMatch(kinds) PROVE RecordInv'
    <2>1. /\ dbId = NoId /\ move_history' = <<>> /\ outcome'.reason # "in_progress"
          /\ ~over' /\ qt' # "setup" /\ UNCHANGED faults
      BY <1>0, <1>11 DEF SetupMatch, ResetMatch, NoOutcome
    <2>2. Listing(<<>>)
      BY EmptySeq DEF Listing
    <2>3. CASE dbId' = NoId /\ UNCHANGED <<rows, played, nextId>>
      BY <2>1, <2>2, <2>3 DEF RecordInv, Tables, Writing, RowsAreRight, RowIsRight
    <2>4. CASE /\ rows' = Insert(rows, nextId, NewRow)
               /\ played' = Insert(played, nextId, <<>>)
               /\ dbId' = nextId /\ nextId' = nextId + 1
      <3>1. nextId \in Nat \ {0} /\ nextId \notin DOMAIN played /\ nextId \notin DOMAIN rows
        BY DEF RecordInv, Tables
      <3>2. /\ DOMAIN rows' = DOMAIN rows \cup {nextId} /\ rows'[nextId] = NewRow
            /\ rows' = [id \in DOMAIN rows' |-> rows'[id]]
            /\ \A id \in DOMAIN rows : rows'[id] = rows[id]
        BY <2>4, <3>1 DEF Insert
      <3>3. /\ DOMAIN played' = DOMAIN played \cup {nextId} /\ played'[nextId] = <<>>
            /\ played' = [id \in DOMAIN played' |-> played'[id]]
            /\ \A id \in DOMAIN played : played'[id] = played[id]
        BY <2>4, <3>1 DEF Insert
      <3>4. NewRow = [f \in DOMAIN NewRow |-> NewRow[f]] /\ NewRow.moves = <<>>
        BY DEF NewRow
      <3>5. DOMAIN played' = 1 .. nextId' - 1
        <4>1. 1 .. nextId = (1 .. nextId - 1) \cup {nextId}
          BY <3>1
        <4>2. DOMAIN played = 1 .. nextId - 1
          BY DEF RecordInv, Tables
        <4>3. nextId' - 1 = nextId
          BY <2>4, <3>1
        <4>4. DOMAIN played' = DOMAIN played \cup {nextId}
          BY <3>3
        <4> QED
          BY <4>1, <4>2, <4>3, <4>4, Zenon
      <3>6. Tables'
        BY <2>2, <2>4, <3>1, <3>2, <3>3, <3>4, <3>5 DEF RecordInv, Tables
      <3>7. Writing'
        BY <2>1, <2>2, <2>4, <3>3 DEF RecordInv, Writing
      <3>8. Recorded(<<>>, <<>>)
        BY RecordedNothing
      <3>9. RowsAreRight'
        BY <2>1, <2>4, <3>2, <3>3, <3>4, <3>8 DEF RecordInv, Tables, RowsAreRight, RowIsRight, NoId
      <3> QED
        BY <3>6, <3>7, <3>9 DEF RecordInv
    <2> QED
      BY <1>11, <2>3, <2>4 DEF SetupMatch
  <1>12. ASSUME InquireAction PROVE RecordInv'
    BY <1>0, <1>12, NoWrite DEF InquireAction, controller, database, ghosts
  <1>13. ASSUME DeliverResult PROVE RecordInv'
    <2>1. CASE IsCurrent(Head(posted))
      BY <1>13, <2>1, MoveWrites DEF DeliverResult, IsCurrent
    <2>2. CASE ~IsCurrent(Head(posted))
      BY <1>0, <1>13, <2>2, NoWrite DEF DeliverResult
    <2> QED
      BY <2>1, <2>2
  <1>14. ASSUME UNCHANGED vars PROVE RecordInv'
    BY <1>0, <1>14, NoWrite DEF vars, controller, database, ghosts
  <1> QED
    BY <1>1, <1>2, <1>3, <1>4, <1>5, <1>6, <1>7, <1>8, <1>9, <1>10, <1>11, <1>12, <1>13,
       <1>14
       DEF Next, UserSteps, SystemSteps, loadMatch, seekToPly, jumpToStart, jumpToEnd,
           stepBackward, stepForward, togglePlay, OnPlayTimerTimeout

\* Every row of which no write failed holds exactly the actions its match took
\* and is in progress only while it is played.
THEOREM RecordsMatchTheGameAlways == Spec => []RecordsMatchTheGame
  <1>1. RecordInv => RecordsMatchTheGame
    BY DEF RecordInv, RowsAreRight, RowIsRight, Recorded, RecordsMatchTheGame
  <1> QED
    BY ThreadInit, ThreadNext, RecordInit, RecordNext, <1>1, PTL DEF Spec

-----------------------------------------------------------------------------
(* The replay. *)

\* Every action was legal where it was played, and its move is stored with the
\* stone that was due there.
StonesAreDue(actions, moves) ==
    \A i \in 1 .. Len(actions) :
        LET prior == BoardAfter(SubSeq(actions, 1, i - 1))
        IN  IsLegalAction(Side, prior, actions[i]) /\ moves[i].stone = prior.stone

\* The board is where the recorded actions lead, and every row of which no
\* write failed has the right stones.
Positions ==
    /\ board = BoardAfter(move_history)
    /\ \A id \in DOMAIN rows \ faults : StonesAreDue(played[id], rows[id].moves)

\* A replay screen shows what Reconstruct makes of its moves at its ply.
IsScreen(r) ==
    /\ DOMAIN r = {"id", "moves", "ply", "playing", "view"}
    /\ Listing(r.moves) /\ r.ply \in 0 .. Len(r.moves)
    /\ r.view = Reconstruct(r.moves, r.ply)

\* The screen holds the moves of a match that is not being played.
Screen ==
    /\ IsScreen(replay)
    /\ replay.id # NoId => replay.id \in DOMAIN played /\ replay.id # dbId
    /\ replay.id \in DOMAIN played \ faults =>
           /\ Recorded(played[replay.id], replay.moves)
           /\ StonesAreDue(played[replay.id], replay.moves)

ReplayInv == Positions /\ Screen

-----------------------------------------------------------------------------
(* Positions. *)

\* A set of naturals that is not empty has a least element.
LEMMA LeastNatural ==
    ASSUME NEW S \in SUBSET Nat, S # {}
    PROVE  \E x \in S : \A y \in S : x <= y
  <1>1. PICK x \in S : \A y \in S : ~ (<<y, x>> \in OpToRel(<, Nat))
    BY NatLessThanWellFounded, WFMin, Zenon
  <1>2. ASSUME NEW y \in S
        PROVE  ~ (y < x)
    <2>1. <<y, x>> \in Nat \X Nat /\ <<y, x>>[1] = y /\ <<y, x>>[2] = x
      OBVIOUS
    <2> QED
      BY <1>1, <2>1, Zenon DEF OpToRel
  <1> QED
    BY <1>2

\* Induction, for a set of naturals.
LEMMA SetInduction ==
    ASSUME NEW S, 0 \in S, \A n \in Nat : n \in S => n + 1 \in S
    PROVE  \A n \in Nat : n \in S
  <1> SUFFICES ASSUME Nat \ S # {} PROVE FALSE
    OBVIOUS
  <1>1. PICK x \in Nat \ S : \A y \in Nat \ S : x <= y
    BY LeastNatural
  <1>2. x # 0 /\ x - 1 \in Nat /\ x = (x - 1) + 1
    BY <1>1
  <1>3. x - 1 \in S
    BY <1>1, <1>2
  <1> QED
    BY <1>1, <1>2, <1>3

\* A board of the plugin host.
PluginRecord ==
    [cells : [Cells(Side) -> Stones], phase : Phases, current : Seats, stone : Stones,
     stones : [Seats -> Stones], count : Nat, result : Results]

\* A new board is one.
LEMMA NewBoard == DesktopConstants => PluginInit(Side) \in PluginRecord
  BY DEF DesktopConstants, PluginInit, PluginRecord, Phases, Seats, Stones, Colours, Results

\* The opening's bookkeeping after a stone leaves the stones alone.
LEMMA TransitionKeepsCells ==
    ASSUME NEW p \in PluginRecord
    PROVE  PluginTransition(p) \in PluginRecord /\ PluginTransition(p).cells = p.cells
  <1> USE DEF PluginRecord, Phases, Seats, Stones, Colours
  <1>1. CASE p.phase = "PLACE_INITIAL_THREE" /\ p.count = 1
    BY <1>1 DEF PluginTransition
  <1>2. CASE p.phase = "PLACE_INITIAL_THREE" /\ p.count = 2
    BY <1>2 DEF PluginTransition
  <1>3. CASE p.phase = "PLACE_INITIAL_THREE" /\ p.count = 3
    BY <1>3 DEF PluginTransition
  <1>4. CASE p.phase = "SWAP2_PLACE_TWO" /\ p.count = 4
    BY <1>4 DEF PluginTransition
  <1>5. CASE p.phase = "SWAP2_PLACE_TWO" /\ p.count = 5
    BY <1>5 DEF PluginTransition
  <1>6. CASE p.phase = "STANDARD"
    BY <1>6 DEF PluginTransition, Other, OtherStone
  <1> QED
    BY <1>1, <1>2, <1>3, <1>4, <1>5, <1>6 DEF PluginTransition

\* The stones on the board after an action.
CellsAfter(b, action) ==
    IF IsPlacement(Side, action) THEN [b.cells EXCEPT ![action] = b.stone] ELSE b.cells

\* A legal action puts the stone that is due on its cell, or no stone at all.
LEMMA ApplyPutsTheStone ==
    ASSUME NEW b \in PluginRecord, NEW action, IsLegalAction(Side, b, action)
    PROVE  /\ PluginApply(Side, b, action) \in PluginRecord
           /\ PluginApply(Side, b, action).cells = CellsAfter(b, action)
  <1> USE DEF PluginRecord
  <1>1. CASE IsPlacement(Side, action)
    <2> DEFINE p == [b EXCEPT !.cells[action] = b.stone, !.count = @ + 1]
               cells1 == [b.cells EXCEPT ![action] = b.stone]
    <2>1. p \in PluginRecord /\ p.cells = CellsAfter(b, action)
      <3>1. cells1 \in [Cells(Side) -> Stones] /\ cells1 = CellsAfter(b, action)
        BY <1>1 DEF IsPlacement, CellsAfter
      <3>2. p = [b EXCEPT !.cells = cells1, !.count = b.count + 1]
        OBVIOUS
      <3>3. b.count + 1 \in Nat
        OBVIOUS
      <3> HIDE DEF p, cells1
      <3> QED
        BY <3>1, <3>2, <3>3
    <2>2. \A r \in Results : [p EXCEPT !.result = r] \in PluginRecord
                             /\ [p EXCEPT !.result = r].cells = p.cells
      <3> HIDE DEF p
      <3> QED
        BY <2>1
    <2>3. WinFor(b.current) \in Results /\ "DRAW" \in Results
      BY DEF WinFor, Results
    <2>4. PluginPlace(Side, b, action) \in
            {[p EXCEPT !.result = WinFor(b.current)], [p EXCEPT !.result = "DRAW"],
             PluginTransition(p)}
      <3> DEFINE won == CheckWin(Side, p.cells, action, p.stone)
      <3>1. CASE won
        BY <3>1, Zenon DEF PluginPlace
      <3>2. CASE ~won /\ p.count = NumCells(Side)
        BY <3>2, Zenon DEF PluginPlace
      <3>3. CASE ~won /\ p.count # NumCells(Side)
        BY <3>3, Zenon DEF PluginPlace
      <3> QED
        BY <3>1, <3>2, <3>3, Zenon
    <2>5. PluginApply(Side, b, action) = PluginPlace(Side, b, action)
      BY <1>1 DEF PluginApply
    <2> HIDE DEF p
    <2>6. PluginTransition(p) \in PluginRecord /\ PluginTransition(p).cells = p.cells
      BY <2>1, TransitionKeepsCells
    <2> HIDE DEF PluginRecord
    <2> QED
      BY <2>1, <2>2, <2>3, <2>4, <2>5, <2>6
  <1>2. CASE ~IsPlacement(Side, action)
    <2>1. action \in {swap2_choose_white(Side), swap2_choose_black(Side),
                      swap2_place_two(Side), choose_white(Side), choose_black(Side)}
      BY <1>2 DEF IsLegalAction, Phases, PlacingPhases
    <2>2. PluginApply(Side, b, action) = PluginControl(Side, b, action)
      BY <1>2 DEF PluginApply
    <2>3. /\ PluginControl(Side, b, action) \in PluginRecord
          /\ PluginControl(Side, b, action).cells = b.cells
      BY <2>1 DEF PluginControl, Phases, Seats, Stones, Colours
    <2> QED
      BY <1>2, <2>2, <2>3 DEF CellsAfter
  <1> QED
    BY <1>1, <1>2

\* The positions along the first n actions.
IsGame(f, actions, n) ==
    f = [i \in 0 .. n |-> IF i = 0 THEN PluginInit(Side)
                          ELSE PluginApply(Side, f[i - 1], actions[i])]

\* The defining equation of a game, at one step.
LEMMA GameAt ==
    ASSUME NEW f, NEW p, NEW n, IsGame(f, p, n), NEW i \in 0 .. n
    PROVE  f[i] = IF i = 0 THEN PluginInit(Side) ELSE PluginApply(Side, f[i - 1], p[i])
  <1> DEFINE h == [j \in 0 .. n |-> IF j = 0 THEN PluginInit(Side)
                                    ELSE PluginApply(Side, f[j - 1], p[j])]
  <1>1. f = h
    BY DEF IsGame
  <1>2. h[i] = IF i = 0 THEN PluginInit(Side) ELSE PluginApply(Side, f[i - 1], p[i])
    OBVIOUS
  <1> HIDE DEF h
  <1> QED
    BY <1>1, <1>2, Zenon

\* Any actions can be applied one after the other,
LEMMA GameExists ==
    ASSUME NEW p
    PROVE  \A n \in Nat : \E f : IsGame(f, p, n)
  <1> DEFINE S == {n \in Nat : \E f : IsGame(f, p, n)}
  <1>1. 0 \in S
    <2> DEFINE f == [i \in {0} |-> PluginInit(Side)]
    <2>1. f = [i \in 0 .. 0 |-> IF i = 0 THEN PluginInit(Side)
                                ELSE PluginApply(Side, f[i - 1], p[i])]
      OBVIOUS
    <2>2. IsGame(f, p, 0)
      BY <2>1, Zenon DEF IsGame
    <2> QED
      BY <2>2
  <1>2. ASSUME NEW n \in Nat, n \in S
        PROVE  n + 1 \in S
    <2>1. PICK f : IsGame(f, p, n)
      BY <1>2
    <2> DEFINE g == [i \in 0 .. n + 1 |-> IF i = 0 THEN PluginInit(Side)
                                          ELSE PluginApply(Side, f[i - 1], p[i])]
    <2>2. \A i \in 0 .. n : g[i] = f[i]
      <3> SUFFICES ASSUME NEW i \in 0 .. n PROVE g[i] = f[i]
        OBVIOUS
      <3>1. f[i] = IF i = 0 THEN PluginInit(Side) ELSE PluginApply(Side, f[i - 1], p[i])
        BY <2>1, GameAt
      <3>2. g[i] = IF i = 0 THEN PluginInit(Side) ELSE PluginApply(Side, f[i - 1], p[i])
        OBVIOUS
      <3> HIDE DEF g
      <3> QED
        BY <3>1, <3>2
    <2>3. \A i \in 0 .. n + 1 : g[i] = IF i = 0 THEN PluginInit(Side)
                                       ELSE PluginApply(Side, g[i - 1], p[i])
      <3> SUFFICES ASSUME NEW i \in 0 .. n + 1
                   PROVE  g[i] = IF i = 0 THEN PluginInit(Side)
                                 ELSE PluginApply(Side, g[i - 1], p[i])
        OBVIOUS
      <3>1. g[i] = IF i = 0 THEN PluginInit(Side) ELSE PluginApply(Side, f[i - 1], p[i])
        OBVIOUS
      <3>2. i # 0 => i - 1 \in 0 .. n
        OBVIOUS
      <3> HIDE DEF g
      <3> QED
        BY <2>2, <3>1, <3>2
    <2>4. g = [i \in 0 .. n + 1 |-> g[i]]
      OBVIOUS
    <2> HIDE DEF g
    <2>5. IsGame(g, p, n + 1)
      BY <2>3, <2>4 DEF IsGame
    <2> QED
      BY <2>5
  <1> HIDE DEF S
  <1>3. \A n \in Nat : n \in S
    BY <1>1, <1>2, SetInduction
  <1> QED
    BY <1>3 DEF S

\* and BoardAfter is where that leads.
LEMMA BoardAfterIs ==
    ASSUME NEW p, Len(p) \in Nat
    PROVE  \E f : IsGame(f, p, Len(p)) /\ BoardAfter(p) = f[Len(p)]
  <1> DEFINE n == Len(p)
             F == CHOOSE f : f = [i \in 0 .. n |-> IF i = 0 THEN PluginInit(Side)
                                                   ELSE PluginApply(Side, f[i - 1], p[i])]
  <1>1. \E f : f = [i \in 0 .. n |-> IF i = 0 THEN PluginInit(Side)
                                     ELSE PluginApply(Side, f[i - 1], p[i])]
    <2>1. \E f : IsGame(f, p, n)
      BY GameExists
    <2> QED
      BY <2>1, Zenon DEF IsGame
  <1>2. IsGame(F, p, n)
    BY <1>1, Zenon DEF IsGame
  <1>3. BoardAfter(p) = F[n]
    BY Zenon DEF BoardAfter
  <1> QED
    BY <1>2, <1>3, Zenon

\* Games that take the same actions come to the same positions.
LEMMA GamesAgree ==
    ASSUME NEW n \in Nat, NEW m \in Nat, m <= n,
           NEW f, NEW p, IsGame(f, p, n), NEW g, NEW q, IsGame(g, q, m),
           \A i \in 1 .. m : q[i] = p[i]
    PROVE  g[m] = f[m]
  <1> DEFINE S == {k \in Nat : k \in 0 .. m => g[k] = f[k]}
  <1>1. 0 \in S
    <2>1. 0 \in 0 .. m /\ 0 \in 0 .. n
      OBVIOUS
    <2>2. /\ g[0] = IF 0 = 0 THEN PluginInit(Side) ELSE PluginApply(Side, g[0 - 1], q[0])
          /\ f[0] = IF 0 = 0 THEN PluginInit(Side) ELSE PluginApply(Side, f[0 - 1], p[0])
      BY <2>1, GameAt, Zenon
    <2> QED
      BY <2>2
  <1>2. ASSUME NEW k \in Nat, k \in S
        PROVE  k + 1 \in S
    <2> DEFINE j == k + 1
    <2> SUFFICES ASSUME j \in 0 .. m PROVE g[j] = f[j]
      OBVIOUS
    <2>0. j \in 1 .. m /\ j \in 0 .. n /\ j - 1 = k /\ k \in 0 .. m /\ j # 0
      OBVIOUS
    <2>1. g[j] = IF j = 0 THEN PluginInit(Side) ELSE PluginApply(Side, g[j - 1], q[j])
      BY GameAt
    <2>2. f[j] = IF j = 0 THEN PluginInit(Side) ELSE PluginApply(Side, f[j - 1], p[j])
      BY <2>0, GameAt
    <2>3. g[k] = f[k] /\ q[j] = p[j]
      BY <1>2, <2>0
    <2> HIDE DEF j
    <2> QED
      BY <2>0, <2>1, <2>2, <2>3
  <1> HIDE DEF S
  <1>3. m \in S
    BY <1>1, <1>2, SetInduction
  <1> QED
    BY <1>3 DEF S

\* Before the first action the board is new.
LEMMA BoardAfterNothing == BoardAfter(<<>>) = PluginInit(Side)
  <1>1. Len(<<>>) = 0 /\ 0 \in 0 .. 0
    OBVIOUS
  <1>2. PICK f : IsGame(f, <<>>, 0) /\ BoardAfter(<<>>) = f[0]
    BY <1>1, BoardAfterIs
  <1>3. f[0] = IF 0 = 0 THEN PluginInit(Side) ELSE PluginApply(Side, f[0 - 1], <<>>[0])
    BY <1>1, <1>2, GameAt, Zenon
  <1> QED
    BY <1>2, <1>3

\* One more action is applied to where the others lead.
LEMMA BoardAfterAppend ==
    ASSUME NEW p, Listing(p), NEW a
    PROVE  BoardAfter(Append(p, a)) = PluginApply(Side, BoardAfter(p), a)
  <1> DEFINE q == Append(p, a)
             n == Len(p)
  <1>1. /\ n \in Nat /\ Len(q) = n + 1 /\ q[n + 1] = a /\ \A i \in 1 .. n : q[i] = p[i]
    BY ListingAppend
  <1> HIDE DEF q, n
  <1>2. PICK f : IsGame(f, q, n + 1) /\ BoardAfter(q) = f[n + 1]
    BY <1>1, BoardAfterIs
  <1>3. PICK g : IsGame(g, p, n) /\ BoardAfter(p) = g[n]
    BY <1>1, BoardAfterIs DEF n
  <1>4. f[n + 1] = IF n + 1 = 0 THEN PluginInit(Side)
                   ELSE PluginApply(Side, f[(n + 1) - 1], q[n + 1])
    <2>1. n + 1 \in 0 .. n + 1
      BY <1>1
    <2> QED
      BY <1>2, <2>1, GameAt, Zenon
  <1>5. g[n] = f[n]
    <2>1. n + 1 \in Nat /\ n <= n + 1 /\ \A i \in 1 .. n : p[i] = q[i]
      BY <1>1
    <2> QED
      BY <1>1, <1>2, <1>3, <2>1, GamesAgree
  <1>6. n + 1 # 0 /\ (n + 1) - 1 = n
    BY <1>1
  <1> QED
    BY <1>1, <1>2, <1>3, <1>4, <1>5, <1>6 DEF q

\* The first k elements.
LEMMA PrefixIs ==
    ASSUME NEW p, Listing(p), NEW k \in 0 .. Len(p)
    PROVE  LET q == SubSeq(p, 1, k)
           IN  /\ Listing(q) /\ Len(q) = k /\ DOMAIN q = 1 .. k
               /\ \A i \in 1 .. k : q[i] = p[i]
  <1>1. p \in Seq(Range(p)) /\ Len(p) \in Nat
    BY ListingOf DEF Listing
  <1>2. \A i \in 1 .. Len(p) : p[i] \in Range(p)
    BY <1>1
  <1> DEFINE q == SubSeq(p, 1, k)
  <1>3. q \in Seq(Range(p)) /\ Len(q) = k /\ \A i \in 1 .. k : q[i] = p[i]
    BY <1>1, <1>2, SubSeqProperties
  <1> HIDE DEF q
  <1>4. Listing(q) /\ DOMAIN q = 1 .. Len(q)
    BY <1>3, ListingOf
  <1> QED
    BY <1>3, <1>4 DEF q

\* Listings with the same elements are the same.
LEMMA SameListing ==
    ASSUME NEW p, NEW q, Listing(p), Listing(q), Len(p) = Len(q),
           \A i \in 1 .. Len(p) : p[i] = q[i]
    PROVE  p = q
  <1>1. p \in Seq(Range(p) \cup Range(q)) /\ q \in Seq(Range(p) \cup Range(q))
    BY SeqMonotonic DEF Listing
  <1> QED
    BY <1>1, SeqEqual

\* A longer listing has the same prefixes.
LEMMA PrefixOfAppend ==
    ASSUME NEW p, Listing(p), NEW a, NEW k \in 0 .. Len(p)
    PROVE  SubSeq(Append(p, a), 1, k) = SubSeq(p, 1, k)
  <1> DEFINE q == Append(p, a)
  <1>1. /\ Listing(q) /\ Len(p) \in Nat /\ Len(q) = Len(p) + 1
        /\ \A i \in 1 .. Len(p) : q[i] = p[i]
    BY ListingAppend
  <1> HIDE DEF q
  <1>2. k \in 0 .. Len(q) /\ \A i \in 1 .. k : q[i] = p[i]
    BY <1>1
  <1>3. /\ Listing(SubSeq(q, 1, k)) /\ Len(SubSeq(q, 1, k)) = k
        /\ \A i \in 1 .. k : SubSeq(q, 1, k)[i] = q[i]
    BY <1>1, <1>2, PrefixIs
  <1>4. /\ Listing(SubSeq(p, 1, k)) /\ Len(SubSeq(p, 1, k)) = k
        /\ \A i \in 1 .. k : SubSeq(p, 1, k)[i] = p[i]
    BY PrefixIs
  <1>5. SubSeq(q, 1, k) = SubSeq(p, 1, k)
    BY <1>2, <1>3, <1>4, SameListing
  <1> QED
    BY <1>5 DEF q

\* A listing is its longest prefix.
LEMMA WholePrefix ==
    ASSUME NEW p, Listing(p)
    PROVE  SubSeq(p, 1, Len(p)) = p
  <1>1. Len(p) \in Nat /\ Len(p) \in 0 .. Len(p)
    BY ListingOf DEF Listing
  <1> QED
    BY <1>1, PrefixIs, SameListing

\* The position after k actions, from the one before.
LEMMA BoardAfterStep ==
    ASSUME NEW p, Listing(p), NEW k \in 0 .. Len(p) - 1
    PROVE  BoardAfter(SubSeq(p, 1, k + 1))
             = PluginApply(Side, BoardAfter(SubSeq(p, 1, k)), p[k + 1])
  <1> DEFINE r == SubSeq(p, 1, k)
             q == Append(r, p[k + 1])
  <1>1. Len(p) \in Nat /\ k \in 0 .. Len(p) /\ k + 1 \in 0 .. Len(p) /\ k \in Nat
    BY ListingOf DEF Listing
  <1>2. Listing(r) /\ Len(r) = k /\ \A i \in 1 .. k : r[i] = p[i]
    BY <1>1, PrefixIs
  <1>3. /\ Listing(q) /\ Len(q) = k + 1 /\ q[k + 1] = p[k + 1]
        /\ \A i \in 1 .. k : q[i] = p[i]
    <2> HIDE DEF r
    <2> QED
      BY <1>2, ListingAppend
  <1>4. /\ Listing(SubSeq(p, 1, k + 1)) /\ Len(SubSeq(p, 1, k + 1)) = k + 1
        /\ \A i \in 1 .. k + 1 : SubSeq(p, 1, k + 1)[i] = p[i]
    BY <1>1, PrefixIs
  <1>5. BoardAfter(q) = PluginApply(Side, BoardAfter(r), p[k + 1])
    BY <1>2, BoardAfterAppend
  <1> HIDE DEF q, r
  <1>6. \A i \in 1 .. k + 1 : q[i] = p[i]
    BY <1>1, <1>3
  <1>7. SubSeq(p, 1, k + 1) = q
    BY <1>3, <1>4, <1>6, SameListing
  <1> QED
    BY <1>5, <1>7 DEF r

-----------------------------------------------------------------------------
(* The replay screen. *)

\* The actions of stored moves.
ActionsOf(moves) == [i \in DOMAIN moves |-> moves[i].action]

\* What the i-th stored move does to the screen of a replay at ply.
Shown(screen, moves, ply, i) ==
    IF IsPlacement(Side, ActionsOf(moves)[i])
    THEN [screen EXCEPT ![ActionsOf(moves)[i]] =
             [stone |-> moves[i].stone, number |-> Placements(ActionsOf(moves), i),
              latest |-> i = ply]]
    ELSE screen

\* The screens while the first n moves are put down.
IsShow(v, moves, ply, n) ==
    v = [i \in 0 .. n |-> IF i = 0 THEN Blank ELSE Shown(v[i - 1], moves, ply, i)]

\* The defining equation, at one move.
LEMMA ShowAt ==
    ASSUME NEW v, NEW m, NEW ply, NEW n, IsShow(v, m, ply, n), NEW i \in 0 .. n
    PROVE  v[i] = IF i = 0 THEN Blank ELSE Shown(v[i - 1], m, ply, i)
  <1> DEFINE h == [j \in 0 .. n |-> IF j = 0 THEN Blank ELSE Shown(v[j - 1], m, ply, j)]
  <1>1. v = h
    BY DEF IsShow
  <1>2. h[i] = IF i = 0 THEN Blank ELSE Shown(v[i - 1], m, ply, i)
    OBVIOUS
  <1> HIDE DEF h
  <1> QED
    BY <1>1, <1>2, Zenon

\* The screens exist,
LEMMA ShowExists ==
    ASSUME NEW m, NEW ply
    PROVE  \A n \in Nat : \E v : IsShow(v, m, ply, n)
  <1> DEFINE S == {n \in Nat : \E v : IsShow(v, m, ply, n)}
  <1>1. 0 \in S
    <2> DEFINE f == [i \in {0} |-> Blank]
    <2>1. f = [i \in 0 .. 0 |-> IF i = 0 THEN Blank ELSE Shown(f[i - 1], m, ply, i)]
      OBVIOUS
    <2>2. IsShow(f, m, ply, 0)
      BY <2>1, Zenon DEF IsShow
    <2> QED
      BY <2>2
  <1>2. ASSUME NEW n \in Nat, n \in S
        PROVE  n + 1 \in S
    <2>1. PICK f : IsShow(f, m, ply, n)
      BY <1>2
    <2> DEFINE g == [i \in 0 .. n + 1 |-> IF i = 0 THEN Blank ELSE Shown(f[i - 1], m, ply, i)]
    <2>2. \A i \in 0 .. n : g[i] = f[i]
      <3> SUFFICES ASSUME NEW i \in 0 .. n PROVE g[i] = f[i]
        OBVIOUS
      <3>1. f[i] = IF i = 0 THEN Blank ELSE Shown(f[i - 1], m, ply, i)
        BY <2>1, ShowAt
      <3>2. g[i] = IF i = 0 THEN Blank ELSE Shown(f[i - 1], m, ply, i)
        OBVIOUS
      <3> HIDE DEF g
      <3> QED
        BY <3>1, <3>2
    <2>3. \A i \in 0 .. n + 1 : g[i] = IF i = 0 THEN Blank ELSE Shown(g[i - 1], m, ply, i)
      <3> SUFFICES ASSUME NEW i \in 0 .. n + 1
                   PROVE  g[i] = IF i = 0 THEN Blank ELSE Shown(g[i - 1], m, ply, i)
        OBVIOUS
      <3>1. g[i] = IF i = 0 THEN Blank ELSE Shown(f[i - 1], m, ply, i)
        OBVIOUS
      <3>2. i # 0 => i - 1 \in 0 .. n
        OBVIOUS
      <3> HIDE DEF g
      <3> QED
        BY <2>2, <3>1, <3>2
    <2>4. g = [i \in 0 .. n + 1 |-> g[i]]
      OBVIOUS
    <2> HIDE DEF g
    <2>5. IsShow(g, m, ply, n + 1)
      BY <2>3, <2>4 DEF IsShow
    <2> QED
      BY <2>5
  <1> HIDE DEF S
  <1>3. \A n \in Nat : n \in S
    BY <1>1, <1>2, SetInduction
  <1> QED
    BY <1>3 DEF S

\* and Reconstruct is the last of them.
LEMMA ReconstructIs ==
    ASSUME NEW m, NEW ply \in Nat
    PROVE  \E v : IsShow(v, m, ply, ply) /\ Reconstruct(m, ply) = v[ply]
  <1> DEFINE F == CHOOSE v : v = [i \in 0 .. ply |->
                                    IF i = 0 THEN Blank ELSE Shown(v[i - 1], m, ply, i)]
  <1>1. \E v : v = [i \in 0 .. ply |-> IF i = 0 THEN Blank ELSE Shown(v[i - 1], m, ply, i)]
    <2>1. \E v : IsShow(v, m, ply, ply)
      BY ShowExists
    <2> QED
      BY <2>1, Zenon DEF IsShow
  <1>2. IsShow(F, m, ply, ply)
    BY <1>1, Zenon DEF IsShow
  <1>3. Reconstruct(m, ply) = F[ply]
    BY Zenon DEF Reconstruct, Shown, ActionsOf
  <1> QED
    BY <1>2, <1>3, Zenon

\* A replay at its start shows an empty board.
LEMMA ReconstructStart == \A m : Reconstruct(m, 0) = Blank
  <1> SUFFICES ASSUME NEW m PROVE Reconstruct(m, 0) = Blank
    OBVIOUS
  <1>1. PICK v : IsShow(v, m, 0, 0) /\ Reconstruct(m, 0) = v[0]
    BY ReconstructIs
  <1>2. 0 \in 0 .. 0
    OBVIOUS
  <1>3. v[0] = IF 0 = 0 THEN Blank ELSE Shown(v[0 - 1], m, 0, 0)
    BY <1>1, <1>2, ShowAt, Zenon
  <1> QED
    BY <1>1, <1>3

\* The plies among the first i at which cell c was played, and the number the
\* screen shows there.
At(p, c, i) == {j \in 1 .. i : p[j] = c}
NumberAt(p, c, i) == IF At(p, c, i) = {} THEN 0 ELSE Placements(p, Max(At(p, c, i)))

\* The next action is the last of its cell and leaves the other cells alone.
LEMMA AtStep ==
    ASSUME NEW p, NEW i \in Nat
    PROVE  /\ At(p, p[i + 1], i + 1) # {} /\ Max(At(p, p[i + 1], i + 1)) = i + 1
           /\ \A c : c # p[i + 1] => At(p, c, i + 1) = At(p, c, i)
  <1> DEFINE a == p[i + 1]
             T == At(p, a, i + 1)
  <1>1. i + 1 \in T /\ \A y \in T : y \in Nat /\ i + 1 >= y
    BY DEF At
  <1>2. \A c : c # a => At(p, c, i + 1) = At(p, c, i)
    BY DEF At
  <1> HIDE DEF T, a
  <1>3. Max(T) = i + 1
    <2>1. \A x \in T : (\A y \in T : x >= y) => x = i + 1
      BY <1>1
    <2>2. \E x \in T : \A y \in T : x >= y
      BY <1>1
    <2>3. Max(T) \in T /\ \A y \in T : Max(T) >= y
      BY <2>2 DEF Max
    <2> QED
      BY <2>1, <2>3
  <1> QED
    BY <1>1, <1>2, <1>3 DEF T, a

\* What the screen of a replay at ply k shows when i moves are put down: the
\* stones of the position after i actions, their numbers, and the latest move
\* if it is there.
Shows(screen, p, k, i) ==
    screen = [c \in Cells(Side) |->
                [stone  |-> BoardAfter(SubSeq(p, 1, i)).cells[c],
                 number |-> NumberAt(p, c, i),
                 latest |-> i = k /\ i > 0 /\ c = p[k]]]

\* The position after any number of actions is a board, and the plies of a
\* cell have a last one.
Sane(p, i) ==
    /\ BoardAfter(SubSeq(p, 1, i)) \in PluginRecord
    /\ \A c : At(p, c, i) = {} \/ Max(At(p, c, i)) \in 1 .. i

\* The stored moves are those of the match.
LEMMA ActionsAreThePlayed ==
    ASSUME NEW p, NEW m, Listing(p), Recorded(p, m)
    PROVE  ActionsOf(m) = p /\ DOMAIN m = 1 .. Len(p)
  <1>1. DOMAIN m = 1 .. Len(p) /\ \A i \in 1 .. Len(p) : m[i].action = p[i]
    <2> DEFINE r == [i \in 1 .. Len(p) |->
                        [ply |-> i, action |-> p[i], stone |-> m[i].stone]]
    <2>1. m = r
      BY DEF Recorded
    <2>2. DOMAIN r = 1 .. Len(p) /\ \A i \in 1 .. Len(p) : r[i].action = p[i]
      OBVIOUS
    <2> HIDE DEF r
    <2> QED
      BY <2>1, <2>2
  <1>2. p = [i \in 1 .. Len(p) |-> p[i]]
    BY LenProperties DEF Listing
  <1> QED
    BY <1>1, <1>2 DEF ActionsOf

\* An empty screen shows the beginning.
LEMMA ShowsTheStart ==
    ASSUME DesktopConstants, NEW p, Listing(p), NEW k
    PROVE  Shows(Blank, p, k, 0) /\ Sane(p, 0)
  <1>1. SubSeq(p, 1, 0) = <<>>
    <2>1. Len(p) \in Nat /\ 0 \in 0 .. Len(p)
      BY ListingOf DEF Listing
    <2>2. Listing(SubSeq(p, 1, 0)) /\ Len(SubSeq(p, 1, 0)) = 0
      BY <2>1, PrefixIs
    <2> QED
      BY <2>2, EmptySeq DEF Listing
  <1>2. BoardAfter(SubSeq(p, 1, 0)) = PluginInit(Side)
    BY <1>1, BoardAfterNothing
  <1>3. \A c : At(p, c, 0) = {}
    BY DEF At
  <1>4. \A c \in Cells(Side) : PluginInit(Side).cells[c] = "EMPTY"
    BY DEF PluginInit
  <1>5. Sane(p, 0)
    BY <1>2, <1>3, NewBoard DEF Sane
  <1>6. Shows(Blank, p, k, 0)
    <2>1. \A c \in Cells(Side) :
             /\ BoardAfter(SubSeq(p, 1, 0)).cells[c] = "EMPTY" /\ NumberAt(p, c, 0) = 0
             /\ (0 = k /\ 0 > 0 /\ c = p[k]) = FALSE
      BY <1>2, <1>3, <1>4 DEF NumberAt
    <2> QED
      BY <2>1, Zenon DEF Shows, Blank
  <1> QED
    BY <1>5, <1>6

\* The next move shows the next position.
LEMMA ShowsTheNext ==
    ASSUME NEW p, NEW m, Listing(p), Recorded(p, m), StonesAreDue(p, m),
           NEW k \in 0 .. Len(p), NEW i \in 0 .. k - 1, NEW screen,
           Shows(screen, p, k, i), Sane(p, i)
    PROVE  Shows(Shown(screen, m, k, i + 1), p, k, i + 1) /\ Sane(p, i + 1)
  <1> DEFINE b == BoardAfter(SubSeq(p, 1, i))
             d == BoardAfter(SubSeq(p, 1, i + 1))
             a == p[i + 1]
  <1>1. /\ Len(p) \in Nat /\ i \in Nat /\ i \in 0 .. Len(p) - 1 /\ i + 1 \in 1 .. Len(p)
        /\ i # k /\ (i + 1) - 1 = i
    BY ListingOf DEF Listing
  <1>2. IsLegalAction(Side, b, a) /\ m[i + 1].stone = b.stone
    <2>1. LET prior == BoardAfter(SubSeq(p, 1, (i + 1) - 1))
          IN  IsLegalAction(Side, prior, p[i + 1]) /\ m[i + 1].stone = prior.stone
      BY <1>1 DEF StonesAreDue
    <2> QED
      BY <1>1, <2>1
  <1>3. d = PluginApply(Side, b, a)
    BY <1>1, BoardAfterStep
  <1>4. b \in PluginRecord
    BY DEF Sane
  <1> HIDE DEF b, d
  <1>5. d \in PluginRecord /\ d.cells = CellsAfter(b, a)
    BY <1>2, <1>3, <1>4, ApplyPutsTheStone
  <1>6. /\ At(p, a, i + 1) # {} /\ Max(At(p, a, i + 1)) = i + 1
        /\ \A c : c # a => At(p, c, i + 1) = At(p, c, i)
    BY <1>1, AtStep
  <1>7. Sane(p, i + 1)
    <2>1. \A c : At(p, c, i + 1) = {} \/ Max(At(p, c, i + 1)) \in 1 .. i + 1
      BY <1>1, <1>6 DEF Sane
    <2> QED
      BY <1>5, <2>1 DEF Sane, d
  <1>8. ActionsOf(m) = p
    BY ActionsAreThePlayed
  <1>9. /\ NumberAt(p, a, i + 1) = Placements(p, i + 1)
        /\ \A c : c # a => NumberAt(p, c, i + 1) = NumberAt(p, c, i)
    BY <1>6 DEF NumberAt
  <1> HIDE DEF a
  <1> DEFINE old(c) == [stone |-> b.cells[c], number |-> NumberAt(p, c, i), latest |-> FALSE]
             new(c) == [stone |-> d.cells[c], number |-> NumberAt(p, c, i + 1),
                        latest |-> i + 1 = k /\ i + 1 > 0 /\ c = p[k]]
  <1>10. screen = [c \in Cells(Side) |-> old(c)]
    BY <1>1 DEF Shows, b
  <1>11. \A c : c = p[k] /\ i + 1 = k <=> i + 1 = k /\ c = a
    BY DEF a
  <1>12. CASE IsPlacement(Side, a)
    <2> DEFINE put == [stone |-> b.stone, number |-> Placements(p, i + 1), latest |-> i + 1 = k]
    <2>1. Shown(screen, m, k, i + 1) = [screen EXCEPT ![a] = put]
      BY <1>2, <1>8, <1>12 DEF Shown, a
    <2>2. a \in Cells(Side) /\ d.cells = [b.cells EXCEPT ![a] = b.stone]
          /\ b.cells = [c \in Cells(Side) |-> b.cells[c]]
      BY <1>4, <1>5, <1>12 DEF IsPlacement, CellsAfter, PluginRecord
    <2>3. d.cells[a] = b.stone /\ \A c \in Cells(Side) : c # a => d.cells[c] = b.cells[c]
      BY <2>2
    <2>4. put = new(a)
      BY <1>1, <1>9, <1>11, <2>3
    <2>5. \A c \in Cells(Side) : c # a => old(c) = new(c)
      <3> SUFFICES ASSUME NEW c \in Cells(Side), c # a PROVE old(c) = new(c)
        OBVIOUS
      <3>1. (i + 1 = k /\ i + 1 > 0 /\ c = p[k]) = FALSE
        BY <1>11, Zenon
      <3>2. d.cells[c] = b.cells[c] /\ NumberAt(p, c, i + 1) = NumberAt(p, c, i)
        BY <1>9, <2>3
      <3> QED
        BY <3>1, <3>2, Zenon
    <2> HIDE DEF put, old, new
    <2>6. [screen EXCEPT ![a] = put] = [c \in Cells(Side) |-> new(c)]
      BY <1>10, <2>2, <2>4, <2>5
    <2> QED
      BY <1>7, <2>1, <2>6 DEF Shows, new, d
  <1>13. CASE ~IsPlacement(Side, a)
    <2>1. Shown(screen, m, k, i + 1) = screen
      BY <1>8, <1>13 DEF Shown, a
    <2>2. d.cells = b.cells /\ \A c \in Cells(Side) : c # a
      BY <1>5, <1>13 DEF IsPlacement, CellsAfter
    <2>3. \A c \in Cells(Side) : old(c) = new(c)
      BY <1>9, <1>11, <2>2
    <2> HIDE DEF old, new
    <2>4. screen = [c \in Cells(Side) |-> new(c)]
      BY <1>10, <2>3
    <2> QED
      BY <1>7, <2>1, <2>4 DEF Shows, new, d
  <1> QED
    BY <1>12, <1>13

\* A faithful record replayed to ply k looks like the live screen after k plies.
LEMMA ReplayShows ==
    ASSUME DesktopConstants, NEW p, NEW m, Listing(p), Recorded(p, m), StonesAreDue(p, m),
           NEW k \in 0 .. Len(p)
    PROVE  LET actions == SubSeq(p, 1, k)
           IN  Reconstruct(m, k) =
                   IF actions = <<>> THEN Blank
                   ELSE SyncFromBoardState(BoardAfter(actions).cells, actions[k], actions)
  <1> DEFINE q == SubSeq(p, 1, k)
  <1>0. Len(p) \in Nat /\ k \in Nat
    BY ListingOf DEF Listing
  <1>1. Listing(q) /\ Len(q) = k /\ DOMAIN q = 1 .. k /\ \A i \in 1 .. k : q[i] = p[i]
    BY PrefixIs
  <1>2. PICK v : IsShow(v, m, k, k) /\ Reconstruct(m, k) = v[k]
    BY <1>0, ReconstructIs
  <1>3. Shows(v[k], p, k, k) /\ Sane(p, k)
    <2> DEFINE S == {i \in Nat : i \in 0 .. k => Shows(v[i], p, k, i) /\ Sane(p, i)}
    <2>1. 0 \in S
      <3>1. 0 \in 0 .. k
        BY <1>0
      <3>2. v[0] = IF 0 = 0 THEN Blank ELSE Shown(v[0 - 1], m, k, 0)
        BY <1>2, <3>1, ShowAt, Zenon
      <3>3. v[0] = Blank
        BY <3>2
      <3> QED
        BY <3>3, ShowsTheStart
    <2>2. ASSUME NEW i \in Nat, i \in S
          PROVE  i + 1 \in S
      <3> SUFFICES ASSUME i + 1 \in 0 .. k
                   PROVE  Shows(v[i + 1], p, k, i + 1) /\ Sane(p, i + 1)
        OBVIOUS
      <3>1. i \in 0 .. k - 1 /\ i \in 0 .. k /\ i + 1 # 0 /\ (i + 1) - 1 = i
        BY <1>0
      <3>2. Shows(v[i], p, k, i) /\ Sane(p, i)
        BY <2>2, <3>1
      <3>3. v[i + 1] = IF i + 1 = 0 THEN Blank ELSE Shown(v[(i + 1) - 1], m, k, i + 1)
        BY <1>2, ShowAt
      <3>4. v[i + 1] = Shown(v[i], m, k, i + 1)
        BY <3>1, <3>3
      <3>5. Shows(Shown(v[i], m, k, i + 1), p, k, i + 1) /\ Sane(p, i + 1)
        BY <3>1, <3>2, ShowsTheNext
      <3> QED
        BY <3>4, <3>5
    <2> HIDE DEF S
    <2>3. k \in S
      BY <1>0, <2>1, <2>2, SetInduction
    <2>4. k \in 0 .. k
      BY <1>0
    <2> QED
      BY <2>3, <2>4 DEF S
  <1> HIDE DEF q
  <1>4. CASE k = 0
    <2>1. q = <<>>
      BY <1>1, <1>4, EmptySeq DEF Listing
    <2>2. Reconstruct(m, k) = Blank
      BY <1>4, ReconstructStart
    <2> QED
      BY <2>1, <2>2 DEF q
  <1>5. CASE k # 0
    <2>1. q # <<>> /\ k > 0 /\ k \in 1 .. k /\ q[k] = p[k]
      BY <1>0, <1>1, <1>5
    <2>2. \A c : {i \in DOMAIN q : q[i] = c} = At(p, c, k)
      BY <1>1 DEF At
    <2>3. \A j \in 1 .. k : Placements(q, j) = Placements(p, j)
      <3> SUFFICES ASSUME NEW j \in 1 .. k PROVE Placements(q, j) = Placements(p, j)
        OBVIOUS
      <3>1. \A i \in 1 .. j : q[i] = p[i]
        BY <1>0, <1>1
      <3>2. {i \in 1 .. j : IsPlacement(Side, q[i])} = {i \in 1 .. j : IsPlacement(Side, p[i])}
        BY <3>1
      <3> QED
        BY <3>2 DEF Placements
    <2> DEFINE number(c) == LET at == {i \in DOMAIN q : q[i] = c}
                            IN  IF at = {} THEN 0 ELSE Placements(q, Max(at))
    <2>4. \A c : number(c) = NumberAt(p, c, k)
      BY <1>3, <2>2, <2>3 DEF NumberAt, Sane
    <2>5. \A c \in Cells(Side) : (k = k /\ k > 0 /\ c = p[k]) = (c = q[k])
      BY <2>1, Zenon
    <2>6. SyncFromBoardState(BoardAfter(q).cells, q[k], q)
            = [c \in Cells(Side) |-> [stone |-> BoardAfter(q).cells[c], number |-> number(c),
                                      latest |-> c = q[k]]]
      BY Zenon DEF SyncFromBoardState
    <2> HIDE DEF number
    <2>7. v[k] = SyncFromBoardState(BoardAfter(q).cells, q[k], q)
      BY <1>3, <2>4, <2>5, <2>6, Zenon DEF Shows, q
    <2> QED
      BY <1>2, <2>1, <2>7 DEF q
  <1> QED
    BY <1>4, <1>5

-----------------------------------------------------------------------------
(* The invariant of the replay. *)

\* A legal action recorded with the stone that is due keeps the record right.
LEMMA DueAppend ==
    ASSUME NEW p, NEW m, Listing(p), Listing(m), Len(m) = Len(p), StonesAreDue(p, m),
           NEW a, IsLegalAction(Side, BoardAfter(p), a),
           NEW e, e.stone = BoardAfter(p).stone
    PROVE  StonesAreDue(Append(p, a), Append(m, e))
  <1> DEFINE q == Append(p, a)
             n == Append(m, e)
  <1>1. /\ Len(p) \in Nat /\ Len(q) = Len(p) + 1 /\ q[Len(p) + 1] = a
        /\ \A i \in 1 .. Len(p) : q[i] = p[i]
    BY ListingAppend
  <1>2. n[Len(p) + 1] = e /\ \A i \in 1 .. Len(p) : n[i] = m[i]
    BY ListingAppend
  <1>3. \A k \in 0 .. Len(p) : SubSeq(q, 1, k) = SubSeq(p, 1, k)
    BY PrefixOfAppend
  <1>4. SubSeq(p, 1, Len(p)) = p
    BY WholePrefix
  <1> HIDE DEF q, n
  <1>5. ASSUME NEW i \in 1 .. Len(q)
        PROVE  /\ IsLegalAction(Side, BoardAfter(SubSeq(q, 1, i - 1)), q[i])
               /\ n[i].stone = BoardAfter(SubSeq(q, 1, i - 1)).stone
    <2>1. CASE i \in 1 .. Len(p)
      <3>1. i - 1 \in 0 .. Len(p)
        BY <1>1, <2>1
      <3>2. SubSeq(q, 1, i - 1) = SubSeq(p, 1, i - 1) /\ q[i] = p[i] /\ n[i] = m[i]
        BY <1>1, <1>2, <1>3, <2>1, <3>1
      <3>3. /\ IsLegalAction(Side, BoardAfter(SubSeq(p, 1, i - 1)), p[i])
            /\ m[i].stone = BoardAfter(SubSeq(p, 1, i - 1)).stone
        BY <2>1 DEF StonesAreDue
      <3> QED
        BY <3>2, <3>3
    <2>2. CASE i = Len(p) + 1
      <3>1. i - 1 = Len(p) /\ Len(p) \in 0 .. Len(p)
        BY <1>1, <2>2
      <3>2. SubSeq(q, 1, i - 1) = p
        BY <1>3, <1>4, <3>1
      <3>3. q[i] = a /\ n[i] = e
        BY <1>1, <1>2, <2>2
      <3> QED
        BY <3>2, <3>3
    <2> QED
      BY <1>1, <2>1, <2>2
  <1>6. StonesAreDue(q, n)
    BY <1>5 DEF StonesAreDue
  <1> QED
    BY <1>6 DEF q, n

\* No actions, no stones.
LEMMA DueNothing == StonesAreDue(<<>>, <<>>)
  <1>1. 1 .. Len(<<>>) = {}
    BY EmptyFunction
  <1> QED
    BY <1>1 DEF StonesAreDue

\* The application starts with an empty screen.
LEMMA ReplayInit == Init /\ RecordInv => ReplayInv
  <1> SUFFICES ASSUME Init, RecordInv PROVE ReplayInv
    OBVIOUS
  <1>1. Positions
    <2>1. DOMAIN rows = {}
      BY EmptyFunction DEF Init
    <2> QED
      BY <2>1, BoardAfterNothing DEF Init, Positions
  <1>2. replay = [id |-> NoId, moves |-> <<>>, ply |-> 0, playing |-> FALSE, view |-> Blank]
    BY DEF Init
  <1>3. IsScreen(replay)
    <2>1. Listing(<<>>) /\ Len(<<>>) = 0 /\ Reconstruct(<<>>, 0) = Blank
      BY EmptyFunction, ReconstructStart
    <2>2. 0 \in 0 .. 0
      OBVIOUS
    <2> QED
      BY <1>2, <2>1, <2>2 DEF IsScreen
  <1>4. NoId \notin DOMAIN played
    BY DEF RecordInv, Tables, NoId
  <1> QED
    BY <1>1, <1>2, <1>3, <1>4 DEF ReplayInv, Screen

\* A step of the controller leaves the replayed match alone: it writes only to
\* the match it plays.
LEMMA ScreenKept ==
    ASSUME RecordInv, RecordInv', ReplayInv, Positions',
           UNCHANGED replay, faults \subseteq faults', DOMAIN played \subseteq DOMAIN played',
           \A id \in DOMAIN played : id # dbId => played'[id] = played[id],
           dbId' \in {dbId, NoId} \/ dbId' \notin DOMAIN played
    PROVE  ReplayInv'
  <1>1. NoId \notin DOMAIN played'
    BY DEF RecordInv, Tables, NoId
  <1>2. IsScreen(replay')
    BY DEF ReplayInv, Screen
  <1>3. replay'.id # NoId => replay.id \in DOMAIN played /\ replay.id # dbId /\ replay.id # dbId'
    BY DEF ReplayInv, Screen
  <1>4. ASSUME replay'.id \in DOMAIN played' \ faults'
        PROVE  /\ Recorded(played'[replay'.id], replay'.moves)
               /\ StonesAreDue(played'[replay'.id], replay'.moves)
    <2>1. replay.id \in DOMAIN played \ faults /\ played'[replay.id] = played[replay.id]
      BY <1>1, <1>3, <1>4
    <2> QED
      BY <2>1 DEF ReplayInv, Screen
  <1>5. Screen'
    BY <1>2, <1>3, <1>4 DEF Screen
  <1> QED
    BY <1>5 DEF ReplayInv

\* A step that neither moves nor writes.
LEMMA NothingPlayed ==
    ASSUME RecordInv, RecordInv', ReplayInv,
           UNCHANGED <<board, move_history, rows, played, faults, replay>>,
           dbId' \in {dbId, NoId}
    PROVE  ReplayInv'
  <1>1. Positions'
    BY DEF ReplayInv, Positions
  <1> QED
    BY <1>1, ScreenKept

\* seekToPly keeps the screen true to its moves.
LEMMA SeekIs ==
    ASSUME NEW r, IsScreen(r), NEW ply \in Int
    PROVE  LET s == Seek(r, ply)
           IN  IsScreen(s) /\ s.id = r.id /\ s.moves = r.moves
  <1> DEFINE top == Len(r.moves)
             low == Max({ply, 0})
             target == Min({low, top})
  <1>1. top \in Nat /\ Listing(r.moves)
    BY ListingOf DEF IsScreen, Listing
  <1>2. low \in Nat
    <2>1. \E x \in {ply, 0} : \A y \in {ply, 0} : x >= y
      OBVIOUS
    <2>2. low \in {ply, 0} /\ \A y \in {ply, 0} : low >= y
      BY <2>1 DEF Max
    <2> QED
      BY <2>2
  <1> HIDE DEF low, top
  <1>3. target \in 0 .. top
    <2>1. \E x \in {low, top} : \A y \in {low, top} : x =< y
      BY <1>1, <1>2
    <2>2. target \in {low, top} /\ \A y \in {low, top} : target =< y
      BY <2>1 DEF Min
    <2> QED
      BY <1>1, <1>2, <2>2
  <1>4. Seek(r, ply) = IF target = r.ply THEN r
                       ELSE [r EXCEPT !.ply = target, !.view = Reconstruct(r.moves, target)]
    BY Zenon DEF Seek, low, top
  <1> HIDE DEF target
  <1> DEFINE s == [r EXCEPT !.ply = target, !.view = Reconstruct(r.moves, target)]
  <1>5. /\ DOMAIN s = DOMAIN r /\ s.id = r.id /\ s.moves = r.moves /\ s.ply = target
        /\ s.view = Reconstruct(r.moves, target)
    <2> DEFINE w == Reconstruct(r.moves, target)
    <2> HIDE DEF w
    <2>1. LET t == [r EXCEPT !.ply = target, !.view = w]
          IN  /\ DOMAIN t = DOMAIN r /\ t.id = r.id /\ t.moves = r.moves /\ t.ply = target
              /\ t.view = w
      BY DEF IsScreen
    <2> QED
      BY <2>1, Zenon DEF w, s
  <1> HIDE DEF s
  <1>6. IsScreen(s) /\ s.id = r.id /\ s.moves = r.moves
    BY <1>1, <1>3, <1>5 DEF IsScreen, top
  <1> QED
    BY <1>4, <1>6 DEF s

\* The timer does not change what is shown.
LEMMA PlayingIs ==
    ASSUME NEW r, IsScreen(r), NEW x
    PROVE  LET s == [r EXCEPT !.playing = x]
           IN  IsScreen(s) /\ s.id = r.id /\ s.moves = r.moves /\ s.ply = r.ply
  <1> DEFINE s == [r EXCEPT !.playing = x]
  <1>1. /\ DOMAIN s = DOMAIN r /\ s.id = r.id /\ s.moves = r.moves /\ s.ply = r.ply
        /\ s.view = r.view
    BY DEF IsScreen
  <1> HIDE DEF s
  <1>2. IsScreen(s) /\ s.id = r.id /\ s.moves = r.moves /\ s.ply = r.ply
    BY <1>1 DEF IsScreen
  <1> QED
    BY <1>2 DEF s

\* Moving the cursor of the replay keeps the invariant.
LEMMA CursorMoves ==
    ASSUME RecordInv, RecordInv', ReplayInv, NEW r, Browse(r), IsScreen(r),
           r.id = replay.id, r.moves = replay.moves
    PROVE  ReplayInv'
  <1>1. /\ replay' = r
        /\ UNCHANGED <<board, move_history, rows, played, faults, dbId>>
    BY DEF Browse, controller, database, ghosts
  <1>2. Positions'
    BY <1>1 DEF ReplayInv, Positions
  <1>3. Screen'
    BY <1>1 DEF ReplayInv, Screen
  <1> QED
    BY <1>2, <1>3 DEF ReplayInv

\* Loading a match puts its row on the screen; a match that was played to its
\* end is not being played.
LEMMA LoadShows ==
    ASSUME RecordInv, RecordInv', ReplayInv, NEW id \in DOMAIN rows, loadMatch(id)
    PROVE  ReplayInv'
  <1> DEFINE r == [id |-> id, moves |-> rows[id].moves, ply |-> 0, playing |-> FALSE,
                   view |-> Blank]
  <1>1. /\ replay' = r /\ over /\ qt = "idle"
        /\ UNCHANGED <<board, move_history, rows, played, faults, dbId>>
    BY DEF loadMatch, GetMovesForMatch, Browse, controller, database, ghosts
  <1>2. Listing(rows[id].moves) /\ id \in DOMAIN played /\ dbId = NoId /\ id # NoId
    BY <1>1 DEF RecordInv, Tables, Writing, NoId
  <1>3. IsScreen(r) /\ r.id = id /\ r.moves = rows[id].moves
    <2>1. 0 \in 0 .. Len(rows[id].moves) /\ Reconstruct(rows[id].moves, 0) = Blank
      BY <1>2, ListingOf, ReconstructStart DEF Listing
    <2> QED
      BY <1>2, <2>1 DEF IsScreen
  <1> HIDE DEF r
  <1>4. id \notin faults => /\ Recorded(played[id], rows[id].moves)
                            /\ StonesAreDue(played[id], rows[id].moves)
    BY DEF RecordInv, RowsAreRight, RowIsRight, ReplayInv, Positions
  <1>5. Screen'
    BY <1>1, <1>2, <1>3, <1>4 DEF Screen
  <1>6. Positions'
    BY <1>1 DEF ReplayInv, Positions
  <1> QED
    BY <1>5, <1>6 DEF ReplayInv

\* A move takes the board to the next position and stores the stone due before it.
LEMMA MoveShows ==
    ASSUME RecordInv, RecordInv', ReplayInv, NEW action, ProcessMove(action),
           UNCHANGED <<dbId, replay>>
    PROVE  ReplayInv'
  <1>1. CASE ~IsLegalAction(Side, board, action)
    BY <1>1, NothingPlayed DEF ProcessMove
  <1>2. CASE IsLegalAction(Side, board, action)
    <2> DEFINE move == [ply |-> Len(move_history'), action |-> action,
                        stone |-> StoneOf(action)]
    <2>1. /\ board' = PluginApply(Side, board, action)
          /\ move_history' = Append(move_history, action)
          /\ IF dbId > 0
             THEN /\ RecordMove(dbId, move)
                  /\ played' = [played EXCEPT ![dbId] = move_history']
             ELSE UNCHANGED <<rows, faults, played>>
      BY <1>2 DEF ProcessMove
    <2>2. Listing(move_history) /\ board = BoardAfter(move_history)
      BY DEF RecordInv, Writing, ReplayInv, Positions
    <2>3. board' = BoardAfter(move_history')
      BY <2>1, <2>2, BoardAfterAppend
    <2>4. move.stone = BoardAfter(move_history).stone
      BY <2>2 DEF StoneOf
    <2>5. dbId # NoId => dbId \in DOMAIN played /\ dbId > 0 /\ played[dbId] = move_history
      BY DEF RecordInv, Writing, Tables
    <2> HIDE DEF move
    <2>6. CASE dbId = NoId
      <3>1. UNCHANGED <<rows, faults, played>>
        BY <2>1, <2>6 DEF NoId
      <3>2. Positions'
        BY <2>3, <3>1 DEF ReplayInv, Positions
      <3> QED
        BY <3>1, <3>2, ScreenKept
    <2>7. CASE dbId # NoId
      <3>1. /\ RecordMove(dbId, move) /\ played' = [played EXCEPT ![dbId] = move_history']
        BY <2>1, <2>5, <2>7
      <3>2. /\ DOMAIN played' = DOMAIN played /\ played'[dbId] = move_history'
            /\ \A id \in DOMAIN played : id # dbId => played'[id] = played[id]
        BY <2>5, <2>7, <3>1 DEF RecordInv, Tables
      <3>3. DOMAIN rows \subseteq DOMAIN played
        BY DEF RecordInv, Tables
      <3>4. CASE /\ UNCHANGED rows /\ faults \subseteq faults'
                 /\ dbId \in DOMAIN rows => dbId \in faults'
        <4>1. Positions'
          BY <2>3, <3>2, <3>3, <3>4 DEF ReplayInv, Positions
        <4> QED
          BY <3>2, <3>4, <4>1, ScreenKept
      <3>5. CASE /\ dbId \in DOMAIN rows /\ UNCHANGED faults
                 /\ rows' = [rows EXCEPT ![dbId].moves = Append(@, move)]
        <4>1. /\ DOMAIN rows' = DOMAIN rows
              /\ rows'[dbId].moves = Append(rows[dbId].moves, move)
              /\ \A id \in DOMAIN rows : id # dbId => rows'[id] = rows[id]
          BY <3>5 DEF RecordInv, Tables, NewRow
        <4>2. dbId \notin faults => StonesAreDue(played'[dbId], rows'[dbId].moves)
          <5> SUFFICES ASSUME dbId \notin faults
                       PROVE  StonesAreDue(Append(move_history, action),
                                           Append(rows[dbId].moves, move))
            BY <2>1, <3>2, <4>1
          <5>1. /\ Recorded(move_history, rows[dbId].moves) /\ Listing(rows[dbId].moves)
                /\ StonesAreDue(move_history, rows[dbId].moves)
            BY <2>5, <2>7, <3>5 DEF RecordInv, Tables, RowsAreRight, RowIsRight,
               ReplayInv, Positions
          <5>2. Len(rows[dbId].moves) = Len(move_history)
            BY <2>2, <5>1, RecordedLength
          <5>3. IsLegalAction(Side, BoardAfter(move_history), action)
            BY <1>2, <2>2
          <5> QED
            BY <2>2, <2>4, <5>1, <5>2, <5>3, DueAppend
        <4>3. Positions'
          BY <2>3, <3>2, <3>3, <3>5, <4>1, <4>2 DEF ReplayInv, Positions
        <4> QED
          BY <3>2, <3>5, <4>3, ScreenKept
      <3> QED
        BY <3>1, <3>4, <3>5 DEF RecordMove, Write
    <2> QED
      BY <2>6, <2>7
  <1> QED
    BY <1>1, <1>2

\* Finishing a row leaves its moves alone.
LEMMA FinishShows ==
    ASSUME RecordInv, RecordInv', ReplayInv, NEW result, NEW winner, NEW reason,
           IF dbId > 0 THEN FinishMatch(dbId, result, winner, reason)
           ELSE UNCHANGED <<rows, faults>>,
           dbId' = NoId, UNCHANGED <<board, move_history, played, replay>>
    PROVE  ReplayInv'
  <1>1. CASE UNCHANGED rows /\ faults \subseteq faults'
    <2>1. Positions'
      BY <1>1 DEF ReplayInv, Positions
    <2> QED
      BY <1>1, <2>1, ScreenKept
  <1>2. CASE /\ dbId \in DOMAIN rows /\ UNCHANGED faults
             /\ rows' = [rows EXCEPT ![dbId] =
                   [@ EXCEPT !.result = result, !.winner = winner, !.reason = reason,
                             !.total_plies = Len(move_history),
                             !.opening_path = opening_path]]
    <2>1. /\ DOMAIN rows' = DOMAIN rows
          /\ \A id \in DOMAIN rows : rows'[id].moves = rows[id].moves
      BY <1>2 DEF RecordInv, Tables, NewRow
    <2>2. Positions'
      BY <1>2, <2>1 DEF ReplayInv, Positions
    <2> QED
      BY <1>2, <2>2, ScreenKept
  <1> QED
    BY <1>1, <1>2 DEF FinishMatch, Write

\* Every step keeps the replay true to the game.
LEMMA ReplayNext ==
    RecordInv /\ RecordInv' /\ ReplayInv /\ [Next]_vars => ReplayInv'
  <1> SUFFICES ASSUME RecordInv, RecordInv', ReplayInv, [Next]_vars PROVE ReplayInv'
    OBVIOUS
  <1>0. IsScreen(replay) /\ replay.ply \in Nat /\ Len(replay.moves) \in Nat
    BY ListingOf DEF ReplayInv, Screen, IsScreen, Listing
  <1>1. ASSUME startMatch \/ resignMatch \/ abortMatch PROVE ReplayInv'
    BY <1>1, NothingPlayed DEF startMatch, Abort, resignMatch, abortMatch, controller,
       database, ghosts
  <1>2. ASSUME NEW action \in Considered, Submit(action) PROVE ReplayInv'
    BY <1>2, MoveShows DEF Submit
  <1>3. ASSUME NEW id \in DOMAIN rows, deleteMatch(id) PROVE ReplayInv'
    <2>1. /\ rows' = [x \in DOMAIN rows \ {id} |-> rows[x]]
          /\ UNCHANGED <<board, move_history, played, faults, dbId, replay>>
      BY <1>3 DEF deleteMatch, DeleteMatch, Restrict, controller, ghosts
    <2>2. DOMAIN rows' \subseteq DOMAIN rows /\ \A x \in DOMAIN rows' : rows'[x] = rows[x]
      BY <2>1
    <2>3. Positions'
      BY <2>1, <2>2 DEF ReplayInv, Positions
    <2> QED
      BY <2>1, <2>3, ScreenKept
  <1>4. ASSUME NEW id \in DOMAIN rows, loadMatch(id) PROVE ReplayInv'
    BY <1>4, LoadShows
  <1>5. ASSUME NEW r, IsScreen(r), r.id = replay.id, r.moves = replay.moves, Browse(r)
        PROVE  ReplayInv'
    BY <1>5, CursorMoves
  <1>6. ASSUME NEW ply \in Int
        PROVE  LET s == Seek(replay, ply)
               IN  IsScreen(s) /\ s.id = replay.id /\ s.moves = replay.moves
    BY <1>0, SeekIs
  <1>7. LET s == Paused(replay)
        IN  IsScreen(s) /\ s.id = replay.id /\ s.moves = replay.moves /\ s.ply = replay.ply
    BY <1>0, PlayingIs DEF Paused
  <1>8. ASSUME NEW ply \in Int
        PROVE  LET s == Seek(Paused(replay), ply)
               IN  IsScreen(s) /\ s.id = replay.id /\ s.moves = replay.moves
    BY <1>7, SeekIs
  <1>9. LET s == Forward(replay)
        IN  IsScreen(s) /\ s.id = replay.id /\ s.moves = replay.moves
    <2>1. replay.ply + 1 \in Int
      BY <1>0
    <2> QED
      BY <1>6, <1>7, <2>1 DEF Forward
  <1>10. ASSUME NEW ply \in -1 .. Len(replay.moves) + 1, seekToPly(ply) PROVE ReplayInv'
    BY <1>5, <1>6, <1>10 DEF seekToPly
  <1>11. ASSUME jumpToStart \/ jumpToEnd \/ stepBackward PROVE ReplayInv'
    <2>1. 0 \in Int /\ Len(replay.moves) \in Int /\ replay.ply - 1 \in Int
      BY <1>0
    <2> QED
      BY <1>5, <1>8, <1>11, <2>1 DEF jumpToStart, jumpToEnd, stepBackward
  <1>12. ASSUME stepForward \/ OnPlayTimerTimeout PROVE ReplayInv'
    BY <1>5, <1>9, <1>12 DEF stepForward, OnPlayTimerTimeout
  <1>13. ASSUME togglePlay PROVE ReplayInv'
    <2> DEFINE s == IF replay.ply >= Len(replay.moves) THEN Seek(replay, 0) ELSE replay
               r == [s EXCEPT !.playing = TRUE]
    <2>1. IsScreen(s) /\ s.id = replay.id /\ s.moves = replay.moves
      BY <1>0, <1>6
    <2>2. Browse(Paused(replay)) \/ Browse(r)
      BY <1>13, Zenon DEF togglePlay
    <2> HIDE DEF s
    <2>3. IsScreen(r) /\ r.id = replay.id /\ r.moves = replay.moves
      BY <2>1, PlayingIs
    <2> QED
      BY <1>5, <1>7, <2>2, <2>3
  <1>14. ASSUME Concluded PROVE ReplayInv'
    BY <1>14, FinishShows DEF Concluded
  <1>15. ASSUME Aborted PROVE ReplayInv'
    BY <1>15, FinishShows DEF Aborted
  <1>16. ASSUME TriggerAiTurn \/ InquireAction PROVE ReplayInv'
    BY <1>16, NothingPlayed DEF TriggerAiTurn, InquireAction, controller, database, ghosts
  <1>17. ASSUME SetupFails PROVE ReplayInv'
    <2>1. /\ UNCHANGED <<rows, played, faults, replay>> /\ dbId' = NoId
          /\ move_history' = <<>> /\ board' = PluginInit(Side)
      BY <1>17 DEF SetupFails, ResetMatch
    <2>2. Positions'
      BY <2>1, BoardAfterNothing DEF ReplayInv, Positions
    <2> QED
      BY <2>1, <2>2, ScreenKept
  <1>18. ASSUME NEW kinds, SetupMatch(kinds) PROVE ReplayInv'
    <2>1. /\ move_history' = <<>> /\ board' = PluginInit(Side) /\ UNCHANGED <<faults, replay>>
      BY <1>18 DEF SetupMatch, ResetMatch
    <2>2. CASE dbId' = NoId /\ UNCHANGED <<rows, played, nextId>>
      <3>1. Positions'
        BY <2>1, <2>2, BoardAfterNothing DEF ReplayInv, Positions
      <3> QED
        BY <2>1, <2>2, <3>1, ScreenKept
    <2>3. CASE /\ rows' = Insert(rows, nextId, NewRow)
               /\ played' = Insert(played, nextId, <<>>)
               /\ dbId' = nextId /\ nextId' = nextId + 1
      <3>1. nextId \notin DOMAIN played /\ nextId \notin DOMAIN rows
            /\ DOMAIN rows \subseteq DOMAIN played
        BY DEF RecordInv, Tables
      <3>2. /\ DOMAIN rows' = DOMAIN rows \cup {nextId} /\ rows'[nextId] = NewRow
            /\ \A id \in DOMAIN rows : rows'[id] = rows[id]
            /\ DOMAIN played' = DOMAIN played \cup {nextId} /\ played'[nextId] = <<>>
            /\ \A id \in DOMAIN played : played'[id] = played[id]
        BY <2>3, <3>1 DEF Insert
      <3>3. NewRow.moves = <<>>
        BY DEF NewRow
      <3>4. Positions'
        BY <2>1, <3>1, <3>2, <3>3, BoardAfterNothing, DueNothing DEF ReplayInv, Positions
      <3> QED
        BY <2>1, <2>3, <3>1, <3>2, <3>4, ScreenKept
    <2> QED
      BY <1>18, <2>2, <2>3 DEF SetupMatch
  <1>19. ASSUME DeliverResult PROVE ReplayInv'
    <2>1. CASE IsCurrent(Head(posted))
      BY <1>19, <2>1, MoveShows DEF DeliverResult
    <2>2. CASE ~IsCurrent(Head(posted))
      BY <1>19, <2>2, NothingPlayed DEF DeliverResult
    <2> QED
      BY <2>1, <2>2
  <1>20. ASSUME UNCHANGED vars PROVE ReplayInv'
    BY <1>20, NothingPlayed DEF vars, controller, database, ghosts
  <1> QED
    BY <1>1, <1>2, <1>3, <1>4, <1>10, <1>11, <1>12, <1>13, <1>14, <1>15, <1>16, <1>17, <1>18,
       <1>19, <1>20
       DEF Next, UserSteps, SystemSteps

\* The replay screen shows at every ply what the live screen showed there,
\* although it rebuilds the board from the stored stones without the rules.
THEOREM ReplayMatchesTheGameAlways == Spec => []ReplayMatchesTheGame
  <1>1. DesktopConstants /\ RecordInv /\ ReplayInv => ReplayMatchesTheGame
    <2> SUFFICES ASSUME DesktopConstants, RecordInv, ReplayInv,
                        replay.id \in DOMAIN played \ faults
                 PROVE  LET actions == SubSeq(played[replay.id], 1, replay.ply)
                        IN  replay.view =
                              IF actions = <<>> THEN Blank
                              ELSE SyncFromBoardState(BoardAfter(actions).cells,
                                                      actions[replay.ply], actions)
      BY Zenon DEF ReplayMatchesTheGame
    <2> DEFINE p == played[replay.id]
    <2>1. Listing(p) /\ Recorded(p, replay.moves) /\ StonesAreDue(p, replay.moves)
      BY DEF RecordInv, Tables, ReplayInv, Screen
    <2>2. /\ Listing(replay.moves) /\ replay.ply \in 0 .. Len(replay.moves)
          /\ replay.view = Reconstruct(replay.moves, replay.ply)
      BY DEF ReplayInv, Screen, IsScreen
    <2>3. Len(replay.moves) = Len(p)
      BY <2>1, <2>2, RecordedLength
    <2> HIDE DEF p
    <2>4. replay.ply \in 0 .. Len(p)
      BY <2>2, <2>3
    <2>5. LET actions == SubSeq(p, 1, replay.ply)
          IN  Reconstruct(replay.moves, replay.ply) =
                IF actions = <<>> THEN Blank
                ELSE SyncFromBoardState(BoardAfter(actions).cells, actions[replay.ply],
                                        actions)
      BY <2>1, <2>4, ReplayShows
    <2> QED
      BY <2>2, <2>5, Zenon DEF p
  <1>2. DesktopConstants
    BY DesktopConstants
  <1> QED
    BY ThreadInit, ThreadNext, RecordInit, RecordNext, ReplayInit, ReplayNext, <1>1, <1>2, PTL
       DEF Spec
=============================================================================
