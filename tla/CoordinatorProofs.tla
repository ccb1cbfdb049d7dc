-------------------------- MODULE CoordinatorProofs --------------------------
(***************************************************************************)
(* Proofs about the plugin host's match loop, for every board and every    *)
(* pairing of humans and engines: what the worker plays for a human is     *)
(* what the human submitted, and both players end up with the result the   *)
(* coordinator keeps, however an abort on the GUI thread interleaves.      *)
(***************************************************************************)
EXTENDS MatchCoordinator, WellFoundedInduction, TLAPS

-----------------------------------------------------------------------------
(* Numbers and boards. *)

\* A set of naturals that is not empty has a least element, and Min picks it.
LEMMA MinOfNaturals ==
    ASSUME NEW S \in SUBSET Nat, S # {}
    PROVE  Min(S) \in S /\ \A y \in S : Min(S) <= y
  <1>1. IsWellFoundedOn(OpToRel(<, Nat), Nat)
    BY NatLessThanWellFounded, Zenon
  <1>2. PICK x \in S : \A y \in S : ~ (<<y, x>> \in OpToRel(<, Nat))
    BY <1>1, WFMin, Zenon
  <1>3. ASSUME NEW y \in S
        PROVE  ~ (y < x)
    <2>1. <<y, x>> \notin OpToRel(<, Nat)
      BY <1>2, Zenon
    <2>2. <<y, x>> \in Nat \X Nat /\ <<y, x>>[1] = y /\ <<y, x>>[2] = x
      OBVIOUS
    <2> QED
      BY <2>1, <2>2, Zenon DEF OpToRel
  <1>4. \E m \in S : \A y \in S : m =< y
    BY <1>3
  <1> QED
    BY <1>4 DEF Min

\* Every action that is tried, by a click or by an engine, is a natural
\* number; -1 is left for a cancelled inquiry.
LEMMA TriedAreNatural ==
    ASSUME CoordinatorConstants
    PROVE  Tried \subseteq Nat
  <1> DEFINE empty == {c \in Cells(Side) : board.cells[c] = "EMPTY"}
  <1>1. NumCells(Side) \in Nat
    BY DEF NumCells, CoordinatorConstants
  <1>2. empty \subseteq Nat
    BY <1>1 DEF Cells
  <1>3. empty # {} => Min(empty) \in Nat
    BY <1>2, MinOfNaturals
  <1>4. swap2_choose_white(Side) .. choose_black(Side) \subseteq Nat
    BY <1>1 DEF swap2_choose_white, choose_black
  <1>5. Tried = (IF empty = {} THEN {} ELSE {Min(empty)}) \cup {NumCells(Side) + 9}
                  \cup (swap2_choose_white(Side) .. choose_black(Side))
    BY Zenon DEF Tried
  <1> HIDE DEF empty
  <1> QED
    BY <1>1, <1>3, <1>4, <1>5

\* The type of the plugin host's board.
PluginRecord(n) ==
    [cells : [Cells(n) -> Stones], phase : Phases, current : Seats, stone : Stones,
     stones : [Seats -> Stones], count : Nat, result : Results]

\* A new board is one.
LEMMA PluginInitType ==
    ASSUME NEW n \in Nat
    PROVE  PluginInit(n) \in PluginRecord(n)
  BY DEF PluginInit, PluginRecord, Phases, Seats, Stones, Colours, Results

\* So is the board after any action: BoardState::ApplyAction loses no field
\* and always leaves a seat to move.
LEMMA PluginApplyType ==
    ASSUME NEW n \in Nat, NEW b \in PluginRecord(n), NEW action
    PROVE  PluginApply(n, b, action) \in PluginRecord(n)
  <1> USE DEF PluginRecord
  <1>1. ASSUME NEW p \in PluginRecord(n)
        PROVE  PluginTransition(p) \in PluginRecord(n)
    <2> USE DEF Phases, Seats, Stones, Colours
    <2>1. CASE p.phase = "PLACE_INITIAL_THREE" /\ p.count = 1
      BY <2>1 DEF PluginTransition
    <2>2. CASE p.phase = "PLACE_INITIAL_THREE" /\ p.count = 2
      BY <2>2 DEF PluginTransition
    <2>3. CASE p.phase = "PLACE_INITIAL_THREE" /\ p.count = 3
      BY <2>3 DEF PluginTransition
    <2>4. CASE p.phase = "SWAP2_PLACE_TWO" /\ p.count = 4
      BY <2>4 DEF PluginTransition
    <2>5. CASE p.phase = "SWAP2_PLACE_TWO" /\ p.count = 5
      BY <2>5 DEF PluginTransition
    <2>6. CASE p.phase = "STANDARD"
      BY <2>6 DEF PluginTransition, Other, OtherStone
    <2> QED
      BY <2>1, <2>2, <2>3, <2>4, <2>5, <2>6 DEF PluginTransition
  <1>2. ASSUME IsPlacement(n, action)
        PROVE  PluginPlace(n, b, action) \in PluginRecord(n)
    <2> DEFINE p == [b EXCEPT !.cells[action] = b.stone, !.count = @ + 1]
    <2>1. p \in PluginRecord(n)
      <3> DEFINE cells1 == [b.cells EXCEPT ![action] = b.stone]
      <3>1. cells1 \in [Cells(n) -> Stones]
        BY <1>2 DEF IsPlacement
      <3>2. p = [b EXCEPT !.cells = cells1, !.count = b.count + 1]
        OBVIOUS
      <3>3. b.count + 1 \in Nat
        OBVIOUS
      <3> HIDE DEF p, cells1
      <3> QED
        BY <3>1, <3>2, <3>3
    <2>2. \A r \in Results : [p EXCEPT !.result = r] \in PluginRecord(n)
      BY <2>1
    <2>3. WinFor(b.current) \in Results /\ "DRAW" \in Results
      BY DEF WinFor, Results
    <2>4. PluginPlace(n, b, action) \in
            {[p EXCEPT !.result = WinFor(b.current)], [p EXCEPT !.result = "DRAW"],
             PluginTransition(p)}
      <3> DEFINE won == CheckWin(n, p.cells, action, p.stone)
      <3>1. CASE won
        BY <3>1, Zenon DEF PluginPlace
      <3>2. CASE ~won /\ p.count = NumCells(n)
        BY <3>2, Zenon DEF PluginPlace
      <3>3. CASE ~won /\ p.count # NumCells(n)
        BY <3>3, Zenon DEF PluginPlace
      <3> QED
        BY <3>1, <3>2, <3>3
    <2> HIDE DEF p
    <2> QED
      BY <1>1, <2>1, <2>2, <2>3, <2>4
  <1>3. ASSUME IsLegalAction(n, b, action), ~IsPlacement(n, action)
        PROVE  PluginControl(n, b, action) \in PluginRecord(n)
    <2>1. action \in {swap2_choose_white(n), swap2_choose_black(n), swap2_place_two(n),
                      choose_white(n), choose_black(n)}
      BY <1>3 DEF IsLegalAction, Phases, PlacingPhases
    <2> QED
      BY <2>1 DEF PluginControl, Phases, Seats, Stones, Colours
  <1> QED
    BY <1>2, <1>3 DEF PluginApply

-----------------------------------------------------------------------------
(* The inductive invariants. *)

\* The fields of a HumanPlayer.
Fields == [waiting : BOOLEAN, cancelled : BOOLEAN, submitted : Int]

\* What SubmitAction, the end of the wait and the start of an inquiry leave
\* in them.
Submitted(g, a) == [g EXCEPT !.submitted = a, !.waiting = FALSE]
Answered(g) == [g EXCEPT !.waiting = FALSE, !.submitted = IF g.cancelled THEN @ ELSE -1]
Asked == [FreshHuman EXCEPT !.waiting = TRUE]

\* What the operations of a human player leave in its fields.
LEMMA HumanOperations ==
    ASSUME NEW g \in Fields, NEW a \in Int
    PROVE  /\ Submitted(g, a) \in Fields /\ ~Submitted(g, a).waiting
           /\ Submitted(g, a).cancelled <=> g.cancelled
           /\ Submitted(g, a).submitted = a
           /\ Answered(g) \in Fields /\ ~Answered(g).waiting
           /\ Answered(g).cancelled <=> g.cancelled
           /\ Cancelled(g) \in Fields /\ ~Cancelled(g).waiting /\ Cancelled(g).cancelled
  <1>1. ASSUME NEW w \in BOOLEAN, NEW i \in Int
        PROVE  /\ [g EXCEPT !.submitted = i, !.waiting = w] \in Fields
               /\ [g EXCEPT !.waiting = w, !.submitted = i] \in Fields
    BY DEF Fields
  <1>2. Submitted(g, a) \in Fields
    BY <1>1 DEF Submitted
  <1>3. (IF g.cancelled THEN g.submitted ELSE -1) \in Int
    BY DEF Fields
  <1>4. Answered(g) \in Fields
    BY <1>1, <1>3 DEF Answered
  <1>5. Cancelled(g) \in Fields /\ ~Cancelled(g).waiting /\ Cancelled(g).cancelled
    BY DEF Cancelled, Fields
  <1> QED
    BY <1>2, <1>4, <1>5 DEF Submitted, Answered, Fields

\* A fresh player and one that has just been asked.
LEMMA FreshOperations ==
    /\ FreshHuman \in Fields /\ ~FreshHuman.waiting /\ ~FreshHuman.cancelled
    /\ Asked \in Fields /\ Asked.waiting /\ ~Asked.cancelled /\ Asked.submitted = -1
  <1>1. FreshHuman \in Fields
    BY DEF FreshHuman, Fields
  <1>2. [FreshHuman EXCEPT !.waiting = TRUE] \in Fields
    BY <1>1 DEF Fields
  <1> QED
    BY <1>1, <1>2 DEF FreshHuman, Asked

\* The types of the variables the argument needs.
Types ==
    /\ kind \in [Seats -> Kinds]
    /\ board \in PluginRecord(Side)
    /\ finished \in BOOLEAN
    /\ human \in [Seats -> Fields]
    /\ worker \in [at : {"loop", "ask", "wait", "apply", "reason", "tellA", "tellB",
                          "done"}, action : Int]
    /\ gui \in {"idle", "set", "reason", "cancelA", "tellA", "cancelB", "tellB", "done"}
    /\ accepted \in [Seats -> Seq(Nat)]

\* Nobody is cancelled or told of an ending before finished_ is set.
EndingIsDecided ==
    /\ \A s \in Seats : human[s].cancelled => finished
    /\ gui \notin {"idle", "set"} => finished
    /\ worker.at \in {"reason", "tellA", "tellB"} => finished

\* A human is asked only while the loop waits for the one to move, and what
\* was accepted is outstanding only until the loop has played it.
OneInquiry ==
    \A s \in Seats :
        /\ human[s].waiting => worker.at = "wait" /\ s = board.current
        /\ accepted[s] # <<>> => worker.at \in {"wait", "apply"} /\ s = board.current

\* During the wait the human's submitted action is the one accepted, or there
\* is none yet, unless the inquiry was cancelled.
WaitIsConsistent ==
    LET h == human[board.current]
    IN  worker.at = "wait" /\ ~h.cancelled =>
            IF h.waiting THEN h.submitted = -1 /\ accepted[board.current] = <<>>
            ELSE h.submitted >= 0 /\ accepted[board.current] = <<h.submitted>>

AnswerInv == /\ Types /\ EndingIsDecided /\ OneInquiry
             /\ WaitIsConsistent /\ AnswersAreTheSubmitted

\* A thread is still on its way to tell player s of the ending.
Underway(s) ==
    \/ worker.at \in {"reason", "tellA"}
    \/ worker.at = "tellB" /\ s = "B"
    \/ gui \in {"reason", "cancelA", "tellA"}
    \/ gui \in {"cancelB", "tellB"} /\ s = "B"

\* A player who was not last told the result the coordinator keeps will be.
HearingInv == /\ told = [s \in Seats |-> told[s]]
              /\ \A s \in Seats : told[s] = result_info \/ Underway(s)

-----------------------------------------------------------------------------
(* The answers. *)

\* The invariant holds before the first step.
LEMMA AnswerInit == CoordinatorConstants /\ Init => AnswerInv
  <1> SUFFICES ASSUME CoordinatorConstants, Init PROVE AnswerInv
    OBVIOUS
  <1> USE DEF Init
  <1>1. board \in PluginRecord(Side)
    BY PluginInitType DEF CoordinatorConstants
  <1>2. FreshHuman \in Fields
    BY DEF FreshHuman, Fields
  <1>3. <<>> \in Seq(Nat) /\ -1 \in Int
    OBVIOUS
  <1>4. Types
    BY <1>1, <1>2, <1>3 DEF Types, CoordinatorConstants
  <1> QED
    BY <1>4 DEF AnswerInv, EndingIsDecided, OneInquiry, WaitIsConsistent,
       AnswersAreTheSubmitted, FreshHuman

\* A step that only cancels inquiries and moves threads that are not at the
\* inquiry keeps the invariant, once finished_ is set.
LEMMA CancelKeeps ==
    ASSUME AnswerInv, finished, UNCHANGED <<kind, board, finished, accepted>>, Types',
           \A s \in Seats : human'[s] \in {human[s], Cancelled(human[s])},
           \/ worker' = worker
           \/ worker.at \notin {"wait", "apply"} /\ worker'.at \notin {"wait", "apply"}
    PROVE  AnswerInv'
  <1>1. \A s \in Seats :
            /\ human'[s].waiting => human[s].waiting
            /\ ~human'[s].cancelled => human'[s] = human[s]
    BY HumanOperations DEF AnswerInv, Types
  <1>2. board.current \in Seats
    BY DEF AnswerInv, Types, PluginRecord
  <1>3. EndingIsDecided'
    BY DEF EndingIsDecided
  <1>4. OneInquiry'
    BY <1>1 DEF AnswerInv, OneInquiry
  <1>5. WaitIsConsistent'
    BY <1>1, <1>2 DEF AnswerInv, WaitIsConsistent
  <1>6. AnswersAreTheSubmitted'
    BY DEF AnswerInv, AnswersAreTheSubmitted
  <1> QED
    BY <1>3, <1>4, <1>5, <1>6 DEF AnswerInv

\* Every step keeps it.
LEMMA AnswerNext ==
    CoordinatorConstants /\ AnswerInv /\ [Next]_vars => AnswerInv'
  <1> SUFFICES ASSUME CoordinatorConstants, AnswerInv, [Next]_vars
               PROVE  AnswerInv'
    OBVIOUS
  <1> DEFINE seat0 == board.current
  <1>cur. seat0 \in Seats /\ human[seat0] \in Fields
    BY DEF AnswerInv, Types, PluginRecord
  <1>nil. <<>> \in Seq(Nat)
    OBVIOUS
  <1>1. ASSUME NEW seat \in Seats, NEW action \in Tried, SubmitAction(seat, action)
        PROVE  AnswerInv'
    <2>1. action \in Nat
      BY TriedAreNatural
    <2>2. /\ worker.at = "wait" /\ seat = seat0 /\ ~human[seat].cancelled
          /\ human[seat].waiting /\ accepted[seat] = <<>>
      BY <1>1, <1>cur DEF SubmitAction, CanSubmit, AnswerInv, OneInquiry, WaitIsConsistent
    <2>3. accepted' = [accepted EXCEPT ![seat] = <<action>>]
      BY <1>1, <2>2, <2>1 DEF SubmitAction
    <2>4. <<action>> \in Seq(Nat) /\ <<action>> # <<>>
      BY <2>1
    <2>5. /\ human' \in [Seats -> Fields]
          /\ ~human'[seat].waiting /\ ~human'[seat].cancelled
          /\ human'[seat].submitted = action
          /\ \A s \in Seats \ {seat} : human'[s] = human[s]
          /\ UNCHANGED <<kind, board, finished, gui, worker>>
      <3> DEFINE g == Submitted(human[seat], action)
      <3>1. g \in Fields /\ ~g.waiting /\ ~g.cancelled /\ g.submitted = action
        <4>1. human[seat] \in Fields /\ action \in Int /\ ~human[seat].cancelled
          BY <1>cur, <2>1, <2>2
        <4> QED
          BY <4>1, HumanOperations
      <3>2. human' = [human EXCEPT ![seat] = g]
        BY <1>1, Zenon DEF SubmitAction, Submitted
      <3>3. human \in [Seats -> Fields]
        BY DEF AnswerInv, Types
      <3> HIDE DEF g
      <3> QED
        BY <1>1, <3>1, <3>2, <3>3 DEF SubmitAction
    <2>6. Types'
      BY <2>1, <2>3, <2>4, <2>5 DEF AnswerInv, Types
    <2>7. EndingIsDecided'
      BY <2>5 DEF AnswerInv, Types, EndingIsDecided
    <2>8. OneInquiry'
      BY <2>2, <2>3, <2>5 DEF AnswerInv, Types, OneInquiry
    <2>9. WaitIsConsistent'
      BY <1>cur, <2>1, <2>2, <2>3, <2>5 DEF AnswerInv, Types, WaitIsConsistent
    <2>10. AnswersAreTheSubmitted'
      BY <2>2, <2>5 DEF AnswersAreTheSubmitted
    <2> QED
      BY <2>6, <2>7, <2>8, <2>9, <2>10 DEF AnswerInv
  <1>2. ASSUME BeginStep PROVE AnswerInv'
    BY <1>2 DEF BeginStep, WorkerAt, WorkerTo, AnswerInv, Types, EndingIsDecided,
       OneInquiry, WaitIsConsistent, AnswersAreTheSubmitted
  <1>3. ASSUME AskHuman PROVE AnswerInv'
    <2>1. /\ worker.at = "ask" /\ worker'.at = "wait"
          /\ human' \in [Seats -> Fields]
          /\ human'[seat0].waiting /\ ~human'[seat0].cancelled
          /\ human'[seat0].submitted = -1
          /\ \A s \in Seats \ {seat0} : human'[s] = human[s]
          /\ UNCHANGED <<kind, board, finished, gui, accepted>>
      <3> DEFINE g == Asked
      <3>1. g \in Fields /\ g.waiting /\ ~g.cancelled /\ g.submitted = -1
        BY FreshOperations
      <3>2. human' = [human EXCEPT ![seat0] = g]
        BY <1>3 DEF AskHuman, Asked
      <3>3. human \in [Seats -> Fields] /\ "at" \in DOMAIN worker
        BY DEF AnswerInv, Types
      <3> HIDE DEF g
      <3> QED
        BY <1>3, <1>cur, <3>1, <3>2, <3>3 DEF AskHuman, WorkerAt, WorkerTo
    <2>2. Types'
      BY <1>3, <2>1 DEF AnswerInv, Types, AskHuman, WorkerTo
    <2>3. EndingIsDecided' /\ AnswersAreTheSubmitted'
      BY <2>1 DEF AnswerInv, Types, EndingIsDecided, AnswersAreTheSubmitted
    <2>4. OneInquiry'
      BY <2>1 DEF AnswerInv, Types, OneInquiry
    <2>5. WaitIsConsistent'
      BY <1>cur, <2>1 DEF AnswerInv, Types, OneInquiry, WaitIsConsistent
    <2> QED
      BY <2>2, <2>3, <2>4, <2>5 DEF AnswerInv
  <1>4. ASSUME HumanAnswers PROVE AnswerInv'
    <2> DEFINE h == human[seat0]
    <2>1. /\ worker.at = "wait" /\ worker'.at = "apply" /\ Ready(h)
          /\ worker' = [at |-> "apply", action |-> IF h.cancelled THEN -1 ELSE h.submitted]
          /\ UNCHANGED <<kind, board, finished, gui, accepted>>
      BY <1>4 DEF HumanAnswers, WorkerAt
    <2>2. /\ human' \in [Seats -> Fields]
          /\ ~human'[seat0].waiting /\ (human'[seat0].cancelled <=> h.cancelled)
          /\ \A s \in Seats \ {seat0} : human'[s] = human[s]
      <3> DEFINE g == Answered(h)
      <3>1. g \in Fields /\ ~g.waiting /\ (g.cancelled <=> h.cancelled)
        BY <1>cur, HumanOperations
      <3>2. human' = [human EXCEPT ![seat0] = g]
        BY <1>4 DEF HumanAnswers, Answered
      <3>3. human \in [Seats -> Fields]
        BY DEF AnswerInv, Types
      <3> HIDE DEF g, h
      <3> QED
        BY <1>cur, <3>1, <3>2, <3>3
    <2>3. ~h.cancelled => h.submitted >= 0 /\ accepted[seat0] = <<h.submitted>>
      BY <1>cur, <2>1 DEF Ready, AnswerInv, WaitIsConsistent
    <2>4. Types'
      <3>1. (IF h.cancelled THEN -1 ELSE h.submitted) \in Int
        BY <1>cur DEF Fields
      <3> QED
        BY <2>1, <2>2, <3>1 DEF AnswerInv, Types
    <2>5. EndingIsDecided'
      BY <1>cur, <2>1, <2>2 DEF AnswerInv, Types, EndingIsDecided
    <2>6. OneInquiry' /\ WaitIsConsistent'
      BY <2>1, <2>2 DEF AnswerInv, Types, OneInquiry, WaitIsConsistent
    <2>7. AnswersAreTheSubmitted'
      BY <1>cur, <2>1, <2>3 DEF AnswerInv, EndingIsDecided, AnswersAreTheSubmitted
    <2> QED
      BY <2>4, <2>5, <2>6, <2>7 DEF AnswerInv
  <1>5. ASSUME EngineAnswers PROVE AnswerInv'
    <2>1. PICK action \in Tried : worker' = [at |-> "apply", action |-> action]
      BY <1>5 DEF EngineAnswers
    <2>2. action \in Nat
      BY TriedAreNatural
    <2> QED
      BY <1>5, <2>1, <2>2, <1>cur DEF EngineAnswers, WorkerAt, AnswerInv, Types,
         EndingIsDecided, OneInquiry, WaitIsConsistent, AnswersAreTheSubmitted
  <1>6. ASSUME Forfeit \/ Play PROVE AnswerInv'
    <2>1. /\ worker.at = "apply" /\ worker'.at \in {"loop", "reason"}
          /\ worker' = [worker EXCEPT !.at = worker'.at]
          /\ worker'.at = "reason" => finished'
          /\ finished' \in BOOLEAN
          /\ finished => finished'
          /\ accepted' = [accepted EXCEPT ![seat0] = <<>>]
          /\ UNCHANGED <<kind, human, gui>>
      BY <1>6 DEF Forfeit, Play, WorkerAt, WorkerTo, AnswerInv, Types
    <2>2. board' \in PluginRecord(Side)
      BY <1>6, PluginApplyType DEF Forfeit, Play, CoordinatorConstants, AnswerInv, Types
    <2>3. Types'
      <3>1. accepted' \in [Seats -> Seq(Nat)]
        <4>1. accepted \in [Seats -> Seq(Nat)] /\ accepted' = [accepted EXCEPT ![seat0] = <<>>]
          BY <2>1 DEF AnswerInv, Types
        <4> QED
          BY <4>1, <1>nil, <1>cur
      <3>2. worker' \in [at : {"loop", "ask", "wait", "apply", "reason", "tellA", "tellB",
                               "done"}, action : Int]
        <4>1. PICK to \in {"loop", "reason"} : worker' = [worker EXCEPT !.at = to]
          BY <2>1
        <4> QED
          BY <4>1 DEF AnswerInv, Types
      <3> QED
        <4>1. finished' \in BOOLEAN /\ UNCHANGED <<kind, human, gui>>
          BY <2>1
        <4> QED
          BY <2>2, <3>1, <3>2, <4>1 DEF AnswerInv, Types
    <2>4. \A s \in Seats : accepted'[s] = <<>> /\ ~human[s].waiting
      BY <2>1, <1>cur DEF AnswerInv, Types, OneInquiry
    <2>5. EndingIsDecided'
      <3>1. /\ worker'.at \in {"loop", "reason"}
            /\ worker'.at = "reason" => finished'
            /\ finished => finished'
            /\ UNCHANGED <<human, gui>>
        BY <2>1
      <3> QED
        BY <3>1 DEF AnswerInv, EndingIsDecided
    <2> QED
      BY <2>1, <2>3, <2>4, <2>5 DEF AnswerInv, OneInquiry, WaitIsConsistent,
         AnswersAreTheSubmitted
  <1>7. ASSUME GiveReason PROVE AnswerInv'
    BY <1>7 DEF GiveReason, WorkerAt, WorkerTo, AnswerInv, Types, EndingIsDecided,
       OneInquiry, WaitIsConsistent, AnswersAreTheSubmitted
  <1>can. ASSUME NEW g \in Fields PROVE Cancelled(g) \in Fields
    BY HumanOperations
  <1>8. ASSUME WorkerTells PROVE AnswerInv'
    <2>1. /\ finished /\ UNCHANGED <<kind, board, finished, accepted, gui>>
          /\ worker.at \in {"tellA", "tellB"} /\ worker'.at \in {"tellB", "loop"}
          /\ worker' = [worker EXCEPT !.at = worker'.at]
      BY <1>8 DEF WorkerTells, WorkerAt, WorkerTo, AnswerInv, Types, EndingIsDecided
    <2>2. PICK s0 \in Seats : OnMatchEnd(s0)
      BY <1>8 DEF WorkerTells, Seats
    <2>3. human' = [human EXCEPT ![s0] = IF kind[s0] = "human" THEN Cancelled(human[s0])
                                         ELSE human[s0]]
      BY <2>2 DEF OnMatchEnd
    <2>4. Types'
      BY <2>1, <2>3, <1>can DEF AnswerInv, Types
    <2>5. \A s \in Seats : human'[s] \in {human[s], Cancelled(human[s])}
      BY <2>3 DEF AnswerInv, Types
    <2> QED
      BY <2>1, <2>4, <2>5, CancelKeeps
  <1>9. ASSUME BeginAbort PROVE AnswerInv'
    BY <1>9 DEF BeginAbort, AnswerInv, Types, EndingIsDecided,
       OneInquiry, WaitIsConsistent, AnswersAreTheSubmitted
  <1>10. ASSUME SetAborted PROVE AnswerInv'
    BY <1>10 DEF SetAborted, AnswerInv, Types, EndingIsDecided,
       OneInquiry, WaitIsConsistent, AnswersAreTheSubmitted
  <1>11. ASSUME GiveAbortReason PROVE AnswerInv'
    BY <1>11 DEF GiveAbortReason, AnswerInv, Types, EndingIsDecided,
       OneInquiry, WaitIsConsistent, AnswersAreTheSubmitted
  <1>12. ASSUME AbortTells PROVE AnswerInv'
    <2>1. /\ finished /\ UNCHANGED <<kind, board, finished, accepted, worker>>
          /\ gui' \in {"tellA", "cancelB", "tellB", "done"}
      BY <1>12 DEF AbortTells, AnswerInv, EndingIsDecided
    <2>2. PICK s0 \in Seats : CancelInquiry(s0) \/ OnMatchEnd(s0)
      BY <1>12 DEF AbortTells, Seats
    <2>3. human' = [human EXCEPT ![s0] = IF kind[s0] = "human" THEN Cancelled(human[s0])
                                         ELSE human[s0]]
      BY <2>2 DEF OnMatchEnd, CancelInquiry
    <2>4. Types'
      BY <2>1, <2>3, <1>can DEF AnswerInv, Types
    <2>5. \A s \in Seats : human'[s] \in {human[s], Cancelled(human[s])}
      BY <2>3 DEF AnswerInv, Types
    <2> QED
      BY <2>1, <2>4, <2>5, CancelKeeps
  <1>13. ASSUME UNCHANGED vars PROVE AnswerInv'
    BY <1>13 DEF vars, AnswerInv, Types, EndingIsDecided,
       OneInquiry, WaitIsConsistent, AnswersAreTheSubmitted
  <1> QED
    BY <1>1, <1>2, <1>3, <1>4, <1>5, <1>6, <1>7, <1>8, <1>9, <1>10, <1>11, <1>12, <1>13
       DEF Next, Worker, Abort

\* What Step is given by a human is the action SubmitAction accepted during
\* this inquiry, or -1 of an aborted one, on every board and for every pairing.
THEOREM AnswersAreTheSubmittedAlways == Spec => []AnswersAreTheSubmitted
  <1>1. AnswerInv => AnswersAreTheSubmitted
    BY DEF AnswerInv
  <1> QED
    BY CoordinatorConstants, AnswerInit, AnswerNext, <1>1, PTL DEF Spec

-----------------------------------------------------------------------------
(* The result. *)

\* HearingInv holds at the start.
LEMMA HearingInit == Init => HearingInv
  BY DEF Init, HearingInv

\* It is inductive: a thread that changes the result is on its way to tell
\* both players, and tells each what is kept when it reaches them.
LEMMA HearingNext == HearingInv /\ Types /\ [Next]_vars => HearingInv'
  <1> SUFFICES ASSUME HearingInv, Types, [Next]_vars PROVE HearingInv'
    OBVIOUS
  <1> USE DEF HearingInv, Underway, Seats
  <1>1. ASSUME NEW seat \in Seats, NEW action \in Tried, SubmitAction(seat, action)
        PROVE  HearingInv'
    BY <1>1 DEF SubmitAction
  <1>2. ASSUME BeginStep PROVE HearingInv'
    BY <1>2 DEF BeginStep, WorkerAt, WorkerTo, Types
  <1>3. ASSUME AskHuman PROVE HearingInv'
    BY <1>3 DEF AskHuman, WorkerAt, WorkerTo, Types
  <1>4. ASSUME HumanAnswers PROVE HearingInv'
    BY <1>4 DEF HumanAnswers, WorkerAt
  <1>5. ASSUME EngineAnswers PROVE HearingInv'
    BY <1>5 DEF EngineAnswers, WorkerAt
  <1>6. ASSUME Forfeit PROVE HearingInv'
    BY <1>6 DEF Forfeit, WorkerTo, Types
  <1>7. ASSUME Play PROVE HearingInv'
    BY <1>7 DEF Play, WorkerAt, WorkerTo, Types
  <1>8. ASSUME GiveReason PROVE HearingInv'
    BY <1>8 DEF GiveReason, WorkerTo, Types
  <1>9. ASSUME WorkerTells PROVE HearingInv'
    BY <1>9 DEF WorkerTells, WorkerAt, WorkerTo, OnMatchEnd, Types
  <1>10. ASSUME BeginAbort \/ SetAborted \/ GiveAbortReason PROVE HearingInv'
    BY <1>10 DEF BeginAbort, SetAborted, GiveAbortReason
  <1>11. ASSUME AbortTells PROVE HearingInv'
    BY <1>11 DEF AbortTells, OnMatchEnd, CancelInquiry
  <1>12. ASSUME UNCHANGED vars PROVE HearingInv'
    BY <1>12 DEF vars
  <1> QED
    BY <1>1, <1>2, <1>3, <1>4, <1>5, <1>6, <1>7, <1>8, <1>9, <1>10, <1>11, <1>12
       DEF Next, Worker, Abort

\* However an abort and the worker's own ending interleave, once both threads
\* are through, both players were last told the result the coordinator keeps.
THEOREM PlayersHearTheFinalResultAlways == Spec => []PlayersHearTheFinalResult
  <1>1. AnswerInv => Types
    BY DEF AnswerInv
  <1>2. HearingInv => PlayersHearTheFinalResult
    BY DEF HearingInv, Underway, PlayersHearTheFinalResult
  <1> QED
    BY CoordinatorConstants, AnswerInit, AnswerNext, HearingInit, HearingNext,
       <1>1, <1>2, PTL DEF Spec
=============================================================================
