-------------------------- MODULE MatchCoordinator --------------------------
(***************************************************************************)
(* The plugin host's match loop (plugin/src/match_coordinator.cpp) on a    *)
(* worker thread, and the human players it asks                            *)
(* (plugin/src/human_player.cpp), which a GUI thread answers, cancels and  *)
(* aborts.  A human player is guarded by its mutex; the coordinator's own  *)
(* fields are shared by the two threads without a lock, so every group of  *)
(* accesses between two calls of a player is a step of its own.            *)
(***************************************************************************)
EXTENDS PluginBoard, Sequences, FiniteSetsExt

CONSTANTS
    Side,       \* the side of the board
    Opponents   \* who sits where: a set of functions from Seats to Kinds

Kinds == {"human", "engine"}

ASSUME CoordinatorConstants ==
    Side \in Nat \ {0} /\ Opponents \subseteq [Seats -> Kinds]

VARIABLES
    kind, board, finished, result_info,  \* the coordinator
    human,     \* the fields of each HumanPlayer
    told,      \* what each player was last told by OnMatchEnd
    worker,    \* the thread in PlayMatch: where it is and the action in hand
    gui,       \* the thread that may call AbortMatch: where it is
    accepted   \* not in the program: the actions accepted and not yet played

vars == <<kind, board, finished, result_info, human, told, worker, gui, accepted>>

Nothing == [result |-> "UNDETERMINED", reason |-> ""]

\* HumanPlayer::OnMatchStart.
FreshHuman == [waiting |-> FALSE, cancelled |-> FALSE, submitted |-> -1]

\* StartMatch: a new board, both players told.
Init ==
    /\ kind \in Opponents
    /\ board = PluginInit(Side) /\ finished = FALSE /\ result_info = Nothing
    /\ human = [s \in Seats |-> FreshHuman]
    /\ told = [s \in Seats |-> Nothing]
    /\ worker = [at |-> "loop", action |-> -1]
    /\ gui = "idle"
    /\ accepted = [s \in Seats |-> <<>>]

\* A few actions stand for all: the lowest empty cell, an occupied one, a cell
\* that is not on the board, the control actions.
Tried ==
    LET empty == {c \in Cells(Side) : board.cells[c] = "EMPTY"}
    IN  (IF empty = {} THEN {} ELSE {Min(empty)}) \cup {NumCells(Side) + 9}
            \cup (swap2_choose_white(Side) .. choose_black(Side))

-----------------------------------------------------------------------------
(* HumanPlayer.                                                             *)

\* A plausible slip: the wait ends for a cancellation only.
MutReady(h) == h.cancelled

\* The condition InquireAction waits for.
Ready(h) == ~h.waiting \/ h.cancelled \/ h.submitted >= 0

\* A plausible slip: a click counts although nobody asks for it.
MutCanSubmit(h) == ~h.cancelled

CanSubmit(h) == h.waiting /\ ~h.cancelled

SubmitAction(seat, action) ==
    /\ kind[seat] = "human" /\ CanSubmit(human[seat])
    /\ human' = [human EXCEPT ![seat].submitted = action, ![seat].waiting = FALSE]
    /\ accepted' = [accepted EXCEPT ![seat] = Append(@, action)]
    /\ UNCHANGED <<kind, board, finished, result_info, told, worker, gui>>

\* A plausible slip: the flag is not set, only the answer is dropped.
MutCancelled(h) == [h EXCEPT !.submitted = -1]

Cancelled(h) == [h EXCEPT !.cancelled = TRUE, !.waiting = FALSE]

CancelInquiry(seat) ==
    /\ human' = [human EXCEPT ![seat] = IF kind[seat] = "human" THEN Cancelled(@) ELSE @]
    /\ UNCHANGED told

\* OnMatchEnd of a human cancels its inquiry too.
OnMatchEnd(seat) ==
    /\ human' = [human EXCEPT ![seat] = IF kind[seat] = "human" THEN Cancelled(@) ELSE @]
    /\ told' = [told EXCEPT ![seat] = result_info]

-----------------------------------------------------------------------------
(* The worker thread: PlayMatch calls Step until the match is finished.     *)

WorkerAt(from) == worker.at = from
WorkerTo(to) == worker' = [worker EXCEPT !.at = to]

\* The top of Step.
BeginStep ==
    /\ WorkerAt("loop")
    /\ WorkerTo(IF finished THEN "done" ELSE "ask")
    /\ UNCHANGED <<kind, board, finished, result_info, human, told, gui, accepted>>

\* InquireAction of a human up to the wait: whatever was pending is forgotten.
AskHuman ==
    /\ WorkerAt("ask") /\ kind[board.current] = "human"
    /\ human' = [human EXCEPT ![board.current] = [FreshHuman EXCEPT !.waiting = TRUE]]
    /\ WorkerTo("wait")
    /\ UNCHANGED <<kind, board, finished, result_info, told, gui, accepted>>

\* The wait is over.
HumanAnswers ==
    LET h == human[board.current]
    IN  /\ WorkerAt("wait") /\ Ready(h)
        /\ worker' = [at |-> "apply",
                      action |-> IF h.cancelled THEN -1 ELSE h.submitted]
        /\ human' = [human EXCEPT ![board.current] =
               [h EXCEPT !.waiting = FALSE,
                         !.submitted = IF h.cancelled THEN @ ELSE -1]]
        /\ UNCHANGED <<kind, board, finished, result_info, told, gui, accepted>>

\* An engine answers what it likes.
EngineAnswers ==
    /\ WorkerAt("ask") /\ kind[board.current] = "engine"
    /\ \E action \in Tried : worker' = [at |-> "apply", action |-> action]
    /\ UNCHANGED <<kind, board, finished, result_info, human, told, gui, accepted>>

\* An illegal action forfeits.
Forfeit ==
    /\ WorkerAt("apply") /\ ~IsLegalAction(Side, board, worker.action)
    /\ finished' = TRUE
    /\ result_info' = [result_info EXCEPT !.result = WinFor(Other(board.current))]
    /\ WorkerTo("reason")
    /\ accepted' = [accepted EXCEPT ![board.current] = <<>>]
    /\ UNCHANGED <<kind, board, human, told, gui>>

\* A legal one is applied; it may end the match.
Play ==
    /\ WorkerAt("apply") /\ IsLegalAction(Side, board, worker.action)
    /\ board' = PluginApply(Side, board, worker.action)
    /\ accepted' = [accepted EXCEPT ![board.current] = <<>>]
    /\ IF board'.result = "UNDETERMINED"
       THEN WorkerTo("loop") /\ UNCHANGED <<finished, result_info>>
       ELSE /\ finished' = TRUE
            /\ result_info' = [result_info EXCEPT !.result = board'.result]
            /\ WorkerTo("reason")
    /\ UNCHANGED <<kind, human, told, gui>>

GiveReason ==
    /\ WorkerAt("reason")
    /\ result_info' = [result_info EXCEPT !.reason =
           IF board.result = "UNDETERMINED" THEN "illegal_action"
           ELSE IF board.result = "DRAW" THEN "draw" ELSE "five_in_a_row"]
    /\ WorkerTo("tellA")
    /\ UNCHANGED <<kind, board, finished, human, told, gui, accepted>>

\* A plausible slip: only the player who was asked is told.
MutWorkerTells ==
    /\ WorkerAt("tellA") /\ WorkerTo("loop") /\ OnMatchEnd(board.current)
    /\ UNCHANGED <<kind, board, finished, result_info, gui, accepted>>

WorkerTells ==
    /\ \/ WorkerAt("tellA") /\ WorkerTo("tellB") /\ OnMatchEnd("A")
       \/ WorkerAt("tellB") /\ WorkerTo("loop") /\ OnMatchEnd("B")
    /\ UNCHANGED <<kind, board, finished, result_info, gui, accepted>>

-----------------------------------------------------------------------------
(* The GUI thread: AbortMatch.                                              *)

BeginAbort ==
    /\ gui = "idle"
    /\ ~finished
    /\ gui' = "set"
    /\ UNCHANGED <<kind, board, finished, result_info, human, told, worker, accepted>>

SetAborted ==
    /\ gui = "set"
    /\ finished' = TRUE
    /\ result_info' = [result_info EXCEPT !.result = "UNDETERMINED"]
    /\ gui' = "reason"
    /\ UNCHANGED <<kind, board, human, told, worker, accepted>>

GiveAbortReason ==
    /\ gui = "reason"
    /\ result_info' = [result_info EXCEPT !.reason = "aborted"]
    /\ gui' = "cancelA"
    /\ UNCHANGED <<kind, board, finished, human, told, worker, accepted>>

\* CancelInquiry and OnMatchEnd of one player, then of the other.
AbortTells ==
    /\ \/ gui = "cancelA" /\ gui' = "tellA" /\ CancelInquiry("A")
       \/ gui = "tellA" /\ gui' = "cancelB" /\ OnMatchEnd("A")
       \/ gui = "cancelB" /\ gui' = "tellB" /\ CancelInquiry("B")
       \/ gui = "tellB" /\ gui' = "done" /\ OnMatchEnd("B")
    /\ UNCHANGED <<kind, board, finished, result_info, worker, accepted>>

-----------------------------------------------------------------------------
Worker == \/ BeginStep \/ AskHuman \/ HumanAnswers \/ EngineAnswers
          \/ Forfeit \/ Play \/ GiveReason \/ WorkerTells

Abort == BeginAbort \/ SetAborted \/ GiveAbortReason \/ AbortTells

Next == \/ Worker \/ Abort
        \/ \E seat \in Seats, action \in Tried : SubmitAction(seat, action)

\* Both threads run: the worker whenever it is not blocked, and an abort that
\* has begun to its end.  A human may never answer.
Fairness == /\ WF_vars(Worker)
            /\ WF_vars(SetAborted) /\ WF_vars(GiveAbortReason) /\ WF_vars(AbortTells)

Spec == Init /\ [][Next]_vars /\ Fairness

-----------------------------------------------------------------------------
(* Properties.                                                              *)

\* What Step is given by a human is the one action SubmitAction accepted
\* during this inquiry; only an abort turns it into -1.
AnswersAreTheSubmitted ==
    worker.at = "apply" /\ kind[board.current] = "human" =>
        \/ accepted[board.current] = <<worker.action>>
        \/ worker.action = -1 /\ finished

\* However an abort and the worker's own ending interleave, once both threads
\* are through, both players were last told the result the coordinator keeps.
PlayersHearTheFinalResult ==
    worker.at = "done" /\ gui \in {"idle", "done"} =>
        \A s \in Seats : told[s] = result_info

\* An accepted submission is always taken up by the waiting match loop.
SubmissionsAreHeard ==
    \A s \in Seats : accepted[s] # <<>> ~> accepted[s] = <<>>

\* AbortMatch terminates the active match (match_coordinator.h): the thread in
\* PlayMatch returns, wherever the abort finds it, except in the gap between
\* its look at finished_ and the reset of cancelled_ in InquireAction.  There
\* the cancellation may be lost, and then the thread is left in an inquiry that
\* the human of the aborted match can still answer, which ends it too.
AbortEndsTheMatch ==
    /\ gui = "reason" /\ worker.at # "ask" ~> worker.at = "done"
    /\ gui = "reason" ~> \/ worker.at = "done"
                         \/ gui = "done" /\ worker.at = "wait" /\ CanSubmit(human[board.current])
    /\ finished /\ accepted[board.current] # <<>> ~> worker.at = "done"
=============================================================================
