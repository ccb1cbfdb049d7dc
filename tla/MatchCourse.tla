----------------------------- MODULE MatchCourse -----------------------------
(***************************************************************************)
(* What the match server promises about every match, whatever fails and    *)
(* whoever drops: the position follows the Swap2 rules, the journal, the   *)
(* spectators and the ratings hear of an ending together or not at all, a  *)
(* forfeit moves no stone, and over is over.  MatchServer implements it.   *)
(***************************************************************************)
EXTENDS Swap2

CONSTANT Matches
VARIABLE match   \* of every match: what its journal row and its events tell

\* A match nobody has moved in.
Fresh(stage, row) == [stage |-> stage, view |-> NewGame, row |-> row,
                      announced |-> FALSE, rated |-> FALSE]

\* A journal that fails leaves an ending that nobody hears of.
Endings(m, result) ==
    LET Over(row, announced, rated) ==
            [stage |-> "over", view |-> [m.view EXCEPT !.result = result], row |-> row,
             announced |-> announced, rated |-> rated]
    IN  {Over(m.row, m.announced, m.rated)}
          \cup {Over(IF m.row = "none" THEN "none" ELSE result, TRUE, rated) : rated \in BOOLEAN}

\* Resignation, timeout and disconnect: somebody wins.
Forfeits(m) == UNION {Endings(m, WinFor(seat)) : seat \in Seats}

\* A match is created, in the journal or not; a player who is away loses it at
\* once.
Created == {Fresh("going", row) : row \in {"none", "open"}} \cup Forfeits(Fresh("going", "open"))

\* A move reaches the board if the journal has the match; the player whose
\* turn it is then may be away.
Moved(m, view) ==
    LET moved == [m EXCEPT !.view = view]
    IN  IF view.result # "UNDETERMINED" THEN Endings(moved, view.result)
        ELSE {moved} \cup Forfeits(moved)

Continued(m) ==
    Forfeits(m) \cup (IF m.row = "none" THEN {}
                      ELSE UNION {Moved(m, view) : view \in Successors(m.view)})

Courses(m) == CASE m.stage = "none" -> Created
                [] m.stage = "going" -> Continued(m)
                [] m.stage = "over" -> {}

Init == match = [i \in Matches |-> Fresh("none", "none")]

\* One handler may end several matches.
Next == \A i \in Matches : match'[i] \in {match[i]} \cup Courses(match[i])

Spec == Init /\ [][Next]_match
=============================================================================
