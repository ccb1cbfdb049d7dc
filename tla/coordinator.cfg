SPECIFICATION Spec
CONSTANTS
    Side = 2
    Opponents <- MCOpponents
CHECK_DEADLOCK FALSE
INVARIANTS AnswersAreTheSubmitted PlayersHearTheFinalResult
PROPERTIES SubmissionsAreHeard AbortEndsTheMatch
