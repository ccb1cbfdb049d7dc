SPECIFICATION Spec
CONSTANTS
    Turns <- MCTurns
    Actions = {1, 2}
    MaxAttempts = 2
CHECK_DEADLOCK FALSE
INVARIANT TurnsAreUnderstood
PROPERTY ClientEnds
