SPECIFICATION Spec
CONSTANTS
    Side = 6
    Boards <- MCBoards
    Budgets = {2, 40}
INVARIANTS
    SearchIsExact
    SafeActionsHold
    QuietMeansSafe
CHECK_DEADLOCK FALSE
