SPECIFICATION Spec
CONSTANTS
    MaxWorkers = 3
    Games = 3
    Mixed = 2
    Turns <- MCTurns
    NoisePlies = 2
    SolvedPlies = {1}
    MaxBatch = 2
    MaxFaults = 1
INVARIANTS
    AnswersAreOwn
    TreesFollowTheGame
    ShardIsComplete
PROPERTY GeneratorEnds
CHECK_DEADLOCK FALSE
