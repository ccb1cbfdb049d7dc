SPECIFICATION Spec
CONSTANTS
    Start = "p0"
    Succ <- MCSucc
    Mover <- MCMover
    Opening <- MCOpening
    Outcome <- MCOutcome
    Value <- MCValue
    ZeroPrior <- MCZeroPrior
    Solved <- MCSolved
    SafeActions <- MCSafeActions
    BatchSize = 2
    VirtualLoss = 3
    Noise = TRUE
    MaxSimulations = 5
INVARIANTS
    TreeFitsTheGame
    StatisticsAreExact
    SelectionNeverFails
    UnsafeMovesAreExcluded
CHECK_DEADLOCK FALSE
