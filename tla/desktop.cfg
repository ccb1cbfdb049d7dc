SPECIFICATION Spec
CONSTANTS
    Side = 2
    Scripts <- MCScripts
    Plies <- MCPlies
    MaxFaults = 1
CHECK_DEADLOCK FALSE
INVARIANTS NoThreadOutlivesTheMatch RecordsMatchTheGame ReplayMatchesTheGame
PROPERTIES SearchOwnsItsInputs ResultsAreNeverStale EnginesKeepPlaying
