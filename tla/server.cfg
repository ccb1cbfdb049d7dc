SPECIFICATION Spec
CONSTANTS
    Names = {alice, bob}
    Conns = {c1, c2, c3}
    NoName = NoName
    NoConn = NoConn
    MaxGames = 1
    MaxPlies = 5
    MaxFaults = 1
SYMMETRY ConnSymmetry
CHECK_DEADLOCK FALSE
INVARIANTS RegistryMatches JournalLockstep EventsTellTheGame OneVerdict PendingForfeitIsDeserved TurnIsDelivered
PROPERTIES FinishedIsFinal LosersAreToBlame
