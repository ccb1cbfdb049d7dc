SPECIFICATION Spec
CONSTANTS
    Names = {alice, bob}
    Conns = {c1, c2}
    NoName = NoName
    NoConn = NoConn
    MaxGames = 2
    MaxPlies = 0
    MaxFaults = 1
SYMMETRY ConnSymmetry
CHECK_DEADLOCK FALSE
INVARIANT FaultsAreContained
