SPECIFICATION FairSpec
CONSTANTS
    Names = {alice, bob}
    Conns = {c1, c2, c3}
    NoName = NoName
    NoConn = NoConn
    MaxGames = 1
    MaxPlies = 0
    MaxFaults = 0
CHECK_DEADLOCK FALSE
PROPERTIES EveryMatchEnds
