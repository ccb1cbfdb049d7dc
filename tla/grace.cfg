SPECIFICATION Spec
CONSTANTS
    Names = {alice, bob}
    Conns = {c1, c2}
    NoName = NoName
    NoConn = NoConn
    MaxGames = 1
    MaxPlies = 4
    MaxFaults = 0
CHECK_DEADLOCK FALSE
PROPERTIES GraceIsHonoured
