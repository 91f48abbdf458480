CONSTANTS
    ip38 = ip38
    ip82 = ip82
    ip223 = ip223
    NoLeader = NoLeader
    Ips <- MCIps
    SelfIp = ip38
    MaxIters = 0
    MaxRounds = 2
SPECIFICATION Spec
INVARIANT SnapshotKeptUnlessMoved
CHECK_DEADLOCK FALSE
