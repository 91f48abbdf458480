\* MAX_ITERS = 5 (the debugging cap of predict_leader.py): every round may
\* keep or migrate, and the cap ends the loop after the fifth keep.
CONSTANTS
    ip38 = ip38
    ip82 = ip82
    ip223 = ip223
    NoLeader = NoLeader
    Ips <- MCIps
    SelfIp = ip38
    MaxIters = 5
    MaxRounds = 4
SYMMETRY MCSymmetry
SPECIFICATION Spec
INVARIANT TypeOK
INVARIANT DecisionLogExact
INVARIANT TransferAtMostOnce
PROPERTY MoveAfterCopy
\* The process really terminates (break after a migration, or an exception
\* leaving main); rounds beyond MaxRounds are not explored.
CHECK_DEADLOCK FALSE
