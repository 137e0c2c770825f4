SPECIFICATION FairSpec
CONSTANTS
    LogRing = 2
    ReplayBatch = 1
    MaxLines = 3
    MaxSockets = 2
    MaxLooks = 3
INVARIANTS TypeOK OnlyTheRingLoses
PROPERTIES LinesArrive StatusSettles
CHECK_DEADLOCK FALSE
