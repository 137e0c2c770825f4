SPECIFICATION FairSpec
CONSTANTS
    N = 3
    Bytes <- MCBytes
    Empty = "none"
    Size <- MCSize
    MaxTag = 1
    Worlds <- MCPrograms
    Timed <- MCTimed
    Failures = {"panic", "spawn", "spurious"}
INVARIANTS TypeOK NoOvertaking NoLostWakeup
PROPERTIES NoSuccessAfterAbort RunReturns ImplementsRounds
CHECK_DEADLOCK FALSE
