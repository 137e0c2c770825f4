SPECIFICATION FairSpec
CONSTANTS
    Runs = {g1, c1}
    GpuRuns = {g1}
    MaxConcurrent = 2
    Lines = {"nan", "error"}
    EndWords = {"refused"}
    ExitKinds = {"zero", "nonzero", "signal"}
    Failures = {"open", "child"}
    Unsavable = {}
    WaitConds <- WaitTerminal
    WithShutdown = TRUE
INVARIANTS TypeOK EndIsKnown
PROPERTIES VerdictFits NoSpawnAfterEnd ShutdownReturns ImplementsLifecycle
CHECK_DEADLOCK FALSE
