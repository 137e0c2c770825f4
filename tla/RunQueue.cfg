SPECIFICATION EndingSpec
CONSTANTS
    Runs = {g1, g2, c1}
    GpuRuns = {g1, g2}
    MaxConcurrent = 2
    Lines = {}
    EndWords = {}
    ExitKinds = {"zero"}
    Failures = {"open", "spawn", "sink"}
    Unsavable = {g1}
    WaitConds <- WaitNothing
    WithShutdown = FALSE
INVARIANTS HeadWaitsForAReason RecordIsTrue
PROPERTIES EveryRunEnds
CHECK_DEADLOCK FALSE
