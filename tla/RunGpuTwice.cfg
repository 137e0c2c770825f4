SPECIFICATION Spec
CONSTANTS
    Runs = {g1, g2}
    GpuRuns = {g1, g2}
    MaxConcurrent = 2
    Lines = {}
    EndWords = {}
    ExitKinds = {"zero"}
    Failures = {}
    Unsavable = {}
    WaitConds <- WaitNothing
    WithShutdown = FALSE
INVARIANTS GpuRunsSerialised
CHECK_DEADLOCK FALSE
