SPECIFICATION Spec
CONSTANTS
    run = run
    scale = scale
    again = again
    attach = attach
    Proposals = {run}
    Calls = {c1, c2}
    Nothing = Nothing
    Kind <- MCKind
    Row <- MCRow
    MaxDeaths = 0
INVARIANTS OnceApplied
CHECK_DEADLOCK FALSE
