SPECIFICATION Spec
CONSTANTS
    run = run
    scale = scale
    again = again
    attach = attach
    Proposals = {run, scale, again, attach}
    Calls = {c1, c2, c3}
    Nothing = Nothing
    Kind <- MCKind
    Row <- MCRow
    MaxDeaths = 1
INVARIANTS TypeOK LogIsTheHistory OnceUnlessOverlapped FromUnlessOverlapped
SYMMETRY Symmetry
CHECK_DEADLOCK FALSE
