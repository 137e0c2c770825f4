SPECIFICATION Spec
CONSTANTS
    look = look
    edit = edit
    Nobody = Nobody
    Messages = {m1}
    Attached = {m1}
    Notices = {n1}
    Tools = {edit}
    Policy <- EditOnly
    Chips = {}
    Campaign = {}
    MaxRounds = 1
    MaxIdentical = 2
    Upsets = {}
    SaveMayFail = FALSE
    MayDelete = FALSE
    MaxCrashes = 0
INVARIANTS NobodyForgotten
CHECK_DEADLOCK FALSE
