SPECIFICATION FairSpec
CONSTANTS
    look = look
    edit = edit
    Nobody = Nobody
    Messages = {m1}
    Attached = {m1}
    Notices = {n1}
    Tools = {edit}
    Policy <- EditOnly
    Chips = {}
    Campaign = {}
    MaxRounds = 1
    MaxIdentical = 2
    Upsets = {"retry"}
    SaveMayFail = TRUE
    MayDelete = TRUE
    MaxCrashes = 0
INVARIANTS OneTurn NobodyForgottenUnlessUpset DeletedStaysDeleted
CHECK_DEADLOCK FALSE
