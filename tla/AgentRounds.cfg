SPECIFICATION FairSpec
CONSTANTS
    look = look
    edit = edit
    Nobody = Nobody
    Messages = {m1}
    Attached = {}
    Notices = {}
    Tools = {look, edit}
    Policy <- LookAndEdit
    Chips = {look}
    Campaign = {edit}
    MaxRounds = 3
    MaxIdentical = 2
    Upsets = {"refusal", "truncated", "role", "retry", "fatal"}
    SaveMayFail = TRUE
    MayDelete = FALSE
    MaxCrashes = 1
INVARIANTS TypeOK AnsweredUnlessUpset ToolsAreOnDisk
PROPERTIES NothingWithoutConsent EveryTurnEnds
CHECK_DEADLOCK FALSE
