SPECIFICATION FairSpec
CONSTANTS
    j1 = j1
    j2 = j2
    NoJob = NoJob
    Jobs = {j1}
    Legacy = {j1}
    Times <- MCTimes
    Slots <- MCSlots
    MaxTime = 3
    MaxCatchup = 2
    MaxCrashes = 1
    MaxReloads = 1
    Links = {"up", "degraded", "gone"}
    Ops = {"create", "pause", "resume", "delete", "cancel", "migrate"}
    SaveMayFail = FALSE
INVARIANTS
    TypeOK
    NoRunTooMany
    HonestVersion
PROPERTIES
    EndedStaysEnded
    DueIsSettled
CHECK_DEADLOCK FALSE
