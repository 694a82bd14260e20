SPECIFICATION Spec
CONSTANTS
    j1 = j1
    j2 = j2
    NoJob = NoJob
    Jobs = {j1, j2}
    Legacy = {}
    Times <- MCTimes
    Slots <- MCSlots
    MaxTime = 2
    MaxCatchup = 2
    MaxCrashes = 1
    MaxReloads = 1
    Links = {"up"}
    Ops = {"create", "pause", "resume", "delete", "cancel", "migrate"}
    SaveMayFail = FALSE
PROPERTIES
    PausedDoesNotFire
CHECK_DEADLOCK FALSE
