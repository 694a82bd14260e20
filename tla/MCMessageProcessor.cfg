SPECIFICATION MCSpec
CONSTANTS
    m1 = m1
    m2 = m2
    m3 = m3
    m4 = m4
    Msgs = {m1, m2, m3, m4}
    RoleOf <- MCRoles
    MaxQueueDepth = 2
    Sentinel = Sentinel
    MaxNotices = 2
    Rooms = {r1}
    Names = {n1}
    Tasks = {t1, t2}
    Recs = {i1, i2, i3}
    Sessions = {s1, s2}
    None = None
    Ops = {"wake", "reset", "halt", "restart", "revive"}
    RenamesAnytime = FALSE
    StartsMayFail = FALSE
    SaveMayFail = FALSE
    Procs = {1, 2}
    MaxLines = 2
    MaxRenames = 2
    MaxFailures = 3
    MaxAttempts = 2
INVARIANTS
    TypeOK
    OrderedHandOver
    DrainComplete
    BusyGateSound
    ActsForAnchor
    TurnSound
    HeaderIsCurrent
PROPERTIES
    StaysStopped
    ImplementsInbox
    AcceptedIsHandled
    DrainsEnd
CHECK_DEADLOCK FALSE
