SPECIFICATION ScopedSpec
CONSTANTS
    r1 = r1
    r2 = r2
    n1 = n1
    n2 = n2
    n3 = n3
    t1 = t1
    t2 = t2
    s1 = s1
    s2 = s2
    s3 = s3
    i1 = i1
    i2 = i2
    i3 = i3
    i4 = i4
    i5 = i5
    i6 = i6
    None = None
    Rooms = {r1, r2}
    Names = {n1, n2, n3}
    Tasks = {t1, t2}
    Recs = {i1, i2, i3, i4}
    Sessions = {s1, s2}
    Ops = {"wake", "join", "pause", "resume", "drop", "expire", "leave", "release"}
    RenamesAnytime = FALSE
    StartsMayFail = TRUE
    SaveMayFail = TRUE
INVARIANTS
    OneTransition
    AllOrNothing
    NamesAgree
PROPERTIES
    OnlyReclaimForgets
    PauseHolds
SYMMETRY Symmetry
CHECK_DEADLOCK FALSE
