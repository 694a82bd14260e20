SPECIFICATION Spec
CONSTANTS
    N = 3
    QueueDepth = 2
    Pending = 1
    Page = 2
    MaxFaults = 4
    MaxTogether = 5
    MaxDrops = 2
    MaxSubs = 2
    Windows = {"cancel"}
    Kinds = {"MM"}
    Rooms = {r1}
    MaxId = 5
    Senders = {p1}
    MaxTurns = 2
    TTL = 1
    Factor = 2
    Remembered = 2
    Deliveries = {1, 2}
    MaxIssued = 4
    MaxCounts = 4
    Bots = {b1, b2}
    Dms = {d1}
    GroupDms = {g1}
    Scopes = {x1, x2}
    Unscoped = Unscoped
    MaxReloads = 2
    MaxUndone = 1
    Requests = {q1, q2, q3}
    MaxVoices = 1
    Nobody = Nobody
    Callers = {k1, k2}
    MaxLapses = 2
    OldHeaders = FALSE
    b1 = b1
    x1 = x1
INVARIANTS
    NothingSkipped
CHECK_DEADLOCK FALSE
