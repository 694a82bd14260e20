SPECIFICATION MCSpec
CONSTANTS
    c1 = c1
    c2 = c2
    s1 = s1
    s2 = s2
    r1 = r1
    r2 = r2
    t1 = t1
    t2 = t2
    Calls = {c1, c2}
    Sessions = {s1, s2}
    Rooms = {r1, r2}
    Threads = {t1, t2}
    SessionOf <- MCSessionOf
    RoomOf <- MCRoomOf
    Meta = {}
    GuestAllowed = {}
    OwnerAllowed = {}
    SkipOwner = FALSE
    HumanApproval = TRUE
    Ids = {1}
    MaxAttempts = 2
    NoThread = NoThread
    NoId = NoId
    Kinds = {"OpenCode"}
    o1 = o1
    o2 = o2
    Turns = {o1, o2}
    Ports = {p1, p2}
    MaxSpawns = 2
    MaxFailures = 1
    Slots = 1
    MaxFaults = 2
    Windows = {}
    x1 = x1
    x2 = x2
    Other = Other
    MaxTokens = 2
    MaxLength = 3
    MaxProduct = 5
INVARIANT
    AsksReachTheBroker
CHECK_DEADLOCK FALSE
