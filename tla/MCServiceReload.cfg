SPECIFICATION MCSpec
CONSTANTS
    a1 = a1
    c1 = c1
    c2 = c2
    None = None
    Agents = {a1}
    Connectors = {c1, c2}
    MaxVersion = 2
    MaxRounds = 3
    MaxFaults = 1
    MaxDefects = 1
    Pids = {1, 2}
    Commands = {k1, k2}
    MaxCommands = 3
    MaxKills = 1
    Writers = {w1, w2}
    NoFile = NoFile
    BadEdits = {2}
    MaxEdits = 3
    MaxDeaths = 1
    MaxStays = 2
    MaxMoves = 2
    MaxTogether = 3
    Windows = {}
    NoRecord = NoRecord
SYMMETRY Symmetry
INVARIANTS
    OneRuntimeServes
    AsConfigured
    OneGateway
    NoEditLost
    RoomFollowed
CHECK_DEADLOCK FALSE
