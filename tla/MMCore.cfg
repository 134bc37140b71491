SPECIFICATION FairNormalSpec
CONSTANTS
    n1 = n1
    r1 = r1
    r2 = r2
    r3 = r3
    p1 = p1
    p2 = p2
    Nodes = {n1}
    NoNode = NoNode
    Requests = {r1, r2, r3}
    Asks <- DoubleClick
    Players = {p1, p2}
    NoPlayer = NoPlayer
    Drainer = Drainer
    Capacities = {2}
    MaxLoad = 0
    HeartbeatTimeout = 0
    AgeCap = 1
    MayFail = FALSE
    KeysExpire = TRUE
    MaxRestarts = 0
    MaxQueue = 2
INVARIANTS
    TypeOK
    OvercommitBounded
    KeysBacked
PROPERTIES
    QueuedSurvives
    QueueDrains
