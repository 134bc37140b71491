SPECIFICATION FairSpec
CONSTANTS
    n1 = n1
    r1 = r1
    r2 = r2
    r3 = r3
    p1 = p1
    p2 = p2
    Nodes = {n1}
    NoNode = NoNode
    Requests = {r1}
    Asks <- OneRequest
    Players = {p1}
    NoPlayer = NoPlayer
    Drainer = Drainer
    Capacities = {1}
    MaxLoad = 0
    HeartbeatTimeout = 0
    AgeCap = 1
    MayFail = FALSE
    KeysExpire = FALSE
    MaxRestarts = 1
    MaxQueue = 1
PROPERTIES
    ReRegisters
