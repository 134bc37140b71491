SPECIFICATION SystemSpec
CONSTANTS
    n1 = n1
    r1 = r1
    p1 = p1
    Nodes = {n1}
    NoNode = NoNode
    Requests = {r1}
    Asks <- Alone
    Players = {p1}
    Guests = {}
    Invited = {}
    NoPlayer = NoPlayer
    NoBeat = NoBeat
    Drainer = Drainer
    Capacities = {1}
    MaxLoad = 1
    HeartbeatTimeout = 0
    AgeCap = 1
    MayFail = TRUE
    KeysExpire = TRUE
    MaxRestarts = 1
    MaxQueue = 2
PROPERTIES
    MatchedIsExpected
