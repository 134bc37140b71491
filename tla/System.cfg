SPECIFICATION FairSystemSpec
CONSTANTS
    n1 = n1
    r1 = r1
    p1 = p1
    Nodes = {n1}
    NoNode = NoNode
    Requests = {r1}
    Asks <- Alone
    Players = {p1}
    Guests = {p1}
    Invited = {p1}
    NoPlayer = NoPlayer
    NoBeat = NoBeat
    Drainer = Drainer
    Capacities = {2}
    MaxLoad = 1
    HeartbeatTimeout = 0
    AgeCap = 1
    MayFail = TRUE
    KeysExpire = TRUE
    MaxRestarts = 1
    MaxQueue = 1
INVARIANTS
    SystemTypeOK
    BeatingIsRegistered
PROPERTIES
    ImplementsMatchmaker
    LoadHeals
    AskersMatched
