SPECIFICATION FairSpec
CONSTANTS
    n1 = n1
    n2 = n2
    Nodes = {n1, n2}
    NoNode = NoNode
    Capacities = {1}
    MaxLoad = 0
    Interval = 2
    HeartbeatTimeout = 6
    AgeCap = 9
    MaxDelay = 1
    MaxLost = 1
INVARIANTS
    TypeOK
    DetectedInTime
    NoFalseAlarm
PROPERTIES
    CrashDetected
