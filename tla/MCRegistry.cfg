SPECIFICATION RegistrySpec
CONSTANTS
    n1 = n1
    n2 = n2
    n3 = n3
    Nodes = {n1, n2, n3}
    NoNode = NoNode
    Capacities = {1, 2}
    MaxLoad = 2
    HeartbeatTimeout = 1
    AgeCap = 2
SYMMETRY NodeSymmetry
INVARIANTS
    RegistryTypeOK
    BestNodeLoopIsBest
    UnhealthyMeansSilent
PROPERTIES
    DrainingSticks
