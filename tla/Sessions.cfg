SPECIFICATION FairSpec
CONSTANTS
    p1 = p1
    p2 = p2
    t1 = t1
    t2 = t2
    t3 = t3
    c1 = c1
    c2 = c2
    c3 = c3
    Players = {p1, p2}
    Tokens = {t1, t2}
    NoToken = NoToken
    Owner <- SamePlayer
    Conns = {c1, c2}
    BufferSize = 1
INVARIANTS
    NoPanic
    NoGhosts
PROPERTIES
    Admits
    TornDown
    DrainedStaysEmpty
CHECK_DEADLOCK FALSE
