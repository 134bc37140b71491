SPECIFICATION FairSpec
CONSTANTS
    r1 = r1
    r2 = r2
    a1 = a1
    s1 = s1
    s2 = s2
    Requests = {r1, r2}
    Calls = {a1}
    Sockets = {s1, s2}
INVARIANTS
    TypeOK

    
CHECK_DEADLOCK FALSE
