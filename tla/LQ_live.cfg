SPECIFICATION FairSpec
CONSTANTS
    None = None
    n1 = n1
    n2 = n2
    w1 = w1
    w2 = w2
    w3 = w3
    c1 = c1
    c2 = c2
    t1 = t1
    t2 = t2
    Task = {t1, t2}
    Node = {n1, n2}
    Worker = {w1, w3}
    Reaper = {r1}
    Client = {c1, c2}
    Admin = {}
    NodeOf <- MCNodeOf
    IdOf <- MCIdOf
    Priority <- MCPriority
    MaxRetries = 1
    Faults = {"crash"}
INVARIANTS OnePlace
PROPERTIES EventuallyFinished
CHECK_DEADLOCK FALSE
