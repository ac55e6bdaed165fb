SPECIFICATION Spec
CONSTANTS
    Node = {a, b}
    TTL = 6
    MaxCall = 2
    Faults = {"pause", "redis", "crash", "shutdown"}
    None = None
SYMMETRY Symmetry
INVARIANTS TypeOK SingleLeader StaleBound FailoverBound
PROPERTIES LeaseIsTheOwners
CHECK_DEADLOCK FALSE
