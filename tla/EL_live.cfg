SPECIFICATION FairSpec
CONSTANTS
    Node = {a, b, c}
    TTL = 6
    MaxCall = 0
    Faults = {"crash", "shutdown"}
    None = None
PROPERTIES EventuallyLed
CHECK_DEADLOCK FALSE
