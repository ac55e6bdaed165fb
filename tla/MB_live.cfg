SPECIFICATION FairSpec
CONSTANTS
    Node = {a, b}
    Task = {t}
    Reaper = {r}
    Faults = {"stall", "crash", "shutdown", "reaper"}
    None = None
INVARIANTS TypeOK LeavesCleanly
PROPERTIES RejoinsForGood GoneIsForgotten GoneHoldsNothing
CHECK_DEADLOCK FALSE
