SPECIFICATION FairSpec
CONSTANTS
    j1 = j1
    j2 = j2
    Job = {j1, j2}
    Leader = {m1, m2}
    Schedule <- MCSchedule
    Horizon = 2
    MaxEdits = 2
    MaxMishaps = 1
INVARIANTS TypeOK FiredOncePerLeader SlotCovered
PROPERTIES CatchesUp
CHECK_DEADLOCK FALSE
