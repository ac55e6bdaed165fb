SPECIFICATION Spec
CONSTANTS
    j1 = j1
    j2 = j2
    Job = {j1}
    Leader = {m1}
    Schedule <- MCSchedule
    Horizon = 2
    MaxEdits = 1
    MaxMishaps = 1
INVARIANTS NeverMarkedUnqueued
CHECK_DEADLOCK FALSE
