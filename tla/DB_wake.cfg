SPECIFICATION FairSpec
CONSTANTS
    Workers = 3
    Cap = 3
    Tasks = 5
    MaxBatch = 2
    Faults = {"signal", "claim"}
INVARIANTS TypeOK NoMissedWakeUp
PROPERTIES EveryTaskClaimed
