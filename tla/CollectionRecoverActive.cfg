SPECIFICATION Spec
CONSTANTS
    x1 = x1
    NoOne = NoOne
    Keywords = {1, 2}
    MaxBatches = 2
    Externals = {x1}
    FaultyCallers = {"tick", "manual", x1}
    CanCrash = FALSE
    MaxDisruptions = 1
    MaxRequests = 2
    Sample <- Succeeding
INVARIANTS
    WorkerOwnsItem
CHECK_DEADLOCK FALSE
