SPECIFICATION FairSpec
CONSTANTS
    x1 = x1
    NoOne = NoOne
    Keywords = {1, 2}
    MaxBatches = 2
    Externals = {x1}
    FaultyCallers = {"tick", "manual", x1}
    CanCrash = TRUE
    MaxDisruptions = 2
    MaxRequests = 2
    Sample <- Succeeding
INVARIANTS
    BatchInSync
    OwnedUntilAsked
    StopWaitsForAll
PROPERTIES
    FinishedIsFinal
    EveryItemFinishes
CHECK_DEADLOCK FALSE
