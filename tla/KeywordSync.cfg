SPECIFICATION FairSpec
CONSTANTS
    w1 = w1
    w2 = w2
    s1 = s1
    NoWorker = NoWorker
    Workers = {w1, w2}
    Sources = {s1}
    Iterations = 2
    Unlimited = {2}
    MaxRev = 2
    MaxRequests = 2
    MaxDisruptions = 1
INVARIANTS
    SourceInSync
    OutcomeOfIterations
PROPERTIES
    ClaimIsCurrent
    ImplementsSyncJobs
    EveryRunEnds
CHECK_DEADLOCK FALSE
