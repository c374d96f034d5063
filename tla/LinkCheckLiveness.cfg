SPECIFICATION FairSpec
CONSTANTS
    r1 = r1
    r2 = r2
    r3 = r3
    pA = pA
    w1 = w1
    w2 = w2
    NoJob = NoJob
    Resources = {r1, r2}
    Ingested = {r1, r2}
    DueResources = {}
    Platforms = {pA}
    PlatformOf <- MCPlatformOf
    Workers = {w1, w2}
    Buffer = 1
    PlatformLimit = 1
    CircuitFailures = 1
    WriteBatchSize = 2
PROPERTIES
    QueuedIsFinalized
    StopCompletes
CHECK_DEADLOCK FALSE
