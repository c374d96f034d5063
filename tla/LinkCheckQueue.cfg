SPECIFICATION Spec
CONSTANTS
    r1 = r1
    r2 = r2
    r3 = r3
    pA = pA
    w1 = w1
    w2 = w2
    NoJob = NoJob
    Resources = {r1, r2, r3}
    Ingested = {r1, r2, r3}
    DueResources = {r1}
    Platforms = {pA}
    PlatformOf <- MCPlatformOf
    Workers = {w1, w2}
    Buffer = 2
    PlatformLimit = 2
    CircuitFailures = 1
    WriteBatchSize = 2
SYMMETRY WorkerSymmetry
INVARIANTS
    NoDuplicateJob
    CountersExact
    SingleProbe
    StoppedIsDrained
PROPERTIES
    ImplementsCheckJobs
CHECK_DEADLOCK FALSE
