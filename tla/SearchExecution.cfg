SPECIFICATION HangingSpec
CONSTANTS
    c1 = c1
    c2 = c2
    s1 = s1
    Calls = {c1, c2}
    Tasks <- OneSource
    PerRequest = 1
    ClassLimit = 2
    Limits = {1, 2}
    Thresholds = {1, 3}
    MaxConfigs = 1
INVARIANTS
    LimiterExact
    ProbeInFlight
    ResultsComplete
PROPERTIES
    ExecuteReturns
