SPECIFICATION Spec
CONSTANTS
    Searches = {s1, s2}
    Keywords = {k1, k2}
    Items = {x}
    MaxWorkers = 1
    MaxSearches = 2
INVARIANTS
    MergedUnderOwnKey
CHECK_DEADLOCK FALSE
