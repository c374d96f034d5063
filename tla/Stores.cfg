SPECIFICATION StoresSpec
CONSTANTS
    c1 = c1
    c2 = c2
    n1 = n1
    b1 = b1
    b2 = b2
    f1 = f1
    e1 = e1
    e2 = e2
    w1 = w1
    w2 = w2
    m1 = m1
    m2 = m2
    r1 = r1
    v1 = v1
    x = x
    y = y
    Stored = {c1, c2}
    Hour = 2
    Interval = 1
    MaxTime = 4
    Nodes = {n1}
    Borrowers = {b1, b2}
    Refreshers = {f1}
    MaxPerNode = 2
    MaxCooldown = 1
    OutcomeQueue = 1
    MaxNow = 1
    CacheKeys = {e1, e2}
    Sizes = {1, 2}
    Capacity = 3
    MaxSets = 4
    Writers = {w1, w2}
    Scopes = {"private", "shared"}
    MaxLogins = 2
    MaxEdits = 2
    Mergers = {m1, m2}
    Readers = {r1}
    Savers = {v1}
    Results = {x, y}
    MemoryRoom = 1
    None = None
    Torn = Torn
SYMMETRY CacheSymmetry
INVARIANTS
    NegativeIsConfirmed
    InflightExact
    CooldownServed
    DiskLosesNoSpace
    NoUpdateLost
    MergedStays
CHECK_DEADLOCK FALSE
