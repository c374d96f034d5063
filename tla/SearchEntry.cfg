SPECIFICATION FairEntry
CONSTANTS
    i1 = i1
    i2 = i2
    i3 = i3
    b1 = b1
    b2 = b2
    c1 = c1
    c2 = c2
    k1 = k1
    k2 = k2
    q1 = q1
    q2 = q2
    q3 = q3
    Interactive = {i1, i2, i3}
    Background = {b1, b2}
    ActiveSearches = 2
    SearchQueue = 2
    Callers = {c1, c2}
    Keys = {k1, k2}
    Live = Live
    Requests = {q1, q2, q3}
    Limits <- MCLimits
    Unlimited <- MCUnlimited
    SecondsPerMinute = 3
    MaxSecond = 3
    MaxEdits = 1
    QueueSize = 1
    BatchSize = 2
    MaxEvents = 4
INVARIANTS
    ForegroundReserved
    NoForeignCancel
    FreshReplayStays
    PassedWithinLimits
    UsageAccounted
PROPERTIES
    ImplementsFairSlots
    WaiterIsServed
    CallerReturns
    UsageSettles
CHECK_DEADLOCK FALSE
