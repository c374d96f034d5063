SPECIFICATION Spec
CONSTANTS
    r1 = r1
    r2 = r2
    u1 = u1
    u2 = u2
    NoOne = NoOne
    Readers = {r1}
    Updaters = {u1}
    MaxVersion = 2
    MaxCrashes = 0
INVARIANTS
    LeaseIsOpen
CHECK_DEADLOCK FALSE
