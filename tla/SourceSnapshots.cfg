SPECIFICATION Spec
CONSTANTS
    r1 = r1
    r2 = r2
    u1 = u1
    u2 = u2
    NoOne = NoOne
    Readers = {r1, r2}
    Updaters = {u1, u2}
    MaxVersion = 3
    MaxCrashes = 1
SYMMETRY ActorSymmetry
INVARIANTS
    SafeLeaseIsOpen
    RuntimeInSync
    RetiredIsClosed
PROPERTIES
    NoRollback
CHECK_DEADLOCK FALSE
