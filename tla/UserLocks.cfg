SPECIFICATION FairSpec
CONSTANTS
    Goroutines = {g1, g2, g3, g4}
    Uids = {u1, u2}
    Locks = {l1, l2, l3, l4}
    NoLock = NoLock
    None = None
    NoUid = NoUid
INVARIANTS
    TypeOK
    MutualExclusion
    NoLeak
PROPERTIES
    ImplementsMutex
