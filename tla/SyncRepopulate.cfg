SPECIFICATION FairSpec
CONSTANTS
    u1 = u1
    u2 = u2
    A = A
    B = B
    C = C
    s1 = s1
    r1 = r1
    w1 = w1
    w2 = w2
    NoRecord = NoRecord
    BlankTag = BlankTag
    NoUid = NoUid
    NoJob = NoJob
    Free = Free
    Uids = {u1}
    Tags = {A, B}
    Served = {A, B}
    Registered = {A, B}
    Streams = {s1}
    Unary = {r1}
    Workers = {w1}
    Parent <- PoolOfUnary
    InitUsers <- OneStored
    Messages <- Changes
    FirstMessages <- FirstChange
    MaxMsgs = 1
    ChunkSize = 1
    BulkThreshold = 2
    Retries = 2
    CallsMayFail = TRUE
    MayCancel = {s1}
INVARIANTS
    TypeOK
    SuccessIsEffective
    SnapshotCurrent
    LockHeldOnlyWhileApplying
PROPERTIES
    DropsForCause
    HandlersFinish
