SPECIFICATION Spec
CONSTANTS
    u1 = u1
    u2 = u2
    A = A
    B = B
    C = C
    s1 = s1
    r1 = r1
    w1 = w1
    w2 = w2
    NoRecord = NoRecord
    BlankTag = BlankTag
    NoUid = NoUid
    NoJob = NoJob
    Free = Free
    Uids = {u1, u2}
    Tags = {A, B}
    Served = {A, B}
    Registered = {A, B}
    Streams = {s1}
    Unary = {r1}
    Workers = {w1, w2}
    Parent <- PoolEach
    InitUsers <- BothStored
    Messages <- AllOfOne
    FirstMessages <- MarkerOnly
    MaxMsgs = 2
    ChunkSize = 1
    BulkThreshold = 1
    Retries = 1
    CallsMayFail = FALSE
    MayCancel = {}
INVARIANTS
    AccountsMatchStore
    GrantedOnlyIfAsked
