SPECIFICATION Spec
CONSTANTS
    u1 = u1
    u2 = u2
    A = A
    B = B
    C = C
    s1 = s1
    r1 = r1
    w1 = w1
    w2 = w2
    NoRecord = NoRecord
    BlankTag = BlankTag
    NoUid = NoUid
    NoJob = NoJob
    Free = Free
    Uids = {u1, u2}
    Tags = {A, B, C}
    Served = {A, C}
    Registered = {A, B}
    Streams = {s1}
    Unary = {}
    Workers = {w1, w2}
    Parent <- PoolOfStream
    InitUsers <- BothStored
    Messages <- Requests
    FirstMessages <- FirstAny
    MaxMsgs = 4
    ChunkSize = 2
    BulkThreshold = 2
    Retries = 1
    CallsMayFail = FALSE
    MayCancel = {}
INVARIANTS
    StoreFollowsRequests
