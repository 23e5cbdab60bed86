SPECIFICATION FairSpec
CONSTANTS
    Streams = {s1}
    Feeds = {f1}
    Kept = 2
    Capacity = 1
    MaxLines = 3
    Backends <- OneBackend
    Missing = Missing
    Torn = Torn
    MaxBoots = 2
INVARIANTS
    TypeOK
    PairMatches
    CallsLeaveNoCore
    NoGap
PROPERTIES
    ShutdownCompletes
CHECK_DEADLOCK FALSE
