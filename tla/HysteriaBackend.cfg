SPECIFICATION FairSpec
CONSTANTS
    Users = {u1}
    Procs = {p1, p2, p3}
    None = None
    Callers = {r1}
    Free = Free
    MaxFailures = 2
    RestartOnFailure = TRUE
INVARIANTS
    TypeOK
    OneCore
    CoreIsWired
    
    
PROPERTIES
    DownIsRestarted
