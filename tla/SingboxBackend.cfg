SPECIFICATION FairSpec
CONSTANTS
    Users = {u1, u2}
    Worker = Worker
    Free = Free
    NoConfig = NoConfig
    MaxCopies = 2
INVARIANTS
    TypeOK
    
    CleanIsServed

    
