SPECIFICATION FairSpec
CONSTANTS
    Users = {u1, u2}
    Callers = {u1}
    Worker = Worker
    NoUser = NoUser
    Slots = {1, 2}
    Tries = 2
    Rounds = 2
INVARIANTS
    TypeOK
    
PROPERTIES
    WorkingConnectionStays
    WorkerEnds
