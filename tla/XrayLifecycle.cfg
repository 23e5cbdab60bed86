SPECIFICATION Spec
CONSTANTS
    c1 = c1
    c2 = c2
    A = A
    B = B
    NoProc = NoProc
    Free = Free
    NoConfig = NoConfig
    Procs = {p1, p2}
    Callers = {r1}
    Configs = {c1}
    TagsOf <- TagsOfConfigs
    FileConfig = c1
    RestartOnFailure = TRUE
    HasCooldown = FALSE
    MayExit = TRUE
    MaxFailures = 2
    MayCancel = {r1}
INVARIANTS
    TypeOK
    OneCore
    PublishedIsCurrent
    ExitLeavesNoCore
PROPERTIES
    EveryRestartRepopulates
    ImplementsCore
