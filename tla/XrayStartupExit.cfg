SPECIFICATION Spec
CONSTANTS
    c1 = c1
    c2 = c2
    A = A
    B = B
    NoProc = NoProc
    Free = Free
    NoConfig = NoConfig
    Procs = {p1, p2}
    Callers = {}
    Configs = {c1}
    TagsOf <- TagsOfConfigs
    FileConfig = c1
    RestartOnFailure = TRUE
    HasCooldown = FALSE
    MayExit = FALSE
    MaxFailures = 1
    MayCancel = {}
PROPERTIES
    StartupExitIsReal
