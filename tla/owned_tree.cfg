SPECIFICATION FairSpec
CONSTANTS
    MaxBirths = 4
    Pids <- ThreePids
    Supervisor = Supervisor
    Nobody = Nobody
INVARIANTS
    TreeTypeOK
    OnlyKnownSignalled
    KnownIsWorkload
    CompleteIsClean
    SuccessIsReal
PROPERTIES
    RunEnds
CHECK_DEADLOCK FALSE
