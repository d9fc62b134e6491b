SPECIFICATION Spec
CONSTANTS
    w1 = w1
    Workers <- OneWorker
    Launches <- ThreeLaunches
    NoLaunch <- Nobody
    MaxPerTick = 1
    AllowResume = TRUE
    StopsEarly = TRUE
    Faults = {"supervisor"}
PROPERTY FailureIsNotRetried
CHECK_DEADLOCK FALSE
