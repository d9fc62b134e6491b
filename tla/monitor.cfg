SPECIFICATION FairSpec
CONSTANTS
    w1 = w1
    Workers <- OneWorker
    Launches <- ThreeLaunches
    NoLaunch <- Nobody
    MaxPerTick = 1
    AllowResume = TRUE
    StopsEarly = TRUE
    Faults = {"guard", "supervisor", "monitor", "reboot", "call"}
INVARIANTS
    MonitorTypeOK
    OneSupervisorPerWorker
    NothingRunsUnknown
PROPERTIES
    LaunchesOnFreeWorkers
    ClosedStaysClosed
    UnfinishedLaunchEnds
CHECK_DEADLOCK FALSE
