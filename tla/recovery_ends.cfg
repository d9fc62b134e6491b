SPECIFICATION RecoverySpec
CONSTANTS
    w1 = w1
    w2 = w2
    s1 = s1
    s2 = s2
    NoWorker = NoWorker
    Attempts <- AttemptIds
    NumCases = 1
    MaxAttempts = 2
    MaxRetries = 1
    Workers <- OneWorker
    Supervisors <- OneSupervisor
    WorkerOf <- JustOne
    Results = {"completed", "failed"}
    OperatorCalls = {"recover"}
    Faults = {"supervisor_crash", "guardian_crash", "caller_crash", "reboot"}
PROPERTY DeadAttemptResolved
CHECK_DEADLOCK FALSE
