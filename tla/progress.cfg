SPECIFICATION FairSpec
CONSTANTS
    w1 = w1
    w2 = w2
    s1 = s1
    s2 = s2
    NoWorker = NoWorker
    Attempts <- AttemptIds
    NumCases = 2
    MaxAttempts = 2
    MaxRetries = 1
    Workers <- TwoWorkers
    Supervisors <- TwoSupervisors
    WorkerOf <- OneEach
    Results = {"completed", "failed"}
    OperatorCalls = {}
    Faults = {}
PROPERTY EventuallySettled
CHECK_DEADLOCK FALSE
