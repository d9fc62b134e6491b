SPECIFICATION Spec
CONSTANTS
    w1 = w1
    w2 = w2
    s1 = s1
    s2 = s2
    NoWorker = NoWorker
    Attempts <- AttemptIds
    NumCases = 1
    MaxAttempts = 1
    MaxRetries = 0
    Workers <- OneWorker
    Supervisors <- OneSupervisor
    WorkerOf <- JustOne
    Results = {"completed"}
    OperatorCalls = {"finish"}
    Faults = {}
INVARIANT BlockedIsProven
CHECK_DEADLOCK FALSE
