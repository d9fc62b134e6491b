SPECIFICATION Spec
CONSTANTS
    w1 = w1
    w2 = w2
    s1 = s1
    s2 = s2
    NoWorker = NoWorker
    Attempts <- AttemptIds
    NumCases = 1
    MaxAttempts = 2
    MaxRetries = 0
    Workers <- OneWorker
    Supervisors <- OneSupervisor
    WorkerOf <- JustOne
    Results = {"failed"}
    OperatorCalls = {}
    Faults = {}
PROPERTY SpentBudgetBlocksCase
CHECK_DEADLOCK FALSE
