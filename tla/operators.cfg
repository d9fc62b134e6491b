SPECIFICATION Spec
CONSTANTS
    w1 = w1
    w2 = w2
    s1 = s1
    s2 = s2
    NoWorker = NoWorker
    Attempts <- AttemptIds
    NumCases = 1
    MaxAttempts = 1
    MaxRetries = 0
    Workers <- OneWorker
    Supervisors <- OneSupervisor
    WorkerOf <- JustOne
    Results = {"completed", "failed"}
    OperatorCalls = {"finish", "supply", "returncode", "fail", "recover", "retry", "clear_halt", "audit"}
    Faults = {"supervisor_crash", "caller_crash", "guardian_error", "deadline", "gate_drift", "worker_drift"}
INVARIANTS
    LaunchInv
    LiveRunnerIsLeased
    AcceptedIsProven
PROPERTY QueueImplementsLedger
CHECK_DEADLOCK FALSE
