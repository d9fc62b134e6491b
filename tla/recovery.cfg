SPECIFICATION Spec
CONSTANTS
    w1 = w1
    w2 = w2
    s1 = s1
    s2 = s2
    NoWorker = NoWorker
    Attempts <- AttemptIds
    NumCases = 1
    MaxAttempts = 2
    MaxRetries = 1
    Workers <- OneWorker
    Supervisors <- TwoSupervisors
    WorkerOf <- BothOnOne
    Results = {"completed", "failed", "capture"}
    OperatorCalls = {"recover", "clear_halt", "audit"}
    Faults = {"supervisor_crash", "guardian_crash", "caller_crash", "reboot"}
INVARIANTS
    TypeOK
    OneRunnerPerWorker
    OrphanIsDead
    SealedEvidenceIntact
    CompletedNeverRerun
PROPERTIES
    SealIsFinal
    OneRunnerPerIntent
CHECK_DEADLOCK FALSE
