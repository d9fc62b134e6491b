SPECIFICATION LedgerSpec
CONSTANTS
    w1 = w1  w2 = w2
    NoWorker = NoWorker
    NumCases = 2
    MaxAttempts = 2
    Workers <- TwoWorkers
INVARIANTS
    LedgerTypeOK
    AttemptChain
    CaseFollowsLastAttempt
    AcceptedPointer
    WorkerExclusive
    OutcomeAgreement
PROPERTIES
    CommittedIsFinal
    ImplementsDispatch
