SPECIFICATION FairSpec
CONSTANTS
    q1 = q1
    q2 = q2
    t1 = t1
    t2 = t2
    NoEvent = NoEvent
    Requests <- TwoRequests
    Tools <- OneTool
    ToolOrder <- OneToolOrder
    Faults = {"timeout", "kill", "stop", "disk", "power"}
    MaxStarts = 2
INVARIANTS
    HoldoutTypeOK
    WritersSatisfyReader
    EffectsFollowRecords
    PendingHasOwner
    ScoredIsFrozen
PROPERTIES
    ImplementsEventOrder
    PendingIsRevealed
CHECK_DEADLOCK FALSE
