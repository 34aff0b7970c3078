SPECIFICATION FairSpec
CONSTANTS
    TX_QUEUE_SIZE = 2
    NoItem = NoItem
    CLOCK = 7
    GUARD_MS = 2
    GAP_MS = 1
    FwdDelays = {2}
    Frames <- MCFrames
    MAX_PASS = 2
    MaxAttempts = 3
    MaxBytes = 1
INVARIANTS
    TypeOK
    EveryFrameCounted
PROPERTIES
    NeverBeforeItsTime
    EnqueueKeepsUrgent
    WaitEnds
    QueueDrains
