SPECIFICATION FairSpec
CONSTANTS
    w1 = w1
    w2 = w2
    NoWorker = NoWorker
    Workers = {w1, w2}
    QuotaLimit = 3
    MaxFence = 2
    MaxRevision = 1
CHECK_DEADLOCK FALSE
INVARIANT QuotaIsAccounted
PROPERTY TurnEnds
