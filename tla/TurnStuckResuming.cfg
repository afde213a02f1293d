SPECIFICATION Spec
CONSTANTS
    w1 = w1
    w2 = w2
    NoWorker = NoWorker
    Workers = {w1, w2}
    QuotaLimit = 2
    MaxFence = 2
    MaxRevision = 2
CHECK_DEADLOCK FALSE
INVARIANT AnswerClosesQuestion
