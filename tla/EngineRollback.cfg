SPECIFICATION EngineSpec
CONSTANTS
    w1 = w1
    w2 = w2
    NoWorker = NoWorker
    Workers = {w1, w2}
    QuotaLimit = 0
    MaxFence = 3
    MaxRevision = 1
CHECK_DEADLOCK FALSE
SYMMETRY Symmetry
ACTION_CONSTRAINT Bounded
INVARIANTS
    EngineTypeOK
    OneConversation
    AcceptedLineage
    OpenQuestionIsAnswerable
    RetiredIsUnanswered
    DrainedCanMove
PROPERTIES
    ConfirmedWhatWasAsked
    TurnEndsOnce
    RetiredStaysRetired
    MovedQuestionFits
    ImplementsConversation
