SPECIFICATION FairStreamSpec
CONSTANT TurnCount = 2
CHECK_DEADLOCK FALSE
INVARIANTS
    StreamTypeOK
    OneTerminalPerTurn
    OneStreamedTurn
    CursorAfterAnswer
    ShownInOrder
    OnlyOvertakenAreMissed
    RevokedStreamStops
PROPERTY TurnsAreClosed
