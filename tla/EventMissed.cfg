SPECIFICATION JsonSpec
CONSTANT TurnCount = 2
CHECK_DEADLOCK FALSE
INVARIANT NothingMissed
