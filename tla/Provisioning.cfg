SPECIFICATION Spec
CONSTANTS
    w1 = w1
    w2 = w2
    w3 = w3
    Requests = {"r1"}
    Workers = {w1, w2, w3}
    IamResults = {"succeeded", "failed", "response_lost", "not_received"}
    IamForgets = TRUE
    MaxAttempts = 3
SYMMETRY Symmetry
INVARIANTS
    TypeOK
    GrantIsEarned
    EffectsAreCounted
PROPERTIES
    NothingIsUndone
    ImplementsAccessGrant
