SPECIFICATION Spec
CONSTANTS
    c1 = c1
    c2 = c2
    Calls = {c1, c2}
    NoDraft = NoDraft
    MaxDays = 1
    MaxRevision = 3
SYMMETRY Symmetry
CHECK_DEADLOCK FALSE
INVARIANTS
    TypeOK
    ConsentCoversFields
    SubmittedWithConsent
PROPERTY OnlyReadsTakeBack
