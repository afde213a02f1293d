SPECIFICATION Spec
CONSTANTS
    r1 = r1
    r2 = r2
    eve = eve
    mia = mia
    oto = oto
    Nobody = Nobody
    Requests = {r1, r2}
    Employees = {eve, mia, oto}
    RequesterOf <- MCRequesterOf
    Directories <- MCDirectories
INVARIANTS
    TypeOK
    ApprovedByWholeRoute
    CaseMatchesSteps
    NoSelfApproval
    InboxMatchesDecision
    RefusalsAreTruthful
PROPERTY
    DecisionsAreFinal
