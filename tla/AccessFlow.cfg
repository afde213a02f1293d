SPECIFICATION FairFlowSpec
CONSTANTS
    r1 = r1
    eve = eve
    mia = mia
    oto = oto
    pam = pam
    w1 = w1
    w2 = w2
    Nobody = Nobody
    Requests = {r1}
    Employees = {eve, mia, oto, pam}
    Admin = pam
    Workers = {w1, w2}
    IamResults = {"succeeded", "failed", "response_lost", "not_received"}
    IamForgets = TRUE
    MaxAttempts = 2
    RequesterOf <- MCRequesterOf
    Directories <- MCDirectories
INVARIANT
    NoAccessWithoutApprovers
PROPERTY
    FlowProvisions
    FlowSettles
