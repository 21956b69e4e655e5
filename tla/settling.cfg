SPECIFICATION FairInitiatedSpec
CONSTANTS
    t1 = t1
    t2 = t2
    r1 = r1
    r2 = r2
    p1 = p1
    p2 = p2
    p3 = p3
    Task = {t1}
    Session = {p1, p2}
    Ref = {r1}
    ShortRef = {}
    NoTask = NoTask
    NoRef = NoRef
    MaxAttempts = 2
    Gross = 2
    Debt0 = 0
    Roles <- SuccessRoles
    MaxCrashes = 1
    CallsOutlast = TRUE
PROPERTIES
    TransferSettles
CHECK_DEADLOCK FALSE
