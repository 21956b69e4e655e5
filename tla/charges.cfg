SPECIFICATION Spec
CONSTANTS
    t1 = t1
    t2 = t2
    r1 = r1
    r2 = r2
    p1 = p1
    p2 = p2
    p3 = p3
    Task = {t1}
    Session = {p1, p2}
    Ref = {r1, r2}
    ShortRef = {}
    NoTask = NoTask
    NoRef = NoRef
    MaxAttempts = 2
    Gross = 2
    Debt0 = 3
    Roles <- PaymentRoles
    MaxCrashes = 1
    CallsOutlast = FALSE
SYMMETRY Symmetry
INVARIANTS
    
    LedgerCoversSettlements
CHECK_DEADLOCK FALSE
