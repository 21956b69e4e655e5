SPECIFICATION Spec
CONSTANTS
    t1 = t1
    t2 = t2
    v1 = v1
    v2 = v2
    h1 = h1
    h2 = h2
    Task = {t1}
    Provider = {v1, v2}
    Handler = {h1, h2}
    NoTask = NoTask
    NoProvider = NoProvider
    AutoMax = 1
    BatchSize = 1
    Nearby <- Everywhere
    MaxRequests = 1
    MaxCrashes = 1
    LateAnswers = TRUE
    LongSessions = FALSE
SYMMETRY Symmetry
INVARIANTS
    AssigneeAccepted
CHECK_DEADLOCK FALSE
