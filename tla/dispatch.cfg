SPECIFICATION Spec
CONSTANTS
    t1 = t1
    t2 = t2
    v1 = v1
    v2 = v2
    h1 = h1
    h2 = h2
    Task = {t1}
    Provider = {v1}
    Handler = {h1, h2}
    NoTask = NoTask
    NoProvider = NoProvider
    AutoMax = 1
    BatchSize = 1
    Nearby <- Everywhere
    MaxRequests = 2
    MaxCrashes = 0
    LateAnswers = FALSE
    LongSessions = TRUE
SYMMETRY Symmetry
INVARIANTS
    TypeOK
    RetriesBounded
    NoMatchIsLast
CHECK_DEADLOCK FALSE
