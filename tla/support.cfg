SPECIFICATION Spec
CONSTANTS
    a1 = a1
    a2 = a2
    cu = cu
    pr = pr
    e1 = e1
    d1 = d1
    d2 = d2
    Agent = {a1, a2}
    Super = {a2}
    Customer = {cu}
    Provider = {pr}
    Email = {e1}
    Decision = {d1, d2}
    Nobody = Nobody
    GivenStatus = {"WAITING_FOR_USER", "WAITING_FOR_INTERNAL", "CLOSED"}
    MaxCases = 2
    MaxRequests = 5
    MaxRunning = 2
    MaxCrashes = 1
INVARIANTS
    TypeOK
    OneAgent
    OneTicket
    DecisionFollowsResolution
    EmailOnce
SYMMETRY MCSymmetry
CHECK_DEADLOCK FALSE
