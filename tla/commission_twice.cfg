SPECIFICATION Spec
CONSTANTS
    t1 = t1
    v1 = v1
    Task = {t1}
    Provider = {v1}
    Customer = Customer
    MaxRunning = 2
    NoProvider = NoProvider
    Estimate = 1
    Amounts = {2}
    MaxRequests = 2
    MaxAdjustments = 1
    MaxCrashes = 0
INVARIANT
    OneCommission
CHECK_DEADLOCK FALSE
