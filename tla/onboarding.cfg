SPECIFICATION FairSpec
CONSTANTS
    v1 = v1
    n1 = n1
    n2 = n2
    Provider = {v1}
    Phone = {n1, n2}
    NoTarget = NoTarget
    FirstPhone <- MCFirstPhone
    MaxAttempts = 2
    OtpMaxAttempts = 2
    MaxRunning = 2
    MaxCodes = 1
    MaxChanges = 1
    MaxInterviews = 1
    MaxReviews = 2
    MaxTier = 5
INVARIANTS
    TypeOK
    EarnedTier
    VerifiedNumber
    SpentCodeIsGone
    StagesAddUp

    
CHECK_DEADLOCK FALSE
