SPECIFICATION FairSpec
CONSTANTS
    u1 = u1
    u2 = u2
    User = {u1, u2}
    Online = {u1}
    Channel = {"SMS", "IN_APP"}
    Reachable <- MCReachable
    BatchSize = 1
    MaxRetries = 1
    ChannelRetries = 1
    MaxRunning = 1
    MaxNotifications = 1
    MaxFailures = 1
    MaxEvents = 2
INVARIANTS
    TypeOK
    SentOnce
    OpenIsRegistered
PROPERTIES
    Reached
CHECK_DEADLOCK FALSE
