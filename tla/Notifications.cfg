SPECIFICATION FairSpec
CONSTANTS
    u = u  v = v  s1 = s1  None = None
    Key <- TwoKeys
    Expiring <- OnlyU
    Urgent <- OnlyU
    Session <- OnlyS1
    Dashboard <- OnlyS1
    MaxEvents = 2  Window = 1  Repeat = 2  Expiry = 2  Cooldown = 2  TTL = 2
    MaxId = 3
    Budgets <- Scenarios
CHECK_DEADLOCK FALSE
INVARIANTS
    TypeOK
    DeliveredWasTold
    BurstIsOneRecord
    
PROPERTIES
    UnreadSurvives
    EventTold

