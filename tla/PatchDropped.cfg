SPECIFICATION FairSpec
CONSTANTS
    v1 = v1  v2 = v2  Own = Own  Torn = Torn  None = None
    Version <- TwoVersions
    Total = 2  MaxPush = 2
    Budgets <- OnePatch
CHECK_DEADLOCK FALSE
PROPERTIES
    PushArrives
