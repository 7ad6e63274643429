SPECIFICATION FairSpec
CONSTANTS
    a = a  b = b  manualB = manualB
    k1 = k1  k2 = k2
    None = None
    Node <- TwoNodes
    Name <- AllNames
    ManualName <- Manual
    Key <- TwoKeys
    FirstKey <- Keys
    MaxDials = 1
    Budgets <- Live
CHECK_DEADLOCK FALSE
PROPERTIES
    ApprovalCompletes
    TrustedJoin
    HalfOpenSettles
    LostPeerNoticed
