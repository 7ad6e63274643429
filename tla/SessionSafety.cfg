SPECIFICATION Spec
CONSTANTS
    a = a  b = b  manualB = manualB
    k1 = k1  k2 = k2
    None = None
    Node <- TwoNodes
    Name <- AllNames
    ManualName <- Manual
    Key <- TwoKeys
    FirstKey <- Keys
    MaxDials = 2
    Budgets <- Safety
CHECK_DEADLOCK FALSE
INVARIANTS
    TypeOK
    AdmittedKeyTrusted
    EntriesAreOpen
    MutualConsent
    ProvenOnThisSocket
    ApprovalFindsProof
