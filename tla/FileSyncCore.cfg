SPECIFICATION Spec
CONSTANTS
    a = a  b = b  c = c  h1 = h1  h2 = h2  f = f
    None = None  Blank = Blank
    Node <- TwoNodes
    Path <- OneFile
    Hash <- Hashes2
    InitDisk <- OneAtA
    Editors <- TwoNodes
    Senders <- TwoNodes
    PromptWatcher = TRUE
    MaxEdits = 2  MaxSends = 2  MaxForce = 0
    MaxDrops = 0  MaxRestarts = 0  MaxStops = 0  MaxFaults = 0
CHECK_DEADLOCK FALSE
INVARIANTS
    TypeOK
    
