SPECIFICATION Spec
CONSTANTS
    a = a  b = b  c = c  h1 = h1  h2 = h2  f = f
    None = None  Blank = Blank
    Node <- TwoNodes
    Path <- OneFile
    Hash <- Hashes2
    InitDisk <- OneAtA
    Editors <- TwoNodes
    Senders <- OnlyA
    PromptWatcher = FALSE
    MaxEdits = 1  MaxSends = 1  MaxForce = 1
    MaxDrops = 1  MaxRestarts = 1  MaxStops = 0  MaxFaults = 1
CHECK_DEADLOCK FALSE
 
INVARIANT Backing
