SPECIFICATION Spec
CONSTANTS
    a = a  b = b  c = c  h1 = h1  h2 = h2  f = f
    None = None  Blank = Blank
    Node <- TwoNodes
    Path <- OneFile
    Hash <- Hashes2
    InitDisk <- Empty
    Editors <- TwoNodes
    Senders <- OnlyA
    PromptWatcher = TRUE
    MaxEdits = 2  MaxSends = 1  MaxForce = 0
    MaxDrops = 0  MaxRestarts = 1  MaxStops = 0  MaxFaults = 0
CHECK_DEADLOCK FALSE
PROPERTY AcceptKeepsUnsentEdit
