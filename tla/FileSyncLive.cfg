SPECIFICATION FairSpec
CONSTANTS
    a = a  b = b  c = c  h1 = h1  h2 = h2  f = f
    None = None  Blank = Blank
    Node <- TwoNodes
    Path <- OneFile
    Hash <- Hashes2
    InitDisk <- OneAtA
    Editors <- TwoNodes
    Senders <- OnlyA
    PromptWatcher = TRUE
    MaxEdits = 1  MaxSends = 1  MaxForce = 0
    MaxDrops = 0  MaxRestarts = 0  MaxStops = 1  MaxFaults = 1
CHECK_DEADLOCK FALSE
PROPERTY PushAnswered
