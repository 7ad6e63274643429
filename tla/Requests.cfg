SPECIFICATION FairSpec
CONSTANTS
    a = a  b = b  c = c  r1 = r1  c1 = c1  c2 = c2  f = f  g = g
    None = None
    Node <- ThreeNodes
    Linked <- Star
    Askers <- OnlyA
    Advertisers <- OnlyB
    CallerId <- OneId
    Cap <- TwoCaps
    Path <- TwoFiles
    Budgets <- Scenarios
CHECK_DEADLOCK FALSE
INVARIANTS
    TypeOK
    AwaitedIsOpen
    TimerPerRequest
    EndsOnce
    AnswerMatches
    AskedOnce
    ComparedWithItself
    
PROPERTIES
    RequestEnds
    DiffEnds
