SPECIFICATION Spec
CONSTANTS
    Line = {1, 2}  MaxLines = 6  ContextLines = 1  Malformed = Malformed
INVARIANTS
    ScriptIsShortest
    PatchGivesText
