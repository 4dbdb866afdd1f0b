CONSTANTS
    e = e  a = a  b = b  c = c
    Method = {e, a, b, c}
    Entry = e
    Program <- MCProgramDeep
    callGraphLev = 3
    NoVul = NoVul
    NoCall = NoCall
SPECIFICATION Spec
INVARIANTS
    MissesOnlyBeyondLevel
CHECK_DEADLOCK FALSE
