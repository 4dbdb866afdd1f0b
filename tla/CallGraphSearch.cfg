CONSTANTS
    e = e  a = a  b = b  c = c
    Method = {e, a, b}
    Entry = e
    Program <- MCProgramRich
    callGraphLev = 3
    NoVul = NoVul
    NoCall = NoCall
SPECIFICATION Spec
INVARIANTS
    TypeOK
    ReportedChainIsCallPath
    ReportIsJustified
    NullIsExhaustive
    StackIsBounded
    IInv
PROPERTIES
    ImplementsSearch
    Termination
CHECK_DEADLOCK FALSE
