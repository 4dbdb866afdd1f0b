CONSTANTS
    h = h  x = x  y = y  s = s  t = t
    Method = {h, x, y}
    SubSig = {s, t}
    subSignature <- MCSubSignature
    Program <- MCProgram
    helperLev = 3
    NoMethod = NoMethod
SPECIFICATION SearchSpec
INVARIANTS
    VerdictIsExact
    IInv
PROPERTIES
    Termination
CHECK_DEADLOCK FALSE
