CONSTANTS
    J = J  semi = semi  brace = brace  x = x  y = y  c = c  d = d
    JNINativeMethod = J
    Semicolon = semi
    Spelling = {J, semi, brace, x, y, c, d}
    MaxPieces = 4
    Trees <- MCTrees
    Old = Old
    Torn = Torn
SPECIFICATION Spec
INVARIANTS
    TypeOK
    SavedMapIsExact
    NamelessBlockLosesAll
PROPERTIES
    Termination
CHECK_DEADLOCK FALSE
