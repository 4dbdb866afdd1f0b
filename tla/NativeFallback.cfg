CONSTANTS
    f = f  m = m  ngr = ngr  ns = ns  C = C  env = env  void = void
    Cursors <- MCCursors
    Inputs <- MCInputs
SPECIFICATION Spec
INVARIANTS
    FallbackFindsGlobalRef
CHECK_DEADLOCK FALSE
