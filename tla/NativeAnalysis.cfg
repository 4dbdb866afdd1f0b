CONSTANTS
    a = a  b = b  g = g  ngr = ngr  C = C  ns = ns  env = env  void = void
    home = home  builtIn = builtIn  D = D  c1 = c1  c2 = c2
    None = None  Old = Old  Torn = Torn
    Path = {home, builtIn}
    BuiltInPath = builtIn
    Database = {D}
    Command = {c1, c2}
    Cursors <- MCCursors
    AndroidFunctions <- MCAndroidFunctions
    NewGlobalRef <- newRef
    maxDepth = 11
    Worlds <- MCWorlds
SPECIFICATION Spec
INVARIANTS
    TypeOK
    LostOnlyToEqualFullName
    EdgesComeFromDefinitions
    ChainLeadsToExit
    SavedIsComplete
    LimitMeansCircle
    SavedNamesEntryFunctions
    SpStopsAtNamespace
    ArgumentsAreAmbient
PROPERTIES
    Termination
CHECK_DEADLOCK FALSE
