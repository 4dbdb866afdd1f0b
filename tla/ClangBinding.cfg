CONSTANTS
    libclang = libclang  empty = empty  older = older
    Gap = Gap  Unknown = Unknown  None = None
    Directory = {libclang, empty}
    LibraryFile = {older}
    Installed = {libclang, older}
    Lacks <- MCLacks
    MaxObjects = 4
    Trees <- MCTrees
SPECIFICATION Spec
INVARIANTS
    TypeOK
    KindsAreExact
    HandlesStayValid
    WalkIsExact
    EverythingIsFreed
CHECK_DEADLOCK FALSE
