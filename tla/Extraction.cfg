CONSTANTS
    A = A  B = B  S = S  T = T  I = I  K = K  L = L  one = one  two = two
    p = p  q = q  r = r  s = s  u = u  v = v  w = w
    ObjectClass = ObjectClass  RegistryClass = RegistryClass
    IInterface = IInterface  IBinder = IBinder
    Class = {A, B, S, T, I, K, L, IInterface, IBinder, ObjectClass, RegistryClass}
    Null = Null  Throws = Throws  Torn = Torn
    Value = {p, q, r, s, u, v, w}
    ServiceName = {one, two}
    interfaces = {I, K, L, IInterface, IBinder}
    superclass <- MCSuperclass
    implements <- MCImplements
    Worlds <- MCWorlds
SPECIFICATION Spec
INVARIANTS
    SavedListIsExact
    ListIsFitForDetection
CHECK_DEADLOCK FALSE
