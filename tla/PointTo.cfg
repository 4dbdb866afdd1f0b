CONSTANTS
    p = p  q = q  r = r  run = run  add = add
    Callback = Callback  Stub = Stub  Proxy = Proxy  List = List  Box = Box
    Local = {p, q, r}
    ObjectClass = ObjectClass  IInterface = IInterface
    Class = {Callback, Stub, Proxy, List, Box, ObjectClass, IInterface}
    interfaces = {Callback, List, IInterface}
    superclass <- MCSuperclass
    implements <- MCImplements
    Constructor = Constructor
    Signature = {Constructor, run, add}
    declares <- MCDeclares
    visible <- MCVisible
    Null = Null
    Bodies <- MCBodies
SPECIFICATION Spec
INVARIANTS
    AnswerIsOwnLastDefine
    CallbacksAreReal
PROPERTIES
    EveryQuestionIsAnswered
