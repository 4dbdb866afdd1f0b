------------------------- MODULE MCPointToAnalysis -------------------------
(***************************************************************************)
(* Bodies of up to four statements over three locals: parameters first, as *)
(* Jimple has them, then copies (also in a circle), creations, field reads *)
(* and interface calls.  Callback is a binder interface, Proxy a class     *)
(* that implements it by way of Stub, List an interface and Box a class    *)
(* that names it.                                                          *)
(***************************************************************************)
EXTENDS ImplicitCallResolver

CONSTANTS p, q, r, Callback, Stub, Proxy, List, Box, run, add

St(kind, left, right, cls) == [kind |-> kind, left |-> left, right |-> right, cls |-> cls]

Upto(S, n) == UNION {[1 .. k -> S] : k \in 0 .. n}

Parameters == {St("param", p, p, Callback), St("param", p, p, List), St("param", p, p, Proxy)}

Assigns ==
    {St("copy", q, p, List), St("copy", p, q, List), St("copy", q, r, List),
     St("copy", r, q, List), St("new", r, r, Box), St("field", q, q, List),
     St("invoke", p, p, List), St("new", q, q, Proxy), St("other", q, q, List)}

MCBodies == {ps \o as : ps \in Upto(Parameters, 1), as \in Upto(Assigns, 3)}

MCSuperclass == [k \in Class |-> CASE k = Proxy -> Stub [] k = ObjectClass -> Null [] OTHER -> ObjectClass]

MCImplements ==
    [k \in Class |-> CASE k = Stub -> {Callback} [] k = Callback -> {IInterface} [] k = Box -> {List}
                       [] OTHER -> {}]

MCDeclares ==
    [k \in Class |-> CASE k \in {Proxy, Stub} -> {Constructor, run, add} [] k = Callback -> {run}
                       [] k = Box -> {Constructor, add} [] k = List -> {add, run} [] OTHER -> {Constructor}]

MCVisible == [k \in Class |-> IF k = Stub THEN {Constructor, run} ELSE MCDeclares[k]]

=============================================================================
