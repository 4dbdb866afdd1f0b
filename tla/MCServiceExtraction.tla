------------------------ MODULE MCServiceExtraction ------------------------
(***************************************************************************)
(* Two classes A and B that may register services and be SystemServices,   *)
(* and a registry of up to two registrations.  The service S extends T,    *)
(* which implements the binder interfaces I and, by way of K, L.           *)
(*                                                                         *)
(* Every method begins with the same definitions: of p after a null, of q  *)
(* by a cast of p, of r by a field of q, of s by a copy of r, one more     *)
(* than the budget allows; of a circle u and v; of an asBinder() w.        *)
(***************************************************************************)
EXTENDS ServiceExtraction

CONSTANTS A, B, S, T, I, K, L, one, two, p, q, r, s, u, v, w

Inv(kind, name, arg) == [kind |-> kind, name |-> name, arg |-> arg]

Def(left, right, type, invoke) ==
    [kind |-> "define", left |-> left, right |-> right, type |-> type,
     isNull |-> FALSE, invoke |-> invoke]

Definitions ==
    <<[Def(p, Null, I, "none") EXCEPT !.isNull = TRUE], Def(q, p, IBinder, "none"),
      Def(p, Null, S, "none"), Def(p, Null, I, "other"), Def(r, q, IBinder, "none"),
      Def(s, r, IBinder, "none"), Def(u, v, IBinder, "none"), Def(v, u, IBinder, "none"),
      Def(w, Null, IBinder, "asBinder")>>

Registrations ==
    {[managed |-> TRUE, complete |-> TRUE, helper |-> B, tag |-> one],
     [managed |-> TRUE, complete |-> FALSE, helper |-> B, tag |-> Null],
     [managed |-> FALSE, complete |-> TRUE, helper |-> A, tag |-> two]}

Upto(X, n) == UNION {[1 .. k -> X] : k \in 0 .. n}

Bodies(X, n) == {IF b = <<>> THEN b ELSE Definitions \o b : b \in Upto(X, n)}

BodiesA ==
    Bodies({Inv("addService", one, p), Inv("publish", two, r), Inv("publish", one, s),
            Inv("unknown", one, Null), Inv("addService", one, w)}, 2)
    \cup {<<Inv("publish", two, p), Def(p, Null, Null, "unknown"), Def(p, Null, S, "none")>>,
          <<Inv("publish", two, p), Def(p, Null, Null, "other"), Def(p, Null, K, "none"),
            Def(p, Null, S, "unknown")>>}

BodiesB == {<<>>, Definitions \o <<Inv("addService", two, u), Inv("addService", one, q)>>,
            Definitions \o <<Inv("publish", one, Null)>>}

MCMethods ==
    {[c \in Class |-> CASE c = A -> <<x, y>> [] c = B -> <<z, z>> [] OTHER -> <<>>] :
        x \in BodiesA, y \in Bodies({Inv("addService", two, q), Inv("publish", one, r)}, 1),
        z \in BodiesB}

MCWorlds ==
    {[hasInit |-> TRUE, registry |-> <<>>, methods |-> ms, android |-> {A, B}, systemServices |-> ss] :
        ms \in MCMethods, ss \in {{A}, {A, B, I}}}
    \cup {[hasInit |-> h, registry |-> g, android |-> {B}, systemServices |-> {A},
           methods |-> [c \in Class |-> IF c = A THEN <<Definitions \o <<Inv("publish", two, q)>>>>
                                        ELSE IF c = B THEN <<Definitions \o <<Inv("other", two, q), Inv("addService", two, q)>>>>
                                        ELSE <<>>]] :
             h \in BOOLEAN, g \in Upto(Registrations, 2)}

MCSuperclass ==
    [c \in Class |-> IF c = ObjectClass THEN Null ELSE IF c = S THEN T ELSE ObjectClass]

MCImplements ==
    [c \in Class |-> CASE c = T -> {I, K} [] c = K -> {L} [] c \in {I, L} -> {IInterface}
                       [] OTHER -> {}]

=============================================================================
