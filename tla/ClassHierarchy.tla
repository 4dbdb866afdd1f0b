--------------------------- MODULE ClassHierarchy ---------------------------
(***************************************************************************)
(* What the analyser asks about the classes Soot has loaded: getInfForClass*)
(* and getInfForImpl of utils/SootTool.kt, isBinderClass of                *)
(* services/ServiceImplExtractor.kt.                                       *)
(***************************************************************************)
EXTENDS Naturals, FiniteSets

CONSTANTS
    Class,          \* classes and interfaces
    ObjectClass,    \* java.lang.Object
    IInterface,     \* android.os.IInterface
    Null,
    interfaces,     \* the classes that are interfaces
    superclass,     \* the superclass of each class, or Null
    implements      \* the interfaces a class implements, or an interface extends

(***************************************************************************)
(* Object has no superclass, nor has a phantom class; an interface may     *)
(* have Object for one, but is none itself.  The searches below end, even  *)
(* if there were a circle in the edges.                                    *)
(***************************************************************************)
HierarchyAssumption ==
    /\ IsFiniteSet(Class) /\ {ObjectClass, IInterface} \subseteq Class /\ Null \notin Class
    /\ interfaces \subseteq Class
    /\ superclass \in [Class -> (Class \ interfaces) \cup {Null}]
    /\ implements \in [Class -> SUBSET interfaces]
    /\ superclass[ObjectClass] = Null /\ implements[ObjectClass] = {}

(***************************************************************************)
(* getInfForClass: a work list from the class upwards.  The class itself   *)
(* is in the result when it is an interface; Object is not looked at.      *)
(***************************************************************************)
Above(c) ==
    IF c = ObjectClass THEN {}
    ELSE ({superclass[c]} \ {Null, ObjectClass}) \cup implements[c]

(* seeded fault: the superclasses are not looked at *)
InfForClassFault(c) == ({c} \cap interfaces) \cup implements[c]

InfForClass(c) ==
    LET polled[k \in 0 .. Cardinality(Class)] ==
            IF k = 0 THEN {c} ELSE UNION {{d} \cup Above(d) : d \in polled[k - 1]}
    IN  ({c} \cap interfaces) \cup UNION {implements[d] : d \in polled[Cardinality(Class)]}

(***************************************************************************)
(* getInfForImpl: the first of them that extends IInterface itself, in the *)
(* order of a HashSet, so any of them; the class itself when none does.    *)
(***************************************************************************)
IsBinderInterface(c) == IInterface \in implements[c]

InfForImpl(c) ==
    LET infs == {i \in InfForClass(c) : IsBinderInterface(i)}
    IN  IF infs = {} THEN {c} ELSE infs

(***************************************************************************)
(* isBinderClass: a superclass, the Stub, implements a binder interface;   *)
(* what the class implements itself does not count.                        *)
(***************************************************************************)
Superclasses(c) ==
    LET above[k \in 0 .. Cardinality(Class)] ==
            IF k = 0 THEN {superclass[c]} \ {Null}
            ELSE (UNION {{d, superclass[d]} : d \in above[k - 1]}) \ {Null}
    IN  above[Cardinality(Class)]

IsBinderClass(c) ==
    IF c \in interfaces THEN IsBinderInterface(c)
    ELSE \E s \in Superclasses(c) : \E i \in implements[s] : IsBinderInterface(i)

-----------------------------------------------------------------------------
(* Without a work list: d is above c when no set without d holds c and,    *)
(* with a class, its superclass and interfaces.                            *)
IsClosed(U) == \A e \in U : implements[e] \cup ({superclass[e]} \ {Null}) \subseteq U

IsAncestor(d, c) == \A U \in SUBSET (Class \ {d}) : c \in U => ~IsClosed(U)

(* The same with superclasses alone: c is d or extends it.                 *)
IsExtendedBy(d, c) == \A U \in SUBSET (Class \ {d}) : c \in U => \E e \in U : superclass[e] \notin U \cup {Null}

BinderInterfacesOf(c) == {i \in interfaces : IsBinderInterface(i) /\ IsAncestor(i, c)}

=============================================================================
