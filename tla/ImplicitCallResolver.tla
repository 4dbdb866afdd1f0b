------------------------ MODULE ImplicitCallResolver ------------------------
(***************************************************************************)
(* services/ImplicitCallResolver.kt: which methods a call of a framework   *)
(* method runs that takes a callback.  For each parameter of a class type  *)
(* PointToAnalysis is asked for the class of the argument; the methods of  *)
(* that class which override one of the parameter type are the targets.    *)
(*                                                                         *)
(* Everything below is about the state in which the question about one     *)
(* argument, the local loc, is answered.                                   *)
(***************************************************************************)
EXTENDS PointToAnalysis

CONSTANTS
    Signature,
    Constructor,    \* "void <init>()"
    declares,       \* the subsignatures of the methods of each class
    visible         \* of them those that are protected or public

ASSUME SignatureAssumption ==
    /\ Constructor \in Signature
    /\ declares \in [Class -> SUBSET Signature] /\ visible \in [Class -> SUBSET Signature]
    /\ \A c \in Class : visible[c] \subseteq declares[c]

-----------------------------------------------------------------------------
(***************************************************************************)
(* resolveRealTypeInMethod.  Being a subclass goes through all             *)
(* superclasses and holds of the class itself; of interfaces only those    *)
(* the class itself names are looked at.                                   *)
(***************************************************************************)
IsSubclass(c, d) == {c, d} \cap interfaces = {} /\ (c = d \/ d \in Superclasses(c))

(* seeded fault: the parameter type is not looked at *)
HasRealTypeFault(param) == GetLocalDefine # Null

HasRealType(param) ==
    /\ GetLocalDefine # Null
    /\ IsSubclass(GetLocalDefine, param) \/ param \in implements[GetLocalDefine]

(* getOverrideMethods: what the parameter type inherits is not looked at. *)
OverrideMethods(parent, overri) == declares[overri] \cap (visible[parent] \ {Constructor})

(* resolve, for one parameter and its argument. *)
Resolve(param) ==
    IF HasRealType(param)
    THEN {GetLocalDefine} \X OverrideMethods(param, GetLocalDefine)
    ELSE {}

-----------------------------------------------------------------------------
(***************************************************************************)
(* The search goes on in the targets as if they were called, so they must  *)
(* be methods the framework can call: of a class that some statement gives *)
(* the argument and that is below the parameter type.  And none is missed  *)
(* of an argument that only ever holds new objects of one class, when this *)
(* class names the parameter type itself or extends it.                    *)
(***************************************************************************)
CanReceive(t, param) ==
    /\ t[2] \in declares[t[1]] /\ t[2] \in visible[param]
    /\ IsAncestor(param, t[1])
    /\ \E i \in DOMAIN units :
          /\ units[i].left = loc /\ units[i].cls = t[1]
          /\ DefinesClass(units[i]) \/ units[i].kind = "param"

OnlyHolds(c) ==
    /\ \E i \in DOMAIN units : units[i].left = loc
    /\ \A i \in DOMAIN units : units[i].left = loc => units[i].kind = "new" /\ units[i].cls = c

CallbacksAreReal ==
    Answered =>
        \A param \in Class :
            /\ \A t \in Resolve(param) : CanReceive(t, param)
            /\ \A c \in Class \ interfaces :
                  OnlyHolds(c) /\ (param \in implements[c] \/ (param \notin interfaces /\ IsExtendedBy(param, c)))
                      => {<<c, s>> : s \in (declares[c] \cap visible[param]) \ {Constructor}}
                             \subseteq Resolve(param)

=============================================================================
