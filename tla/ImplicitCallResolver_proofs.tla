---------------------- MODULE ImplicitCallResolver_proofs ----------------------
(***************************************************************************)
(* PointToAnalysis and ImplicitCallResolver, for all method bodies and     *)
(* class hierarchies: what the analysis answers is what the statements of  *)
(* the local say, and the callbacks resolved from it are those a framework *)
(* can call.                                                               *)
(***************************************************************************)
EXTENDS ImplicitCallResolver, RoundsLemmas

-----------------------------------------------------------------------------
(***************************************************************************)
(* SUPERCLASSES                                                            *)
(***************************************************************************)
ParentOf == [c \in Class |-> {superclass[c]} \ {Null}]

(* One more step along the superclasses, in the form of ClassHierarchy.    *)
LEMMA ParentFacts ==
    /\ IsFiniteSet(Class) /\ Null \notin Class /\ Cardinality(Class) \in Nat
    /\ ParentOf \in [Class -> SUBSET Class]
    /\ \A c \in Class : ParentOf[c] \in SUBSET Class
    /\ \A X \in SUBSET Class :
          (UNION {{d, superclass[d]} : d \in X}) \ {Null} = X \cup SuccessorsIn(ParentOf, X)
<1>1. IsFiniteSet(Class) /\ Null \notin Class /\ superclass \in [Class -> Class \cup {Null}]
  BY ClassesAssumption DEF HierarchyAssumption
<1>2. Cardinality(Class) \in Nat
  BY <1>1, FS_CardinalityType
<1>3. \A c \in Class : ParentOf[c] = {superclass[c]} \ {Null} /\ ParentOf[c] \in SUBSET Class
  BY <1>1 DEF ParentOf
<1>4. ParentOf \in [Class -> SUBSET Class]
  BY <1>1 DEF ParentOf
<1>5. ASSUME NEW X \in SUBSET Class
      PROVE  (UNION {{d, superclass[d]} : d \in X}) \ {Null} = X \cup SuccessorsIn(ParentOf, X)
  <2> SUFFICES ASSUME NEW y
               PROVE  (\E d \in X : y \in {d, superclass[d]}) /\ y # Null
                        <=> y \in X \/ \E d \in X : y \in ParentOf[d]
    BY DEF SuccessorsIn
  <2> QED
    BY <1>1, <1>3
<1> QED
  BY <1>1, <1>2, <1>3, <1>4, <1>5

(***************************************************************************)
(* Superclasses is the least set that has the superclass of c and, with a  *)
(* class, its superclass.                                                  *)
(***************************************************************************)
LEMMA SuperclassesFacts ==
    ASSUME NEW c \in Class
    PROVE  /\ Superclasses(c) \in SUBSET Class
           /\ ParentOf[c] \subseteq Superclasses(c)
           /\ IsClosedIn(ParentOf, Superclasses(c))
           /\ \A Y \in SUBSET Class :
                 ParentOf[c] \subseteq Y /\ IsClosedIn(ParentOf, Y) => Superclasses(c) \subseteq Y
<1> DEFINE N == Cardinality(Class)
           A == ParentOf[c]
           above[k \in 0 .. N] == IF k = 0 THEN {superclass[c]} \ {Null}
                                  ELSE (UNION {{d, superclass[d]} : d \in above[k - 1]}) \ {Null}
<1>1. N \in Nat /\ IsFiniteSet(Class) /\ A \in SUBSET Class /\ ParentOf \in [Class -> SUBSET Class]
  BY ParentFacts
<1>0. A = {superclass[c]} \ {Null}
  BY DEF ParentOf
<1>2. PICK f : IsRounds(f, ParentOf, A, N)
  BY <1>1, RoundsExist
<1>3. f = [k \in 0 .. N |-> IF k = 0 THEN {superclass[c]} \ {Null}
                            ELSE (UNION {{d, superclass[d]} : d \in f[k - 1]}) \ {Null}]
  <2> HIDE DEF N, A
  <2>1. \A k \in 0 .. N : f[k] \in SUBSET Class
    BY <1>1, <1>2, RoundsStayInside
  <2>2. \A k \in 0 .. N : k # 0 => (UNION {{d, superclass[d]} : d \in f[k - 1]}) \ {Null}
                                     = f[k - 1] \cup SuccessorsIn(ParentOf, f[k - 1])
    <3> SUFFICES ASSUME NEW k \in 0 .. N, k # 0
                 PROVE  (UNION {{d, superclass[d]} : d \in f[k - 1]}) \ {Null}
                          = f[k - 1] \cup SuccessorsIn(ParentOf, f[k - 1])
      OBVIOUS
    <3>1. f[k - 1] \in SUBSET Class
      BY <1>1, <2>1
    <3> QED
      BY <3>1, ParentFacts
  <2> QED
    BY <1>1, <1>0, <1>2, <2>2 DEF IsRounds
<1>4. above = [k \in 0 .. N |-> IF k = 0 THEN {superclass[c]} \ {Null}
                                ELSE (UNION {{d, superclass[d]} : d \in above[k - 1]}) \ {Null}]
  BY <1>3
<1>5. Superclasses(c) = above[N]
  BY DEF Superclasses
<1>6. IsRounds(above, ParentOf, A, N)
  <2> DEFINE t == [k \in 0 .. N |-> (UNION {{d, superclass[d]} : d \in above[k]}) \ {Null}]
  <2> HIDE DEF above, N
  <2>1. \A k \in 0 .. N - 1 : above[k] \in SUBSET Class => t[k] = above[k] \cup SuccessorsIn(ParentOf, above[k])
    BY <1>1, ParentFacts
  <2>2. IsSteps(above, A, t, N)
    <3>1. \A k \in 0 .. N : k # 0 => t[k - 1] = (UNION {{d, superclass[d]} : d \in above[k - 1]}) \ {Null}
      BY <1>1
    <3> HIDE DEF t, A
    <3> QED
      BY <1>1, <1>0, <1>4, <3>1 DEF IsSteps
  <2> HIDE DEF t, A
  <2> QED
    BY <1>1, <2>1, <2>2, RoundsRecognised
<1> HIDE DEF above, A
<1>7. /\ above[N] \in SUBSET Class /\ A \subseteq above[N] /\ IsClosedIn(ParentOf, above[N])
      /\ \A Y \in SUBSET Class : A \subseteq Y /\ IsClosedIn(ParentOf, Y) => above[N] \subseteq Y
  BY <1>1, <1>6, RoundsAreLeastClosed
<1> QED
  BY <1>5, <1>7 DEF A

-----------------------------------------------------------------------------
(***************************************************************************)
(* TYPES                                                                   *)
(***************************************************************************)
(* A question is about a local, and so is every step of the walk. *)
QueryInv ==
    /\ pass = "following" => {loc, cur} \subseteq Local
    /\ answer # Null => answer = loc /\ loc \in Local

TypeInv == TypeOK /\ QueryInv

(* At the start no question is asked. *)
LEMMA InitTypeInv == Init => TypeInv
<1>1. Init => units \in Seq(Assign)
  BY BodiesAssumption DEF Init
<1> QED
  BY <1>1 DEF Init, TypeInv, TypeOK, QueryInv

(* The statement a pass is at. *)
LEMMA UnitFacts ==
    ASSUME TypeOK, pc < Len(units)
    PROVE  /\ Unit \in Assign /\ Unit.left \in Local /\ Unit.right \in Local /\ Unit.cls \in Class
           /\ pc \in Nat /\ Len(units) \in Nat /\ pc + 1 \in 1 .. Len(units) /\ DOMAIN units = 1 .. Len(units)
<1>1. pc \in Nat /\ Len(units) \in Nat /\ pc + 1 \in 1 .. Len(units)
  BY DEF TypeOK
<1>2. Unit \in Assign
  BY <1>1 DEF TypeOK, Unit
<1>3. DOMAIN units = 1 .. Len(units)
  BY DEF TypeOK
<1> QED
  BY <1>1, <1>2, <1>3 DEF Assign

(* Each step keeps the types, and asks about locals only. *)
LEMMA NextTypeInv == TypeInv /\ [Next]_vars => TypeInv'
<1> SUFFICES ASSUME TypeOK, QueryInv, [Next]_vars PROVE TypeOK' /\ QueryInv'
  BY DEF TypeInv
<1>1. CASE BinderParameter
  <2>1. valueDefines' \in [Local -> Class \cup {Null}]
    BY <1>1, UnitFacts DEF BinderParameter, TypeOK
  <2>2. pc' \in 0 .. Len(units)
    BY <1>1, UnitFacts DEF BinderParameter
  <2> QED
    BY <1>1, <2>1, <2>2 DEF BinderParameter, TypeOK, QueryInv, query
<1>2. CASE StartAssigns
  BY <1>2 DEF StartAssigns, TypeOK, QueryInv, query, maps
<1>3. CASE FindValueDefines
  <2>1. valueDefines' \in [Local -> Class \cup {Null}]
    BY <1>3, UnitFacts DEF FindValueDefines, TypeOK
  <2>2. pointToSet' \in [Local -> Local \cup {Null}]
    BY <1>3, UnitFacts DEF FindValueDefines, TypeOK
  <2>3. localValues' \subseteq Local
    BY <1>3, UnitFacts DEF FindValueDefines, TypeOK
  <2>4. pc' \in 0 .. Len(units)
    BY <1>3, UnitFacts DEF FindValueDefines
  <2> QED
    BY <1>3, <2>1, <2>2, <2>3, <2>4 DEF FindValueDefines, TypeOK, QueryInv, query
<1>4. CASE RunReturns
  BY <1>4 DEF RunReturns, TypeOK, QueryInv, query, maps
<1>5. ASSUME NEW l \in Local, Ask(l) PROVE TypeOK' /\ QueryInv'
  BY <1>5 DEF Ask, TypeOK, QueryInv, maps
<1>6. CASE FollowCopy
  <2>1. cur \in Local /\ visitSet \subseteq Local /\ pass' = "following"
    BY <1>6 DEF TypeOK, QueryInv, FollowCopy
  <2>2. cur' \in Local
    BY <1>6, <2>1 DEF FollowCopy, KeepsWalking, TypeOK
  <2> QED
    BY <1>6, <2>1, <2>2 DEF FollowCopy, TypeOK, QueryInv, maps
<1>7. CASE ReturnLocal
  BY <1>7 DEF ReturnLocal, TypeOK, QueryInv, maps
<1>8. CASE UNCHANGED vars
  BY <1>8 DEF vars, TypeOK, QueryInv
<1> QED
  BY <1>1, <1>2, <1>3, <1>4, <1>5, <1>6, <1>7, <1>8 DEF Next

(***************************************************************************)
(* The maps of the analysis and the walk over the copies keep their types. *)
(***************************************************************************)
THEOREM PointToTypeCorrect == Spec => []TypeOK
<1>1. TypeInv => TypeOK
  BY DEF TypeInv
<1> QED
  BY <1>1, InitTypeInv, NextTypeInv, PTL DEF Spec

-----------------------------------------------------------------------------
(***************************************************************************)
(* WHAT THE MAPS HOLD                                                      *)
(***************************************************************************)

(***************************************************************************)
(* The last place of a set of places, and of one with a later place added. *)
(***************************************************************************)
LEMMA LastPlace ==
    ASSUME NEW n \in Nat, NEW S \in SUBSET (1 .. n)
    PROVE  /\ S # {} => LastOf(S) \in S /\ \A j \in S : j <= LastOf(S)
           /\ LastOf(S \cup {n + 1}) = n + 1
<1>0. \A i \in S : i \in Nat /\ i <= n
  OBVIOUS
<1>1. ASSUME S # {} PROVE LastOf(S) \in S /\ \A j \in S : j <= LastOf(S)
  <2> DEFINE T == {n - i : i \in S}
  <2>1. T \in SUBSET Nat /\ T # {}
    <3>1. \A i \in S : n - i \in Nat
      BY <1>0
    <3> QED
      BY <1>1, <3>1
  <2>2. PICK t \in T : \A m \in T : t <= m
    <3> HIDE DEF T
    <3> QED
      BY <2>1, LeastNatural
  <2>3. PICK i \in S : t = n - i
    BY <2>2
  <2>4. \A j \in S : j <= i
    <3> SUFFICES ASSUME NEW j \in S PROVE j <= i
      OBVIOUS
    <3>1. n - j \in T /\ j \in Nat /\ i \in Nat
      BY <1>0
    <3> QED
      BY <2>2, <2>3, <3>1
  <2> QED
    BY <2>4 DEF LastOf
<1>2. LastOf(S \cup {n + 1}) = n + 1
  <2>1. \A j \in S \cup {n + 1} : j <= n + 1
    BY <1>0
  <2>2. \A i \in S \cup {n + 1} : (\A j \in S \cup {n + 1} : j <= i) => i = n + 1
    BY <1>0
  <2> QED
    BY <2>1, <2>2 DEF LastOf
<1> QED
  BY <1>1, <1>2

(***************************************************************************)
(* Of the first n statements those that give l a class, those that make it *)
(* a binder parameter, and those that create an object for it; and the     *)
(* class the map must have for it.                                         *)
(***************************************************************************)
GivesTo(u, l, n) == {i \in 1 .. n : u[i].left = l /\ DefinesClass(u[i])}

BindsTo(u, l, n) == {i \in 1 .. n : u[i].left = l /\ u[i].kind = "param" /\ IsBinderClass(u[i].cls)}

NewsTo(u, l, n) == {i \in 1 .. n : u[i].left = l /\ u[i].kind = "new"}

ClassGiven(u, gives, binds) ==
    IF gives # {} THEN u[LastOf(gives)].cls
    ELSE IF binds # {} THEN u[LastOf(binds)].cls
    ELSE Null

(* How far the two passes of run() have come. *)
ParamsSeen == IF pass = "params" THEN pc ELSE Len(units)

AssignsSeen == CASE pass = "params" -> 0
                 [] pass = "assigns" -> pc
                 [] OTHER -> Len(units)

MapsInv ==
    \A l \in Local :
        /\ valueDefines[l] = ClassGiven(units, GivesTo(units, l, AssignsSeen), BindsTo(units, l, ParamsSeen))
        /\ l \in localValues <=> NewsTo(units, l, AssignsSeen) # {}

(* One statement more. *)
LEMMA OneMoreGives ==
    ASSUME NEW u, NEW l, NEW n \in Nat
    PROVE  GivesTo(u, l, n + 1) = IF u[n + 1].left = l /\ DefinesClass(u[n + 1])
                                  THEN GivesTo(u, l, n) \cup {n + 1} ELSE GivesTo(u, l, n)
<1>1. \A i : i \in 1 .. n + 1 <=> i \in 1 .. n \/ i = n + 1
  OBVIOUS
<1> QED
  BY <1>1 DEF GivesTo

(* One more statement: a binder parameter of the local, or none. *)
LEMMA OneMoreBinds ==
    ASSUME NEW u, NEW l, NEW n \in Nat
    PROVE  BindsTo(u, l, n + 1) = IF u[n + 1].left = l /\ u[n + 1].kind = "param" /\ IsBinderClass(u[n + 1].cls)
                                  THEN BindsTo(u, l, n) \cup {n + 1} ELSE BindsTo(u, l, n)
<1>1. \A i : i \in 1 .. n + 1 <=> i \in 1 .. n \/ i = n + 1
  OBVIOUS
<1> QED
  BY <1>1 DEF BindsTo

(* One more statement: a new object of the local, or none. *)
LEMMA OneMoreNews ==
    ASSUME NEW u, NEW l, NEW n \in Nat
    PROVE  NewsTo(u, l, n + 1) # {} <=> NewsTo(u, l, n) # {} \/ (u[n + 1].left = l /\ u[n + 1].kind = "new")
<1>1. \A i : i \in 1 .. n + 1 <=> i \in 1 .. n \/ i = n + 1
  OBVIOUS
<1> QED
  BY <1>1 DEF NewsTo

(* The class of a statement that is added after the others.                *)
LEMMA LastOfNext ==
    ASSUME NEW u, NEW l, NEW n \in Nat
    PROVE  /\ LastOf(GivesTo(u, l, n) \cup {n + 1}) = n + 1
           /\ LastOf(BindsTo(u, l, n) \cup {n + 1}) = n + 1
<1>1. GivesTo(u, l, n) \in SUBSET (1 .. n) /\ BindsTo(u, l, n) \in SUBSET (1 .. n)
  BY DEF GivesTo, BindsTo
<1> QED
  BY <1>1, LastPlace

(* No statement says nothing. *)
LEMMA NoUnit ==
    ASSUME NEW u, NEW l
    PROVE  GivesTo(u, l, 0) = {} /\ BindsTo(u, l, 0) = {} /\ NewsTo(u, l, 0) = {}
<1>1. 1 .. 0 = {}
  OBVIOUS
<1> QED
  BY <1>1 DEF GivesTo, BindsTo, NewsTo

(* Empty maps hold what no statement says. *)
LEMMA InitMapsInv == Init => MapsInv
<1> SUFFICES ASSUME Init, NEW l \in Local
             PROVE  /\ valueDefines[l] = ClassGiven(units, GivesTo(units, l, AssignsSeen), BindsTo(units, l, ParamsSeen))
                    /\ l \in localValues <=> NewsTo(units, l, AssignsSeen) # {}
  BY DEF MapsInv
<1>1. AssignsSeen = 0 /\ ParamsSeen = 0 /\ valueDefines[l] = Null /\ localValues = {}
  BY DEF Init, AssignsSeen, ParamsSeen
<1>2. GivesTo(units, l, 0) = {} /\ BindsTo(units, l, 0) = {} /\ NewsTo(units, l, 0) = {}
  BY NoUnit
<1> QED
  BY <1>1, <1>2 DEF ClassGiven

(* Each step keeps the maps true to the statements seen. *)
LEMMA NextMapsInv == TypeInv /\ MapsInv /\ [Next]_vars => MapsInv'
<1> SUFFICES ASSUME TypeOK, MapsInv, [Next]_vars, NEW l \in Local
             PROVE  (/\ valueDefines[l] = ClassGiven(units, GivesTo(units, l, AssignsSeen), BindsTo(units, l, ParamsSeen))
                     /\ l \in localValues <=> NewsTo(units, l, AssignsSeen) # {})'
  BY DEF MapsInv, TypeInv
<1>1. /\ valueDefines[l] = ClassGiven(units, GivesTo(units, l, AssignsSeen), BindsTo(units, l, ParamsSeen))
      /\ l \in localValues <=> NewsTo(units, l, AssignsSeen) # {}
  BY DEF MapsInv
<1>2. valueDefines \in [Local -> Class \cup {Null}] /\ localValues \subseteq Local
      /\ pc \in Nat /\ Len(units) \in Nat
  BY DEF TypeOK
<1>3. CASE BinderParameter
  <2>1. /\ pass = "params" /\ pass' = "params" /\ pc' = pc + 1 /\ pc < Len(units) /\ units' = units
        /\ localValues' = localValues
    BY <1>3 DEF BinderParameter
  <2>2. /\ AssignsSeen = 0 /\ AssignsSeen' = 0 /\ ParamsSeen = pc /\ ParamsSeen' = pc + 1
    BY <2>1 DEF AssignsSeen, ParamsSeen
  <2>3. GivesTo(units, l, 0) = {}
    BY NoUnit
  <2>4. valueDefines'[l] = ClassGiven(units, {}, BindsTo(units, l, pc + 1))
    <3>1. CASE Unit.left = l /\ Unit.kind = "param" /\ IsBinderClass(Unit.cls)
      <4>1. valueDefines'[l] = Unit.cls
        BY <1>2, <1>3, <3>1 DEF BinderParameter
      <4>2. BindsTo(units, l, pc + 1) = BindsTo(units, l, pc) \cup {pc + 1}
        BY <1>2, <3>1, OneMoreBinds DEF Unit
      <4>3. LastOf(BindsTo(units, l, pc) \cup {pc + 1}) = pc + 1
        BY <1>2, LastOfNext
      <4> QED
        BY <4>1, <4>2, <4>3 DEF ClassGiven, Unit
    <3>2. CASE ~(Unit.left = l /\ Unit.kind = "param" /\ IsBinderClass(Unit.cls))
      <4>1. valueDefines'[l] = valueDefines[l]
        BY <1>2, <1>3, <3>2 DEF BinderParameter
      <4>2. BindsTo(units, l, pc + 1) = BindsTo(units, l, pc)
        BY <1>2, <3>2, OneMoreBinds DEF Unit
      <4> QED
        BY <1>1, <2>2, <2>3, <4>1, <4>2
    <3> QED
      BY <3>1, <3>2
  <2> QED
    BY <1>1, <2>1, <2>2, <2>3, <2>4
<1>4. CASE StartAssigns
  <2>1. /\ pass = "params" /\ pass' = "assigns" /\ pc = Len(units) /\ pc' = 0
        /\ UNCHANGED <<units, valueDefines, localValues>>
    BY <1>4 DEF StartAssigns, maps
  <2>2. AssignsSeen = 0 /\ AssignsSeen' = 0 /\ ParamsSeen = Len(units) /\ ParamsSeen' = Len(units)
    BY <2>1 DEF AssignsSeen, ParamsSeen
  <2> QED
    BY <1>1, <2>1, <2>2
<1>5. CASE FindValueDefines
  <2>1. /\ pass = "assigns" /\ pass' = "assigns" /\ pc' = pc + 1 /\ pc < Len(units) /\ units' = units
    BY <1>5 DEF FindValueDefines
  <2>2. /\ AssignsSeen = pc /\ AssignsSeen' = pc + 1
        /\ ParamsSeen = Len(units) /\ ParamsSeen' = Len(units)
    BY <2>1 DEF AssignsSeen, ParamsSeen
  <2>3. valueDefines'[l] = ClassGiven(units, GivesTo(units, l, pc + 1), BindsTo(units, l, Len(units)))
    <3>1. CASE Unit.left = l /\ DefinesClass(Unit)
      <4>1. valueDefines'[l] = Unit.cls
        BY <1>2, <1>5, <3>1 DEF FindValueDefines
      <4>2. GivesTo(units, l, pc + 1) = GivesTo(units, l, pc) \cup {pc + 1}
        BY <1>2, <3>1, OneMoreGives DEF Unit
      <4>3. LastOf(GivesTo(units, l, pc) \cup {pc + 1}) = pc + 1
        BY <1>2, LastOfNext
      <4> QED
        BY <4>1, <4>2, <4>3 DEF ClassGiven, Unit
    <3>2. CASE ~(Unit.left = l /\ DefinesClass(Unit))
      <4>1. valueDefines'[l] = valueDefines[l]
        BY <1>2, <1>5, <3>2 DEF FindValueDefines
      <4>2. GivesTo(units, l, pc + 1) = GivesTo(units, l, pc)
        BY <1>2, <3>2, OneMoreGives DEF Unit
      <4> QED
        BY <1>1, <2>2, <4>1, <4>2
    <3> QED
      BY <3>1, <3>2
  <2>4. l \in localValues' <=> NewsTo(units, l, pc + 1) # {}
    <3>1. NewsTo(units, l, pc + 1) # {}
             <=> NewsTo(units, l, pc) # {} \/ (Unit.left = l /\ Unit.kind = "new")
      BY <1>2, OneMoreNews DEF Unit
    <3>2. l \in localValues' <=> l \in localValues \/ (Unit.kind = "new" /\ Unit.left = l)
      BY <1>5 DEF FindValueDefines
    <3> QED
      BY <1>1, <2>2, <3>1, <3>2
  <2> QED
    BY <2>1, <2>2, <2>3, <2>4
<1>6. CASE RunReturns
  <2>1. /\ pass = "assigns" /\ pass' = "asking" /\ pc = Len(units) /\ pc' = pc
        /\ UNCHANGED <<units, valueDefines, localValues>>
    BY <1>6 DEF RunReturns, maps
  <2>2. /\ AssignsSeen = Len(units) /\ AssignsSeen' = Len(units)
        /\ ParamsSeen = Len(units) /\ ParamsSeen' = Len(units)
    BY <2>1 DEF AssignsSeen, ParamsSeen
  <2> QED
    BY <1>1, <2>1, <2>2
<1>7. CASE (\E k \in Local : Ask(k)) \/ FollowCopy \/ ReturnLocal
  <2>1. /\ pass \in {"asking", "following"} /\ pass' \in {"asking", "following"}
        /\ UNCHANGED <<units, valueDefines, localValues>>
    BY <1>7 DEF Ask, FollowCopy, ReturnLocal, maps
  <2>2. /\ AssignsSeen = Len(units) /\ AssignsSeen' = Len(units)
        /\ ParamsSeen = Len(units) /\ ParamsSeen' = Len(units)
    BY <2>1 DEF AssignsSeen, ParamsSeen
  <2> QED
    BY <1>1, <2>1, <2>2
<1>8. CASE UNCHANGED vars
  <2>1. UNCHANGED <<units, valueDefines, localValues, pass, pc>>
    BY <1>8 DEF vars
  <2>2. AssignsSeen' = AssignsSeen /\ ParamsSeen' = ParamsSeen
    BY <2>1 DEF AssignsSeen, ParamsSeen
  <2> QED
    BY <1>1, <2>1, <2>2
<1> QED
  BY <1>3, <1>4, <1>5, <1>6, <1>7, <1>8 DEF Next

(***************************************************************************)
(* The inductive invariant of the analysis: at every statement of the two  *)
(* passes the maps hold what the statements seen so far say of each local. *)
(***************************************************************************)
PointToInv == TypeInv /\ MapsInv

(* It holds in every reachable state. *)
THEOREM PointToInvariance == Spec => []PointToInv
<1>1. Init => PointToInv
  BY InitTypeInv, InitMapsInv DEF PointToInv
<1>2. PointToInv /\ [Next]_vars => PointToInv'
  BY NextTypeInv, NextMapsInv DEF PointToInv
<1> QED
  BY <1>1, <1>2, PTL DEF Spec

(* What the callers of a run that is over are answered. *)
LEMMA AnswerFacts ==
    ASSUME PointToInv, Answered
    PROVE  /\ loc \in Local /\ answer = loc
           /\ DOMAIN units = 1 .. Len(units) /\ Len(units) \in Nat
           /\ \A i \in DOMAIN units : units[i].cls \in Class
           /\ GetLocalDefine = ClassGiven(units, GivesTo(units, loc, Len(units)), BindsTo(units, loc, Len(units)))
           /\ IsLocalValue <=> NewsTo(units, loc, Len(units)) # {}
<1>1. loc \in Local /\ answer = loc /\ pass = "asking"
  BY DEF PointToInv, TypeInv, QueryInv, Answered
<1>2. DOMAIN units = 1 .. Len(units) /\ Len(units) \in Nat
  BY DEF PointToInv, TypeInv, TypeOK
<1>3. \A i \in DOMAIN units : units[i] \in Assign
  BY DEF PointToInv, TypeInv, TypeOK
<1>4. AssignsSeen = Len(units) /\ ParamsSeen = Len(units)
  BY <1>1 DEF AssignsSeen, ParamsSeen
<1> QED
  BY <1>1, <1>2, <1>3, <1>4 DEF PointToInv, MapsInv, GetLocalDefine, IsLocalValue, Assign

(***************************************************************************)
(* Whatever local is asked about, and whatever copies the walk goes along, *)
(* the answer is the class of the last statement that gives that local     *)
(* one, or of its last binder parameter.                                   *)
(***************************************************************************)
THEOREM AnswerCorrect == Spec => []AnswerIsOwnLastDefine
<1>1. PointToInv => AnswerIsOwnLastDefine
  <2> SUFFICES ASSUME PointToInv, Answered PROVE AnswerIsOwnLastDefine
    BY DEF AnswerIsOwnLastDefine
  <2> DEFINE own == {i \in DOMAIN units : units[i].left = loc}
             gives == {i \in own : DefinesClass(units[i])}
             params == {i \in own : units[i].kind = "param" /\ IsBinderClass(units[i].cls)}
  <2>1. gives = GivesTo(units, loc, Len(units)) /\ params = BindsTo(units, loc, Len(units))
    BY AnswerFacts DEF GivesTo, BindsTo
  <2>2. GetLocalDefine = ClassGiven(units, gives, params)
    BY <2>1, AnswerFacts
  <2>3. GetLocalDefine = IF gives # {} THEN units[LastOf(gives)].cls
                         ELSE IF params # {} THEN units[LastOf(params)].cls
                         ELSE Null
    BY <2>2 DEF ClassGiven
  <2>4. IsLocalValue <=> \E i \in own : units[i].kind = "new"
    BY AnswerFacts DEF NewsTo
  <2> QED
    BY <2>3, <2>4 DEF AnswerIsOwnLastDefine
<1> QED
  BY <1>1, PointToInvariance, PTL

-----------------------------------------------------------------------------
(***************************************************************************)
(* CALLBACKS                                                               *)
(***************************************************************************)

(* Whatever class is answered, some statement of the local names it.       *)
LEMMA DefineHasStatement ==
    ASSUME PointToInv, Answered, GetLocalDefine # Null
    PROVE  /\ GetLocalDefine \in Class
           /\ \E i \in DOMAIN units : /\ units[i].left = loc /\ units[i].cls = GetLocalDefine
                                      /\ DefinesClass(units[i]) \/ units[i].kind = "param"
<1> DEFINE gives == GivesTo(units, loc, Len(units))
           binds == BindsTo(units, loc, Len(units))
<1>1. Len(units) \in Nat /\ DOMAIN units = 1 .. Len(units)
      /\ \A i \in DOMAIN units : units[i].cls \in Class
  BY AnswerFacts
<1>2. GetLocalDefine = ClassGiven(units, gives, binds)
  BY AnswerFacts
<1>3. gives \in SUBSET (1 .. Len(units)) /\ binds \in SUBSET (1 .. Len(units))
  BY DEF GivesTo, BindsTo
<1>4. \E i \in gives \cup binds : GetLocalDefine = units[i].cls
  <2> HIDE DEF gives, binds
  <2>1. /\ gives # {} => LastOf(gives) \in gives
        /\ binds # {} => LastOf(binds) \in binds
    BY <1>1, <1>3, LastPlace
  <2> QED
    BY <1>2, <2>1 DEF ClassGiven
<1>5. PICK i \in gives \cup binds : GetLocalDefine = units[i].cls
  BY <1>4
<1>6. i \in DOMAIN units
  BY <1>1, <1>3
<1>7. units[i].left = loc /\ (DefinesClass(units[i]) \/ units[i].kind = "param")
  BY <1>5 DEF GivesTo, BindsTo
<1> QED
  BY <1>1, <1>5, <1>6, <1>7

(***************************************************************************)
(* The type test goes along the superclasses and looks at the interfaces   *)
(* the class names: never up to a type that is not above the class.        *)
(***************************************************************************)
LEMMA RealTypeIsAncestor ==
    ASSUME NEW c \in Class, NEW d \in Class, IsSubclass(c, d) \/ d \in implements[c]
    PROVE  IsAncestor(d, c)
<1> SUFFICES ASSUME NEW U \in SUBSET (Class \ {d}), c \in U, IsClosed(U) PROVE FALSE
  BY DEF IsAncestor
<1>1. \A e \in U : implements[e] \cup ({superclass[e]} \ {Null}) \subseteq U
  BY DEF IsClosed
<1>2. \A e \in U : ParentOf[e] \subseteq U
  BY <1>1 DEF ParentOf
<1>3. Superclasses(c) \subseteq U
  <2>1. ParentOf[c] \subseteq U /\ IsClosedIn(ParentOf, U) /\ U \in SUBSET Class
    BY <1>2 DEF IsClosedIn, SuccessorsIn
  <2> QED
    BY <2>1, SuperclassesFacts
<1> QED
  BY <1>1, <1>3 DEF IsSubclass

(* And it finds every class above along superclasses alone.                *)
LEMMA ExtendedIsSubclass ==
    ASSUME NEW c \in Class \ interfaces, NEW d \in Class \ interfaces, IsExtendedBy(d, c)
    PROVE  IsSubclass(c, d)
<1> DEFINE U == {c} \cup Superclasses(c)
<1>1. U \in SUBSET Class /\ c \in U
  BY SuperclassesFacts
<1>2. \A e \in U : superclass[e] \in U \cup {Null}
  <2> SUFFICES ASSUME NEW e \in U, superclass[e] # Null PROVE superclass[e] \in Superclasses(c)
    OBVIOUS
  <2>1. superclass[e] \in ParentOf[e]
    BY <1>1 DEF ParentOf
  <2>2. e \in Superclasses(c) => ParentOf[e] \subseteq Superclasses(c)
    BY SuperclassesFacts DEF IsClosedIn, SuccessorsIn
  <2>3. ParentOf[c] \subseteq Superclasses(c)
    BY SuperclassesFacts
  <2> QED
    BY <2>1, <2>2, <2>3
<1>3. d \in U
  <2> HIDE DEF U
  <2>1. d \notin U => U \in SUBSET (Class \ {d})
    BY <1>1
  <2> QED
    BY <1>1, <1>2, <2>1 DEF IsExtendedBy
<1> QED
  BY <1>3 DEF IsSubclass

(* A local that holds new objects of one class is known to have that class.*)
LEMMA OnlyHoldsIsDefine ==
    ASSUME PointToInv, Answered, NEW c, OnlyHolds(c)
    PROVE  GetLocalDefine = c
<1> DEFINE gives == GivesTo(units, loc, Len(units))
<1>1. Len(units) \in Nat /\ DOMAIN units = 1 .. Len(units)
      /\ GetLocalDefine = ClassGiven(units, gives, BindsTo(units, loc, Len(units)))
  BY AnswerFacts
<1>2. gives \in SUBSET (1 .. Len(units)) /\ gives # {} /\ \A i \in gives : units[i].cls = c
  BY <1>1 DEF OnlyHolds, GivesTo, DefinesClass
<1>3. LastOf(gives) \in gives
  <2> HIDE DEF gives
  <2> QED
    BY <1>1, <1>2, LastPlace
<1> QED
  BY <1>1, <1>2, <1>3 DEF ClassGiven

(***************************************************************************)
(* A method resolved as a callback can receive the call, and none is       *)
(* missed of an argument that only holds new objects of one class that     *)
(* names the parameter type or extends it.                                 *)
(***************************************************************************)
THEOREM CallbacksCorrect == Spec => []CallbacksAreReal
<1>1. PointToInv => CallbacksAreReal
  <2> SUFFICES ASSUME PointToInv, Answered, NEW param \in Class
               PROVE  /\ \A t \in Resolve(param) : CanReceive(t, param)
                      /\ \A c \in Class \ interfaces :
                            OnlyHolds(c) /\ (param \in implements[c] \/ (param \notin interfaces /\ IsExtendedBy(param, c)))
                              => {<<c, s>> : s \in (declares[c] \cap visible[param]) \ {Constructor}}
                                    \subseteq Resolve(param)
    BY DEF CallbacksAreReal
  <2>1. ASSUME NEW t \in Resolve(param) PROVE CanReceive(t, param)
    <3> DEFINE c == GetLocalDefine
    <3>1. HasRealType(param) /\ t \in {c} \X OverrideMethods(param, c)
      BY DEF Resolve
    <3>2. t[1] = c /\ t[2] \in declares[c] /\ t[2] \in visible[param]
      BY <3>1 DEF OverrideMethods
    <3>3. c # Null /\ (IsSubclass(c, param) \/ param \in implements[c])
      BY <3>1 DEF HasRealType
    <3> HIDE DEF c
    <3>4. c \in Class /\ \E i \in DOMAIN units : /\ units[i].left = loc /\ units[i].cls = c
                                                 /\ DefinesClass(units[i]) \/ units[i].kind = "param"
      BY <3>3, DefineHasStatement DEF c
    <3>5. IsAncestor(param, c)
      BY <3>3, <3>4, RealTypeIsAncestor
    <3> QED
      BY <3>2, <3>4, <3>5 DEF CanReceive
  <2>2. ASSUME NEW c \in Class \ interfaces, OnlyHolds(c),
               param \in implements[c] \/ (param \notin interfaces /\ IsExtendedBy(param, c)),
               NEW s \in (declares[c] \cap visible[param]) \ {Constructor}
        PROVE  <<c, s>> \in Resolve(param)
    <3>1. GetLocalDefine = c /\ c # Null
      BY <2>2, OnlyHoldsIsDefine, ParentFacts
    <3>2. IsSubclass(c, param) \/ param \in implements[c]
      BY <2>2, ExtendedIsSubclass
    <3>3. HasRealType(param)
      BY <3>1, <3>2 DEF HasRealType
    <3> QED
      BY <3>1, <3>3 DEF Resolve, OverrideMethods
  <2> QED
    BY <2>1, <2>2
<1> QED
  BY <1>1, PointToInvariance, PTL

=============================================================================
