----------------------- MODULE ServiceExtraction_proofs -----------------------
(***************************************************************************)
(* ServiceExtraction, for all jar files and class hierarchies: the list    *)
(* that is saved is the one the bodies of the jar file describe, and fit   *)
(* for detection, in whatever order the classes are visited.               *)
(***************************************************************************)
EXTENDS ServiceExtraction, RoundsLemmas

-----------------------------------------------------------------------------
(***************************************************************************)
(* INTERFACES                                                              *)
(***************************************************************************)
UpFrom == [d \in Class |-> Above(d)]

(* One more step of the work list. *)
LEMMA UpFacts ==
    /\ IsFiniteSet(Class) /\ Null \notin Class /\ Cardinality(Class) \in Nat
    /\ UpFrom \in [Class -> SUBSET Class]
    /\ \A d \in Class : implements[d] \in SUBSET Class
    /\ \A X \in SUBSET Class : UNION {{d} \cup Above(d) : d \in X} = X \cup SuccessorsIn(UpFrom, X)
<1>1. /\ IsFiniteSet(Class) /\ Null \notin Class /\ interfaces \subseteq Class
      /\ superclass \in [Class -> Class \cup {Null}] /\ implements \in [Class -> SUBSET interfaces]
  BY ClassesAssumption DEF HierarchyAssumption
<1>2. Cardinality(Class) \in Nat
  BY <1>1, FS_CardinalityType
<1>3. \A d \in Class : UpFrom[d] = Above(d)
  BY DEF UpFrom
<1>4. \A d \in Class : Above(d) \in SUBSET Class /\ implements[d] \in SUBSET Class
  BY <1>1 DEF Above
<1>5. UpFrom \in [Class -> SUBSET Class]
  BY <1>4 DEF UpFrom
<1>6. ASSUME NEW X \in SUBSET Class
      PROVE  UNION {{d} \cup Above(d) : d \in X} = X \cup SuccessorsIn(UpFrom, X)
  <2> SUFFICES ASSUME NEW y
               PROVE  (\E d \in X : y \in {d} \cup Above(d)) <=> y \in X \/ \E d \in X : y \in UpFrom[d]
    BY DEF SuccessorsIn
  <2> QED
    BY <1>3
<1> QED
  BY <1>1, <1>2, <1>4, <1>5, <1>6

(***************************************************************************)
(* InfForClass takes the interfaces of the least set that has c and, with  *)
(* a class, what is directly above it.                                     *)
(***************************************************************************)
LEMMA InfForClassFacts ==
    ASSUME NEW c \in Class
    PROVE  \E P \in SUBSET Class :
              /\ c \in P /\ IsClosedIn(UpFrom, P)
              /\ \A Y \in SUBSET Class : c \in Y /\ IsClosedIn(UpFrom, Y) => P \subseteq Y
              /\ InfForClass(c) = ({c} \cap interfaces) \cup UNION {implements[d] : d \in P}
<1> DEFINE N == Cardinality(Class)
           A == {c}
           polled[k \in 0 .. N] == IF k = 0 THEN {c} ELSE UNION {{d} \cup Above(d) : d \in polled[k - 1]}
<1>1. N \in Nat /\ IsFiniteSet(Class) /\ A \in SUBSET Class /\ UpFrom \in [Class -> SUBSET Class]
  BY UpFacts
<1>2. PICK f : IsRounds(f, UpFrom, A, N)
  BY <1>1, RoundsExist
<1>3. f = [k \in 0 .. N |-> IF k = 0 THEN {c} ELSE UNION {{d} \cup Above(d) : d \in f[k - 1]}]
  <2> HIDE DEF N
  <2>1. \A k \in 0 .. N : f[k] \in SUBSET Class
    BY <1>1, <1>2, RoundsStayInside
  <2>2. \A k \in 0 .. N : k # 0 => UNION {{d} \cup Above(d) : d \in f[k - 1]}
                                     = f[k - 1] \cup SuccessorsIn(UpFrom, f[k - 1])
    <3> SUFFICES ASSUME NEW k \in 0 .. N, k # 0
                 PROVE  UNION {{d} \cup Above(d) : d \in f[k - 1]} = f[k - 1] \cup SuccessorsIn(UpFrom, f[k - 1])
      OBVIOUS
    <3>1. f[k - 1] \in SUBSET Class
      BY <1>1, <2>1
    <3> QED
      BY <3>1, UpFacts
  <2> QED
    BY <1>1, <1>2, <2>2 DEF IsRounds
<1>4. polled = [k \in 0 .. N |-> IF k = 0 THEN {c} ELSE UNION {{d} \cup Above(d) : d \in polled[k - 1]}]
  BY <1>3
<1>5. InfForClass(c) = ({c} \cap interfaces) \cup UNION {implements[d] : d \in polled[N]}
  BY DEF InfForClass
<1>6. IsRounds(polled, UpFrom, A, N)
  <2> DEFINE t == [k \in 0 .. N |-> UNION {{d} \cup Above(d) : d \in polled[k]}]
  <2> HIDE DEF polled, N
  <2>1. \A k \in 0 .. N - 1 : polled[k] \in SUBSET Class => t[k] = polled[k] \cup SuccessorsIn(UpFrom, polled[k])
    BY <1>1, UpFacts
  <2>2. IsSteps(polled, A, t, N)
    <3>1. \A k \in 0 .. N : k # 0 => t[k - 1] = UNION {{d} \cup Above(d) : d \in polled[k - 1]}
      BY <1>1
    <3> HIDE DEF t
    <3> QED
      BY <1>1, <1>4, <3>1 DEF IsSteps
  <2> HIDE DEF t, A
  <2> QED
    BY <1>1, <2>1, <2>2, RoundsRecognised
<1> HIDE DEF polled
<1>7. /\ polled[N] \in SUBSET Class /\ A \subseteq polled[N] /\ IsClosedIn(UpFrom, polled[N])
      /\ \A Y \in SUBSET Class : A \subseteq Y /\ IsClosedIn(UpFrom, Y) => polled[N] \subseteq Y
  BY <1>1, <1>6, RoundsAreLeastClosed
<1> QED
  BY <1>5, <1>7

(***************************************************************************)
(* For a class, the binder interfaces the work list finds are those above  *)
(* it: leaving out Object, which has no interfaces, loses nothing.         *)
(***************************************************************************)
LEMMA BinderInterfacesFound ==
    ASSUME NEW c \in Class, c \notin interfaces
    PROVE  {i \in InfForClass(c) : IsBinderInterface(i)} = BinderInterfacesOf(c)
<1>0. /\ Null \notin Class /\ interfaces \subseteq Class /\ ObjectClass \in Class
      /\ superclass \in [Class -> (Class \ interfaces) \cup {Null}]
      /\ implements \in [Class -> SUBSET interfaces]
      /\ superclass[ObjectClass] = Null /\ implements[ObjectClass] = {}
  BY ClassesAssumption DEF HierarchyAssumption
<1>1. PICK P \in SUBSET Class :
         /\ c \in P /\ IsClosedIn(UpFrom, P)
         /\ \A Y \in SUBSET Class : c \in Y /\ IsClosedIn(UpFrom, Y) => P \subseteq Y
         /\ InfForClass(c) = ({c} \cap interfaces) \cup UNION {implements[d] : d \in P}
  BY InfForClassFacts
<1>2. InfForClass(c) = UNION {implements[d] : d \in P} /\ InfForClass(c) \subseteq interfaces
  BY <1>0, <1>1
<1>3. ASSUME NEW i \in InfForClass(c)
      PROVE  IsAncestor(i, c)
  <2> SUFFICES ASSUME NEW U \in SUBSET (Class \ {i}), c \in U, IsClosed(U) PROVE FALSE
    BY DEF IsAncestor
  <2>1. \A e \in U : UpFrom[e] \subseteq U
    BY DEF IsClosed, UpFrom, Above
  <2>2. IsClosedIn(UpFrom, U)
    BY <2>1 DEF IsClosedIn, SuccessorsIn
  <2>3. P \subseteq U
    BY <1>1, <2>2
  <2> QED
    BY <1>2, <2>3 DEF IsClosed
<1>4. ASSUME NEW i \in interfaces, IsAncestor(i, c)
      PROVE  i \in InfForClass(c)
  <2> SUFFICES ASSUME i \notin InfForClass(c) PROVE FALSE
    OBVIOUS
  <2> DEFINE U == (P \cup {ObjectClass}) \ {i}
  <2>1. U \in SUBSET (Class \ {i}) /\ c \in U
    BY <1>0, <1>1
  <2>2. ASSUME NEW e \in U
        PROVE  implements[e] \cup ({superclass[e]} \ {Null}) \subseteq U
    <3>1. CASE e = ObjectClass
      BY <1>0, <3>1
    <3>2. CASE e # ObjectClass
      <4>1. e \in P /\ i \notin implements[e] /\ superclass[e] # i
        BY <1>0, <1>2, <3>2
      <4>2. Above(e) \subseteq P
        BY <1>1, <4>1 DEF IsClosedIn, SuccessorsIn, UpFrom
      <4> QED
        BY <3>2, <4>1, <4>2 DEF Above
    <3> QED
      BY <3>1, <3>2
  <2>3. IsClosed(U)
    BY <2>2 DEF IsClosed
  <2> QED
    BY <1>4, <2>1, <2>3 DEF IsAncestor
<1> QED
  BY <1>2, <1>3, <1>4 DEF BinderInterfacesOf

(* getInfForImpl answers with a class in any case. *)
LEMMA InfForImplFacts ==
    ASSUME NEW c \in Class
    PROVE  /\ InfForImpl(c) \in SUBSET Class /\ InfForImpl(c) # {}
           /\ c \notin interfaces =>
                 \A i \in InfForImpl(c) : \/ i \in BinderInterfacesOf(c)
                                          \/ i = c /\ BinderInterfacesOf(c) = {}
<1>1. InfForClass(c) \subseteq Class
  BY InfForClassFacts, UpFacts
<1> QED
  BY <1>1, BinderInterfacesFound DEF InfForImpl

(* So does the choice of an interface in a run. *)
LEMMA InfOfFacts ==
    ASSUME NEW c \in Class, NEW p \in Picks
    PROVE  /\ InfOf(c, p) \in Class \cup {Null}
           /\ c \notin interfaces => InfOf(c, p) \in InfForImpl(c)
<1>1. InfForImpl(c) \in SUBSET Class /\ InfForImpl(c) # {}
  BY InfForImplFacts
<1>2. c \in HasChoice => p[c] \in InfForImpl(c)
  BY DEF Picks
<1> QED
  BY <1>1, <1>2 DEF InfOf

-----------------------------------------------------------------------------
(***************************************************************************)
(* VALUES                                                                  *)
(***************************************************************************)
Operand == Value \cup {Null}

(* The definitions of the body of a method are those of kind "define". *)
LEMMA BodyFacts ==
    ASSUME NEW body \in Body
    PROVE  /\ DOMAIN body \in SUBSET Nat
           /\ \A i \in DOMAIN body : body[i] \in Invocation \cup Define
           /\ \A i \in DOMAIN body : body[i].kind = "define" => body[i] \in Define
           /\ \A i \in DOMAIN body : body[i].kind # "define" => body[i] \in Invocation
<1>1. \A i \in DOMAIN body : body[i] \in Invocation \cup Define
  BY DEF Body
<1>2. \A u \in Invocation : u.kind # "define"
  BY DEF Invocation
<1>3. \A u \in Define : u.kind = "define"
  BY DEF Define
<1>4. DOMAIN body \in SUBSET Nat
  BY DEF Body
<1> QED
  BY <1>1, <1>2, <1>3, <1>4

(* The statement that counts: the first definition of the value. *)
First(body, cur, v) == Min(Defining(body, v, cur))

(* There is a first one when there is one. *)
LEMMA FirstFacts ==
    ASSUME NEW body \in Body, NEW cur \in Class, NEW v, Defining(body, v, cur) # {}
    PROVE  /\ First(body, cur, v) \in Defining(body, v, cur)
           /\ \A j \in Defining(body, v, cur) : First(body, cur, v) <= j
           /\ body[First(body, cur, v)] \in Define
           /\ body[First(body, cur, v)].right \in Operand
<1>1. Defining(body, v, cur) \in SUBSET Nat
  BY BodyFacts DEF Defining
<1>2. \E n \in Defining(body, v, cur) : \A m \in Defining(body, v, cur) : n <= m
  BY <1>1, LeastNatural
<1>3. /\ First(body, cur, v) \in Defining(body, v, cur)
      /\ \A j \in Defining(body, v, cur) : First(body, cur, v) <= j
  BY <1>2 DEF First, Min
<1>4. body[First(body, cur, v)] \in Define
  BY <1>3, BodyFacts DEF Defining
<1>5. body[First(body, cur, v)].right \in Operand
  BY <1>4 DEF Define, Operand
<1> QED
  BY <1>3, <1>4, <1>5

(* The class of a definition: Soot may throw only where a method is unknown. *)
LEMMA ClassOfFacts ==
    ASSUME NEW u \in Define, NEW cur \in Class
    PROVE  /\ ClassOf(u, cur) \in Class \cup {Null, Throws}
           /\ u.invoke # "unknown" => ClassOf(u, cur) \in Class \cup {Null}
BY DEF ClassOf, Define

(* What one value of the work list comes to, when `rest' answers for its operand. *)
Answer(body, cur, v, rest) ==
    IF Defining(body, v, cur) = {} THEN Null
    ELSE IF ClassOf(body[First(body, cur, v)], cur) # IBinder THEN ClassOf(body[First(body, cur, v)], cur)
    ELSE rest[body[First(body, cur, v)].right]

Spent == [v \in Operand |-> Null]

Once(body, cur, rest) == [v \in Operand |-> Answer(body, cur, v, rest)]

(* The budget is three values: the recursion of Solved, unrolled. *)
LEMMA SolvedUnrolled ==
    ASSUME NEW body, NEW cur, NEW arg
    PROVE  Solved(body, cur, arg) = Once(body, cur, Once(body, cur, Once(body, cur, Spent)))[arg]
<1> DEFINE search[lev \in 0 .. Deep] ==
              [v \in Value \cup {Null} |->
                  LET D == Defining(body, v, cur)
                      first == body[Min(D)]
                  IN  IF lev = 0 \/ D = {} THEN Null
                      ELSE IF ClassOf(first, cur) # IBinder THEN ClassOf(first, cur)
                      ELSE search[lev - 1][first.right]]
           one == Once(body, cur, Spent)
           two == Once(body, cur, one)
           three == Once(body, cur, two)
           g == [lev \in 0 .. Deep |-> IF lev = 0 THEN Spent ELSE IF lev = 1 THEN one
                                       ELSE IF lev = 2 THEN two ELSE three]
           Step(f, lev) ==
              [v \in Value \cup {Null} |->
                  LET D == Defining(body, v, cur)
                      first == body[Min(D)]
                  IN  IF lev = 0 \/ D = {} THEN Null
                      ELSE IF ClassOf(first, cur) # IBinder THEN ClassOf(first, cur)
                      ELSE f[lev - 1][first.right]]
<1>1. \A f : Step(f, 0) = Spent
  BY DEF Spent, Operand
<1>2. \A f : \A lev \in 1 .. Deep : Step(f, lev) = Once(body, cur, f[lev - 1])
  BY DEF Once, Answer, First, Operand
<1>3. g[0] = Spent /\ g[1] = one /\ g[2] = two /\ g[3] = three
  BY DEF Deep
<1> HIDE DEF Step, one, two, three
<1>4. \A lev \in 0 .. Deep : g[lev] = Step(g, lev)
  <2> HIDE DEF g
  <2>1. g[0] = Step(g, 0)
    BY <1>1, <1>3
  <2>2. g[1] = Step(g, 1) /\ g[2] = Step(g, 2) /\ g[3] = Step(g, 3)
    BY <1>2, <1>3 DEF Deep, one, two, three
  <2> QED
    BY <2>1, <2>2 DEF Deep
<1>5. g = [lev \in 0 .. Deep |-> Step(g, lev)]
  <2>1. g = [lev \in 0 .. Deep |-> g[lev]]
    OBVIOUS
  <2> HIDE DEF g
  <2> QED
    BY <1>4, <2>1
<1>6. search = [lev \in 0 .. Deep |-> Step(search, lev)]
  <2> HIDE DEF g
  <2> QED
    BY <1>5 DEF Step
<1> HIDE DEF search
<1>7. search[0] = Spent
  BY <1>1, <1>6 DEF Deep
<1>8. search[1] = one
  BY <1>2, <1>6, <1>7 DEF Deep, one
<1>9. search[2] = two
  BY <1>2, <1>6, <1>8 DEF Deep, two
<1>10. search[3] = three
  BY <1>2, <1>6, <1>9 DEF Deep, three
<1>11. Solved(body, cur, arg) = search[Deep][arg]
  BY DEF Solved, search
<1> QED
  BY <1>10, <1>11 DEF Deep, one, two, three

(* One value more is answered with what the definitions may say. *)
LEMMA OnceTyped ==
    ASSUME NEW body \in Body, NEW cur \in Class, NEW T, Null \in T,
           \A i \in DOMAIN body : body[i].kind = "define" => ClassOf(body[i], cur) \in T,
           NEW rest \in [Operand -> T]
    PROVE  Once(body, cur, rest) \in [Operand -> T]
<1> SUFFICES ASSUME NEW v \in Operand PROVE Answer(body, cur, v, rest) \in T
  BY DEF Once
<1>1. CASE Defining(body, v, cur) = {}
  BY <1>1 DEF Answer
<1>2. CASE Defining(body, v, cur) # {}
  <2>1. /\ First(body, cur, v) \in Defining(body, v, cur)
        /\ body[First(body, cur, v)].right \in Operand
    BY <1>2, FirstFacts
  <2>2. ClassOf(body[First(body, cur, v)], cur) \in T
    BY <2>1 DEF Defining
  <2> QED
    BY <1>2, <2>1, <2>2 DEF Answer
<1> QED
  BY <1>1, <1>2

(* The solver answers with a class or Null, unless it meets an unknown method. *)
LEMMA SolvedTyped ==
    ASSUME NEW body \in Body, NEW cur \in Class, NEW arg \in Operand
    PROVE  /\ Solved(body, cur, arg) \in Class \cup {Null, Throws}
           /\ UnknownIn(body) = {} => Solved(body, cur, arg) \in Class \cup {Null}
<1>1. ASSUME NEW T, Null \in T,
             \A i \in DOMAIN body : body[i].kind = "define" => ClassOf(body[i], cur) \in T
      PROVE  Solved(body, cur, arg) \in T
  <2>1. Spent \in [Operand -> T]
    BY <1>1 DEF Spent
  <2>2. Once(body, cur, Spent) \in [Operand -> T]
    BY <1>1, <2>1, OnceTyped
  <2>3. Once(body, cur, Once(body, cur, Spent)) \in [Operand -> T]
    BY <1>1, <2>2, OnceTyped
  <2>4. Once(body, cur, Once(body, cur, Once(body, cur, Spent))) \in [Operand -> T]
    BY <1>1, <2>3, OnceTyped
  <2> QED
    BY <2>4, SolvedUnrolled
<1>2. \A i \in DOMAIN body : body[i].kind = "define" => ClassOf(body[i], cur) \in Class \cup {Null, Throws}
  BY BodyFacts, ClassOfFacts
<1>3. Solved(body, cur, arg) \in Class \cup {Null, Throws}
  BY <1>1, <1>2
<1>4. ASSUME UnknownIn(body) = {}
      PROVE  Solved(body, cur, arg) \in Class \cup {Null}
  <2>1. \A i \in DOMAIN body : body[i].kind = "define" => body[i].invoke # "unknown"
    BY <1>4 DEF UnknownIn, CallsIn
  <2>2. \A i \in DOMAIN body : body[i].kind = "define" => ClassOf(body[i], cur) \in Class \cup {Null}
    BY <2>1, BodyFacts, ClassOfFacts
  <2> QED
    BY <1>1, <2>2
<1> QED
  BY <1>3, <1>4

(***************************************************************************)
(* The definitions by sets: Firsts(v) holds the one that counts for v, and *)
(* a step leads from it to the one that counts for its operand.            *)
(***************************************************************************)
Firsts(body, cur, v) == {i \in FirstDefines(body, cur) : body[i].left = v}

Follow(body, cur, S) == {e[2] : e \in {x \in Leads(body, cur, FirstDefines(body, cur)) : x[1] \in S}}

(* Both forms of the definition that counts agree. *)
LEMMA FirstsFacts ==
    ASSUME NEW body \in Body, NEW cur \in Class, NEW v
    PROVE  /\ Defining(body, v, cur) = {} => Firsts(body, cur, v) = {}
           /\ Defining(body, v, cur) # {} => Firsts(body, cur, v) = {First(body, cur, v)}
<1> DEFINE D == {i \in DOMAIN body : /\ body[i].kind = "define" /\ ~body[i].isNull
                                     /\ ClassOf(body[i], cur) # Null}
<1>1. \A i : i \in Defining(body, v, cur) <=> i \in D /\ body[i].left = v
  BY DEF Defining
<1>2. FirstDefines(body, cur) = {i \in D : \A j \in D : body[j].left = body[i].left => i <= j}
  BY DEF FirstDefines
<1>3. D \in SUBSET Nat
  BY BodyFacts
<1> HIDE DEF D
<1>4. \A i : i \in Firsts(body, cur, v) <=>
                i \in Defining(body, v, cur) /\ \A j \in Defining(body, v, cur) : i <= j
  BY <1>1, <1>2 DEF Firsts
<1>5. ASSUME Defining(body, v, cur) # {}
      PROVE  Firsts(body, cur, v) = {First(body, cur, v)}
  <2>1. /\ First(body, cur, v) \in Defining(body, v, cur)
        /\ \A j \in Defining(body, v, cur) : First(body, cur, v) <= j
    BY <1>5, FirstFacts
  <2>2. \A i \in Defining(body, v, cur) : i \in Nat
    BY <1>1, <1>3
  <2>3. \A i \in Firsts(body, cur, v) : i = First(body, cur, v)
    BY <1>4, <2>1, <2>2
  <2> QED
    BY <1>4, <2>1, <2>3
<1> QED
  BY <1>4, <1>5

(* A step leads from a definition of IBinder to that of its operand. *)
LEMMA FollowFacts ==
    ASSUME NEW body, NEW cur
    PROVE  /\ Follow(body, cur, {}) = {}
           /\ \A i \in FirstDefines(body, cur) :
                 /\ ClassOf(body[i], cur) # IBinder => Follow(body, cur, {i}) = {}
                 /\ ClassOf(body[i], cur) = IBinder =>
                       Follow(body, cur, {i}) = Firsts(body, cur, body[i].right)
<1> DEFINE F == FirstDefines(body, cur)
<1>1. Leads(body, cur, F) = {e \in F \X F : ClassOf(body[e[1]], cur) = IBinder /\ body[e[1]].right = body[e[2]].left}
  BY DEF Leads
<1> HIDE DEF F
<1>2. \A S, y : y \in Follow(body, cur, S) <=>
                  \E x \in F : x \in S /\ y \in F /\ ClassOf(body[x], cur) = IBinder /\ body[x].right = body[y].left
  <2> SUFFICES ASSUME NEW S, NEW y
               PROVE  y \in Follow(body, cur, S) <=>
                  \E x \in F : x \in S /\ y \in F /\ ClassOf(body[x], cur) = IBinder /\ body[x].right = body[y].left
    OBVIOUS
  <2>1. y \in Follow(body, cur, S) <=> \E e \in Leads(body, cur, F) : e[1] \in S /\ y = e[2]
    BY DEF Follow, F
  <2>2. \A x \in F : y \in F /\ ClassOf(body[x], cur) = IBinder /\ body[x].right = body[y].left
                        => <<x, y>> \in Leads(body, cur, F) /\ <<x, y>>[1] = x /\ <<x, y>>[2] = y
    BY <1>1
  <2>3. \A e \in Leads(body, cur, F) : /\ e[1] \in F /\ e[2] \in F
                                       /\ ClassOf(body[e[1]], cur) = IBinder /\ body[e[1]].right = body[e[2]].left
    BY <1>1
  <2>4. ASSUME y \in Follow(body, cur, S)
        PROVE  \E x \in F : x \in S /\ y \in F /\ ClassOf(body[x], cur) = IBinder /\ body[x].right = body[y].left
    <3>1. PICK e \in Leads(body, cur, F) : e[1] \in S /\ y = e[2]
      BY <2>1, <2>4
    <3>2. /\ e[1] \in F /\ y \in F
          /\ ClassOf(body[e[1]], cur) = IBinder /\ body[e[1]].right = body[y].left
      BY <2>3, <3>1
    <3> QED
      BY <3>1, <3>2
  <2>5. ASSUME NEW x \in F, x \in S, y \in F, ClassOf(body[x], cur) = IBinder, body[x].right = body[y].left
        PROVE  y \in Follow(body, cur, S)
    <3>1. <<x, y>> \in Leads(body, cur, F) /\ <<x, y>>[1] = x /\ <<x, y>>[2] = y
      BY <2>2, <2>5
    <3>2. \E e \in Leads(body, cur, F) : e[1] \in S /\ y = e[2]
      BY <2>5, <3>1
    <3> QED
      BY <2>1, <3>2
  <2> QED
    BY <2>4, <2>5
<1>3. Follow(body, cur, {}) = {}
  BY <1>2
<1>4. ASSUME NEW i \in F
      PROVE  /\ ClassOf(body[i], cur) # IBinder => Follow(body, cur, {i}) = {}
             /\ ClassOf(body[i], cur) = IBinder => Follow(body, cur, {i}) = Firsts(body, cur, body[i].right)
  BY <1>2, <1>4 DEF Firsts, F
<1> QED
  BY <1>3, <1>4 DEF F

(***************************************************************************)
(* The answers of a round and the definitions it may look at: at most one  *)
(* of them says more than IBinder, and that is the answer.                 *)
(***************************************************************************)
Says(body, cur, S) == {i \in S : ClassOf(body[i], cur) # IBinder}

IsSaid(body, cur, a, S) ==
    \/ Says(body, cur, S) = {} /\ a = Null
    \/ \E i \in S : Says(body, cur, S) = {i} /\ a = ClassOf(body[i], cur)

Wider(body, cur, R) ==
    [v \in Operand |-> Firsts(body, cur, v) \cup
        UNION {R[body[i].right] : i \in {j \in Firsts(body, cur, v) : ClassOf(body[j], cur) = IBinder}}]

(* One value more in both forms. *)
LEMMA RoundIsSaid ==
    ASSUME NEW body \in Body, NEW cur \in Class, NEW rest, NEW R,
           \A v \in Operand : IsSaid(body, cur, rest[v], R[v]),
           NEW v \in Operand
    PROVE  IsSaid(body, cur, Once(body, cur, rest)[v], Wider(body, cur, R)[v])
<1> DEFINE i == First(body, cur, v)
           W == Wider(body, cur, R)[v]
<1>1. Once(body, cur, rest)[v] = Answer(body, cur, v, rest)
  BY DEF Once
<1>2. W = Firsts(body, cur, v) \cup
             UNION {R[body[k].right] : k \in {j \in Firsts(body, cur, v) : ClassOf(body[j], cur) = IBinder}}
  BY DEF Wider
<1> HIDE DEF W
<1>3. CASE Defining(body, v, cur) = {}
  <2>1. W = {} /\ Answer(body, cur, v, rest) = Null
    BY <1>2, <1>3, FirstsFacts DEF Answer
  <2> QED
    BY <1>1, <2>1 DEF IsSaid, Says, W
<1>4. CASE Defining(body, v, cur) # {} /\ ClassOf(body[i], cur) # IBinder
  <2>1. Firsts(body, cur, v) = {i} /\ Answer(body, cur, v, rest) = ClassOf(body[i], cur)
    BY <1>4, FirstsFacts DEF Answer
  <2> HIDE DEF i
  <2>2. W = {i}
    BY <1>2, <1>4, <2>1
  <2>3. Says(body, cur, W) = {i}
    BY <1>4, <2>2 DEF Says
  <2> QED
    BY <1>1, <2>1, <2>2, <2>3 DEF IsSaid, W
<1>5. CASE Defining(body, v, cur) # {} /\ ClassOf(body[i], cur) = IBinder
  <2>1. Firsts(body, cur, v) = {i} /\ Answer(body, cur, v, rest) = rest[body[i].right]
    BY <1>5, FirstsFacts DEF Answer
  <2>2. body[i].right \in Operand
    BY <1>5, FirstFacts
  <2> HIDE DEF i
  <2>3. W = {i} \cup R[body[i].right]
    BY <1>2, <1>5, <2>1
  <2>4. Says(body, cur, W) = Says(body, cur, R[body[i].right])
    BY <1>5, <2>3 DEF Says
  <2>5. IsSaid(body, cur, rest[body[i].right], R[body[i].right])
    BY <2>2
  <2>6. IsSaid(body, cur, rest[body[i].right], W)
    BY <2>3, <2>4, <2>5 DEF IsSaid
  <2> QED
    BY <1>1, <2>1, <2>6 DEF W
<1> QED
  BY <1>3, <1>4, <1>5

(* The search of the solver finds what the definition by sets says. *)
LEMMA SolvedIsByChain ==
    ASSUME NEW body \in Body, NEW cur \in Class, NEW arg \in Operand
    PROVE  Solved(body, cur, arg) = SolvedByChain(body, cur, arg)
<1> DEFINE R0 == [v \in Operand |-> {}]
           R1 == Wider(body, cur, R0)
           R2 == Wider(body, cur, R1)
           R3 == Wider(body, cur, R2)
           a1 == Once(body, cur, Spent)
           a2 == Once(body, cur, a1)
           a3 == Once(body, cur, a2)
           start == Firsts(body, cur, arg)
           next == Follow(body, cur, start)
           third == Follow(body, cur, next)
<1>1. \A v \in Operand : IsSaid(body, cur, Spent[v], R0[v])
  BY DEF IsSaid, Says, Spent
<1>2. \A v \in Operand : IsSaid(body, cur, a1[v], R1[v])
  BY <1>1, RoundIsSaid
<1>3. \A v \in Operand : IsSaid(body, cur, a2[v], R2[v])
  <2> HIDE DEF R1, a1
  <2> QED
    BY <1>2, RoundIsSaid
<1>4. \A v \in Operand : IsSaid(body, cur, a3[v], R3[v])
  <2> HIDE DEF R2, a2
  <2> QED
    BY <1>3, RoundIsSaid
<1>5. \A v \in Operand : R1[v] = Firsts(body, cur, v)
  <2> SUFFICES ASSUME NEW v \in Operand PROVE R1[v] = Firsts(body, cur, v)
    OBVIOUS
  <2>1. \A i \in Firsts(body, cur, v) : body[i].right \in Operand
    BY FirstsFacts, FirstFacts
  <2> QED
    BY <2>1 DEF Wider
<1>6. ASSUME NEW R, NEW v \in Operand
      PROVE  /\ Firsts(body, cur, v) = {} => /\ Wider(body, cur, R)[v] = {}
                                             /\ Follow(body, cur, Firsts(body, cur, v)) = {}
             /\ Firsts(body, cur, v) # {} =>
                   \E i \in FirstDefines(body, cur) :
                      /\ Firsts(body, cur, v) = {i} /\ body[i].right \in Operand
                      /\ ClassOf(body[i], cur) # IBinder =>
                            /\ Wider(body, cur, R)[v] = {i}
                            /\ Follow(body, cur, Firsts(body, cur, v)) = {}
                      /\ ClassOf(body[i], cur) = IBinder =>
                            /\ Wider(body, cur, R)[v] = {i} \cup R[body[i].right]
                            /\ Follow(body, cur, Firsts(body, cur, v)) = Firsts(body, cur, body[i].right)
  <2>1. Wider(body, cur, R)[v] = Firsts(body, cur, v) \cup
           UNION {R[body[k].right] : k \in {j \in Firsts(body, cur, v) : ClassOf(body[j], cur) = IBinder}}
    BY DEF Wider
  <2>2. CASE Firsts(body, cur, v) = {}
    BY <2>1, <2>2, FollowFacts
  <2>3. CASE Firsts(body, cur, v) # {}
    <3>1. PICK i : Firsts(body, cur, v) = {i} /\ body[i].right \in Operand
      BY <2>3, FirstsFacts, FirstFacts
    <3>2. i \in FirstDefines(body, cur)
      BY <3>1 DEF Firsts
    <3>3. /\ ClassOf(body[i], cur) # IBinder => Wider(body, cur, R)[v] = {i}
          /\ ClassOf(body[i], cur) = IBinder => Wider(body, cur, R)[v] = {i} \cup R[body[i].right]
      BY <2>1, <3>1
    <3>4. /\ ClassOf(body[i], cur) # IBinder => Follow(body, cur, {i}) = {}
          /\ ClassOf(body[i], cur) = IBinder => Follow(body, cur, {i}) = Firsts(body, cur, body[i].right)
      BY <3>2, FollowFacts
    <3> QED
      BY <3>1, <3>2, <3>3, <3>4
  <2> QED
    BY <2>2, <2>3
<1>7. \A v \in Operand : R2[v] = Firsts(body, cur, v) \cup Follow(body, cur, Firsts(body, cur, v))
  <2> HIDE DEF R1
  <2> QED
    BY <1>5, <1>6
<1>8. R3[arg] = start \cup next \cup third
  <2> HIDE DEF R2
  <2>1. CASE start = {}
    BY <1>6, <2>1, FollowFacts
  <2>2. CASE start # {}
    <3>1. PICK i \in FirstDefines(body, cur) :
             /\ start = {i} /\ body[i].right \in Operand
             /\ ClassOf(body[i], cur) # IBinder => R3[arg] = {i} /\ next = {}
             /\ ClassOf(body[i], cur) = IBinder => /\ R3[arg] = {i} \cup R2[body[i].right]
                                                   /\ next = Firsts(body, cur, body[i].right)
      BY <1>6, <2>2
    <3> QED
      BY <1>7, <3>1, FollowFacts
  <2> QED
    BY <2>1, <2>2
<1>9. Solved(body, cur, arg) = a3[arg]
  BY SolvedUnrolled
<1>10. SolvedByChain(body, cur, arg) =
          LET saying == Says(body, cur, start \cup next \cup third)
          IN  IF saying = {} THEN Null ELSE ClassOf(body[CHOOSE i \in saying : TRUE], cur)
  BY DEF SolvedByChain, Says, Firsts, Follow
<1> HIDE DEF R3, a3, start, next, third
<1>11. IsSaid(body, cur, a3[arg], start \cup next \cup third)
  BY <1>4, <1>8
<1> QED
  BY <1>9, <1>10, <1>11 DEF IsSaid

-----------------------------------------------------------------------------
(***************************************************************************)
(* BODIES AND SITES                                                        *)
(***************************************************************************)
IsInvocationAt(s) ==
    /\ s \in Site /\ s[2] \in DOMAIN world.methods[s[1]] /\ s[3] \in DOMAIN Method(s[1], s[2])
    /\ Method(s[1], s[2]) \in Body /\ Method(s[1], s[2])[s[3]] \in Invocation

(* The parts of a jar file. *)
LEMMA WorldFacts ==
    ASSUME world \in Worlds
    PROVE  /\ world \in World
           /\ Len(world.registry) \in Nat /\ DOMAIN world.registry = 1 .. Len(world.registry)
           /\ \A i \in DOMAIN world.registry : world.registry[i] \in Registration
           /\ world.android \in SUBSET (Class \ {RegistryClass})
           /\ world.systemServices \in SUBSET (Class \ {RegistryClass})
           /\ \A c \in Class : DOMAIN world.methods[c] \in SUBSET Nat
           /\ \A c \in Class : \A m \in DOMAIN world.methods[c] : Method(c, m) \in Body
<1>1. world \in World
  BY WorldsAssumption
<1>2. world.registry \in Seq(Registration) /\ world.methods \in [Class -> Seq(Body)]
  BY <1>1 DEF World
<1>3. \A c \in Class : world.methods[c] \in Seq(Body)
  BY <1>2
<1>4. \A c \in Class : DOMAIN world.methods[c] \in SUBSET Nat
  BY <1>3
<1>5. \A c \in Class : \A m \in DOMAIN world.methods[c] : Method(c, m) \in Body
  BY <1>3 DEF Method
<1> QED
  BY <1>1, <1>2, <1>4, <1>5 DEF World

(* A site is a place in a body of a method. *)
LEMMA SiteFacts ==
    ASSUME world \in Worlds, NEW c \in Class
    PROVE  /\ \A m, i : <<c, m, i>> \in SitesIn(c) <=> m \in DOMAIN world.methods[c] /\ i \in DOMAIN Method(c, m)
           /\ \A s \in SitesIn(c) : s = <<c, s[2], s[3]>> /\ s[1] = c /\ s \in Site
           /\ \A kind : \A s \in SitesOf(c, kind) : Method(s[1], s[2])[s[3]].kind = kind /\ s[1] = c
           /\ \A kind \in {"addService", "publish"} : \A s \in SitesOf(c, kind) : IsInvocationAt(s)
<1>1. \A s : s \in SitesIn(c) <=> \E m \in DOMAIN world.methods[c] : \E i \in DOMAIN Method(c, m) : s = <<c, m, i>>
  BY DEF SitesIn
<1>2. \A m \in DOMAIN world.methods[c] : m \in Nat /\ Method(c, m) \in Body /\ DOMAIN Method(c, m) \in SUBSET Nat
  BY WorldFacts, BodyFacts
<1>3. \A s \in SitesIn(c) : s = <<c, s[2], s[3]>> /\ s[1] = c /\ s \in Site
  BY <1>1, <1>2 DEF Site
<1>4. \A kind : \A s \in SitesOf(c, kind) : /\ Method(s[1], s[2])[s[3]].kind = kind /\ s[1] = c
  BY <1>3 DEF SitesOf
<1>5. ASSUME NEW kind \in {"addService", "publish"}, NEW s \in SitesOf(c, kind)
      PROVE  IsInvocationAt(s)
  <2>1. s \in SitesIn(c) /\ s[1] = c /\ s \in Site /\ Method(s[1], s[2])[s[3]].kind = kind
    BY <1>3, <1>4 DEF SitesOf
  <2>2. s[2] \in DOMAIN world.methods[c] /\ s[3] \in DOMAIN Method(c, s[2])
    BY <1>1, <2>1
  <2>3. Method(c, s[2]) \in Body
    BY <1>2, <2>2
  <2>4. Method(c, s[2])[s[3]] \in Invocation
    BY <2>1, <2>2, <2>3, BodyFacts
  <2> QED
    BY <2>1, <2>2, <2>3, <2>4 DEF IsInvocationAt
<1> QED
  BY <1>1, <1>3, <1>4, <1>5

(* A service made at an invocation is well-formed if its class was found. *)
LEMMA NewImplTyped ==
    ASSUME NEW s, IsInvocationAt(s)
    PROVE  /\ ImplAt(s) \in Class \cup {Null, Throws}
           /\ UnknownIn(Method(s[1], s[2])) = {} => ImplAt(s) # Throws
           /\ ImplAt(s) # Throws => NewImpl(s) \in ServiceApi
<1> DEFINE inv == Method(s[1], s[2])[s[3]]
<1>1. s[1] \in Class /\ inv \in Invocation /\ Method(s[1], s[2]) \in Body /\ s \in Site
  BY DEF IsInvocationAt, Site
<1>2. inv.arg \in Operand /\ inv.name \in ServiceName
  BY <1>1 DEF Invocation, Operand
<1>3. Throws \notin Class \cup {Null} /\ ObjectClass \in Class
  BY NamesAssumption, ClassesAssumption DEF HierarchyAssumption
<1>4. ImplAt(s) = Solved(Method(s[1], s[2]), s[1], inv.arg)
  BY DEF ImplAt
<1>5. /\ ImplAt(s) \in Class \cup {Null, Throws}
      /\ UnknownIn(Method(s[1], s[2])) = {} => ImplAt(s) \in Class \cup {Null}
  BY <1>1, <1>2, <1>4, SolvedTyped
<1>6. NewImpl(s) = [site |-> s, implClass |-> ImplAt(s), inf |-> Null, serviceName |-> inv.name,
                    helperClass |-> IF ImplAt(s) = Null /\ inv.kind = "addService" THEN ObjectClass ELSE Null]
  BY DEF NewImpl
<1> HIDE DEF inv
<1>7. ImplAt(s) # Throws => NewImpl(s) \in ServiceApi
  BY <1>1, <1>2, <1>3, <1>5, <1>6 DEF ServiceApi
<1> QED
  BY <1>3, <1>5, <1>7

(* And it is of the class that the definition by sets gives. *)
LEMMA NewImplFacts ==
    ASSUME NEW s, IsInvocationAt(s)
    PROVE  /\ NewImpl(s).site = s /\ NewImpl(s).implClass = ClassAt(s)
           /\ ClassAt(s) # Null => NewImpl(s).helperClass = Null
<1> DEFINE inv == Method(s[1], s[2])[s[3]]
<1>1. s[1] \in Class /\ Method(s[1], s[2]) \in Body /\ inv.arg \in Operand
  BY DEF IsInvocationAt, Site, Invocation, Operand
<1>2. ImplAt(s) = ClassAt(s)
  BY <1>1, SolvedIsByChain DEF ImplAt, ClassAt
<1> QED
  BY <1>2 DEF NewImpl

(* Sites by the methods and classes that are visited. *)
LEMMA RegisterSitesFacts ==
    ASSUME world \in Worlds
    PROVE  /\ \A s \in RegisterSites \cup PublishSites : IsInvocationAt(s) /\ s[1] # RegistryClass
           /\ \A s \in RegisterSites : <<s[1], s[2]>> \in RegisteringMethods
           /\ \A cm \in RegisteringMethods :
                 /\ cm[1] \in Class /\ cm[2] \in DOMAIN world.methods[cm[1]] /\ cm = <<cm[1], cm[2]>>
                 /\ {s \in RegisterSites : <<s[1], s[2]>> = cm}
                       = {<<cm[1], cm[2], i>> : i \in CallsIn(Method(cm[1], cm[2]), "addService")}
           /\ \A c \in world.systemServices \ interfaces :
                 {s \in PublishSites : s[1] = c} = FirstPublish(c)
           /\ \A s \in PublishSites : s[1] \in world.systemServices \ interfaces
<1>1. world.android \subseteq Class /\ world.systemServices \subseteq Class
      /\ RegistryClass \notin world.android \cup world.systemServices
  BY WorldFacts
<1>2. ASSUME NEW s \in RegisterSites
      PROVE  /\ s[1] \in world.android /\ s \in SitesOf(s[1], "addService") /\ IsInvocationAt(s)
             /\ <<s[1], s[2]>> \in RegisteringMethods
  <2>1. s[1] \in world.android /\ s \in SitesOf(s[1], "addService")
    BY <1>1, SiteFacts DEF RegisterSites
  <2>2. IsInvocationAt(s) /\ Method(s[1], s[2])[s[3]].kind = "addService"
    BY <1>1, <2>1, SiteFacts
  <2>3. s[3] \in CallsIn(Method(s[1], s[2]), "addService") /\ s[2] \in DOMAIN world.methods[s[1]] /\ s[1] \in Class
    BY <1>1, <2>1, <2>2 DEF CallsIn, IsInvocationAt
  <2>4. <<s[1], s[2]>> \in Class \X UNION {DOMAIN world.methods[c] : c \in Class}
    BY <2>3
  <2> QED
    BY <2>1, <2>2, <2>3, <2>4 DEF RegisteringMethods
<1>3. ASSUME NEW cm \in RegisteringMethods
      PROVE  /\ cm[1] \in Class /\ cm[2] \in DOMAIN world.methods[cm[1]] /\ cm = <<cm[1], cm[2]>>
             /\ {s \in RegisterSites : <<s[1], s[2]>> = cm}
                   = {<<cm[1], cm[2], i>> : i \in CallsIn(Method(cm[1], cm[2]), "addService")}
  <2>1. cm[1] \in Class /\ cm[1] \in world.android /\ cm[2] \in DOMAIN world.methods[cm[1]] /\ cm = <<cm[1], cm[2]>>
    BY DEF RegisteringMethods
  <2>2. \A i \in CallsIn(Method(cm[1], cm[2]), "addService") : <<cm[1], cm[2], i>> \in SitesOf(cm[1], "addService")
    BY <2>1, SiteFacts DEF CallsIn, SitesOf
  <2>3. \A i \in CallsIn(Method(cm[1], cm[2]), "addService") : <<cm[1], cm[2], i>> \in RegisterSites
    BY <2>1, <2>2 DEF RegisterSites
  <2>4. ASSUME NEW s \in RegisterSites, <<s[1], s[2]>> = cm
        PROVE  s \in {<<cm[1], cm[2], i>> : i \in CallsIn(Method(cm[1], cm[2]), "addService")}
    <3>1. s \in SitesOf(s[1], "addService") /\ s[1] = cm[1] /\ s[2] = cm[2]
      BY <1>2, <2>4
    <3>2. s \in SitesIn(s[1]) /\ s = <<s[1], s[2], s[3]>> /\ Method(s[1], s[2])[s[3]].kind = "addService"
      BY <2>1, <3>1, SiteFacts DEF SitesOf
    <3>3. s[3] \in DOMAIN Method(s[1], s[2])
      BY <1>2 DEF IsInvocationAt
    <3>4. s[3] \in CallsIn(Method(cm[1], cm[2]), "addService") /\ s = <<cm[1], cm[2], s[3]>>
      BY <3>1, <3>2, <3>3 DEF CallsIn
    <3> QED
      BY <3>4
  <2> QED
    BY <2>1, <2>3, <2>4
<1>4. ASSUME NEW s \in PublishSites
      PROVE  /\ s[1] \in world.systemServices \ interfaces /\ s \in SitesOf(s[1], "publish")
             /\ IsInvocationAt(s)
  <2>1. s[1] \in world.systemServices \ interfaces /\ s \in SitesOf(s[1], "publish")
    BY <1>1, SiteFacts DEF PublishSites
  <2> QED
    BY <1>1, <2>1, SiteFacts
<1>5. ASSUME NEW c \in world.systemServices \ interfaces
      PROVE  {s \in PublishSites : s[1] = c} = FirstPublish(c)
  <2>1. \A s \in SitesOf(c, "publish") : s[1] = c
    BY <1>1, SiteFacts
  <2>2. \A s \in PublishSites : s[1] = c => s \in FirstPublish(c)
    BY <1>4 DEF PublishSites, FirstPublish
  <2>3. \A s \in FirstPublish(c) : s \in PublishSites /\ s[1] = c
    BY <2>1 DEF PublishSites, FirstPublish
  <2> QED
    BY <2>2, <2>3
<1> QED
  BY <1>1, <1>2, <1>3, <1>4, <1>5

-----------------------------------------------------------------------------
(***************************************************************************)
(* THE INVARIANT: what each list holds while the methods and classes of    *)
(* `todo' are still to be visited.                                         *)
(***************************************************************************)
HelperAt(i) ==
    [site |-> <<RegistryClass, 1, i>>, helperClass |-> world.registry[i].helper, inf |-> Null,
     implClass |-> Null, serviceName |-> world.registry[i].tag]

HelpersUpTo(n) == {HelperAt(i) : i \in {k \in 1 .. n : world.registry[k].managed}}

ImplsOf(S) == {NewImpl(s) : s \in S}

VisitedBut(T) == {s \in RegisterSites : <<s[1], s[2]>> \notin T}

PublishedBut(T) == {s \in PublishSites : s[1] \notin T}

ListsAreTyped ==
    /\ world \in Worlds
    /\ phase \in {"helpers", "register", "publish", "save", "saved", "panicked"}
    /\ pc \in 0 .. Len(world.registry)
    /\ implList \subseteq ServiceApi /\ allApi \subseteq ServiceApi

HelpersInv ==
    /\ helpers = HelpersUpTo(pc)
    /\ phase \in {"register", "publish", "save", "saved"} => pc = Len(world.registry)
    /\ phase = "helpers" => allApi = {}
    /\ phase \in {"register", "publish"} => allApi = helpers

ImplInv ==
    /\ phase = "register" => todo \subseteq RegisteringMethods /\ implList = ImplsOf(VisitedBut(todo))
    /\ phase = "publish" => /\ todo \subseteq world.systemServices
                            /\ implList = ImplsOf(RegisterSites \cup PublishedBut(todo))
    /\ phase \in {"save", "saved"} => implList = ImplsOf(RegisterSites \cup PublishSites)

SavedInv ==
    /\ phase \in {"save", "saved"} => \E p \in Picks : allApi = helpers \cup RemainList(p)
    /\ file # Null => phase \in {"saved", "panicked"}
    /\ file \notin {Null, Torn} => phase = "saved" /\ file = allApi

ExtractionInv == ListsAreTyped /\ HelpersInv /\ ImplInv /\ SavedInv

(* The definitions that read the jar file alone change with it alone. *)
LEMMA WorldStays ==
    ASSUME world' = world
    PROVE  /\ RegisteringMethods' = RegisteringMethods
           /\ RegisterSites' = RegisterSites /\ PublishSites' = PublishSites
           /\ \A s : NewImpl(s)' = NewImpl(s)
           /\ \A i : HelperAt(i)' = HelperAt(i)
<1>0. \A c, m : Method(c, m)' = Method(c, m)
  BY DEF Method
<1>1. RegisteringMethods' = RegisteringMethods
  BY <1>0 DEF RegisteringMethods
<1>2. \A c : SitesIn(c)' = SitesIn(c)
  BY <1>0 DEF SitesIn
<1>3. \A c, kind : SitesOf(c, kind)' = SitesOf(c, kind)
  BY <1>0, <1>2 DEF SitesOf
<1>4. RegisterSites' = RegisterSites
  BY <1>3 DEF RegisterSites
<1>5. PublishSites' = PublishSites
  BY <1>3 DEF PublishSites
<1>6. \A s : ImplAt(s)' = ImplAt(s)
  BY <1>0 DEF ImplAt
<1>7. \A s : NewImpl(s)' = NewImpl(s)
  BY <1>0, <1>6 DEF NewImpl
<1>8. \A i : HelperAt(i)' = HelperAt(i)
  BY DEF HelperAt
<1> QED
  BY <1>1, <1>4, <1>5, <1>7, <1>8

(* The sets of the invariant in the next state. *)
LEMMA SetsStay ==
    ASSUME world' = world
    PROVE  /\ HelpersUpTo(pc)' = {HelperAt(i) : i \in {k \in 1 .. pc' : world.registry[k].managed}}
           /\ ImplsOf(VisitedBut(todo))' = ImplsOf({s \in RegisterSites : <<s[1], s[2]>> \notin todo'})
           /\ ImplsOf(RegisterSites \cup PublishedBut(todo))'
                 = ImplsOf(RegisterSites \cup {s \in PublishSites : s[1] \notin todo'})
           /\ ImplsOf(RegisterSites \cup PublishSites)' = ImplsOf(RegisterSites \cup PublishSites)
<1>1. HelpersUpTo(pc)' = {HelperAt(i) : i \in {k \in 1 .. pc' : world.registry[k].managed}}
  BY WorldStays DEF HelpersUpTo
<1>2. ImplsOf(VisitedBut(todo))' = ImplsOf({s \in RegisterSites : <<s[1], s[2]>> \notin todo'})
  BY WorldStays DEF ImplsOf, VisitedBut
<1>3. ImplsOf(RegisterSites \cup PublishedBut(todo))'
         = ImplsOf(RegisterSites \cup {s \in PublishSites : s[1] \notin todo'})
  BY WorldStays DEF ImplsOf, PublishedBut
<1>4. ImplsOf(RegisterSites \cup PublishSites)' = ImplsOf(RegisterSites \cup PublishSites)
  BY WorldStays DEF ImplsOf
<1> QED
  BY <1>1, <1>2, <1>3, <1>4

(* Helpers are well-formed services. *)
LEMMA HelpersTyped ==
    ASSUME world \in Worlds, NEW n \in 0 .. Len(world.registry)
    PROVE  HelpersUpTo(n) \subseteq ServiceApi
<1> SUFFICES ASSUME NEW i \in 1 .. n PROVE HelperAt(i) \in ServiceApi
  BY DEF HelpersUpTo
<1>1. i \in Nat /\ i \in DOMAIN world.registry /\ world.registry[i] \in Registration
  BY WorldFacts
<1>2. RegistryClass \in Class
  BY NamesAssumption
<1> QED
  BY <1>1, <1>2 DEF HelperAt, ServiceApi, Registration, Site

(* What remains is well-formed, and only the interface is new. *)
LEMMA RemainTyped ==
    ASSUME implList \subseteq ServiceApi, NEW p \in Picks
    PROVE  /\ RemainList(p) \subseteq ServiceApi
           /\ \A a \in implList : a.implClass # Null =>
                 /\ WithInterface(a, p).site = a.site /\ WithInterface(a, p).helperClass = a.helperClass
                 /\ WithInterface(a, p).implClass = a.implClass /\ a.implClass \in Class
                 /\ WithInterface(a, p).inf = InfOf(a.implClass, p)
<1> SUFFICES ASSUME NEW a \in implList, a.implClass # Null
             PROVE  /\ WithInterface(a, p) \in ServiceApi
                    /\ WithInterface(a, p).site = a.site /\ WithInterface(a, p).helperClass = a.helperClass
                    /\ WithInterface(a, p).implClass = a.implClass /\ a.implClass \in Class
                    /\ WithInterface(a, p).inf = InfOf(a.implClass, p)
  BY DEF RemainList
<1>1. a \in ServiceApi /\ a.implClass \in Class
  BY DEF ServiceApi
<1>2. InfOf(a.implClass, p) \in Class \cup {Null}
  BY <1>1, InfOfFacts
<1> QED
  BY <1>1, <1>2 DEF WithInterface, ServiceApi

-----------------------------------------------------------------------------
(* At the start all lists are empty. *)
LEMMA InitExtractionInv == Init => ExtractionInv
<1> SUFFICES ASSUME Init PROVE ExtractionInv
  OBVIOUS
<1>1. world \in Worlds /\ pc = 0 /\ pc \in 0 .. Len(world.registry)
  BY WorldFacts DEF Init
<1>2. HelpersUpTo(pc) = {}
  BY <1>1 DEF HelpersUpTo
<1> QED
  BY <1>1, <1>2 DEF Init, ExtractionInv, ListsAreTyped, HelpersInv, ImplInv, SavedInv

(* The registrations, one by one, and all of them as the first services. *)
LEMMA HelperStep ==
    ASSUME ExtractionInv, ResolveServiceHelperRegister
    PROVE  ExtractionInv'
<1>1. world' = world /\ world \in Worlds /\ pc \in Nat /\ pc' = pc + 1 /\ pc < Len(world.registry)
      /\ Len(world.registry) \in Nat /\ phase' = phase /\ phase = "helpers"
  BY WorldFacts DEF ExtractionInv, ListsAreTyped, ResolveServiceHelperRegister, AtRegistration
<1>2. NewHelper = HelperAt(pc') /\ Registered = world.registry[pc']
  BY <1>1 DEF NewHelper, HelperAt, Registered
<1>3. helpers' = IF world.registry[pc'].managed THEN HelpersUpTo(pc) \cup {HelperAt(pc')} ELSE HelpersUpTo(pc)
  BY <1>2 DEF ExtractionInv, HelpersInv, ResolveServiceHelperRegister
<1>4. \A k : k \in 1 .. pc' <=> k \in 1 .. pc \/ k = pc'
  BY <1>1
<1>5. helpers' = {HelperAt(i) : i \in {k \in 1 .. pc' : world.registry[k].managed}}
  BY <1>3, <1>4 DEF HelpersUpTo
<1>6. helpers' = HelpersUpTo(pc)'
  BY <1>1, <1>5, SetsStay
<1>7. ListsAreTyped'
  BY <1>1 DEF ExtractionInv, ListsAreTyped, ResolveServiceHelperRegister
<1>8. HelpersInv'
  BY <1>1, <1>6 DEF ExtractionInv, HelpersInv, ResolveServiceHelperRegister
<1>9. ImplInv' /\ SavedInv'
  BY <1>1 DEF ExtractionInv, ImplInv, SavedInv, ResolveServiceHelperRegister
<1> QED
  BY <1>7, <1>8, <1>9 DEF ExtractionInv

(* The helpers become the first services. *)
LEMMA AddHelpersStep ==
    ASSUME ExtractionInv, AddHelpers
    PROVE  ExtractionInv'
<1>1. world' = world /\ world \in Worlds /\ phase = "helpers" /\ phase' = "register"
      /\ pc' = pc /\ pc = Len(world.registry) /\ helpers' = helpers /\ helpers = HelpersUpTo(pc)
      /\ allApi' = helpers /\ implList' = {} /\ todo' = RegisteringMethods /\ file' = file /\ file = Null
      /\ pc \in 0 .. Len(world.registry)
  BY DEF ExtractionInv, ListsAreTyped, HelpersInv, SavedInv, AddHelpers
<1>2. HelpersUpTo(pc)' = HelpersUpTo(pc)
  BY <1>1, SetsStay DEF HelpersUpTo
<1>3. ImplsOf(VisitedBut(todo))' = {}
  BY <1>1, SetsStay, RegisterSitesFacts DEF ImplsOf
<1>4. ListsAreTyped'
  BY <1>1, HelpersTyped DEF ListsAreTyped
<1>5. HelpersInv'
  BY <1>1, <1>2 DEF HelpersInv
<1>6. RegisteringMethods' = RegisteringMethods
  BY <1>1, WorldStays
<1>7. ImplInv' /\ SavedInv'
  BY <1>1, <1>3, <1>6 DEF ImplInv, SavedInv
<1> QED
  BY <1>4, <1>5, <1>7 DEF ExtractionInv

(* Services by sites, of two sets. *)
LEMMA ImplsOfUnion ==
    ASSUME NEW S, NEW T
    PROVE  ImplsOf(S \cup T) = ImplsOf(S) \cup ImplsOf(T)
BY DEF ImplsOf

(* One method with addService calls; its unknown invocations would have thrown. *)
LEMMA RegisterStep ==
    ASSUME ExtractionInv, NEW c, NEW m, ResolveServiceImplRegister(c, m)
    PROVE  ExtractionInv'
<1> DEFINE new == {<<c, m, i>> : i \in CallsIn(Method(c, m), "addService")}
           visited == {s \in RegisterSites : <<s[1], s[2]>> \notin todo'}
<1>1. /\ world' = world /\ world \in Worlds /\ phase = "register" /\ phase' = "register"
      /\ <<c, m>> \in todo /\ todo' = todo \ {<<c, m>>} /\ UnknownIn(Method(c, m)) = {}
      /\ implList' = implList \cup ImplsOf(new)
      /\ todo \subseteq RegisteringMethods /\ implList = ImplsOf(VisitedBut(todo))
      /\ pc' = pc /\ helpers' = helpers /\ allApi' = allApi /\ file' = file
  <2>1. implList' = implList \cup ImplsOf(new)
    BY DEF ResolveServiceImplRegister, ImplsOf
  <2> QED
    BY <2>1 DEF ExtractionInv, ListsAreTyped, ImplInv, ResolveServiceImplRegister
<1> HIDE DEF new
<1>2. <<c, m>>[1] = c /\ <<c, m>>[2] = m
  OBVIOUS
<1>3. {s \in RegisterSites : <<s[1], s[2]>> = <<c, m>>} = new
  BY <1>1, <1>2, RegisterSitesFacts DEF new
<1>4. visited = VisitedBut(todo) \cup new
  BY <1>1, <1>3 DEF VisitedBut
<1>5. implList' = ImplsOf(visited)
  BY <1>1, <1>4, ImplsOfUnion
<1>6. implList' = ImplsOf(VisitedBut(todo))'
  BY <1>1, <1>5, SetsStay
<1>7. ImplsOf(new) \subseteq ServiceApi
  <2> SUFFICES ASSUME NEW s \in new PROVE NewImpl(s) \in ServiceApi
    BY DEF ImplsOf
  <2>1. IsInvocationAt(s) /\ <<s[1], s[2]>> = <<c, m>>
    BY <1>1, <1>3, RegisterSitesFacts
  <2>2. s[1] = c /\ s[2] = m
    BY <2>1
  <2> QED
    BY <1>1, <2>1, <2>2, NewImplTyped
<1>8. ListsAreTyped'
  BY <1>1, <1>7 DEF ExtractionInv, ListsAreTyped
<1>9. HelpersUpTo(pc)' = HelpersUpTo(pc) /\ RegisteringMethods' = RegisteringMethods
  BY <1>1, SetsStay, WorldStays DEF HelpersUpTo
<1>10. HelpersInv'
  BY <1>1, <1>9 DEF ExtractionInv, HelpersInv
<1>11. ImplInv' /\ SavedInv'
  BY <1>1, <1>6, <1>9 DEF ExtractionInv, ImplInv, SavedInv
<1> QED
  BY <1>8, <1>10, <1>11 DEF ExtractionInv

(* Every method was visited, no SystemService yet. *)
LEMMA StartPublishStep ==
    ASSUME ExtractionInv, StartPublish
    PROVE  ExtractionInv'
<1>1. /\ world' = world /\ world \in Worlds /\ phase = "register" /\ phase' = "publish"
      /\ todo = {} /\ todo' = world.systemServices /\ implList' = implList /\ implList = ImplsOf(VisitedBut(todo))
      /\ pc' = pc /\ helpers' = helpers /\ allApi' = allApi /\ file' = file
  BY DEF ExtractionInv, ListsAreTyped, ImplInv, StartPublish
<1>2. VisitedBut(todo) = RegisterSites
  BY <1>1 DEF VisitedBut
<1>3. {s \in PublishSites : s[1] \notin todo'} = {}
  BY <1>1, RegisterSitesFacts
<1>4. RegisterSites \cup {s \in PublishSites : s[1] \notin todo'} = RegisterSites
  BY <1>3
<1>5. implList' = ImplsOf(RegisterSites \cup PublishedBut(todo))'
  BY <1>1, <1>2, <1>4, SetsStay
<1>6. HelpersUpTo(pc)' = HelpersUpTo(pc)
  BY <1>1, SetsStay DEF HelpersUpTo
<1>7. ListsAreTyped' /\ HelpersInv'
  BY <1>1, <1>6 DEF ExtractionInv, ListsAreTyped, HelpersInv
<1>8. ImplInv' /\ SavedInv'
  BY <1>1, <1>5 DEF ExtractionInv, ImplInv, SavedInv
<1> QED
  BY <1>7, <1>8 DEF ExtractionInv

(* One SystemService; whatever its search would stumble over did not stop it. *)
LEMMA PublishStep ==
    ASSUME ExtractionInv, NEW c, ExtractServicePublic(c)
    PROVE  ExtractionInv'
<1> DEFINE new == IF c \in interfaces THEN {} ELSE FirstPublish(c)
           published == {s \in PublishSites : s[1] \notin todo'}
<1>1. /\ world' = world /\ world \in Worlds /\ phase = "publish" /\ phase' = "publish"
      /\ c \in todo /\ todo' = todo \ {c} /\ (c \notin interfaces => ~Stumbles(c))
      /\ implList' = implList \cup ImplsOf(new)
      /\ todo \subseteq world.systemServices /\ implList = ImplsOf(RegisterSites \cup PublishedBut(todo))
      /\ pc' = pc /\ helpers' = helpers /\ allApi' = allApi /\ file' = file
  <2>1. implList' = implList \cup ImplsOf(new)
    BY DEF ExtractServicePublic, ImplsOf
  <2> QED
    BY <2>1 DEF ExtractionInv, ListsAreTyped, ImplInv, ExtractServicePublic
<1>2. /\ \A s \in PublishSites : s[1] = c => s \in new
      /\ \A s \in new : s \in PublishSites /\ s[1] = c
  <2>1. \A s \in PublishSites : s[1] \notin interfaces
    BY <1>1, RegisterSitesFacts
  <2>2. c \notin interfaces => {s \in PublishSites : s[1] = c} = FirstPublish(c)
    BY <1>1, RegisterSitesFacts
  <2> QED
    BY <2>1, <2>2
<1>7. ImplsOf(new) \subseteq ServiceApi
  <2> SUFFICES ASSUME NEW s \in new PROVE NewImpl(s) \in ServiceApi
    BY DEF ImplsOf
  <2>1. IsInvocationAt(s) /\ ImplAt(s) # Throws
    BY <1>1, <1>2, RegisterSitesFacts DEF Stumbles
  <2> QED
    BY <2>1, NewImplTyped
<1> HIDE DEF new
<1>4. RegisterSites \cup published = (RegisterSites \cup PublishedBut(todo)) \cup new
  BY <1>1, <1>2 DEF PublishedBut
<1>5. implList' = ImplsOf(RegisterSites \cup published)
  BY <1>1, <1>4, ImplsOfUnion
<1>6. implList' = ImplsOf(RegisterSites \cup PublishedBut(todo))'
  BY <1>1, <1>5, SetsStay
<1>8. ListsAreTyped'
  BY <1>1, <1>7 DEF ExtractionInv, ListsAreTyped
<1>9. HelpersUpTo(pc)' = HelpersUpTo(pc)
  BY <1>1, SetsStay DEF HelpersUpTo
<1>10. HelpersInv'
  BY <1>1, <1>9 DEF ExtractionInv, HelpersInv
<1>11. ImplInv' /\ SavedInv'
  BY <1>1, <1>6 DEF ExtractionInv, ImplInv, SavedInv
<1> QED
  BY <1>8, <1>10, <1>11 DEF ExtractionInv

(* What is left of the implementations joins the helpers. *)
LEMMA AddRemainingStep ==
    ASSUME ExtractionInv, AddRemaining
    PROVE  ExtractionInv'
<1>1. /\ world' = world /\ world \in Worlds /\ phase = "publish" /\ phase' = "save"
      /\ todo = {} /\ implList' = implList /\ implList = ImplsOf(RegisterSites \cup PublishedBut(todo))
      /\ pc' = pc /\ helpers' = helpers /\ allApi = helpers /\ file' = file /\ file = Null
      /\ implList \subseteq ServiceApi /\ allApi \subseteq ServiceApi
  BY DEF ExtractionInv, ListsAreTyped, HelpersInv, ImplInv, SavedInv, AddRemaining
<1>2. PICK p \in Picks : allApi' = allApi \cup RemainList(p)
  BY DEF AddRemaining
<1>3. RemainList(p) \subseteq ServiceApi /\ RemainList(p)' = RemainList(p)
  BY <1>1, RemainTyped DEF RemainList
<1>4. PublishedBut(todo) = PublishSites
  BY <1>1 DEF PublishedBut
<1>5. implList' = ImplsOf(RegisterSites \cup PublishSites)'
  BY <1>1, <1>4, SetsStay
<1>6. HelpersUpTo(pc)' = HelpersUpTo(pc)
  BY <1>1, SetsStay DEF HelpersUpTo
<1>7. ListsAreTyped'
  BY <1>1, <1>2, <1>3 DEF ExtractionInv, ListsAreTyped
<1>8. HelpersInv' /\ ImplInv'
  BY <1>1, <1>5, <1>6 DEF ExtractionInv, HelpersInv, ImplInv
<1>9. SavedInv'
  BY <1>1, <1>2, <1>3 DEF SavedInv
<1> QED
  BY <1>7, <1>8, <1>9 DEF ExtractionInv

(* The file is the list. *)
LEMMA SaveStep ==
    ASSUME ExtractionInv, SaveResults
    PROVE  ExtractionInv'
<1>1. /\ world' = world /\ phase = "save" /\ phase' = "saved" /\ implList' = implList /\ allApi' = allApi
      /\ pc' = pc /\ helpers' = helpers /\ file' = allApi
  BY DEF SaveResults
<1>2. HelpersUpTo(pc)' = HelpersUpTo(pc)
  BY <1>1, SetsStay DEF HelpersUpTo
<1>3. ImplsOf(RegisterSites \cup PublishSites)' = ImplsOf(RegisterSites \cup PublishSites)
  BY <1>1, SetsStay
<1>4. \A p : RemainList(p)' = RemainList(p)
  BY <1>1 DEF RemainList
<1>5. ListsAreTyped' /\ HelpersInv' /\ ImplInv'
  BY <1>1, <1>2, <1>3 DEF ExtractionInv, ListsAreTyped, HelpersInv, ImplInv
<1>6. SavedInv'
  BY <1>1, <1>4 DEF ExtractionInv, SavedInv
<1> QED
  BY <1>5, <1>6 DEF ExtractionInv

(* A program that ends keeps its lists; at most it leaves a torn file. *)
LEMMA PanicStep ==
    ASSUME ExtractionInv, phase' = "panicked", phase # "saved", file' \in {file, Torn},
           UNCHANGED <<world, pc, helpers, implList, allApi>>
    PROVE  ExtractionInv'
<1>1. HelpersUpTo(pc)' = HelpersUpTo(pc)
  BY SetsStay DEF HelpersUpTo
<1> QED
  BY <1>1 DEF ExtractionInv, ListsAreTyped, HelpersInv, ImplInv, SavedInv

(* Nothing changes. *)
LEMMA StutterStep ==
    ASSUME ExtractionInv, UNCHANGED vars
    PROVE  ExtractionInv'
<1>1. world' = world /\ pc' = pc /\ todo' = todo /\ implList' = implList
  BY DEF vars
<1>2. HelpersUpTo(pc)' = HelpersUpTo(pc) /\ RegisteringMethods' = RegisteringMethods
  BY <1>1, SetsStay, WorldStays DEF HelpersUpTo
<1>3. /\ ImplsOf(VisitedBut(todo))' = ImplsOf(VisitedBut(todo))
      /\ ImplsOf(RegisterSites \cup PublishedBut(todo))' = ImplsOf(RegisterSites \cup PublishedBut(todo))
      /\ ImplsOf(RegisterSites \cup PublishSites)' = ImplsOf(RegisterSites \cup PublishSites)
  BY <1>1, SetsStay DEF VisitedBut, PublishedBut
<1>4. \A p : RemainList(p)' = RemainList(p)
  BY <1>1 DEF RemainList
<1> QED
  BY <1>2, <1>3, <1>4 DEF ExtractionInv, ListsAreTyped, HelpersInv, ImplInv, SavedInv, vars

(* One step per action keeps the invariant. *)
LEMMA NextExtractionInv == ExtractionInv /\ [Next]_vars => ExtractionInv'
<1> SUFFICES ASSUME ExtractionInv, [Next]_vars PROVE ExtractionInv'
  OBVIOUS
<1>1. CASE ResolveServiceHelperRegister
  BY <1>1, HelperStep
<1>2. CASE HelperPanics
  BY <1>2, PanicStep DEF HelperPanics
<1>3. CASE AddHelpers
  BY <1>3, AddHelpersStep
<1>4. CASE \E cm \in todo : phase = "register" /\ (ResolveServiceImplRegister(cm[1], cm[2])
                                                   \/ RegisterPanics(cm[1], cm[2]))
  <2>1. PICK cm \in todo : ResolveServiceImplRegister(cm[1], cm[2]) \/ RegisterPanics(cm[1], cm[2])
    BY <1>4
  <2>2. CASE ResolveServiceImplRegister(cm[1], cm[2])
    BY <2>2, RegisterStep
  <2>3. CASE RegisterPanics(cm[1], cm[2])
    BY <2>3, PanicStep DEF RegisterPanics
  <2> QED
    BY <2>1, <2>2, <2>3
<1>5. CASE StartPublish
  BY <1>5, StartPublishStep
<1>6. ASSUME NEW c \in Class, ExtractServicePublic(c)
      PROVE  ExtractionInv'
  BY <1>6, PublishStep
<1>7. ASSUME NEW c \in Class, PublishPanics(c)
      PROVE  ExtractionInv'
  BY <1>7, PanicStep DEF PublishPanics
<1>8. CASE AddRemaining
  BY <1>8, AddRemainingStep
<1>9. CASE SaveResults
  BY <1>9, SaveStep
<1>10. CASE SavePanics
  BY <1>10, PanicStep DEF SavePanics
<1>11. CASE UNCHANGED vars
  BY <1>11, StutterStep
<1> QED
  BY <1>1, <1>2, <1>3, <1>4, <1>5, <1>6, <1>7, <1>8, <1>9, <1>10, <1>11 DEF Next

(***************************************************************************)
(* In every reachable state the lists hold one helper for each managed     *)
(* registration that was passed, and one service for each site visited.    *)
(***************************************************************************)
THEOREM ExtractionInvariance == Spec => []ExtractionInv
<1> QED
  BY InitExtractionInv, NextExtractionInv, PTL DEF Spec

(* Every list and the file hold well-formed services, for all jar files.   *)
THEOREM ExtractionTypeCorrect == Spec => []TypeOK
<1>1. ExtractionInv => TypeOK
  BY HelpersTyped DEF ExtractionInv, ListsAreTyped, HelpersInv, SavedInv, TypeOK
<1> QED
  BY <1>1, ExtractionInvariance, PTL

(* The parts of the list that is saved, and how they differ. *)
LEMMA SavedParts ==
    ASSUME ExtractionInv, phase \in {"save", "saved"}, NEW p \in Picks
    PROVE  /\ \A h \in helpers : /\ h.helperClass # Null /\ h.site[1] = RegistryClass
           /\ {h.site : h \in helpers}
                 = {<<RegistryClass, 1, i>> : i \in {k \in DOMAIN world.registry : world.registry[k].managed}}
           /\ \A g, h \in helpers : g.site = h.site => g = h
           /\ \A a \in RemainList(p) :
                 /\ a.helperClass = Null /\ a.implClass \in Class
                 /\ a.site \in RegisterSites \cup PublishSites /\ a.site[1] # RegistryClass
                 /\ ClassAt(a.site) # Null /\ a.implClass = ClassAt(a.site)
                 /\ a = WithInterface(NewImpl(a.site), p) /\ a.inf = InfOf(a.implClass, p)
           /\ \A s \in RegisterSites \cup PublishSites : ClassAt(s) # Null =>
                 \E a \in RemainList(p) : a.site = s
<1>1. /\ world \in Worlds /\ pc = Len(world.registry) /\ helpers = HelpersUpTo(pc)
      /\ pc \in 0 .. Len(world.registry)
      /\ implList \subseteq ServiceApi /\ implList = ImplsOf(RegisterSites \cup PublishSites)
  BY DEF ExtractionInv, ListsAreTyped, HelpersInv, ImplInv
<1>2. DOMAIN world.registry = 1 .. pc /\ \A i \in 1 .. pc : world.registry[i].helper \in Class
  BY <1>1, WorldFacts DEF Registration
<1>3. Null \notin Class
  BY ClassesAssumption DEF HierarchyAssumption
<1>4. \A i : HelperAt(i).site = <<RegistryClass, 1, i>> /\ HelperAt(i).helperClass = world.registry[i].helper
  BY DEF HelperAt
<1>5. /\ \A h \in helpers : h.helperClass # Null /\ h.site[1] = RegistryClass
      /\ \A g, h \in helpers : g.site = h.site => g = h
  BY <1>1, <1>2, <1>3, <1>4 DEF HelpersUpTo
<1>6. {h.site : h \in helpers}
         = {<<RegistryClass, 1, i>> : i \in {k \in DOMAIN world.registry : world.registry[k].managed}}
  BY <1>1, <1>2, <1>4 DEF HelpersUpTo
<1>7. \A s \in RegisterSites \cup PublishSites :
         /\ IsInvocationAt(s) /\ s[1] # RegistryClass /\ NewImpl(s) \in implList
         /\ NewImpl(s).site = s /\ NewImpl(s).implClass = ClassAt(s)
         /\ ClassAt(s) # Null => NewImpl(s).helperClass = Null
  BY <1>1, RegisterSitesFacts, NewImplFacts DEF ImplsOf
<1>8. ASSUME NEW b \in implList, b.implClass # Null
      PROVE  LET a == WithInterface(b, p)
             IN  /\ a.helperClass = Null /\ a.implClass \in Class
                 /\ a.site \in RegisterSites \cup PublishSites /\ a.site[1] # RegistryClass
                 /\ ClassAt(a.site) # Null /\ a.implClass = ClassAt(a.site)
                 /\ a = WithInterface(NewImpl(a.site), p) /\ a.inf = InfOf(a.implClass, p)
  <2>1. PICK s \in RegisterSites \cup PublishSites : b = NewImpl(s)
    BY <1>1 DEF ImplsOf
  <2>2. /\ WithInterface(b, p).site = b.site /\ WithInterface(b, p).helperClass = b.helperClass
        /\ WithInterface(b, p).implClass = b.implClass /\ b.implClass \in Class
        /\ WithInterface(b, p).inf = InfOf(b.implClass, p)
    BY <1>1, <1>8, RemainTyped
  <2> QED
    BY <1>7, <1>8, <2>1, <2>2
<1>9. \A a \in RemainList(p) :
         /\ a.helperClass = Null /\ a.implClass \in Class
         /\ a.site \in RegisterSites \cup PublishSites /\ a.site[1] # RegistryClass
         /\ ClassAt(a.site) # Null /\ a.implClass = ClassAt(a.site)
         /\ a = WithInterface(NewImpl(a.site), p) /\ a.inf = InfOf(a.implClass, p)
  BY <1>8 DEF RemainList
<1>10. ASSUME NEW s \in RegisterSites \cup PublishSites, ClassAt(s) # Null
       PROVE  \E a \in RemainList(p) : a.site = s
  <2>1. NewImpl(s) \in implList /\ NewImpl(s).implClass # Null /\ NewImpl(s).site = s
    BY <1>7, <1>10
  <2>2. WithInterface(NewImpl(s), p) \in RemainList(p)
    BY <2>1 DEF RemainList
  <2>3. WithInterface(NewImpl(s), p).site = s
    BY <1>1, <2>1, RemainTyped
  <2> QED
    BY <2>2, <2>3
<1> QED
  BY <1>5, <1>6, <1>9, <1>10

(***************************************************************************)
(* The file is exact: a helper per managed registration, a service per     *)
(* addService call and per first publish call whose class a chain of at    *)
(* most three definitions gives, nothing else and nothing twice.           *)
(***************************************************************************)
THEOREM SavedListCorrect == Spec => []SavedListIsExact
<1>1. ExtractionInv => SavedListIsExact
  <2> SUFFICES ASSUME ExtractionInv, file \notin {Null, Torn} PROVE SavedListIsExact
    BY DEF SavedListIsExact
  <2>1. phase = "saved" /\ file = allApi
    BY DEF ExtractionInv, SavedInv
  <2>2. PICK p \in Picks : file = helpers \cup RemainList(p)
    BY <2>1 DEF ExtractionInv, SavedInv
  <2>3. \A h \in helpers : h.helperClass # Null /\ h.site[1] = RegistryClass
    BY <2>1, SavedParts
  <2>4. \A a \in RemainList(p) :
           /\ a.helperClass = Null /\ a.site \in RegisterSites \cup PublishSites /\ a.site[1] # RegistryClass
           /\ ClassAt(a.site) # Null /\ a.implClass = ClassAt(a.site)
           /\ a = WithInterface(NewImpl(a.site), p)
    BY <2>1, SavedParts
  <2>5. {x \in file : x.helperClass # Null} = helpers /\ {x \in file : x.helperClass = Null} = RemainList(p)
    BY <2>2, <2>3, <2>4
  <2>6. {a.site : a \in {x \in file : x.helperClass # Null}}
           = {<<RegistryClass, 1, i>> : i \in {k \in DOMAIN world.registry : world.registry[k].managed}}
    BY <2>1, <2>5, SavedParts
  <2>7. {<<a.site, a.implClass>> : a \in RemainList(p)}
           = {<<s, ClassAt(s)>> : s \in {t \in RegisterSites \cup PublishSites : ClassAt(t) # Null}}
    <3>1. \A s \in RegisterSites \cup PublishSites : ClassAt(s) # Null =>
             \E a \in RemainList(p) : a.site = s /\ a.implClass = ClassAt(s)
      BY <2>1, <2>4, SavedParts
    <3> QED
      BY <2>4, <3>1
  <2>8. \A a, b \in file : a.site = b.site => a = b
    <3>1. \A a, b \in helpers : a.site = b.site => a = b
      BY <2>1, SavedParts
    <3> QED
      BY <2>2, <2>3, <2>4, <3>1
  <2> QED
    BY <2>5, <2>6, <2>7, <2>8 DEF SavedListIsExact
<1> QED
  BY <1>1, ExtractionInvariance, PTL

(***************************************************************************)
(* Detection never gets an unresolved placeholder, and the interface of a  *)
(* class is a binder interface above it whenever there is one.             *)
(***************************************************************************)
THEOREM ListCorrect == Spec => []ListIsFitForDetection
<1>1. ExtractionInv => ListIsFitForDetection
  <2> SUFFICES ASSUME ExtractionInv, phase = "saved", NEW a \in allApi
               PROVE  IF a.helperClass # Null THEN a.site[1] = RegistryClass
                      ELSE /\ a.implClass # Null
                           /\ a.implClass \notin interfaces =>
                                 \/ a.inf \in BinderInterfacesOf(a.implClass)
                                 \/ a.inf = a.implClass /\ BinderInterfacesOf(a.implClass) = {}
    BY DEF ListIsFitForDetection
  <2>1. PICK p \in Picks : allApi = helpers \cup RemainList(p)
    BY DEF ExtractionInv, SavedInv
  <2>2. CASE a \in helpers
    BY <2>2, SavedParts
  <2>3. CASE a \in RemainList(p)
    <3>1. a.helperClass = Null /\ a.implClass \in Class /\ a.inf = InfOf(a.implClass, p)
      BY <2>3, SavedParts
    <3>2. a.implClass # Null
      BY <3>1, ClassesAssumption DEF HierarchyAssumption
    <3>3. a.implClass \notin interfaces => a.inf \in InfForImpl(a.implClass)
      BY <3>1, InfOfFacts
    <3> QED
      BY <3>1, <3>2, <3>3, InfForImplFacts
  <2> QED
    BY <2>1, <2>2, <2>3
<1> QED
  BY <1>1, ExtractionInvariance, PTL

=============================================================================
