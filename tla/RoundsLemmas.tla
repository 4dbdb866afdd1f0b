---------------------------- MODULE RoundsLemmas ----------------------------
(***************************************************************************)
(* What is reached along the edges of a finite graph, computed in rounds:  *)
(* every round adds the successors of what the rounds before have found.   *)
(* Several modules define such a function by recursion, of the callees of  *)
(* a method, the superclasses of a class, the objects a program refers to. *)
(* Here: the function exists, and as many rounds as there are nodes find   *)
(* the least set that is closed under the edges.                           *)
(***************************************************************************)
EXTENDS FiniteSetTheorems, TLAPS

(***************************************************************************)
(* A set of natural numbers that is not empty has a least element: an      *)
(* induction looks at the least number that is an exception.               *)
(***************************************************************************)
LEMMA LeastNatural ==
    ASSUME NEW T \in SUBSET Nat, T # {}
    PROVE  \E n \in T : \A m \in T : n <= m
<1> PICK b \in T : TRUE
  OBVIOUS
<1> DEFINE X == 0 .. b
           U == {u \in SUBSET X : \E k \in T : k <= b /\ u = 0 .. k}
<1>1. IsFiniteSet(X)
  BY FS_Interval
<1>2. X \in U /\ U \subseteq SUBSET X
  OBVIOUS
<1>3. IsWellFoundedOn(StrictSubsetOrdering(X), FiniteSubsetsOf(X))
  BY FS_StrictSubsetOrderingWellFounded
<1>4. U \subseteq FiniteSubsetsOf(X)
  BY <1>1, FS_Subset DEF FiniteSubsetsOf
<1>5. \E x \in U : \A y \in U : ~ (<<y, x>> \in StrictSubsetOrdering(X))
  <2> HIDE DEF U, X
  <2> QED
    BY <1>2, <1>3, <1>4, WFMin
<1>6. PICK x \in U : \A y \in U : ~ (<<y, x>> \in StrictSubsetOrdering(X))
  BY <1>5
<1>7. PICK n \in T : n <= b /\ x = 0 .. n
  OBVIOUS
<1>8. ASSUME NEW m \in T, m < n
      PROVE  FALSE
  <2>1. 0 .. m \in U /\ 0 .. m \subseteq x /\ 0 .. m # x
    BY <1>7, <1>8
  <2> QED
    BY <2>1, <1>6 DEF StrictSubsetOrdering
<1> QED
  BY <1>7, <1>8

(***************************************************************************)
(* The same for the set of exceptions to what holds of 0 and is handed on  *)
(* from k to k + 1, up to N.                                               *)
(***************************************************************************)
LEMMA NoFirstException ==
    ASSUME NEW N \in Nat, NEW T \in SUBSET (0 .. N),
           0 \notin T, \A k \in 0 .. N - 1 : k \notin T => k + 1 \notin T
    PROVE  T = {}
<1> SUFFICES ASSUME T # {} PROVE FALSE
  OBVIOUS
<1>1. T \in SUBSET Nat
  OBVIOUS
<1>2. PICK k \in T : \A m \in T : k <= m
  BY <1>1, LeastNatural
<1>3. k - 1 \in 0 .. N - 1 /\ k - 1 \notin T /\ (k - 1) + 1 = k
  BY <1>2
<1> QED
  BY <1>2, <1>3

-----------------------------------------------------------------------------
(* G gives the set of successors of every node, A is where the rounds begin. *)
SuccessorsIn(G, X) == UNION {G[x] : x \in X}

IsClosedIn(G, X) == SuccessorsIn(G, X) \subseteq X

IsRounds(f, G, A, N) ==
    f = [k \in 0 .. N |-> IF k = 0 THEN A ELSE f[k - 1] \cup SuccessorsIn(G, f[k - 1])]

(***************************************************************************)
(* The function of a recursive definition of this form exists.             *)
(***************************************************************************)
LEMMA RoundsExist ==
    ASSUME NEW G, NEW A, NEW N \in Nat
    PROVE  \E f : IsRounds(f, G, A, N)
<1> DEFINE T == {k \in 0 .. N : ~\E f : IsRounds(f, G, A, k)}
<1>1. 0 \notin T
  <2> DEFINE f == [j \in 0 .. 0 |-> A]
  <2>1. IsRounds(f, G, A, 0)
    BY DEF IsRounds
  <2> QED
    BY <2>1
<1>2. ASSUME NEW k \in 0 .. N - 1, k \notin T
      PROVE  k + 1 \notin T
  <2>1. PICK f : IsRounds(f, G, A, k)
    BY <1>2
  <2> DEFINE h == [j \in 0 .. k + 1 |-> IF j = k + 1 THEN f[k] \cup SuccessorsIn(G, f[k]) ELSE f[j]]
  <2>2. \A j \in 0 .. k : f[j] = IF j = 0 THEN A ELSE f[j - 1] \cup SuccessorsIn(G, f[j - 1])
    BY <2>1 DEF IsRounds
  <2>3. \A j \in 0 .. k + 1 : h[j] = IF j = 0 THEN A ELSE h[j - 1] \cup SuccessorsIn(G, h[j - 1])
    <3> TAKE j \in 0 .. k + 1
    <3>1. CASE j = k + 1
      <4>1. h[j] = f[k] \cup SuccessorsIn(G, f[k]) /\ h[j - 1] = f[k] /\ j # 0
        BY <3>1
      <4> HIDE DEF h
      <4> QED
        BY <4>1
    <3>2. CASE j # k + 1
      <4>1. h[j] = f[j] /\ j \in 0 .. k /\ (j # 0 => h[j - 1] = f[j - 1])
        BY <3>2
      <4> HIDE DEF h
      <4> QED
        BY <2>2, <4>1
    <3> QED
      BY <3>1, <3>2
  <2>4. IsRounds(h, G, A, k + 1)
    <3>1. h = [j \in 0 .. k + 1 |-> h[j]]
      OBVIOUS
    <3> HIDE DEF h
    <3> QED
      BY <2>3, <3>1 DEF IsRounds
  <2> QED
    BY <2>4
<1>3. T = {}
  <2>1. T \in SUBSET (0 .. N)
    OBVIOUS
  <2> HIDE DEF T
  <2> QED
    BY <1>1, <1>2, <2>1, NoFirstException
<1> QED
  BY <1>3

(* Round by round. *)
LEMMA RoundByRound ==
    ASSUME NEW G, NEW A, NEW N \in Nat, NEW f, IsRounds(f, G, A, N)
    PROVE  /\ f[0] = A
           /\ \A k \in 0 .. N - 1 : f[k + 1] = f[k] \cup SuccessorsIn(G, f[k])
<1>1. \A k \in 0 .. N : f[k] = IF k = 0 THEN A ELSE f[k - 1] \cup SuccessorsIn(G, f[k - 1])
  BY DEF IsRounds
<1>2. 0 \in 0 .. N
  OBVIOUS
<1>3. ASSUME NEW k \in 0 .. N - 1
      PROVE  f[k + 1] = f[k] \cup SuccessorsIn(G, f[k])
  <2>1. k + 1 \in 0 .. N /\ k + 1 # 0 /\ (k + 1) - 1 = k
    OBVIOUS
  <2>2. f[k + 1] = f[(k + 1) - 1] \cup SuccessorsIn(G, f[(k + 1) - 1])
    BY <1>1, <2>1
  <2> QED
    BY <2>1, <2>2
<1> QED
  BY <1>1, <1>2, <1>3

(***************************************************************************)
(* The rounds stay among the nodes.  So a definition of another form       *)
(* computes them, when its rounds t are the same on sets of nodes.         *)
(***************************************************************************)
LEMMA RoundsStayInside ==
    ASSUME NEW S, NEW G \in [S -> SUBSET S], NEW A \in SUBSET S, NEW N \in Nat,
           NEW f, IsRounds(f, G, A, N)
    PROVE  \A k \in 0 .. N : f[k] \in SUBSET S
<1> DEFINE T == {k \in 0 .. N : f[k] \notin SUBSET S}
<1>1. f[0] = A
  BY RoundByRound
<1>2. \A k \in 0 .. N - 1 : f[k + 1] = f[k] \cup SuccessorsIn(G, f[k])
  BY RoundByRound
<1>3. T \in SUBSET (0 .. N) /\ 0 \notin T
  BY <1>1
<1>4. \A k \in 0 .. N - 1 : k \notin T => k + 1 \notin T
  BY <1>2 DEF SuccessorsIn
<1>5. T = {}
  <2> HIDE DEF T
  <2> QED
    BY <1>3, <1>4, NoFirstException
<1> QED
  BY <1>5

IsSteps(r, A, t, N) == r = [k \in 0 .. N |-> IF k = 0 THEN A ELSE t[k - 1]]

(* See above: r is such a definition, t its rounds. *)
LEMMA RoundsRecognised ==
    ASSUME NEW S, NEW G \in [S -> SUBSET S], NEW A \in SUBSET S, NEW N \in Nat,
           NEW r, NEW t, IsSteps(r, A, t, N),
           \A k \in 0 .. N - 1 : r[k] \in SUBSET S => t[k] = r[k] \cup SuccessorsIn(G, r[k])
    PROVE  IsRounds(r, G, A, N)
<1> DEFINE T == {k \in 0 .. N : r[k] \notin SUBSET S}
<1>1. r[0] = A
  BY DEF IsSteps
<1>2. \A k \in 0 .. N - 1 : r[k + 1] = t[k]
  <2> SUFFICES ASSUME NEW k \in 0 .. N - 1 PROVE r[k + 1] = t[k]
    OBVIOUS
  <2>1. k + 1 \in 0 .. N /\ k + 1 # 0 /\ (k + 1) - 1 = k
    OBVIOUS
  <2> QED
    BY <2>1 DEF IsSteps
<1>3. T \in SUBSET (0 .. N) /\ 0 \notin T
  BY <1>1
<1>4. \A k \in 0 .. N - 1 : k \notin T => k + 1 \notin T
  BY <1>2 DEF SuccessorsIn
<1>5. T = {}
  <2> HIDE DEF T
  <2> QED
    BY <1>3, <1>4, NoFirstException
<1>6. \A k \in 0 .. N - 1 : t[k] = r[k] \cup SuccessorsIn(G, r[k])
  BY <1>5
<1>7. \A k \in 0 .. N : k # 0 => t[k - 1] = r[k - 1] \cup SuccessorsIn(G, r[k - 1])
  BY <1>6
<1> QED
  BY <1>7 DEF IsRounds, IsSteps

(***************************************************************************)
(* As many rounds as there are nodes are enough: a round that adds nothing *)
(* is the last one, any other adds a node.                                 *)
(***************************************************************************)
LEMMA RoundsAreLeastClosed ==
    ASSUME NEW S, IsFiniteSet(S), NEW G \in [S -> SUBSET S], NEW A \in SUBSET S,
           NEW f, IsRounds(f, G, A, Cardinality(S))
    PROVE  LET X == f[Cardinality(S)]
           IN  /\ X \in SUBSET S /\ A \subseteq X /\ IsClosedIn(G, X)
               /\ \A Y \in SUBSET S : A \subseteq Y /\ IsClosedIn(G, Y) => X \subseteq Y
<1> DEFINE N == Cardinality(S)
<1>0. N \in Nat
  BY FS_CardinalityType
<1>1. IsRounds(f, G, A, N)
  OBVIOUS
<1> HIDE DEF N
<1>2. f[0] = A /\ \A k \in 0 .. N - 1 : f[k + 1] = f[k] \cup SuccessorsIn(G, f[k])
  <2>1. f[0] = A
    BY <1>0, <1>1, RoundByRound
  <2>2. \A k \in 0 .. N - 1 : f[k + 1] = f[k] \cup SuccessorsIn(G, f[k])
    BY <1>0, <1>1, RoundByRound
  <2> QED
    BY <2>1, <2>2
<1>3. \A X \in SUBSET S : SuccessorsIn(G, X) \in SUBSET S
  BY DEF SuccessorsIn
<1> DEFINE Least(X) == \A Y \in SUBSET S : A \subseteq Y /\ IsClosedIn(G, Y) => X \subseteq Y
           OK(k) == /\ A \subseteq f[k] /\ f[k] \in SUBSET S /\ Least(f[k])
                    /\ Cardinality(f[k]) >= k + 1 \/ IsClosedIn(G, f[k])
           T == {k \in 0 .. N : ~OK(k)}
<1>4. OK(0)
  <2>1. A \subseteq f[0] /\ f[0] \in SUBSET S /\ Least(f[0])
    BY <1>2
  <2>2. CASE A = {}
    <3>1. IsClosedIn(G, f[0])
      BY <1>2, <2>2 DEF IsClosedIn, SuccessorsIn
    <3> QED
      BY <2>1, <3>1
  <2>3. CASE A # {}
    <3>1. IsFiniteSet(A) /\ Cardinality(A) \in Nat /\ Cardinality(A) # 0
      BY <2>3, FS_Subset, FS_CardinalityType, FS_EmptySet
    <3>2. Cardinality(f[0]) >= 0 + 1
      BY <1>2, <3>1
    <3> QED
      BY <2>1, <3>2
  <2> QED
    BY <2>2, <2>3
<1>5. ASSUME NEW k \in 0 .. N - 1, OK(k)
      PROVE  OK(k + 1)
  <2>1. f[k + 1] = f[k] \cup SuccessorsIn(G, f[k]) /\ SuccessorsIn(G, f[k]) \in SUBSET S
    BY <1>2, <1>3, <1>5
  <2>2. A \subseteq f[k + 1] /\ f[k + 1] \in SUBSET S
    BY <1>5, <2>1
  <2>3. Least(f[k + 1])
    <3> SUFFICES ASSUME NEW Y \in SUBSET S, A \subseteq Y, IsClosedIn(G, Y) PROVE f[k + 1] \subseteq Y
      OBVIOUS
    <3>1. f[k] \subseteq Y
      BY <1>5
    <3> QED
      BY <2>1, <3>1 DEF IsClosedIn, SuccessorsIn
  <2>4. CASE IsClosedIn(G, f[k])
    <3>1. f[k + 1] = f[k]
      BY <2>1, <2>4 DEF IsClosedIn
    <3> QED
      BY <2>2, <2>3, <2>4, <3>1
  <2>5. CASE ~IsClosedIn(G, f[k])
    <3>1. PICK y \in SuccessorsIn(G, f[k]) : y \notin f[k]
      BY <2>5 DEF IsClosedIn
    <3>2. IsFiniteSet(f[k]) /\ IsFiniteSet(f[k + 1]) /\ f[k] \cup {y} \in SUBSET f[k + 1]
      BY <1>5, <2>1, <2>2, <3>1, FS_Subset
    <3>3. /\ Cardinality(f[k] \cup {y}) = Cardinality(f[k]) + 1
          /\ Cardinality(f[k] \cup {y}) <= Cardinality(f[k + 1])
          /\ Cardinality(f[k]) \in Nat /\ Cardinality(f[k + 1]) \in Nat
      BY <3>1, <3>2, FS_AddElement, FS_Subset, FS_CardinalityType
    <3>4. Cardinality(f[k]) >= k + 1
      BY <1>5, <2>5
    <3>5. Cardinality(f[k + 1]) >= (k + 1) + 1
      BY <3>3, <3>4
    <3> HIDE DEF Least
    <3> QED
      BY <2>2, <2>3, <3>5
  <2> QED
    BY <2>4, <2>5
<1>6. OK(N)
  <2>1. T \in SUBSET (0 .. N) /\ 0 \notin T
    BY <1>4
  <2>2. \A k \in 0 .. N - 1 : k \notin T => k + 1 \notin T
    <3> SUFFICES ASSUME NEW k \in 0 .. N - 1, k \notin T PROVE k + 1 \notin T
      OBVIOUS
    <3>1. k \in 0 .. N
      BY <1>0
    <3>2. OK(k)
      BY <3>1
    <3> HIDE DEF OK
    <3> QED
      BY <1>5, <3>2
  <2>3. T = {}
    <3> HIDE DEF T
    <3> QED
      BY <1>0, <2>1, <2>2, NoFirstException
  <2> HIDE DEF OK
  <2> QED
    BY <1>0, <2>3
<1>7. IsClosedIn(G, f[N])
  <2>1. f[N] \in SUBSET S /\ (Cardinality(f[N]) >= N + 1 \/ IsClosedIn(G, f[N]))
    BY <1>6
  <2>2. Cardinality(f[N]) <= N /\ Cardinality(f[N]) \in Nat
    BY <1>0, <2>1, FS_Subset, FS_CardinalityType DEF N
  <2> QED
    BY <1>0, <2>1, <2>2
<1> QED
  BY <1>6, <1>7 DEF N

=============================================================================
