---------------------------- MODULE JniMap_proofs ----------------------------
(***************************************************************************)
(* Proofs about JniMap: the saved map is exact for every directory, every  *)
(* order of its files and whatever their tokens are, and a block without a *)
(* name keeps it from being saved.                                         *)
(***************************************************************************)
EXTENDS JniMap, RoundsLemmas, SequenceTheorems

-----------------------------------------------------------------------------
(***************************************************************************)
(* FILTERS                                                                 *)
(***************************************************************************)

(***************************************************************************)
(* The function of a recursive definition exists, when each of its steps   *)
(* is given by a function on the set of its values.                        *)
(***************************************************************************)
IsRecursion(f, D, A, N, step) ==
    f \in [0 .. N -> D] /\ f[0] = A /\ \A k \in 1 .. N : f[k] = step[k][f[k - 1]]

LEMMA RecursionExists ==
    ASSUME NEW D, NEW A \in D, NEW N \in Nat, NEW step \in [1 .. N -> [D -> D]]
    PROVE  \E f : IsRecursion(f, D, A, N, step)
<1> DEFINE Has(n, f) == /\ f \in [0 .. n -> D] /\ f[0] = A
                        /\ \A k \in 1 .. n : f[k] = step[k][f[k - 1]]
           T == {n \in 0 .. N : ~\E f : Has(n, f)}
<1>1. 0 \notin T
  <2> DEFINE f == [k \in 0 .. 0 |-> A]
  <2>1. f \in [0 .. 0 -> D] /\ f[0] = A /\ 1 .. 0 = {}
    OBVIOUS
  <2> HIDE DEF f
  <2>2. Has(0, f)
    BY <2>1
  <2> QED
    BY <2>2
<1>2. ASSUME NEW n \in 0 .. N - 1, n \notin T
      PROVE  n + 1 \notin T
  <2>1. n \in 0 .. N /\ n + 1 \in 1 .. N /\ n \in 0 .. n /\ (n + 1) - 1 = n
    OBVIOUS
  <2>2. PICK f : Has(n, f)
    BY <1>2, <2>1
  <2>3. f[n] \in D /\ step[n + 1][f[n]] \in D
    BY <2>1, <2>2
  <2> DEFINE g == [k \in 0 .. n + 1 |-> IF k = n + 1 THEN step[n + 1][f[n]] ELSE f[k]]
  <2>4. /\ g \in [0 .. n + 1 -> D] /\ g[0] = A /\ g[n + 1] = step[n + 1][f[n]]
        /\ \A k \in 0 .. n : g[k] = f[k]
    BY <2>1, <2>2, <2>3
  <2> HIDE DEF g
  <2>5. \A k \in 1 .. n + 1 : g[k] = step[k][g[k - 1]]
    <3> TAKE k \in 1 .. n + 1
    <3>1. CASE k = n + 1
      BY <2>1, <2>4, <3>1
    <3>2. CASE k # n + 1
      <4>1. k \in 1 .. n /\ k \in 0 .. n /\ k - 1 \in 0 .. n
        BY <3>2
      <4> QED
        BY <2>2, <2>4, <4>1
    <3> QED
      BY <3>1, <3>2
  <2>6. Has(n + 1, g)
    BY <2>4, <2>5
  <2> QED
    BY <2>6
<1>3. T \in SUBSET (0 .. N)
  OBVIOUS
<1>4. T = {}
  <2> HIDE DEF T
  <2> QED
    BY <1>1, <1>2, <1>3, NoFirstException
<1>5. N \in 0 .. N
  OBVIOUS
<1>6. PICK f : Has(N, f)
  BY <1>4, <1>5
<1> QED
  BY <1>6 DEF IsRecursion

(* Ascending goes through T once, from the lowest to the highest. *)
IsAscent(p, T) ==
    /\ p \in Seq(T)
    /\ \A i, j \in 1 .. Len(p) : i < j => p[i] < p[j]
    /\ \A k \in T : \E i \in 1 .. Len(p) : p[i] = k

(* One more member, above the others. *)
LEMMA AscentGrows ==
    ASSUME NEW T \in SUBSET Nat, NEW p, IsAscent(p, T), NEW k \in Nat, \A t \in T : t < k
    PROVE  IsAscent(Append(p, k), T \cup {k})
<1> DEFINE q == Append(p, k)
<1>1. p \in Seq(T) /\ p \in Seq(T \cup {k}) /\ Len(p) \in Nat
  BY DEF IsAscent
<1>2. q \in Seq(T \cup {k}) /\ Len(q) = Len(p) + 1 /\ q[Len(p) + 1] = k
      /\ \A i \in 1 .. Len(p) : q[i] = p[i] /\ p[i] \in T
  BY <1>1
<1> HIDE DEF q
<1>3. \A i, j \in 1 .. Len(q) : i < j => q[i] < q[j]
  <2> TAKE i, j \in 1 .. Len(q)
  <2> HAVE i < j
  <2>1. i \in 1 .. Len(p)
    BY <1>1, <1>2
  <2>2. CASE j \in 1 .. Len(p)
    BY <1>2, <2>1, <2>2 DEF IsAscent
  <2>3. CASE j = Len(p) + 1
    BY <1>2, <2>1, <2>3
  <2> QED
    BY <1>1, <1>2, <2>2, <2>3
<1>4. \A t \in T \cup {k} : \E i \in 1 .. Len(q) : q[i] = t
  <2> TAKE t \in T \cup {k}
  <2>1. CASE t = k
    BY <1>1, <1>2, <2>1
  <2>2. CASE t \in T
    <3>1. PICK i \in 1 .. Len(p) : p[i] = t
      BY <2>2 DEF IsAscent
    <3> QED
      BY <1>1, <1>2, <3>1
  <2> QED
    BY <2>1, <2>2
<1> QED
  BY <1>2, <1>3, <1>4 DEF IsAscent, q

LEMMA AscendingFacts ==
    ASSUME NEW n \in Nat, NEW T \in SUBSET (1 .. n)
    PROVE  IsAscent(Ascending(n, T), T)
<1> DEFINE D == Seq(Nat)
           step == [k \in 1 .. n |-> [s \in D |-> IF k \in T THEN Append(s, k) ELSE s]]
           Def(f) == f = [k \in 0 .. n |-> IF k = 0 THEN <<>>
                                           ELSE IF k \in T THEN Append(f[k - 1], k)
                                           ELSE f[k - 1]]
<1>1. step \in [1 .. n -> [D -> D]] /\ <<>> \in D
  OBVIOUS
<1>2. \A k \in 1 .. n : \A s \in D : step[k][s] = IF k \in T THEN Append(s, k) ELSE s
  OBVIOUS
<1> HIDE DEF step
<1>3. \E f : Def(f)
  <2> HIDE DEF D
  <2>0. PICK f : IsRecursion(f, D, <<>>, n, step)
    BY <1>1, RecursionExists
  <2>1. f \in [0 .. n -> D] /\ f[0] = <<>> /\ \A k \in 1 .. n : f[k] = step[k][f[k - 1]]
    BY <2>0 DEF IsRecursion
  <2>2. \A k \in 0 .. n : f[k] = IF k = 0 THEN <<>> ELSE IF k \in T THEN Append(f[k - 1], k) ELSE f[k - 1]
    <3> TAKE k \in 0 .. n
    <3>1. CASE k = 0
      BY <2>1, <3>1
    <3>2. CASE k # 0
      <4>1. k \in 1 .. n /\ k - 1 \in 0 .. n
        BY <3>2
      <4>2. f[k - 1] \in D
        BY <2>1, <4>1
      <4> QED
        BY <1>2, <2>1, <3>2, <4>1, <4>2
    <3> QED
      BY <3>1, <3>2
  <2>3. f = [k \in 0 .. n |-> f[k]]
    BY <2>1
  <2>4. Def(f)
    BY <2>2, <2>3
  <2> QED
    BY <2>4
<1> DEFINE upTo[k \in 0 .. n] == IF k = 0 THEN <<>>
                                 ELSE IF k \in T THEN Append(upTo[k - 1], k)
                                 ELSE upTo[k - 1]
<1>4. Ascending(n, T) = upTo[n]
  BY DEF Ascending
<1>5. Def(upTo)
  BY <1>3
<1> HIDE DEF upTo
<1>6. \A k \in 0 .. n : upTo[k] = IF k = 0 THEN <<>> ELSE IF k \in T THEN Append(upTo[k - 1], k) ELSE upTo[k - 1]
  BY <1>5
<1> HIDE DEF Def
<1> DEFINE X == {k \in 0 .. n : ~IsAscent(upTo[k], T \cap 1 .. k)}
<1>7. 0 \notin X
  <2>1. upTo[0] = <<>> /\ T \cap 1 .. 0 = {}
    BY <1>6
  <2>2. IsAscent(<<>>, {})
    BY DEF IsAscent
  <2> QED
    BY <2>1, <2>2
<1>8. ASSUME NEW k \in 0 .. n - 1, k \notin X
      PROVE  k + 1 \notin X
  <2> SUFFICES IsAscent(upTo[k + 1], T \cap 1 .. k + 1)
    OBVIOUS
  <2>1. k \in 0 .. n /\ k + 1 \in 0 .. n /\ k + 1 # 0 /\ (k + 1) - 1 = k /\ k \in Nat /\ k + 1 \in Nat
    OBVIOUS
  <2>2. IsAscent(upTo[k], T \cap 1 .. k)
    BY <1>8, <2>1
  <2>3. upTo[k + 1] = IF k + 1 \in T THEN Append(upTo[k], k + 1) ELSE upTo[k]
    BY <1>6, <2>1
  <2>4. CASE k + 1 \in T
    <3>1. T \cap 1 .. k + 1 = (T \cap 1 .. k) \cup {k + 1} /\ T \cap 1 .. k \in SUBSET Nat
          /\ \A t \in T \cap 1 .. k : t < k + 1
      BY <2>1, <2>4
    <3> QED
      BY <2>1, <2>2, <2>3, <2>4, <3>1, AscentGrows
  <2>5. CASE k + 1 \notin T
    <3>1. T \cap 1 .. k + 1 = T \cap 1 .. k
      BY <2>1, <2>5
    <3> QED
      BY <2>2, <2>3, <2>5, <3>1
  <2> QED
    BY <2>4, <2>5
<1>9. X = {}
  <2>1. X \in SUBSET (0 .. n)
    OBVIOUS
  <2> HIDE DEF X
  <2> QED
    BY <1>7, <1>8, <2>1, NoFirstException
<1>10. n \in 0 .. n /\ T \cap 1 .. n = T
  <2>1. n \in 0 .. n
    OBVIOUS
  <2>2. T \cap 1 .. n = T
    OBVIOUS
  <2> QED
    BY <2>1, <2>2
<1> QED
  BY <1>4, <1>9, <1>10

(* f is what Filtered leaves of s, and p where it is found there. *)
IsFiltered(f, p, S, s, T) ==
    /\ IsAscent(p, T) /\ p \in Seq(1 .. Len(s))
    /\ f \in Seq(S) /\ Len(f) = Len(p)
    /\ \A i \in 1 .. Len(p) : p[i] \in T /\ f[i] = s[p[i]]

LEMMA FilteredFacts ==
    ASSUME NEW S, NEW s \in Seq(S), NEW T \in SUBSET (1 .. Len(s))
    PROVE  \E p : IsFiltered(Filtered(s, T), p, S, s, T)
<1> DEFINE p == Ascending(Len(s), T)
<1>1. IsAscent(p, T)
  BY AscendingFacts
<1>2. Filtered(s, T) = [i \in 1 .. Len(p) |-> s[p[i]]]
  BY DEF Filtered
<1> HIDE DEF p
<1>3. p \in Seq(T) /\ Len(p) \in Nat /\ \A i \in 1 .. Len(p) : p[i] \in T
  BY <1>1 DEF IsAscent
<1>4. p \in Seq(1 .. Len(s))
  <2>1. T \subseteq 1 .. Len(s)
    OBVIOUS
  <2>2. \A i \in 1 .. Len(p) : p[i] \in 1 .. Len(s)
    BY <1>3, <2>1
  <2>3. p = [i \in 1 .. Len(p) |-> p[i]]
    BY <1>3
  <2> QED
    BY <1>3, <2>2, <2>3
<1>5. \A i \in 1 .. Len(p) : s[p[i]] \in S
  <2>1. \A k \in 1 .. Len(s) : s[k] \in S
    OBVIOUS
  <2> QED
    BY <1>3, <2>1
<1>6. Filtered(s, T) \in Seq(S) /\ Len(Filtered(s, T)) = Len(p)
  BY <1>2, <1>3, <1>5
<1>7. IsFiltered(Filtered(s, T), p, S, s, T)
  BY <1>1, <1>2, <1>3, <1>4, <1>6 DEF IsFiltered
<1> QED
  BY <1>7

(***************************************************************************)
(* A set that is gone through from the lowest to the highest has as many   *)
(* members as there are steps, and each has its rank.                      *)
(***************************************************************************)
LEMMA RankFacts ==
    ASSUME NEW T \in SUBSET Nat, NEW p, IsAscent(p, T)
    PROVE  /\ IsFiniteSet(T) /\ Cardinality(T) = Len(p)
           /\ \A i \in 1 .. Len(p) : Rank(T, p[i]) = i - 1
<1> DEFINE m == Len(p)
<1>1. m \in Nat /\ \A i \in 1 .. m : p[i] \in T /\ p[i] \in Nat
  <2>1. p \in Seq(T)
    BY DEF IsAscent
  <2>2. m \in Nat /\ \A i \in 1 .. m : p[i] \in T
    BY <2>1
  <2> QED
    BY <2>2
<1>2. /\ \A i, j \in 1 .. m : i < j => p[i] < p[j]
      /\ \A k \in T : \E i \in 1 .. m : p[i] = k
  BY DEF IsAscent
<1> HIDE DEF m
<1>3. ASSUME NEW n \in 0 .. m
      PROVE  /\ IsFiniteSet({p[i] : i \in 1 .. n})
             /\ Cardinality({p[i] : i \in 1 .. n}) = n
  <2> DEFINE f == [i \in 1 .. n |-> p[i]]
             X == {p[i] : i \in 1 .. n}
  <2>1. f \in Surjection(1 .. n, X)
    BY DEF Surjection
  <2>2. \A i, j \in 1 .. n : i # j => p[i] # p[j]
    <3> SUFFICES ASSUME NEW i \in 1 .. n, NEW j \in 1 .. n, i < j PROVE p[i] # p[j]
      BY <1>1
    <3>1. i \in 1 .. m /\ j \in 1 .. m
      BY <1>1
    <3>2. p[i] < p[j] /\ p[i] \in Nat /\ p[j] \in Nat
      BY <1>1, <1>2, <3>1
    <3> QED
      BY <3>2
  <2>3. f \in Injection(1 .. n, X)
    BY <2>2 DEF Injection, IsInjective
  <2>4. IsFiniteSet(1 .. n) /\ Cardinality(1 .. n) = n
    BY <1>1, FS_Interval
  <2> HIDE DEF f, X
  <2>5. IsFiniteSet(X) /\ Cardinality(X) = Cardinality(1 .. n)
    BY <2>1, <2>3, <2>4, FS_Surjection
  <2> QED
    BY <2>4, <2>5 DEF X
<1>4. T = {p[i] : i \in 1 .. m}
  BY <1>1, <1>2
<1>5. m \in 0 .. m
  BY <1>1
<1>6. ASSUME NEW i \in 1 .. m
      PROVE  Rank(T, p[i]) = i - 1
  <2>1. i - 1 \in 0 .. m
    BY <1>1
  <2>2. {j \in T : j < p[i]} = {p[j] : j \in 1 .. i - 1}
    <3>1. ASSUME NEW j \in 1 .. i - 1
          PROVE  p[j] \in T /\ p[j] < p[i]
      <4>1. j \in 1 .. m /\ j < i
        BY <1>1
      <4> QED
        BY <1>1, <1>2, <4>1
    <3>2. ASSUME NEW k \in T, k < p[i]
          PROVE  \E j \in 1 .. i - 1 : p[j] = k
      <4>1. PICK j \in 1 .. m : p[j] = k
        BY <1>2
      <4>2. ~(i < j) /\ i # j
        BY <1>1, <1>2, <3>2, <4>1
      <4>3. j \in 1 .. i - 1
        BY <1>1, <4>2
      <4> QED
        BY <4>1, <4>3
    <3> QED
      BY <3>1, <3>2
  <2> QED
    BY <1>3, <2>1, <2>2 DEF Rank
<1> QED
  BY <1>3, <1>4, <1>5, <1>6 DEF m

-----------------------------------------------------------------------------
(***************************************************************************)
(* THE ORDER OF THE FILES                                                  *)
(*                                                                         *)
(* As in JniMap, for a given directory and list.                           *)
(***************************************************************************)
ExtRankIn(tr, f) == CHOOSE i \in DOMAIN CPP_EXT : CPP_EXT[i] = tr[f].ext

PlaceIn(list, f) == CHOOSE i \in DOMAIN list : list[i] = f

LaterIn(tr, list, f, g) ==
    \/ ExtRankIn(tr, f) > ExtRankIn(tr, g)
    \/ ExtRankIn(tr, f) = ExtRankIn(tr, g) /\ PlaceIn(list, f) > PlaceIn(list, g)

CppIn(tr) == {f \in DOMAIN tr : \E i \in DOMAIN CPP_EXT : CPP_EXT[i] = tr[f].ext}

(* The list has every C and C++ file, and no file twice. *)
IsScan(tr, list) ==
    /\ list \in Seq(DOMAIN tr)
    /\ \A i, j \in DOMAIN list : list[i] = list[j] => i = j
    /\ \A f \in CppIn(tr) : \E i \in DOMAIN list : list[i] = f

(* What os.walk gives is such a list: it is as long as there are files. *)
LEMMA OrdersAreScans ==
    ASSUME tree \in Seq(SourceFile), NEW list \in Orders(TargetFiles)
    PROVE  IsScan(tree, list)
<1> DEFINE S == TargetFiles
           N == Cardinality(S)
<1>1. S \in SUBSET DOMAIN tree /\ DOMAIN tree = 1 .. Len(tree) /\ Len(tree) \in Nat
  BY DEF TargetFiles
<1>2. IsFiniteSet(S) /\ N \in Nat
  <2>1. IsFiniteSet(1 .. Len(tree))
    BY <1>1, FS_Interval
  <2> HIDE DEF S
  <2> QED
    BY <1>1, <2>1, FS_Subset, FS_CardinalityType
<1>3. list \in [1 .. N -> S] /\ \A i, j \in 1 .. N : list[i] = list[j] => i = j
  BY DEF Orders
<1> HIDE DEF S, N
<1>4. list \in Injection(1 .. N, S)
  BY <1>3 DEF Injection, IsInjective
<1>5. Cardinality(1 .. N) = Cardinality(S)
  BY <1>2, FS_Interval DEF N
<1>6. list \in Surjection(1 .. N, S)
  BY <1>2, <1>4, <1>5, FS_Injection
<1>7. \A f \in S : \E i \in 1 .. N : list[i] = f
  BY <1>6 DEF Surjection
<1>8. list \in Seq(DOMAIN tree)
  <2>1. \A i \in 1 .. N : list[i] \in DOMAIN tree
    BY <1>1, <1>3
  <2>2. list = [i \in 1 .. N |-> list[i]]
    BY <1>3
  <2> QED
    BY <1>2, <2>1, <2>2
<1>9. \A f \in CppIn(tree) : f \in S
  BY DEF CppIn, S, TargetFiles, CPP_EXT, TARGET_EXT
<1> QED
  BY <1>3, <1>7, <1>8, <1>9 DEF IsScan

(* The ranks and places are numbers, and tell the files apart. *)
LEMMA OrderFacts ==
    ASSUME NEW tr, NEW list, IsScan(tr, list)
    PROVE  /\ \A f \in CppIn(tr) : /\ ExtRankIn(tr, f) \in 1 .. 4
                                   /\ CPP_EXT[ExtRankIn(tr, f)] = tr[f].ext
                                   /\ PlaceIn(list, f) \in DOMAIN list /\ PlaceIn(list, f) \in Nat
                                   /\ list[PlaceIn(list, f)] = f
           /\ \A i \in DOMAIN list : PlaceIn(list, list[i]) = i
<1>1. DOMAIN CPP_EXT = 1 .. 4
  BY DEF CPP_EXT
<1>2. ASSUME NEW f \in CppIn(tr)
      PROVE  ExtRankIn(tr, f) \in 1 .. 4 /\ CPP_EXT[ExtRankIn(tr, f)] = tr[f].ext
  <2>1. \E i \in DOMAIN CPP_EXT : CPP_EXT[i] = tr[f].ext
    BY DEF CppIn
  <2> QED
    BY <1>1, <2>1 DEF ExtRankIn
<1>3. DOMAIN list \subseteq Nat
  BY DEF IsScan
<1>4. ASSUME NEW f \in CppIn(tr)
      PROVE  PlaceIn(list, f) \in DOMAIN list /\ list[PlaceIn(list, f)] = f
  <2>1. \E i \in DOMAIN list : list[i] = f
    BY DEF IsScan
  <2> QED
    BY <2>1 DEF PlaceIn
<1>5. ASSUME NEW i \in DOMAIN list
      PROVE  PlaceIn(list, list[i]) = i
  <2>1. PlaceIn(list, list[i]) \in DOMAIN list /\ list[PlaceIn(list, list[i])] = list[i]
    BY DEF PlaceIn
  <2> QED
    BY <2>1 DEF IsScan
<1> QED
  BY <1>2, <1>3, <1>4, <1>5

(* No file is later than itself, nor two than each other. *)
LEMMA LaterIsStrict ==
    ASSUME NEW tr, NEW list, IsScan(tr, list), NEW f \in CppIn(tr), NEW g \in CppIn(tr),
           LaterIn(tr, list, f, g)
    PROVE  ~LaterIn(tr, list, g, f) /\ f # g
<1>1. /\ ExtRankIn(tr, f) \in 1 .. 4 /\ ExtRankIn(tr, g) \in 1 .. 4
      /\ PlaceIn(list, f) \in Nat /\ PlaceIn(list, g) \in Nat
  BY OrderFacts
<1> QED
  BY <1>1 DEF LaterIn

(***************************************************************************)
(* The files of the extensions a to b, each once, in the order.            *)
(***************************************************************************)
IsPart(tr, list, s, a, b) ==
    /\ s \in Seq(CppIn(tr))
    /\ \A i, j \in 1 .. Len(s) : i < j => LaterIn(tr, list, s[j], s[i])
    /\ \A f \in CppIn(tr) : (\E i \in 1 .. Len(s) : s[i] = f) <=> ExtRankIn(tr, f) \in a .. b

LEMMA PartsJoin ==
    ASSUME NEW tr, NEW list, IsScan(tr, list), NEW a \in Nat, NEW b \in Nat, NEW c \in Nat, a <= b, b < c,
           NEW s, IsPart(tr, list, s, a, b), NEW t, IsPart(tr, list, t, b + 1, c)
    PROVE  IsPart(tr, list, s \o t, a, c)
<1> DEFINE u == s \o t
<1>1. /\ s \in Seq(CppIn(tr)) /\ t \in Seq(CppIn(tr)) /\ Len(s) \in Nat /\ Len(t) \in Nat
      /\ \A i \in 1 .. Len(s) : s[i] \in CppIn(tr)
      /\ \A i \in 1 .. Len(t) : t[i] \in CppIn(tr)
  BY DEF IsPart
<1>2. /\ u \in Seq(CppIn(tr)) /\ Len(u) = Len(s) + Len(t)
      /\ \A i \in 1 .. Len(s) : u[i] = s[i]
      /\ \A i \in 1 .. Len(u) : ~(i <= Len(s)) => i - Len(s) \in 1 .. Len(t) /\ u[i] = t[i - Len(s)]
      /\ \A i \in 1 .. Len(t) : i + Len(s) \in 1 .. Len(u) /\ u[i + Len(s)] = t[i]
  BY <1>1
<1> HIDE DEF u
<1>3. \A f \in CppIn(tr) : ExtRankIn(tr, f) \in 1 .. 4
  BY OrderFacts
<1>4. \A i, j \in 1 .. Len(u) : i < j => LaterIn(tr, list, u[j], u[i])
  <2> TAKE i, j \in 1 .. Len(u)
  <2> HAVE i < j
  <2>1. CASE j <= Len(s)
    <3>1. i \in 1 .. Len(s) /\ j \in 1 .. Len(s)
      BY <1>1, <2>1
    <3> QED
      BY <1>2, <3>1 DEF IsPart
  <2>2. CASE ~(j <= Len(s)) /\ i <= Len(s)
    <3>1. i \in 1 .. Len(s) /\ j - Len(s) \in 1 .. Len(t) /\ u[i] = s[i] /\ u[j] = t[j - Len(s)]
      BY <1>1, <1>2, <2>2
    <3>2. u[i] \in CppIn(tr) /\ u[j] \in CppIn(tr)
      BY <1>1, <3>1
    <3>3. ExtRankIn(tr, u[i]) \in a .. b /\ ExtRankIn(tr, u[j]) \in b + 1 .. c
      BY <3>1, <3>2 DEF IsPart
    <3> QED
      BY <3>3 DEF LaterIn
  <2>3. CASE ~(i <= Len(s))
    <3>1. /\ i - Len(s) \in 1 .. Len(t) /\ j - Len(s) \in 1 .. Len(t) /\ i - Len(s) < j - Len(s)
          /\ u[i] = t[i - Len(s)] /\ u[j] = t[j - Len(s)]
      BY <1>1, <1>2, <2>3
    <3> QED
      BY <3>1 DEF IsPart
  <2> QED
    BY <1>1, <2>1, <2>2, <2>3
<1>5. ASSUME NEW f \in CppIn(tr)
      PROVE  (\E i \in 1 .. Len(u) : u[i] = f) <=> ExtRankIn(tr, f) \in a .. c
  <2>1. (\E i \in 1 .. Len(u) : u[i] = f)
            <=> (\E i \in 1 .. Len(s) : s[i] = f) \/ (\E i \in 1 .. Len(t) : t[i] = f)
    <3>1. ASSUME NEW i \in 1 .. Len(u), u[i] = f
          PROVE  (\E k \in 1 .. Len(s) : s[k] = f) \/ (\E k \in 1 .. Len(t) : t[k] = f)
      <4>1. i <= Len(s) => i \in 1 .. Len(s)
        BY <1>1
      <4> QED
        BY <1>2, <3>1, <4>1
    <3>2. ASSUME NEW i \in 1 .. Len(s), s[i] = f
          PROVE  \E k \in 1 .. Len(u) : u[k] = f
      <4>1. i \in 1 .. Len(u)
        BY <1>1, <1>2
      <4> QED
        BY <1>2, <3>2, <4>1
    <3>3. ASSUME NEW i \in 1 .. Len(t), t[i] = f
          PROVE  \E k \in 1 .. Len(u) : u[k] = f
      BY <1>2, <3>3
    <3> QED
      BY <3>1, <3>2, <3>3
  <2>2. ExtRankIn(tr, f) \in a .. c <=> ExtRankIn(tr, f) \in a .. b \/ ExtRankIn(tr, f) \in b + 1 .. c
    BY <1>3
  <2> QED
    BY <2>1, <2>2 DEF IsPart
<1> QED
  BY <1>2, <1>4, <1>5 DEF IsPart, u

(* get_files(ext) *)
LEMMA FilesOfOneExtension ==
    ASSUME NEW list, IsScan(tree, list), NEW r \in 1 .. 4
    PROVE  IsPart(tree, list, GetFiles(list, CPP_EXT[r]), r, r)
<1> DEFINE T == {i \in DOMAIN list : tree[list[i]].ext = CPP_EXT[r]}
           s == GetFiles(list, CPP_EXT[r])
<1>1. list \in Seq(DOMAIN tree) /\ DOMAIN list = 1 .. Len(list) /\ T \in SUBSET (1 .. Len(list))
      /\ Len(list) \in Nat
  BY DEF IsScan
<1>2. s = Filtered(list, T)
  BY DEF GetFiles
<1>3. PICK p : /\ IsAscent(p, T) /\ p \in Seq(1 .. Len(list))
               /\ s \in Seq(DOMAIN tree) /\ Len(s) = Len(p)
               /\ \A i \in 1 .. Len(p) : p[i] \in T /\ s[i] = list[p[i]]
  <2> HIDE DEF T, s
  <2>1. PICK p : IsFiltered(s, p, DOMAIN tree, list, T)
    BY <1>1, <1>2, FilteredFacts
  <2> QED
    BY <2>1 DEF IsFiltered
<1> HIDE DEF s
<1>4. DOMAIN CPP_EXT = 1 .. 4 /\ \A i, j \in 1 .. 4 : CPP_EXT[i] = CPP_EXT[j] => i = j
  BY DEF CPP_EXT
<1>5. \A i \in T : list[i] \in CppIn(tree) /\ ExtRankIn(tree, list[i]) = r /\ PlaceIn(list, list[i]) = i
  <2> TAKE i \in T
  <2>1. i \in DOMAIN list /\ list[i] \in DOMAIN tree /\ tree[list[i]].ext = CPP_EXT[r]
    BY <1>1
  <2>2. list[i] \in CppIn(tree)
    BY <1>4, <2>1 DEF CppIn
  <2> QED
    BY <1>4, <2>1, <2>2, OrderFacts
<1>6. s \in Seq(CppIn(tree))
  <2>1. \A i \in 1 .. Len(s) : s[i] \in CppIn(tree)
    BY <1>3, <1>5
  <2>2. s = [i \in 1 .. Len(s) |-> s[i]] /\ Len(s) \in Nat
    BY <1>3
  <2> QED
    BY <2>1, <2>2
<1>7. ASSUME NEW i \in 1 .. Len(s), NEW j \in 1 .. Len(s), i < j
      PROVE  LaterIn(tree, list, s[j], s[i])
  <2>1. p[i] < p[j]
    BY <1>3, <1>7 DEF IsAscent
  <2> QED
    BY <1>1, <1>3, <1>5, <2>1 DEF LaterIn
<1>8. ASSUME NEW f \in CppIn(tree)
      PROVE  (\E i \in 1 .. Len(s) : s[i] = f) <=> ExtRankIn(tree, f) \in r .. r
  <2>1. ASSUME NEW i \in 1 .. Len(s), s[i] = f PROVE ExtRankIn(tree, f) = r
    BY <1>3, <1>5, <2>1
  <2>2. ASSUME ExtRankIn(tree, f) = r PROVE \E i \in 1 .. Len(s) : s[i] = f
    <3>1. PICK k \in DOMAIN list : list[k] = f
      BY DEF IsScan
    <3>2. k \in T
      BY <2>2, <3>1, OrderFacts
    <3>3. PICK i \in 1 .. Len(p) : p[i] = k
      BY <1>3, <3>2 DEF IsAscent
    <3> QED
      BY <1>3, <3>1, <3>3
  <2> QED
    BY <2>1, <2>2
<1> QED
  BY <1>6, <1>7, <1>8 DEF IsPart, s

(* get_cpp_files *)
LEMMA FilesInOrder ==
    ASSUME NEW list, IsScan(tree, list)
    PROVE  IsPart(tree, list, GetCppFiles(list), 1, 4)
<1> DEFINE s(r) == GetFiles(list, CPP_EXT[r])
<1>1. \A r \in 1 .. 4 : IsPart(tree, list, s(r), r, r)
  BY FilesOfOneExtension
<1>2. GetCppFiles(list) = ((s(1) \o s(2)) \o s(3)) \o s(4)
  BY DEF GetCppFiles
<1> HIDE DEF s
<1>3. IsPart(tree, list, s(1), 1, 1) /\ IsPart(tree, list, s(2), 1 + 1, 2)
      /\ IsPart(tree, list, s(3), 2 + 1, 3) /\ IsPart(tree, list, s(4), 3 + 1, 4)
  BY <1>1
<1>4. IsPart(tree, list, s(1) \o s(2), 1, 2)
  BY <1>3, PartsJoin
<1>5. IsPart(tree, list, (s(1) \o s(2)) \o s(3), 1, 3)
  BY <1>3, <1>4, PartsJoin
<1>6. IsPart(tree, list, ((s(1) \o s(2)) \o s(3)) \o s(4), 1, 4)
  BY <1>3, <1>5, PartsJoin
<1> QED
  BY <1>2, <1>6

-----------------------------------------------------------------------------
(***************************************************************************)
(* BLOCKS AND THEIR ITEMS                                                  *)
(***************************************************************************)
(* The bounds of a block are positions. *)
LEMMA BlockFacts ==
    ASSUME NEW T \in Seq(Token), NEW b \in BlocksIn(T)
    PROVE  /\ b[1] \in 1 .. Len(T) /\ b[2] \in 1 .. Len(T) /\ b[1] < b[2] /\ b = <<b[1], b[2]>>
           /\ b[1] \in Nat /\ b[2] \in Nat /\ Len(T) \in Nat
           /\ ItemsIn(T, b) \in SUBSET Nat
           /\ \A k \in ItemsIn(T, b) : k \in 1 .. Len(T) /\ b[1] < k /\ k < b[2] /\ IsItem(T[k])
<1>1. /\ b[1] \in 1 .. Len(T) /\ b[2] \in 1 .. Len(T) /\ b[1] < b[2] /\ b = <<b[1], b[2]>>
      /\ T[b[1]].spelling = JNINativeMethod /\ Len(T) \in Nat
  <2>1. Len(T) \in Nat /\ DOMAIN T = 1 .. Len(T)
    OBVIOUS
  <2>2. b \in (DOMAIN T) \X (DOMAIN T) /\ b[1] < b[2] /\ T[b[1]].spelling = JNINativeMethod
    BY DEF BlocksIn
  <2>3. b \in (1 .. Len(T)) \X (1 .. Len(T))
    BY <2>1, <2>2
  <2> QED
    BY <2>1, <2>2, <2>3
<1>2. \A k \in ItemsIn(T, b) : k \in b[1] .. b[2] - 1 /\ IsItem(T[k])
  BY DEF ItemsIn
<1>3. ~IsItem(T[b[1]])
  BY <1>1 DEF IsItem
<1>4. ASSUME NEW k \in ItemsIn(T, b)
      PROVE  k \in 1 .. Len(T) /\ b[1] < k /\ k < b[2] /\ IsItem(T[k]) /\ k \in Nat
  <2>1. k \in b[1] .. b[2] - 1 /\ k # b[1] /\ IsItem(T[k])
    BY <1>2, <1>3
  <2> QED
    BY <1>1, <2>1
<1> QED
  BY <1>1, <1>4

(* Of two blocks one is before the other. *)
LEMMA BlocksApart ==
    ASSUME NEW T \in Seq(Token), NEW a \in BlocksIn(T), NEW b \in BlocksIn(T)
    PROVE  a = b \/ a[2] < b[1] \/ b[2] < a[1]
<1>1. /\ a[1] \in Nat /\ a[2] \in Nat /\ a[1] < a[2] /\ a = <<a[1], a[2]>>
      /\ b[1] \in Nat /\ b[2] \in Nat /\ b[1] < b[2] /\ b = <<b[1], b[2]>>
  BY BlockFacts
<1>2. /\ T[a[1]].spelling = JNINativeMethod /\ T[a[2]].spelling = Semicolon
      /\ T[b[1]].spelling = JNINativeMethod /\ T[b[2]].spelling = Semicolon
      /\ \A k \in a[1] + 1 .. a[2] - 1 : ~IsBound(T[k])
      /\ \A k \in b[1] + 1 .. b[2] - 1 : ~IsBound(T[k])
  BY DEF BlocksIn
<1>3. IsBound(T[a[1]]) /\ IsBound(T[a[2]]) /\ IsBound(T[b[1]]) /\ IsBound(T[b[2]])
  BY <1>2 DEF IsBound
<1>4. a[1] # b[2] /\ a[2] # b[1]
  BY <1>2, DistinctAssumption
<1>5. CASE a[1] = b[1]
  <2>1. a[2] \notin b[1] + 1 .. b[2] - 1 /\ b[2] \notin a[1] + 1 .. a[2] - 1
    BY <1>2, <1>3
  <2>2. a[2] = b[2]
    BY <1>1, <1>5, <2>1
  <2> QED
    BY <1>1, <1>5, <2>2
<1>6. CASE a[1] # b[1]
  <2>1. a[1] \notin b[1] + 1 .. b[2] - 1 /\ b[1] \notin a[1] + 1 .. a[2] - 1
    BY <1>2, <1>3
  <2> QED
    BY <1>1, <1>4, <1>6, <2>1
<1> QED
  BY <1>5, <1>6

(* blk is what the code has collected from position i up to before n. *)
IsCollected(blk, T, i, n) ==
    /\ blk \in Seq(Token) /\ Len(blk) = n - i
    /\ \A k \in 1 .. n - i : blk[k] = T[i + k - 1]

(***************************************************************************)
(* The items that are left of a block are those in it, in their order.     *)
(***************************************************************************)
LEMMA ItemsFacts ==
    ASSUME NEW T \in Seq(Token), NEW b \in BlocksIn(T), NEW blk, IsCollected(blk, T, b[1], b[2])
    PROVE  \E e : /\ IsAscent(e, ItemsIn(T, b)) /\ Items(blk) \in Seq(Token)
                  /\ Len(e) = Len(Items(blk))
                  /\ \A r \in 1 .. Len(e) : Items(blk)[r] = T[e[r]]
<1> DEFINE X == {k \in DOMAIN blk : IsItem(blk[k])}
           its == Items(blk)
           I == ItemsIn(T, b)
           i == b[1]
           n == b[2] - b[1]
<1>1. /\ i \in Nat /\ n \in Nat /\ b[2] = i + n /\ i # 0
      /\ blk \in Seq(Token) /\ Len(blk) = n /\ DOMAIN blk = 1 .. n
      /\ \A k \in 1 .. n : blk[k] = T[i + k - 1]
  <2>1. b[1] \in 1 .. Len(T) /\ b[2] \in Nat /\ b[1] < b[2] /\ b[1] \in Nat
    BY BlockFacts
  <2>2. i \in Nat /\ n \in Nat /\ b[2] = i + n /\ i # 0
    BY <2>1
  <2>3. /\ blk \in Seq(Token) /\ Len(blk) = n
        /\ \A k \in 1 .. n : blk[k] = T[i + k - 1]
    BY DEF IsCollected
  <2> QED
    BY <2>2, <2>3
<1>2. its = Filtered(blk, X) /\ X \in SUBSET (1 .. Len(blk))
  BY <1>1 DEF Items
<1>3. PICK p : /\ IsAscent(p, X) /\ p \in Seq(1 .. Len(blk))
               /\ its \in Seq(Token) /\ Len(its) = Len(p)
               /\ \A r \in 1 .. Len(p) : p[r] \in X /\ its[r] = blk[p[r]]
  <2>1. blk \in Seq(Token)
    BY <1>1
  <2> HIDE DEF X, its
  <2>2. PICK p : IsFiltered(its, p, Token, blk, X)
    BY <1>2, <2>1, FilteredFacts
  <2> QED
    BY <2>2 DEF IsFiltered
<1>4. I = {k \in i .. i + n - 1 : IsItem(T[k])}
  BY <1>1 DEF ItemsIn
<1>5. \A k \in X : k \in 1 .. n /\ IsItem(T[i + k - 1]) /\ i + k - 1 \in I
  <2> TAKE k \in X
  <2>1. k \in 1 .. n /\ IsItem(blk[k])
    BY <1>1
  <2>2. i + k - 1 \in i .. i + n - 1
    BY <1>1, <2>1
  <2> QED
    BY <1>1, <1>4, <2>1, <2>2
<1>6. \A k \in I : k - i + 1 \in X /\ i + (k - i + 1) - 1 = k
  <2> TAKE k \in I
  <2>1. k \in i .. i + n - 1 /\ IsItem(T[k])
    BY <1>4
  <2>2. k - i + 1 \in 1 .. n /\ i + (k - i + 1) - 1 = k
    BY <1>1, <2>1
  <2> QED
    BY <1>1, <2>1, <2>2
<1> HIDE DEF X, its, I, i, n
<1> DEFINE m == Len(p)
           e == [r \in 1 .. m |-> i + p[r] - 1]
<1>7. m \in Nat /\ \A r \in 1 .. m : p[r] \in X /\ p[r] \in Nat
  <2>1. m \in Nat
    BY <1>3
  <2> QED
    BY <1>3, <1>5, <2>1
<1>8. e \in Seq(I) /\ Len(e) = m /\ \A r \in 1 .. m : e[r] = i + p[r] - 1
  <2>1. \A r \in 1 .. m : i + p[r] - 1 \in I
    BY <1>5, <1>7
  <2> QED
    BY <1>7, <2>1
<1> HIDE DEF m, e
<1>9. \A r, s \in 1 .. m : r < s => e[r] < e[s]
  <2> TAKE r, s \in 1 .. m
  <2> HAVE r < s
  <2>1. p[r] < p[s] /\ p[r] \in Nat /\ p[s] \in Nat /\ i \in Nat
    BY <1>1, <1>3, <1>7 DEF IsAscent, m
  <2> QED
    BY <1>8, <2>1
<1>10. ASSUME NEW k \in I
       PROVE  \E r \in 1 .. m : e[r] = k
  <2>1. PICK r \in 1 .. m : p[r] = k - i + 1
    BY <1>3, <1>6 DEF IsAscent, m
  <2> QED
    BY <1>6, <1>8, <2>1
<1>11. IsAscent(e, I)
  BY <1>8, <1>9, <1>10 DEF IsAscent
<1>12. \A r \in 1 .. m : its[r] = T[e[r]]
  BY <1>1, <1>3, <1>5, <1>7, <1>8 DEF m
<1> QED
  BY <1>3, <1>8, <1>11, <1>12 DEF m, I, its

(* The Java name of the r-th item is two items before it. *)
LEMMA JavaFacts ==
    ASSUME NEW T \in Seq(Token), NEW b \in BlocksIn(T), NEW e, IsAscent(e, ItemsIn(T, b)),
           NEW r \in 3 .. Len(e)
    PROVE  JavaIn(T, e[r]) = T[e[r - 2]].spelling
<1> DEFINE I == ItemsIn(T, b)
           k == e[r]
<1>1. I \in SUBSET Nat
  BY BlockFacts
<1>2. /\ Len(e) \in Nat /\ \A i \in 1 .. Len(e) : Rank(I, e[i]) = i - 1 /\ e[i] \in I
  <2>1. e \in Seq(I)
    BY DEF IsAscent
  <2>2. Len(e) \in Nat /\ \A i \in 1 .. Len(e) : e[i] \in I
    BY <2>1
  <2> HIDE DEF I
  <2> QED
    BY <1>1, <2>2, RankFacts DEF I
<1>3. r \in 1 .. Len(e) /\ r - 2 \in 1 .. Len(e)
  BY <1>2
<1>4. k \in I /\ k \in Nat /\ b[1] < k /\ k < b[2]
  BY <1>1, <1>2, <1>3, BlockFacts
<1>5. ASSUME NEW x \in BlocksIn(T), x[1] < k, k < x[2]
      PROVE  x = b
  <2>1. x[1] \in Nat /\ x[2] \in Nat /\ b[1] \in Nat /\ b[2] \in Nat
    BY BlockFacts
  <2>2. x = b \/ x[2] < b[1] \/ b[2] < x[1]
    BY BlocksApart
  <2> QED
    BY <1>4, <1>5, <2>1, <2>2
<1>6. b = CHOOSE x \in BlocksIn(T) : x[1] < k /\ k < x[2]
  <2> HIDE DEF k
  <2> QED
    BY <1>4, <1>5
<1>7. ASSUME NEW j \in I, Rank(I, j) + 2 = Rank(I, k)
      PROVE  j = e[r - 2]
  <2>1. PICK i \in 1 .. Len(e) : e[i] = j
    BY DEF IsAscent
  <2>2. (i - 1) + 2 = r - 1
    BY <1>2, <1>3, <1>7, <2>1
  <2>3. i = r - 2
    BY <1>2, <1>3, <2>2
  <2> QED
    BY <2>1, <2>3
<1>8. e[r - 2] \in I /\ Rank(I, e[r - 2]) + 2 = Rank(I, k)
  BY <1>2, <1>3
<1>9. e[r - 2] = CHOOSE j \in I : Rank(I, j) + 2 = Rank(I, k)
  <2> HIDE DEF I, k
  <2> QED
    BY <1>7, <1>8
<1>10. JavaIn(T, k) = T[CHOOSE j \in I : Rank(I, j) + 2 = Rank(I, k)].spelling
  BY <1>6 DEF JavaIn
<1> QED
  BY <1>9, <1>10

-----------------------------------------------------------------------------
(***************************************************************************)
(* MAPS                                                                    *)
(*                                                                         *)
(* An entry is a pair of a file and the position of a C++ name in it.      *)
(***************************************************************************)
SpellingAt(tr, e) == tr[e[1]].tokens[e[2]].spelling

ValueAt(tr, e) == [cpp |-> e[1], java |-> JavaIn(tr[e[1]].tokens, e[2])]

NotAfter(tr, list, d, e) == (d[1] = e[1] /\ d[2] <= e[2]) \/ LaterIn(tr, list, e[1], d[1])

(* The entry of E that m has for c. *)
Decides(tr, list, m, E, c, e) ==
    /\ SpellingAt(tr, e) = c /\ m[c] = ValueAt(tr, e)
    /\ \A d \in E : SpellingAt(tr, d) = c => NotAfter(tr, list, d, e)

(* A map of the names of E, which leads each to the last entry for it. *)
MapIs(tr, list, m, E) ==
    /\ m = [c \in DOMAIN m |-> m[c]]
    /\ \A c : c \in DOMAIN m <=> \E e \in E : SpellingAt(tr, e) = c
    /\ \A c \in DOMAIN m : \E e \in E : Decides(tr, list, m, E, c, e)

LEMMA NothingIsMapped == ASSUME NEW tr, NEW list PROVE MapIs(tr, list, <<>>, {})
<1>1. DOMAIN <<>> = {} /\ <<>> = [c \in {} |-> <<>>[c]]
  OBVIOUS
<1> QED
  BY <1>1 DEF MapIs

(* dict.update with later entries. *)
LEMMA MapUpdated ==
    ASSUME NEW tr, NEW list, NEW m, NEW n, NEW E, NEW F,
           MapIs(tr, list, m, E), MapIs(tr, list, n, F),
           \A d \in E : \A e \in F : NotAfter(tr, list, d, e)
    PROVE  MapIs(tr, list, Updated(m, n), E \cup F)
<1> DEFINE u == Updated(m, n)
<1>1. /\ DOMAIN u = DOMAIN m \cup DOMAIN n /\ u = [c \in DOMAIN u |-> u[c]]
      /\ \A c \in DOMAIN u : u[c] = IF c \in DOMAIN n THEN n[c] ELSE m[c]
  BY DEF Updated
<1> HIDE DEF u
<1>2. \A c : c \in DOMAIN u <=> \E e \in E \cup F : SpellingAt(tr, e) = c
  BY <1>1 DEF MapIs
<1>3. ASSUME NEW c \in DOMAIN u
      PROVE  \E e \in E \cup F : Decides(tr, list, u, E \cup F, c, e)
  <2>1. CASE c \in DOMAIN n
    <3>1. PICK e \in F : Decides(tr, list, n, F, c, e)
      BY <2>1 DEF MapIs
    <3>2. u[c] = n[c]
      BY <1>1, <2>1
    <3>3. Decides(tr, list, u, E \cup F, c, e)
      BY <3>1, <3>2 DEF Decides
    <3> QED
      BY <3>3
  <2>2. CASE c \notin DOMAIN n
    <3>1. c \in DOMAIN m /\ u[c] = m[c]
      BY <1>1, <2>2
    <3>2. PICK e \in E : Decides(tr, list, m, E, c, e)
      BY <3>1 DEF MapIs
    <3>3. \A d \in F : SpellingAt(tr, d) # c
      BY <2>2 DEF MapIs
    <3>4. Decides(tr, list, u, E \cup F, c, e)
      BY <3>1, <3>2, <3>3 DEF Decides
    <3> QED
      BY <3>4
  <2> QED
    BY <2>1, <2>2
<1> QED
  BY <1>1, <1>2, <1>3 DEF MapIs, u

(* All maps from spellings to a file and a spelling. *)
MapsOf(tr) == UNION {[S -> [cpp : DOMAIN tr, java : Spelling]] : S \in SUBSET Spelling}

LEMMA MapsOfFacts ==
    ASSUME NEW tr, NEW m
    PROVE  m \in MapsOf(tr) <=>
              /\ m = [c \in DOMAIN m |-> m[c]] /\ DOMAIN m \subseteq Spelling
              /\ \A c \in DOMAIN m : m[c] \in [cpp : DOMAIN tr, java : Spelling]
<1> DEFINE V == [cpp : DOMAIN tr, java : Spelling]
<1> HIDE DEF V
<1>1. ASSUME m \in UNION {[S -> V] : S \in SUBSET Spelling}
      PROVE  /\ m = [c \in DOMAIN m |-> m[c]] /\ DOMAIN m \subseteq Spelling
             /\ \A c \in DOMAIN m : m[c] \in V
  BY <1>1
<1>2. ASSUME m = [c \in DOMAIN m |-> m[c]], DOMAIN m \subseteq Spelling,
             \A c \in DOMAIN m : m[c] \in V
      PROVE  m \in UNION {[S -> V] : S \in SUBSET Spelling}
  <2>1. m \in [DOMAIN m -> V]
    BY <1>2
  <2> QED
    BY <1>2, <2>1
<1> QED
  BY <1>1, <1>2 DEF MapsOf, V

LEMMA UpdatedMaps ==
    ASSUME NEW tr, NEW m \in MapsOf(tr), NEW n \in MapsOf(tr)
    PROVE  Updated(m, n) \in MapsOf(tr)
<1> DEFINE u == Updated(m, n)
<1>1. /\ DOMAIN u = DOMAIN m \cup DOMAIN n /\ u = [c \in DOMAIN u |-> u[c]]
      /\ \A c \in DOMAIN u : u[c] = IF c \in DOMAIN n THEN n[c] ELSE m[c]
  BY DEF Updated
<1> HIDE DEF u
<1>2. DOMAIN m \subseteq Spelling /\ DOMAIN n \subseteq Spelling
      /\ (\A c \in DOMAIN m : m[c] \in [cpp : DOMAIN tr, java : Spelling])
      /\ (\A c \in DOMAIN n : n[c] \in [cpp : DOMAIN tr, java : Spelling])
  BY MapsOfFacts
<1>3. DOMAIN u \subseteq Spelling /\ \A c \in DOMAIN u : u[c] \in [cpp : DOMAIN tr, java : Spelling]
  BY <1>1, <1>2
<1> QED
  BY <1>1, <1>3, MapsOfFacts DEF u

(* One update after the other. *)
IsUpdating(g, D, m, N, entries) ==
    g \in [0 .. N -> D] /\ g[0] = m /\ \A q \in 1 .. N : g[q] = Updated(g[q - 1], entries[q])

LEMMA UpdatesExist ==
    ASSUME NEW D, NEW m \in D, NEW N \in Nat, NEW entries \in [1 .. N -> D],
           \A x, y \in D : Updated(x, y) \in D
    PROVE  \E g : IsUpdating(g, D, m, N, entries)
<1> DEFINE step == [q \in 1 .. N |-> [x \in D |-> Updated(x, entries[q])]]
<1>1. step \in [1 .. N -> [D -> D]]
  OBVIOUS
<1>2. \A q \in 1 .. N : \A x \in D : step[q][x] = Updated(x, entries[q])
  OBVIOUS
<1> HIDE DEF step
<1>3. PICK g : IsRecursion(g, D, m, N, step)
  BY <1>1, RecursionExists
<1>4. \A q \in 1 .. N : g[q] = Updated(g[q - 1], entries[q])
  <2> TAKE q \in 1 .. N
  <2>1. q - 1 \in 0 .. N
    OBVIOUS
  <2>2. g[q - 1] \in D
    BY <1>3, <2>1 DEF IsRecursion
  <2> QED
    BY <1>2, <1>3, <2>2 DEF IsRecursion
<1> QED
  BY <1>3, <1>4 DEF IsRecursion, IsUpdating

(***************************************************************************)
(* The entries of a table, one after the other.                            *)
(***************************************************************************)
LEMMA TableFacts ==
    ASSUME NEW tr \in Seq(SourceFile), NEW list, NEW f \in DOMAIN tr,
           NEW b \in BlocksIn(tr[f].tokens), NEW its \in Seq(Token),
           NEW e, IsAscent(e, ItemsIn(tr[f].tokens, b)), Len(e) = Len(its),
           \A r \in 1 .. Len(e) : its[r] = tr[f].tokens[e[r]],
           IsTable(its),
           NEW m \in MapsOf(tr), NEW E, MapIs(tr, list, m, E),
           \A d \in E : \A k \in NamesOf(tr[f].tokens, b) : NotAfter(tr, list, d, <<f, k>>)
    PROVE  /\ WithEntries(m, its, f) \in MapsOf(tr)
           /\ MapIs(tr, list, WithEntries(m, its, f), E \cup ({f} \X NamesOf(tr[f].tokens, b)))
<1> DEFINE T == tr[f].tokens
           I == ItemsIn(T, b)
           L == Len(its)
           N == L \div 3
           D == MapsOf(tr)
           Step(q) == Entry(its, q, f)
           entries == [q \in 1 .. N |-> Step(q)]
<1>1. T \in Seq(Token) /\ I \in SUBSET Nat
  <2>1. tr[f] \in SourceFile
    OBVIOUS
  <2>2. T \in Seq(Token)
    BY <2>1 DEF SourceFile
  <2> QED
    BY <2>2, BlockFacts
<1>2. L \in Nat /\ N \in Nat /\ L = 3 * N + 1
  <2>1. L \in Nat /\ L % 3 = 1
    BY DEF IsTable
  <2> QED
    BY <2>1
<1>3. /\ e \in Seq(I) /\ \A r \in 1 .. L : its[r] \in Token /\ its[r] = T[e[r]] /\ e[r] \in I
      /\ Cardinality(I) = L /\ \A r \in 1 .. L : Rank(I, e[r]) = r - 1
  <2>1. e \in Seq(I) /\ \A r \in 1 .. L : e[r] \in I
    <3>1. e \in Seq(I)
      BY DEF IsAscent
    <3> QED
      BY <3>1
  <2>2. Cardinality(I) = L /\ \A r \in 1 .. L : Rank(I, e[r]) = r - 1
    <3> HIDE DEF I
    <3> QED
      BY <1>1, RankFacts DEF I
  <2>3. \A r \in 1 .. L : its[r] \in Token /\ its[r] = T[e[r]]
    OBVIOUS
  <2> QED
    BY <2>1, <2>2, <2>3
<1> HIDE DEF I, L, N
<1>4. \A q \in 1 .. N : 3 * q + 1 \in 3 .. L /\ 3 * q + 1 \in 1 .. L /\ 3 * q - 1 \in 1 .. L
                        /\ (3 * q + 1) - 2 = 3 * q - 1 /\ q \in Nat
  BY <1>2
<1>5. ASSUME NEW q \in 1 .. N
      PROVE  Step(q) \in D /\ MapIs(tr, list, Step(q), {<<f, e[3 * q + 1]>>})
  <2> DEFINE k == e[3 * q + 1]
             c == its[3 * q + 1].spelling
             v == [cpp |-> f, java |-> its[3 * q - 1].spelling]
  <2>1. Step(q) = [x \in {c} |-> v]
    BY DEF Entry
  <2>2. c \in Spelling /\ its[3 * q - 1].spelling \in Spelling
    <3>1. its[3 * q + 1] \in Token /\ its[3 * q - 1] \in Token
      BY <1>3, <1>4
    <3> QED
      BY <3>1 DEF Token
  <2>3. SpellingAt(tr, <<f, k>>) = c
    BY <1>3, <1>4 DEF SpellingAt
  <2>4. ValueAt(tr, <<f, k>>) = v
    <3>1. JavaIn(T, k) = T[e[3 * q - 1]].spelling
      <4>1. JavaIn(T, k) = T[e[(3 * q + 1) - 2]].spelling
        BY <1>1, <1>4, JavaFacts DEF I, L
      <4> QED
        BY <1>4, <4>1
    <3>2. T[e[3 * q - 1]] = its[3 * q - 1]
      BY <1>3, <1>4
    <3> QED
      BY <3>1, <3>2 DEF ValueAt
  <2>5. v \in [cpp : DOMAIN tr, java : Spelling]
    BY <2>2
  <2>6. k \in Nat
    BY <1>1, <1>3, <1>4
  <2> DEFINE s == Step(q)
  <2>7. DOMAIN s = {c} /\ s = [x \in DOMAIN s |-> s[x]] /\ s[c] = v
    BY <2>1
  <2> HIDE DEF s, k, c, v
  <2>8. s \in D
    BY <2>2, <2>5, <2>7, MapsOfFacts
  <2>9. Decides(tr, list, s, {<<f, k>>}, c, <<f, k>>)
    BY <2>3, <2>4, <2>6, <2>7 DEF Decides, NotAfter
  <2>10. MapIs(tr, list, s, {<<f, k>>})
    <3>1. \A x : x \in DOMAIN s <=> \E d \in {<<f, k>>} : SpellingAt(tr, d) = x
      BY <2>3, <2>7
    <3>2. \A x \in DOMAIN s : Decides(tr, list, s, {<<f, k>>}, x, <<f, k>>)
      BY <2>7, <2>9
    <3> QED
      BY <2>7, <3>1, <3>2 DEF MapIs
  <2> QED
    BY <2>8, <2>10 DEF s, k
<1> DEFINE Def(g) == g = [q \in 0 .. N |-> IF q = 0 THEN m ELSE Updated(g[q - 1], Step(q))]
<1>6. \E g : Def(g)
  <2> HIDE DEF D, Step
  <2>1. m \in D /\ (\A x, y \in D : Updated(x, y) \in D) /\ entries \in [1 .. N -> D]
    BY <1>5, UpdatedMaps DEF D
  <2>2. \A q \in 1 .. N : entries[q] = Step(q)
    OBVIOUS
  <2> HIDE DEF entries
  <2>0. PICK g : IsUpdating(g, D, m, N, entries)
    BY <1>2, <2>1, UpdatesExist
  <2>3. g \in [0 .. N -> D] /\ g[0] = m /\ \A q \in 1 .. N : g[q] = Updated(g[q - 1], entries[q])
    BY <2>0 DEF IsUpdating
  <2>4. \A q \in 0 .. N : g[q] = IF q = 0 THEN m ELSE Updated(g[q - 1], Step(q))
    <3> TAKE q \in 0 .. N
    <3>1. CASE q = 0
      BY <2>3, <3>1
    <3>2. CASE q # 0
      <4>1. q \in 1 .. N
        BY <1>2, <3>2
      <4> QED
        BY <2>2, <2>3, <3>2, <4>1
    <3> QED
      BY <3>1, <3>2
  <2>5. g = [q \in 0 .. N |-> g[q]]
    BY <2>3
  <2>6. Def(g)
    BY <2>4, <2>5
  <2> QED
    BY <2>6
<1> DEFINE with[q \in 0 .. N] == IF q = 0 THEN m ELSE Updated(with[q - 1], Step(q))
<1>7. WithEntries(m, its, f) = with[N]
  BY DEF WithEntries, N, L
<1>8. Def(with)
  BY <1>6
<1> HIDE DEF with
<1>9. \A q \in 0 .. N : with[q] = IF q = 0 THEN m ELSE Updated(with[q - 1], Step(q))
  BY <1>8
<1> HIDE DEF Def, Step, D
<1> DEFINE F(q) == {<<f, e[3 * i + 1]>> : i \in 1 .. q}
           OK(q) == with[q] \in D /\ MapIs(tr, list, with[q], E \cup F(q))
           X == {q \in 0 .. N : ~OK(q)}
<1>10. \A q \in 1 .. N : e[3 * q + 1] \in NamesOf(T, b)
  <2> TAKE q \in 1 .. N
  <2>1. e[3 * q + 1] \in I /\ Rank(I, e[3 * q + 1]) = 3 * q /\ Cardinality(I) = L
    BY <1>3, <1>4
  <2>2. (3 * q) % 3 = 0 /\ 3 * q > 0 /\ L % 3 = 1
    BY <1>2, <1>4
  <2> QED
    BY <2>1, <2>2 DEF NamesOf, I
<1>11. \A p, q \in 1 .. N : p < q => e[3 * p + 1] < e[3 * q + 1]
  <2> TAKE p, q \in 1 .. N
  <2> HAVE p < q
  <2>1. 3 * p + 1 \in 1 .. L /\ 3 * q + 1 \in 1 .. L /\ 3 * p + 1 < 3 * q + 1
    BY <1>4
  <2> QED
    BY <2>1 DEF IsAscent, L
<1>12. OK(0)
  <2>1. with[0] = m
    <3>1. 0 \in 0 .. N
      BY <1>2
    <3> QED
      BY <1>9, <3>1
  <2>2. F(0) = {}
    <3>1. 1 .. 0 = {}
      OBVIOUS
    <3> QED
      BY <3>1
  <2> HIDE DEF F
  <2>3. MapIs(tr, list, with[0], E \cup F(0)) /\ with[0] \in D
    BY <2>1, <2>2 DEF D
  <2> QED
    BY <2>3
<1>13. ASSUME NEW q \in 0 .. N - 1, OK(q)
       PROVE  OK(q + 1)
  <2>1. q + 1 \in 1 .. N /\ q + 1 \in 0 .. N /\ q + 1 # 0 /\ (q + 1) - 1 = q /\ q \in Nat
    BY <1>2
  <2>2. with[q + 1] = Updated(with[q], Step(q + 1))
    BY <1>9, <2>1
  <2>3. Step(q + 1) \in D /\ MapIs(tr, list, Step(q + 1), {<<f, e[3 * (q + 1) + 1]>>})
    BY <1>5, <2>1 DEF D, Step
  <2>4. with[q + 1] \in D
    BY <1>13, <2>2, <2>3, UpdatedMaps DEF D
  <2>5. \A d \in E \cup F(q) : NotAfter(tr, list, d, <<f, e[3 * (q + 1) + 1]>>)
    <3>1. ASSUME NEW i \in 1 .. q
          PROVE  NotAfter(tr, list, <<f, e[3 * i + 1]>>, <<f, e[3 * (q + 1) + 1]>>)
      <4>1. i \in 1 .. N /\ i < q + 1
        <5>1. i \in Nat /\ 1 <= i /\ i <= q /\ q + 1 <= N /\ N \in Nat
          BY <1>2, <2>1
        <5> QED
          BY <2>1, <5>1
      <4>2. e[3 * i + 1] < e[3 * (q + 1) + 1] /\ e[3 * i + 1] \in Nat /\ e[3 * (q + 1) + 1] \in Nat
        BY <1>1, <1>3, <1>4, <1>11, <2>1, <4>1
      <4> QED
        BY <4>2 DEF NotAfter
    <3>2. \A d \in E : NotAfter(tr, list, d, <<f, e[3 * (q + 1) + 1]>>)
      BY <1>10, <2>1
    <3> QED
      BY <3>1, <3>2
  <2>6. (E \cup F(q)) \cup {<<f, e[3 * (q + 1) + 1]>>} = E \cup F(q + 1)
    <3>1. 1 .. q + 1 = (1 .. q) \cup {q + 1}
      BY <2>1
    <3> QED
      BY <3>1
  <2> HIDE DEF F
  <2>7. MapIs(tr, list, with[q + 1], E \cup F(q + 1))
    <3>1. MapIs(tr, list, with[q], E \cup F(q))
      BY <1>13
    <3>2. MapIs(tr, list, Updated(with[q], Step(q + 1)), (E \cup F(q)) \cup {<<f, e[3 * (q + 1) + 1]>>})
      BY <2>3, <2>5, <3>1, MapUpdated
    <3> QED
      BY <2>2, <2>6, <3>2
  <2> QED
    BY <2>4, <2>7
<1>14. OK(N)
  <2>1. X \in SUBSET (0 .. N) /\ 0 \notin X
    BY <1>12
  <2>2. \A q \in 0 .. N - 1 : q \notin X => q + 1 \notin X
    <3> SUFFICES ASSUME NEW q \in 0 .. N - 1, q \notin X PROVE q + 1 \notin X
      OBVIOUS
    <3>1. q \in 0 .. N
      BY <1>2
    <3>2. OK(q)
      BY <3>1
    <3> HIDE DEF OK
    <3> QED
      BY <1>13, <3>2
  <2>3. X = {}
    <3> HIDE DEF X
    <3> QED
      BY <1>2, <2>1, <2>2, NoFirstException
  <2>4. N \in 0 .. N
    BY <1>2
  <2> HIDE DEF OK
  <2> QED
    BY <2>3, <2>4
<1>15. F(N) = {f} \X NamesOf(T, b)
  <2>1. ASSUME NEW k \in NamesOf(T, b)
        PROVE  \E q \in 1 .. N : k = e[3 * q + 1]
    <3>1. k \in I /\ Rank(I, k) % 3 = 0 /\ Rank(I, k) > 0
      BY DEF NamesOf, I
    <3>2. PICK r \in 1 .. L : e[r] = k
      BY <3>1 DEF IsAscent, I, L
    <3>3. (r - 1) % 3 = 0 /\ r - 1 > 0
      BY <1>3, <3>1, <3>2
    <3>4. PICK q \in 1 .. N : r = 3 * q + 1
      <4>1. r \in Nat /\ r <= 3 * N + 1
        BY <1>2
      <4>2. (r - 1) \div 3 \in 1 .. N /\ r = 3 * ((r - 1) \div 3) + 1
        BY <1>2, <3>3, <4>1
      <4> QED
        BY <4>2
    <3> QED
      BY <3>2, <3>4
  <2> HIDE DEF T
  <2> QED
    BY <1>10, <2>1
<1> QED
  BY <1>7, <1>14, <1>15 DEF D

-----------------------------------------------------------------------------
(***************************************************************************)
(* THE FILES                                                               *)
(*                                                                         *)
(* td are the files still to come, p the one that is being parsed or 0, un *)
(* those that could not be parsed and m the map collected.                 *)
(***************************************************************************)
Ahead(td, p) == {td[i] : i \in 1 .. Len(td)} \cup ({p} \ {0})

DoneOf(tr, td, p) == CppIn(tr) \ Ahead(td, p)

ReadOf(tr, td, p, un) == {f \in DoneOf(tr, td, p) : tr[f].check /\ f \notin un}

EntriesIn(tr, f) == {f} \X UNION {NamesOf(tr[f].tokens, b) : b \in BlocksIn(tr[f].tokens)}

AllEntries(tr, R) == UNION {EntriesIn(tr, f) : f \in R}

(***************************************************************************)
(* The files come in the order, each once, and the map has the entries of  *)
(* those that were read.                                                   *)
(***************************************************************************)
IsProgress(tr, list, td, p, un, m) ==
    /\ IsScan(tr, list)
    /\ td \in Seq(CppIn(tr))
    /\ \A i, j \in 1 .. Len(td) : i < j => LaterIn(tr, list, td[j], td[i])
    /\ p # 0 => /\ p \in CppIn(tr) /\ tr[p].check /\ p \notin un
                /\ \A i \in 1 .. Len(td) : LaterIn(tr, list, td[i], p)
    /\ \A f \in DoneOf(tr, td, p) : \A g \in Ahead(td, p) : LaterIn(tr, list, g, f)
    /\ un \subseteq DoneOf(tr, td, p)
    /\ MapIs(tr, list, m, AllEntries(tr, ReadOf(tr, td, p, un)))
    /\ \A f \in ReadOf(tr, td, p, un) : \A b \in BlocksIn(tr[f].tokens) : ItemsIn(tr[f].tokens, b) # {}

LEMMA NoFileZero == ASSUME NEW tr \in Seq(SourceFile) PROVE 0 \notin CppIn(tr)
  BY DEF CppIn

(* The first file to come is before the others. *)
LEMMA HeadFacts ==
    ASSUME NEW tr \in Seq(SourceFile), NEW list, IsScan(tr, list), NEW td \in Seq(CppIn(tr)), td # <<>>,
           \A i, j \in 1 .. Len(td) : i < j => LaterIn(tr, list, td[j], td[i])
    PROVE  /\ Head(td) \in CppIn(tr) /\ Head(td) # 0
           /\ Tail(td) \in Seq(CppIn(tr))
           /\ \A i, j \in 1 .. Len(Tail(td)) : i < j => LaterIn(tr, list, Tail(td)[j], Tail(td)[i])
           /\ \A i \in 1 .. Len(Tail(td)) : LaterIn(tr, list, Tail(td)[i], Head(td))
           /\ Ahead(td, 0) = Ahead(Tail(td), 0) \cup {Head(td)}
           /\ Ahead(Tail(td), Head(td)) = Ahead(td, 0)
           /\ Head(td) \notin Ahead(Tail(td), 0)
<1> DEFINE h == Head(td)
           t == Tail(td)
           n == Len(td) - 1
<1>1. /\ n \in Nat /\ Len(td) = n + 1 /\ h = td[1] /\ t \in Seq(CppIn(tr)) /\ Len(t) = n
      /\ \A i \in 1 .. n : t[i] = td[i + 1] /\ i + 1 \in 1 .. n + 1
      /\ \A i \in 1 .. n + 1 : td[i] \in CppIn(tr)
      /\ 1 \in 1 .. n + 1
  OBVIOUS
<1>2. h \in CppIn(tr) /\ h # 0
  BY <1>1, NoFileZero
<1> HIDE DEF h, t, n
<1>3. \A i \in 1 .. n : LaterIn(tr, list, t[i], h) /\ t[i] \in CppIn(tr)
  BY <1>1
<1>4. \A i, j \in 1 .. n : i < j => LaterIn(tr, list, t[j], t[i])
  BY <1>1
<1>5. \A i \in 1 .. n : t[i] # h
  BY <1>2, <1>3, LaterIsStrict
<1>6. {td[i] : i \in 1 .. n + 1} = {t[i] : i \in 1 .. n} \cup {h}
  <2>1. \A i \in 1 .. n + 1 : i = 1 \/ (i - 1 \in 1 .. n /\ (i - 1) + 1 = i)
    BY <1>1
  <2>2. ASSUME NEW i \in 1 .. n + 1 PROVE td[i] \in {t[j] : j \in 1 .. n} \cup {h}
    <3>1. CASE i = 1
      BY <1>1, <3>1
    <3>2. CASE i - 1 \in 1 .. n /\ (i - 1) + 1 = i
      BY <1>1, <3>2
    <3> QED
      BY <2>1, <3>1, <3>2
  <2> QED
    BY <1>1, <2>2
<1>7. Ahead(td, 0) = Ahead(t, 0) \cup {h} /\ Ahead(t, h) = Ahead(td, 0) /\ h \notin Ahead(t, 0)
  BY <1>1, <1>2, <1>5, <1>6 DEF Ahead
<1> QED
  BY <1>1, <1>2, <1>3, <1>4, <1>7 DEF h, t

(* A file whose turn is over. *)
LEMMA OneFileMore ==
    ASSUME NEW tr \in Seq(SourceFile), NEW list, NEW td, NEW p, NEW un, NEW m,
           IsProgress(tr, list, td, p, un, m),
           NEW td1, NEW h \in CppIn(tr), h \notin Ahead(td1, 0), Ahead(td, p) = Ahead(td1, 0) \cup {h},
           \A g \in Ahead(td1, 0) : LaterIn(tr, list, g, h)
    PROVE  /\ DoneOf(tr, td1, 0) = DoneOf(tr, td, p) \cup {h} /\ h \notin DoneOf(tr, td, p)
           /\ \A f \in DoneOf(tr, td1, 0) : \A g \in Ahead(td1, 0) : LaterIn(tr, list, g, f)
<1>1. DoneOf(tr, td1, 0) = DoneOf(tr, td, p) \cup {h} /\ h \notin DoneOf(tr, td, p)
  BY DEF DoneOf
<1>2. \A f \in DoneOf(tr, td, p) : \A g \in Ahead(td, p) : LaterIn(tr, list, g, f)
  BY DEF IsProgress
<1> QED
  BY <1>1, <1>2

LEMMA BeginProgress ==
    ASSUME NEW tr, NEW list, IsScan(tr, list), NEW td, IsPart(tr, list, td, 1, 4)
    PROVE  IsProgress(tr, list, td, 0, {}, <<>>)
<1>1. DoneOf(tr, td, 0) = {}
  <2>1. \A f \in CppIn(tr) : \E i \in 1 .. Len(td) : td[i] = f
    BY OrderFacts DEF IsPart
  <2> QED
    BY <2>1 DEF DoneOf, Ahead
<1>2. ReadOf(tr, td, 0, {}) = {} /\ AllEntries(tr, {}) = {}
  BY <1>1 DEF ReadOf, AllEntries
<1>3. td \in Seq(CppIn(tr)) /\ \A i, j \in 1 .. Len(td) : i < j => LaterIn(tr, list, td[j], td[i])
  BY DEF IsPart
<1> QED
  BY <1>1, <1>2, <1>3, NothingIsMapped DEF IsProgress

(* A file that is passed over, because it is not checked or not parsed. *)
LEMMA SkipProgress ==
    ASSUME NEW tr \in Seq(SourceFile), NEW list, NEW td, NEW un, NEW m, IsProgress(tr, list, td, 0, un, m),
           td # <<>>, NEW un1, (un1 = un /\ ~tr[Head(td)].check) \/ un1 = un \cup {Head(td)}
    PROVE  IsProgress(tr, list, Tail(td), 0, un1, m)
<1> DEFINE h == Head(td)
           t == Tail(td)
<1>1. /\ IsScan(tr, list) /\ td \in Seq(CppIn(tr))
      /\ \A i, j \in 1 .. Len(td) : i < j => LaterIn(tr, list, td[j], td[i])
      /\ un \subseteq DoneOf(tr, td, 0) /\ MapIs(tr, list, m, AllEntries(tr, ReadOf(tr, td, 0, un)))
      /\ \A f \in ReadOf(tr, td, 0, un) : \A b \in BlocksIn(tr[f].tokens) : ItemsIn(tr[f].tokens, b) # {}
  BY DEF IsProgress
<1>2. /\ h \in CppIn(tr) /\ h # 0 /\ t \in Seq(CppIn(tr))
      /\ \A i, j \in 1 .. Len(t) : i < j => LaterIn(tr, list, t[j], t[i])
      /\ \A i \in 1 .. Len(t) : LaterIn(tr, list, t[i], h)
      /\ Ahead(td, 0) = Ahead(t, 0) \cup {h} /\ h \notin Ahead(t, 0)
  BY <1>1, HeadFacts
<1> HIDE DEF h, t
<1>3. \A g \in Ahead(t, 0) : LaterIn(tr, list, g, h)
  BY <1>2 DEF Ahead
<1>4. /\ DoneOf(tr, t, 0) = DoneOf(tr, td, 0) \cup {h} /\ h \notin DoneOf(tr, td, 0)
      /\ \A f \in DoneOf(tr, t, 0) : \A g \in Ahead(t, 0) : LaterIn(tr, list, g, f)
  BY <1>2, <1>3, OneFileMore
<1>5. ReadOf(tr, t, 0, un1) = ReadOf(tr, td, 0, un)
  BY <1>1, <1>4 DEF ReadOf, h
<1>6. un1 \subseteq DoneOf(tr, t, 0)
  BY <1>1, <1>4 DEF h
<1> QED
  BY <1>1, <1>2, <1>4, <1>5, <1>6 DEF IsProgress, h, t

LEMMA ParseProgress ==
    ASSUME NEW tr \in Seq(SourceFile), NEW list, NEW td, NEW un, NEW m, IsProgress(tr, list, td, 0, un, m),
           td # <<>>, tr[Head(td)].check
    PROVE  IsProgress(tr, list, Tail(td), Head(td), un, m)
<1> DEFINE h == Head(td)
           t == Tail(td)
<1>1. /\ IsScan(tr, list) /\ td \in Seq(CppIn(tr))
      /\ \A i, j \in 1 .. Len(td) : i < j => LaterIn(tr, list, td[j], td[i])
      /\ \A f \in DoneOf(tr, td, 0) : \A g \in Ahead(td, 0) : LaterIn(tr, list, g, f)
      /\ un \subseteq DoneOf(tr, td, 0) /\ MapIs(tr, list, m, AllEntries(tr, ReadOf(tr, td, 0, un)))
      /\ \A f \in ReadOf(tr, td, 0, un) : \A b \in BlocksIn(tr[f].tokens) : ItemsIn(tr[f].tokens, b) # {}
  BY DEF IsProgress
<1>2. /\ h \in CppIn(tr) /\ h # 0 /\ t \in Seq(CppIn(tr))
      /\ \A i, j \in 1 .. Len(t) : i < j => LaterIn(tr, list, t[j], t[i])
      /\ \A i \in 1 .. Len(t) : LaterIn(tr, list, t[i], h)
      /\ Ahead(t, h) = Ahead(td, 0) /\ h \in Ahead(td, 0)
  BY <1>1, HeadFacts
<1> HIDE DEF h, t
<1>3. DoneOf(tr, t, h) = DoneOf(tr, td, 0) /\ h \notin DoneOf(tr, td, 0)
  BY <1>2 DEF DoneOf
<1>4. ReadOf(tr, t, h, un) = ReadOf(tr, td, 0, un) /\ h \notin un
  BY <1>1, <1>3 DEF ReadOf
<1> QED
  BY <1>1, <1>2, <1>3, <1>4 DEF IsProgress, h, t

LEMMA UpdateProgress ==
    ASSUME NEW tr \in Seq(SourceFile), NEW list, NEW td, NEW p, NEW un, NEW m,
           IsProgress(tr, list, td, p, un, m), p # 0,
           NEW n, MapIs(tr, list, n, EntriesIn(tr, p)),
           \A b \in BlocksIn(tr[p].tokens) : ItemsIn(tr[p].tokens, b) # {}
    PROVE  IsProgress(tr, list, td, 0, un, Updated(m, n))
<1>1. /\ IsScan(tr, list) /\ td \in Seq(CppIn(tr))
      /\ \A i, j \in 1 .. Len(td) : i < j => LaterIn(tr, list, td[j], td[i])
      /\ p \in CppIn(tr) /\ tr[p].check /\ p \notin un
      /\ \A i \in 1 .. Len(td) : LaterIn(tr, list, td[i], p)
      /\ \A f \in DoneOf(tr, td, p) : \A g \in Ahead(td, p) : LaterIn(tr, list, g, f)
      /\ un \subseteq DoneOf(tr, td, p) /\ MapIs(tr, list, m, AllEntries(tr, ReadOf(tr, td, p, un)))
      /\ \A f \in ReadOf(tr, td, p, un) : \A b \in BlocksIn(tr[f].tokens) : ItemsIn(tr[f].tokens, b) # {}
  BY DEF IsProgress
<1>2. \A g \in Ahead(td, 0) : LaterIn(tr, list, g, p) /\ g \in CppIn(tr)
  <2>1. \A i \in 1 .. Len(td) : td[i] \in CppIn(tr)
    BY <1>1
  <2> QED
    BY <1>1, <2>1 DEF Ahead
<1>3. p \notin Ahead(td, 0) /\ Ahead(td, p) = Ahead(td, 0) \cup {p}
  <2>1. p \notin Ahead(td, 0)
    BY <1>1, <1>2, LaterIsStrict
  <2> QED
    BY <2>1 DEF Ahead
<1>4. /\ DoneOf(tr, td, 0) = DoneOf(tr, td, p) \cup {p}
      /\ \A f \in DoneOf(tr, td, 0) : \A g \in Ahead(td, 0) : LaterIn(tr, list, g, f)
  BY <1>1, <1>2, <1>3, OneFileMore
<1>5. ReadOf(tr, td, 0, un) = ReadOf(tr, td, p, un) \cup {p}
  BY <1>1, <1>4 DEF ReadOf
<1>6. AllEntries(tr, ReadOf(tr, td, 0, un)) = AllEntries(tr, ReadOf(tr, td, p, un)) \cup EntriesIn(tr, p)
  BY <1>5 DEF AllEntries
<1>7. \A d \in AllEntries(tr, ReadOf(tr, td, p, un)) : \A e \in EntriesIn(tr, p) : NotAfter(tr, list, d, e)
  <2> TAKE d \in AllEntries(tr, ReadOf(tr, td, p, un))
  <2> TAKE e \in EntriesIn(tr, p)
  <2>1. d[1] \in DoneOf(tr, td, p)
    BY DEF AllEntries, EntriesIn, ReadOf
  <2>2. e[1] = p
    BY DEF EntriesIn
  <2>3. p \in Ahead(td, p)
    BY <1>3
  <2> QED
    BY <1>1, <2>1, <2>2, <2>3 DEF NotAfter
<1>8. MapIs(tr, list, Updated(m, n), AllEntries(tr, ReadOf(tr, td, 0, un)))
  <2>1. MapIs(tr, list, m, AllEntries(tr, ReadOf(tr, td, p, un)))
    BY <1>1
  <2> QED
    BY <1>6, <1>7, <2>1, MapUpdated
<1>9. un \subseteq DoneOf(tr, td, 0)
  BY <1>1, <1>4
<1>10. \A f \in ReadOf(tr, td, 0, un) : \A b \in BlocksIn(tr[f].tokens) : ItemsIn(tr[f].tokens, b) # {}
  BY <1>1, <1>5
<1> QED
  BY <1>1, <1>4, <1>8, <1>9, <1>10 DEF IsProgress

-----------------------------------------------------------------------------
(***************************************************************************)
(* THE TOKENS OF ONE FILE                                                  *)
(***************************************************************************)
(* A table begins at token i, and n tokens did not end it. *)
OpenAt(T, i, n) ==
    i \in 1 .. n /\ T[i].spelling = JNINativeMethod /\ \A k \in i + 1 .. n : ~IsBound(T[k])

Upto(T, n) == {b \in BlocksIn(T) : b[2] <= n}

(* open is extract_jni, blk is jni_block after n tokens. *)
IsScanning(T, n, open, blk) ==
    /\ n \in 0 .. Len(T)
    /\ open <=> \E i \in 1 .. n : OpenAt(T, i, n)
    /\ \A i \in 1 .. n : OpenAt(T, i, n) => IsCollected(blk, T, i, n + 1)

(***************************************************************************)
(* toks is jni_tokens: what was collected of the blocks bs, the others are *)
(* before them and in the map m.                                           *)
(***************************************************************************)
TakenOf(T, n, bs) == Upto(T, n) \ {bs[i] : i \in 1 .. Len(bs)}

IsWaiting(tr, list, f, n, toks, m, bs) ==
    LET T == tr[f].tokens
    IN  /\ Len(bs) = Len(toks)
        /\ \A i \in 1 .. Len(bs) : IsCollected(toks[i], T, bs[i][1], bs[i][2])
        /\ \A i, j \in 1 .. Len(bs) : i < j => bs[i][2] < bs[j][1]
        /\ \A b \in TakenOf(T, n, bs) : /\ ItemsIn(T, b) # {}
                                        /\ \A i \in 1 .. Len(bs) : b[2] < bs[i][1]
        /\ MapIs(tr, list, m, {f} \X UNION {NamesOf(T, b) : b \in TakenOf(T, n, bs)})

(* A table stays open until the next bound. *)
LEMMA OpenStep ==
    ASSUME NEW T \in Seq(Token), NEW n \in 0 .. Len(T) - 1, NEW i \in 1 .. n + 1
    PROVE  OpenAt(T, i, n + 1) <=>
              \/ i = n + 1 /\ T[n + 1].spelling = JNINativeMethod
              \/ i \in 1 .. n /\ OpenAt(T, i, n) /\ ~IsBound(T[n + 1])
<1>1. n \in Nat
  OBVIOUS
<1>2. CASE i = n + 1
  <2>1. n + 1 + 1 .. n + 1 = {} /\ i \notin 1 .. n
    BY <1>1, <1>2
  <2> QED
    BY <1>2, <2>1 DEF OpenAt
<1>3. CASE i # n + 1
  <2>1. i \in 1 .. n /\ i + 1 .. n + 1 = (i + 1 .. n) \cup {n + 1}
    BY <1>1, <1>3
  <2> QED
    BY <1>3, <2>1 DEF OpenAt
<1> QED
  BY <1>2, <1>3

(* One table at most is open. *)
LEMMA OpenOnce ==
    ASSUME NEW T, NEW n \in Nat, NEW i \in 1 .. n, NEW j \in 1 .. n, OpenAt(T, i, n), OpenAt(T, j, n)
    PROVE  i = j
<1>1. IsBound(T[i]) /\ IsBound(T[j])
  BY DEF OpenAt, IsBound
<1>2. i \notin j + 1 .. n /\ j \notin i + 1 .. n
  BY <1>1 DEF OpenAt
<1> QED
  BY <1>2

(* A semicolon makes a block of the open table. *)
LEMMA UptoGrows ==
    ASSUME NEW T \in Seq(Token), NEW n \in 0 .. Len(T) - 1
    PROVE  /\ Upto(T, n) \subseteq Upto(T, n + 1)
           /\ \A b \in Upto(T, n) : b \in BlocksIn(T) /\ b[2] <= n
           /\ \A b \in Upto(T, n + 1) \ Upto(T, n) :
                 /\ b \in BlocksIn(T) /\ b[2] = n + 1 /\ b[1] \in 1 .. n /\ b = <<b[1], n + 1>>
                 /\ T[n + 1].spelling = Semicolon /\ OpenAt(T, b[1], n)
           /\ \A i \in 1 .. n : OpenAt(T, i, n) /\ T[n + 1].spelling = Semicolon
                                   => <<i, n + 1>> \in Upto(T, n + 1) \ Upto(T, n)
<1>1. n \in Nat /\ n + 1 \in 1 .. Len(T) /\ DOMAIN T = 1 .. Len(T) /\ Len(T) \in Nat
  OBVIOUS
<1>2. \A b \in BlocksIn(T) : b[1] \in Nat /\ b[2] \in Nat /\ b[1] >= 1 /\ b[1] < b[2] /\ b = <<b[1], b[2]>>
  BY BlockFacts
<1>3. Upto(T, n) \subseteq Upto(T, n + 1)
  BY <1>1, <1>2 DEF Upto
<1>4. ASSUME NEW b \in Upto(T, n + 1) \ Upto(T, n)
      PROVE  /\ b \in BlocksIn(T) /\ b[2] = n + 1 /\ b[1] \in 1 .. n /\ b = <<b[1], n + 1>>
             /\ T[n + 1].spelling = Semicolon /\ OpenAt(T, b[1], n)
  <2>1. b \in BlocksIn(T) /\ b[2] <= n + 1 /\ ~(b[2] <= n)
    BY DEF Upto
  <2>2. b[2] = n + 1 /\ b[1] \in 1 .. n /\ b = <<b[1], n + 1>>
    BY <1>1, <1>2, <2>1
  <2>3. /\ T[b[1]].spelling = JNINativeMethod /\ T[b[2]].spelling = Semicolon
        /\ \A k \in b[1] + 1 .. b[2] - 1 : ~IsBound(T[k])
    BY <2>1 DEF BlocksIn
  <2>4. (n + 1) - 1 = n
    BY <1>1
  <2>5. \A k \in b[1] + 1 .. n : ~IsBound(T[k])
    BY <2>2, <2>3, <2>4
  <2> QED
    BY <2>1, <2>2, <2>3, <2>5 DEF OpenAt
<1>5. ASSUME NEW i \in 1 .. n, OpenAt(T, i, n), T[n + 1].spelling = Semicolon
      PROVE  <<i, n + 1>> \in Upto(T, n + 1) \ Upto(T, n)
  <2> DEFINE b == <<i, n + 1>>
  <2>1. b[1] = i /\ b[2] = n + 1 /\ i < n + 1 /\ i \in DOMAIN T /\ n + 1 \in DOMAIN T
        /\ (n + 1) - 1 = n
    BY <1>1
  <2>2. b \in (DOMAIN T) \X (DOMAIN T)
    BY <2>1
  <2>3. T[i].spelling = JNINativeMethod /\ \A k \in i + 1 .. n : ~IsBound(T[k])
    BY <1>5 DEF OpenAt
  <2> HIDE DEF b
  <2>4. b \in BlocksIn(T)
    BY <1>5, <2>1, <2>2, <2>3 DEF BlocksIn
  <2>5. b[2] <= n + 1 /\ ~(b[2] <= n)
    BY <1>1, <2>1
  <2> QED
    BY <2>4, <2>5 DEF Upto, b
<1>6. \A b \in Upto(T, n) : b \in BlocksIn(T) /\ b[2] <= n
  BY DEF Upto
<1> QED
  BY <1>3, <1>4, <1>5, <1>6

(***************************************************************************)
(* What the loop over the tokens does with the next one: open1, blk1 and   *)
(* toks1 are extract_jni, jni_block and jni_tokens after it.               *)
(***************************************************************************)
LEMMA ScanningStep ==
    ASSUME NEW T \in Seq(Token), NEW n \in 0 .. Len(T) - 1, NEW open \in BOOLEAN, NEW blk \in Seq(Token),
           IsScanning(T, n, open, blk),
           NEW open1 \in BOOLEAN, NEW blk1 \in Seq(Token), NEW starts \in BOOLEAN,
           starts <=> T[n + 1].spelling = JNINativeMethod,
           open1 <=> (open \/ starts) /\ T[n + 1].spelling # Semicolon,
           open1 /\ starts => blk1 = Append(<<>>, T[n + 1]),
           open1 /\ ~starts => blk1 = Append(blk, T[n + 1])
    PROVE  IsScanning(T, n + 1, open1, blk1)
<1> DEFINE t == T[n + 1]
<1>1. n \in Nat /\ n + 1 \in 0 .. Len(T) /\ n + 1 \in 1 .. n + 1 /\ t \in Token
  OBVIOUS
<1>2. open <=> \E i \in 1 .. n : OpenAt(T, i, n)
  BY DEF IsScanning
<1>3. IsBound(t) <=> starts \/ t.spelling = Semicolon
  BY DEF IsBound
<1>4. starts => t.spelling # Semicolon
  BY DistinctAssumption
<1> HIDE DEF t
<1>5. \A i \in 1 .. n + 1 : OpenAt(T, i, n + 1) <=>
                               \/ i = n + 1 /\ starts
                               \/ i \in 1 .. n /\ OpenAt(T, i, n) /\ ~IsBound(t)
  BY OpenStep DEF t
<1>6. \A i \in 1 .. n : i \in 1 .. n + 1
  BY <1>1
<1>7. open1 <=> \E i \in 1 .. n + 1 : OpenAt(T, i, n + 1)
  BY <1>1, <1>2, <1>3, <1>4, <1>5, <1>6 DEF t
<1>8. ASSUME NEW i \in 1 .. n + 1, OpenAt(T, i, n + 1)
      PROVE  IsCollected(blk1, T, i, n + 1 + 1)
  <2>1. open1
    BY <1>7, <1>8
  <2>2. CASE i = n + 1 /\ starts
    <3>1. blk1 = Append(<<>>, t)
      BY <2>1, <2>2 DEF t
    <3>2. Len(blk1) = 1 /\ blk1[1] = t /\ n + 1 + 1 - i = 1
      BY <1>1, <2>2, <3>1
    <3>3. \A k \in 1 .. 1 : k = 1 /\ i + k - 1 = n + 1
      BY <1>1, <2>2
    <3>4. \A k \in 1 .. n + 1 + 1 - i : blk1[k] = T[i + k - 1]
      BY <3>2, <3>3 DEF t
    <3> QED
      BY <3>2, <3>4 DEF IsCollected
  <2>3. CASE i \in 1 .. n /\ OpenAt(T, i, n) /\ ~IsBound(t)
    <3>1. blk1 = Append(blk, t)
      BY <1>3, <2>1, <2>3 DEF t
    <3>2. Len(blk) = n + 1 - i /\ \A k \in 1 .. n + 1 - i : blk[k] = T[i + k - 1]
      BY <2>3 DEF IsScanning, IsCollected
    <3>3. /\ Len(blk1) = n + 1 - i + 1 /\ blk1[n + 1 - i + 1] = t
          /\ \A k \in 1 .. n + 1 - i : blk1[k] = blk[k]
      BY <1>1, <3>1, <3>2
    <3>4. n + 1 + 1 - i = n + 1 - i + 1 /\ i + (n + 1 - i + 1) - 1 = n + 1
      BY <1>1
    <3>5. \A k \in 1 .. n + 1 - i + 1 : blk1[k] = T[i + k - 1]
      <4> TAKE k \in 1 .. n + 1 - i + 1
      <4>1. k \in 1 .. n + 1 - i \/ k = n + 1 - i + 1
        BY <1>1
      <4> QED
        BY <3>2, <3>3, <3>4, <4>1 DEF t
    <3> QED
      BY <3>3, <3>4, <3>5 DEF IsCollected
  <2> QED
    BY <1>5, <1>8, <2>2, <2>3
<1> QED
  BY <1>1, <1>7, <1>8 DEF IsScanning

(* The blocks that wait are positions in order, and so are those taken. *)
LEMMA WaitingStep ==
    ASSUME NEW tr \in Seq(SourceFile), NEW list, NEW f \in DOMAIN tr, NEW n \in 0 .. Len(tr[f].tokens) - 1,
           NEW open, NEW blk, IsScanning(tr[f].tokens, n, open, blk),
           NEW toks \in Seq(Seq(Token)), NEW m,
           NEW bs \in Seq(Upto(tr[f].tokens, n)), IsWaiting(tr, list, f, n, toks, m, bs),
           blk \in Seq(Token), open \in BOOLEAN,
           NEW toks1,
           toks1 = IF open /\ tr[f].tokens[n + 1].spelling = Semicolon THEN Append(toks, blk) ELSE toks
    PROVE  \E bs1 \in Seq(Upto(tr[f].tokens, n + 1)) : IsWaiting(tr, list, f, n + 1, toks1, m, bs1)
<1> DEFINE T == tr[f].tokens
           U == Upto(T, n)
           V == Upto(T, n + 1)
           L == Len(bs)
<1>1. T \in Seq(Token) /\ n \in Nat
  <2>1. tr[f] \in SourceFile
    OBVIOUS
  <2> QED
    BY <2>1 DEF SourceFile
<1> HIDE DEF T
<1>2. /\ U \subseteq V
      /\ \A b \in U : b \in BlocksIn(T) /\ b[2] <= n
      /\ \A b \in V \ U : /\ b \in BlocksIn(T) /\ b[2] = n + 1 /\ b[1] \in 1 .. n /\ b = <<b[1], n + 1>>
                          /\ T[n + 1].spelling = Semicolon /\ OpenAt(T, b[1], n)
      /\ \A i \in 1 .. n : OpenAt(T, i, n) /\ T[n + 1].spelling = Semicolon => <<i, n + 1>> \in V \ U
  BY <1>1, UptoGrows DEF T
<1>3. open <=> \E i \in 1 .. n : OpenAt(T, i, n)
  BY DEF IsScanning, T
<1>4. /\ L \in Nat /\ Len(toks) = L
      /\ \A i \in 1 .. L : bs[i] \in U /\ IsCollected(toks[i], T, bs[i][1], bs[i][2])
      /\ \A i, j \in 1 .. L : i < j => bs[i][2] < bs[j][1]
      /\ \A b \in TakenOf(T, n, bs) : ItemsIn(T, b) # {} /\ \A i \in 1 .. L : b[2] < bs[i][1]
      /\ MapIs(tr, list, m, {f} \X UNION {NamesOf(T, b) : b \in TakenOf(T, n, bs)})
  BY DEF IsWaiting, T
<1>5. CASE ~(open /\ T[n + 1].spelling = Semicolon)
  <2>1. V = U
    BY <1>2, <1>3, <1>5
  <2>2. TakenOf(T, n + 1, bs) = TakenOf(T, n, bs)
    BY <2>1 DEF TakenOf
  <2>3. toks1 = toks
    BY <1>5 DEF T
  <2>4. IsWaiting(tr, list, f, n + 1, toks1, m, bs)
    BY <1>4, <2>2, <2>3 DEF IsWaiting, T
  <2> QED
    BY <2>1, <2>4 DEF T
<1>6. CASE open /\ T[n + 1].spelling = Semicolon
  <2>1. PICK i \in 1 .. n : OpenAt(T, i, n)
    BY <1>3, <1>6
  <2> DEFINE b == <<i, n + 1>>
             bs1 == Append(bs, b)
  <2>2. b \in V \ U /\ b \in BlocksIn(T) /\ b[1] = i /\ b[2] = n + 1
    BY <1>2, <1>6, <2>1
  <2>3. V = U \cup {b}
    <3>1. ASSUME NEW a \in V \ U PROVE a = b
      <4>1. a[1] = i /\ a = <<a[1], n + 1>>
        BY <1>1, <1>2, <2>1, OpenOnce
      <4> QED
        BY <4>1
    <3> QED
      BY <1>2, <2>2, <3>1
  <2> HIDE DEF b, U, V, L
  <2>4. toks1 = Append(toks, blk)
    BY <1>6 DEF T
  <2>5. /\ bs1 \in Seq(V) /\ Len(bs1) = L + 1 /\ bs1[L + 1] = b
        /\ \A k \in 1 .. L : bs1[k] = bs[k]
    <3>1. bs \in Seq(V)
      <4>1. bs \in Seq(U) /\ U \subseteq V
        BY <1>2 DEF U, T
      <4> QED
        BY <4>1
    <3> QED
      BY <1>4, <2>2, <3>1 DEF L
  <2> HIDE DEF bs1
  <2>6. Len(toks1) = L + 1 /\ toks1[L + 1] = blk /\ \A k \in 1 .. L : toks1[k] = toks[k]
    BY <1>4, <2>4
  <2>7. \A k \in 1 .. L + 1 : k \in 1 .. L \/ k = L + 1
    BY <1>4
  <2>8. IsCollected(blk, T, i, n + 1)
    BY <2>1 DEF IsScanning, T
  <2>9. \A a \in U : a[2] < i
    <3> TAKE a \in U
    <3>1. a \in BlocksIn(T) /\ a[2] <= n /\ a # b
      BY <1>2, <2>2
    <3>2. a = b \/ a[2] < b[1] \/ b[2] < a[1]
      BY <1>1, <2>2, <3>1, BlocksApart
    <3>3. a[1] \in Nat /\ a[2] \in Nat /\ a[1] < a[2]
      BY <1>1, <3>1, BlockFacts
    <3> QED
      BY <1>1, <2>2, <3>1, <3>2, <3>3
  <2>10. TakenOf(T, n + 1, bs1) = TakenOf(T, n, bs)
    <3>1. {bs1[k] : k \in 1 .. L + 1} = {bs[k] : k \in 1 .. L} \cup {b}
      <4>1. 1 .. L + 1 = (1 .. L) \cup {L + 1}
        BY <1>4
      <4> QED
        BY <2>5, <4>1
    <3>2. TakenOf(T, n + 1, bs1) = V \ {bs1[k] : k \in 1 .. L + 1}
      BY <2>5 DEF TakenOf, V
    <3>3. TakenOf(T, n, bs) = U \ {bs[k] : k \in 1 .. L}
      BY DEF TakenOf, U, L
    <3> QED
      BY <2>2, <2>3, <3>1, <3>2, <3>3
  <2>11. \A k \in 1 .. L + 1 : IsCollected(toks1[k], T, bs1[k][1], bs1[k][2])
    <3> TAKE k \in 1 .. L + 1
    <3>1. CASE k \in 1 .. L
      <4>1. toks1[k] = toks[k] /\ bs1[k] = bs[k]
        BY <2>5, <2>6, <3>1
      <4>2. IsCollected(toks[k], T, bs[k][1], bs[k][2])
        BY <1>4, <3>1
      <4> QED
        BY <4>1, <4>2
    <3>2. CASE k = L + 1
      <4>1. toks1[k] = blk /\ bs1[k][1] = i /\ bs1[k][2] = n + 1
        BY <2>2, <2>5, <2>6, <3>2
      <4> QED
        BY <2>8, <4>1
    <3> QED
      BY <2>7, <3>1, <3>2
  <2>12. \A j, k \in 1 .. L + 1 : j < k => bs1[j][2] < bs1[k][1]
    <3> TAKE j, k \in 1 .. L + 1
    <3> HAVE j < k
    <3>0. j \in 1 .. L
      BY <1>4, <2>7
    <3>1. bs1[j] = bs[j] /\ bs[j] \in U
      BY <1>4, <2>5, <3>0
    <3>2. CASE k \in 1 .. L
      BY <1>4, <2>5, <3>0, <3>1, <3>2
    <3>3. CASE k = L + 1
      BY <2>2, <2>5, <2>9, <3>1, <3>3
    <3> QED
      BY <2>7, <3>2, <3>3
  <2>13. \A a \in TakenOf(T, n + 1, bs1) : ItemsIn(T, a) # {} /\ \A k \in 1 .. L + 1 : a[2] < bs1[k][1]
    <3> TAKE a \in TakenOf(T, n + 1, bs1)
    <3>1. a \in TakenOf(T, n, bs) /\ a \in U
      BY <2>10 DEF TakenOf, U
    <3>2. ItemsIn(T, a) # {} /\ \A k \in 1 .. L : a[2] < bs[k][1]
      BY <1>4, <3>1
    <3>3. a[2] < i
      BY <2>9, <3>1
    <3>4. \A k \in 1 .. L : a[2] < bs1[k][1]
      BY <2>5, <3>2
    <3>5. a[2] < bs1[L + 1][1]
      BY <2>2, <2>5, <3>3
    <3> QED
      BY <2>7, <3>2, <3>4, <3>5
  <2>14. IsWaiting(tr, list, f, n + 1, toks1, m, bs1)
    BY <1>4, <2>5, <2>6, <2>10, <2>11, <2>12, <2>13 DEF IsWaiting, T
  <2> QED
    BY <2>5, <2>14 DEF V, T
<1> QED
  BY <1>5, <1>6

LEMMA BeginReading ==
    ASSUME NEW tr \in Seq(SourceFile), NEW list, NEW f \in DOMAIN tr
    PROVE  /\ IsScanning(tr[f].tokens, 0, FALSE, <<>>)
           /\ \E bs \in Seq(Upto(tr[f].tokens, 0)) : IsWaiting(tr, list, f, 0, <<>>, <<>>, bs)
<1> DEFINE T == tr[f].tokens
<1>1. T \in Seq(Token)
  <2>1. tr[f] \in SourceFile
    OBVIOUS
  <2> QED
    BY <2>1 DEF SourceFile
<1> HIDE DEF T
<1>2. 0 \in 0 .. Len(T) /\ 1 .. 0 = {}
  BY <1>1
<1>3. IsScanning(T, 0, FALSE, <<>>)
  BY <1>2 DEF IsScanning
<1>4. Upto(T, 0) = {}
  BY <1>1, BlockFacts DEF Upto
<1>5. TakenOf(T, 0, <<>>) = {} /\ {f} \X UNION {NamesOf(T, b) : b \in {}} = {}
  BY <1>4 DEF TakenOf
<1>6. <<>> \in Seq(Upto(T, 0)) /\ Len(<<>>) = 0
  OBVIOUS
<1>7. IsWaiting(tr, list, f, 0, <<>>, <<>>, <<>>)
  BY <1>2, <1>5, <1>6, NothingIsMapped DEF IsWaiting, T
<1> QED
  BY <1>3, <1>6, <1>7 DEF T

(* When no block waits any more, the map has the entries of the file. *)
LEMMA EndReading ==
    ASSUME NEW tr \in Seq(SourceFile), NEW list, NEW f \in DOMAIN tr, NEW m, NEW bs,
           IsWaiting(tr, list, f, Len(tr[f].tokens), <<>>, m, bs)
    PROVE  /\ MapIs(tr, list, m, EntriesIn(tr, f))
           /\ \A b \in BlocksIn(tr[f].tokens) : ItemsIn(tr[f].tokens, b) # {}
<1> DEFINE T == tr[f].tokens
<1>1. T \in Seq(Token)
  <2>1. tr[f] \in SourceFile
    OBVIOUS
  <2> QED
    BY <2>1 DEF SourceFile
<1> HIDE DEF T
<1>2. Upto(T, Len(T)) = BlocksIn(T)
  <2>1. \A b \in BlocksIn(T) : b[2] <= Len(T)
    BY <1>1, BlockFacts
  <2> QED
    BY <2>1 DEF Upto
<1>3. /\ Len(bs) = 0
      /\ \A b \in TakenOf(T, Len(T), bs) : ItemsIn(T, b) # {}
      /\ MapIs(tr, list, m, {f} \X UNION {NamesOf(T, b) : b \in TakenOf(T, Len(T), bs)})
  BY DEF IsWaiting, T
<1>4. TakenOf(T, Len(T), bs) = BlocksIn(T)
  BY <1>2, <1>3 DEF TakenOf
<1> QED
  BY <1>3, <1>4 DEF EntriesIn, T

(* A block without items has no names, nor has one that is no table. *)
LEMMA NamesFacts ==
    ASSUME NEW T \in Seq(Token), NEW b \in BlocksIn(T), NEW blk, IsCollected(blk, T, b[1], b[2])
    PROVE  /\ Items(blk) \in Seq(Token)
           /\ ItemsIn(T, b) = {} <=> Items(blk) = <<>>
           /\ ~IsTable(Items(blk)) => NamesOf(T, b) = {}
<1> DEFINE its == Items(blk)
           I == ItemsIn(T, b)
<1>1. PICK e : /\ IsAscent(e, I) /\ its \in Seq(Token) /\ Len(e) = Len(its)
               /\ \A r \in 1 .. Len(e) : its[r] = T[e[r]]
  BY ItemsFacts
<1>2. I \in SUBSET Nat
  BY BlockFacts
<1> HIDE DEF its, I
<1>3. Cardinality(I) = Len(its)
  BY <1>1, <1>2, RankFacts
<1>4. e \in Seq(I) /\ \A k \in I : \E r \in 1 .. Len(e) : e[r] = k
  BY <1>1 DEF IsAscent
<1>5. I = {} <=> its = <<>>
  <2>1. ASSUME I = {} PROVE its = <<>>
    <3>1. Len(e) = 0
      <4>1. Len(e) \in Nat /\ \A r \in 1 .. Len(e) : e[r] \in I
        BY <1>4
      <4>2. 1 \notin 1 .. Len(e)
        BY <2>1, <4>1
      <4> QED
        BY <4>1, <4>2
    <3>2. its \in Seq(Token) /\ Len(its) = 0
      BY <1>1, <3>1
    <3> QED
      BY <3>2
  <2>2. ASSUME its = <<>> PROVE I = {}
    <3>1. Len(e) = 0
      BY <1>1, <2>2
    <3>2. 1 .. Len(e) = {}
      BY <3>1
    <3> QED
      BY <1>4, <3>2
  <2> QED
    BY <2>1, <2>2
<1>6. ~IsTable(its) => NamesOf(T, b) = {}
  BY <1>3 DEF IsTable, NamesOf, I
<1> QED
  BY <1>1, <1>5, <1>6 DEF its, I

(* __extract_jni_block takes the first block that waits. *)
LEMMA ExtractingStep ==
    ASSUME NEW tr \in Seq(SourceFile), NEW list, NEW f \in DOMAIN tr, NEW n \in Nat,
           NEW toks \in Seq(Seq(Token)), toks # <<>>, NEW m \in MapsOf(tr),
           NEW bs \in Seq(Upto(tr[f].tokens, n)), IsWaiting(tr, list, f, n, toks, m, bs),
           Items(Head(toks)) # <<>>,
           NEW m1, m1 = IF IsTable(Items(Head(toks))) THEN WithEntries(m, Items(Head(toks)), f) ELSE m
    PROVE  /\ m1 \in MapsOf(tr)
           /\ \E bs1 \in Seq(Upto(tr[f].tokens, n)) : IsWaiting(tr, list, f, n, Tail(toks), m1, bs1)
<1> DEFINE T == tr[f].tokens
           U == Upto(T, n)
           L == Len(bs) - 1
           b == bs[1]
           rest == Tail(bs)
           its == Items(Head(toks))
<1>1. T \in Seq(Token)
  <2>1. tr[f] \in SourceFile
    OBVIOUS
  <2> QED
    BY <2>1 DEF SourceFile
<1> HIDE DEF T
<1>2. /\ Len(toks) = Len(bs)
      /\ \A i \in 1 .. Len(bs) : IsCollected(toks[i], T, bs[i][1], bs[i][2])
      /\ \A i, j \in 1 .. Len(bs) : i < j => bs[i][2] < bs[j][1]
      /\ \A a \in TakenOf(T, n, bs) : ItemsIn(T, a) # {} /\ \A i \in 1 .. Len(bs) : a[2] < bs[i][1]
      /\ MapIs(tr, list, m, {f} \X UNION {NamesOf(T, a) : a \in TakenOf(T, n, bs)})
  BY DEF IsWaiting, T
<1>3. bs \in Seq(U)
  BY DEF T
<1>4. \A a \in U : a \in BlocksIn(T)
  BY DEF Upto
<1> HIDE DEF U
<1>5. /\ L \in Nat /\ Len(bs) = L + 1 /\ rest \in Seq(U) /\ Len(rest) = L
      /\ \A i \in 1 .. L : rest[i] = bs[i + 1] /\ i + 1 \in 1 .. L + 1
      /\ \A i \in 1 .. L + 1 : bs[i] \in U
      /\ 1 \in 1 .. L + 1
  <2>1. Len(bs) \in Nat /\ Len(bs) # 0
    BY <1>2, <1>3
  <2>2. bs # <<>>
    BY <2>1
  <2> QED
    BY <1>3, <2>1, <2>2
<1>6. /\ Tail(toks) \in Seq(Seq(Token)) /\ Len(Tail(toks)) = L /\ Head(toks) = toks[1]
      /\ \A i \in 1 .. L : Tail(toks)[i] = toks[i + 1]
  BY <1>2, <1>5
<1>7. b \in U /\ b \in BlocksIn(T) /\ IsCollected(Head(toks), T, b[1], b[2])
  BY <1>2, <1>4, <1>5, <1>6
<1> HIDE DEF rest, b, L
<1>8. its \in Seq(Token) /\ ItemsIn(T, b) # {} /\ (~IsTable(its) => NamesOf(T, b) = {})
  BY <1>1, <1>7, NamesFacts
<1>9. TakenOf(T, n, rest) = TakenOf(T, n, bs) \cup {b}
  <2>1. {bs[i] : i \in 1 .. L + 1} = {rest[i] : i \in 1 .. L} \cup {b}
    <3>1. \A i \in 1 .. L + 1 : i = 1 \/ (i - 1 \in 1 .. L /\ (i - 1) + 1 = i)
      BY <1>5
    <3>2. ASSUME NEW i \in 1 .. L + 1 PROVE bs[i] \in {rest[j] : j \in 1 .. L} \cup {b}
      <4>1. CASE i = 1
        BY <4>1 DEF b
      <4>2. CASE i - 1 \in 1 .. L /\ (i - 1) + 1 = i
        BY <1>5, <4>2
      <4> QED
        BY <3>1, <4>1, <4>2
    <3>3. b \in {bs[i] : i \in 1 .. L + 1}
      BY <1>5 DEF b
    <3>4. \A i \in 1 .. L : rest[i] \in {bs[j] : j \in 1 .. L + 1}
      BY <1>5
    <3> QED
      BY <3>2, <3>3, <3>4
  <2>2. b \notin {rest[i] : i \in 1 .. L}
    <3> SUFFICES ASSUME NEW i \in 1 .. L, rest[i] = b PROVE FALSE
      OBVIOUS
    <3>1. 1 < i + 1 /\ i + 1 \in 1 .. L + 1
      BY <1>5
    <3>2. b[2] < b[1]
      BY <1>2, <1>5, <3>1 DEF b
    <3>3. b[1] < b[2] /\ b[1] \in Nat /\ b[2] \in Nat
      BY <1>1, <1>7, BlockFacts
    <3> QED
      BY <3>2, <3>3
  <2>3. TakenOf(T, n, rest) = U \ {rest[i] : i \in 1 .. L}
    BY <1>5 DEF TakenOf, U
  <2>4. TakenOf(T, n, bs) = U \ {bs[i] : i \in 1 .. L + 1}
    BY <1>5 DEF TakenOf, U
  <2> QED
    BY <1>7, <2>1, <2>2, <2>3, <2>4
<1> DEFINE E == {f} \X UNION {NamesOf(T, a) : a \in TakenOf(T, n, bs)}
           F == {f} \X UNION {NamesOf(T, a) : a \in TakenOf(T, n, rest)}
<1>10. F = E \cup ({f} \X NamesOf(T, b))
  BY <1>9
<1>11. m1 \in MapsOf(tr) /\ MapIs(tr, list, m1, F)
  <2>1. CASE IsTable(its)
    <3>1. PICK e : /\ IsAscent(e, ItemsIn(T, b)) /\ Len(e) = Len(its)
                   /\ \A r \in 1 .. Len(e) : its[r] = T[e[r]]
      BY <1>1, <1>7, ItemsFacts
    <3>2. \A d \in E : \A k \in NamesOf(T, b) : NotAfter(tr, list, d, <<f, k>>)
      <4> TAKE d \in E
      <4> TAKE k \in NamesOf(T, b)
      <4>1. PICK a \in TakenOf(T, n, bs) : d[1] = f /\ d[2] \in NamesOf(T, a)
        OBVIOUS
      <4>2. a \in BlocksIn(T) /\ a[2] < b[1]
        BY <1>2, <1>4, <1>5 DEF TakenOf, U, b
      <4>3. d[2] \in ItemsIn(T, a) /\ k \in ItemsIn(T, b)
        BY <4>1 DEF NamesOf
      <4>4. d[2] \in Nat /\ d[2] < a[2] /\ a[2] \in Nat /\ b[1] \in Nat /\ b[1] < k /\ k \in Nat
        BY <1>1, <1>7, <4>2, <4>3, BlockFacts
      <4>5. d[2] <= k
        BY <4>2, <4>4
      <4> QED
        BY <4>1, <4>5 DEF NotAfter
    <3>3. MapIs(tr, list, m, E)
      BY <1>2
    <3> HIDE DEF E, F, its
    <3>4. WithEntries(m, its, f) \in MapsOf(tr)
          /\ MapIs(tr, list, WithEntries(m, its, f), E \cup ({f} \X NamesOf(T, b)))
      BY <1>7, <1>8, <2>1, <3>1, <3>2, <3>3, TableFacts DEF T
    <3> QED
      BY <1>10, <2>1, <3>4 DEF its
  <2>2. CASE ~IsTable(its)
    <3>1. F = E
      BY <1>8, <1>10, <2>2
    <3> QED
      BY <1>2, <2>2, <3>1
  <2> QED
    BY <2>1, <2>2
<1>12. IsWaiting(tr, list, f, n, Tail(toks), m1, rest)
  <2>1. \A i \in 1 .. L : IsCollected(Tail(toks)[i], T, rest[i][1], rest[i][2])
    BY <1>2, <1>5, <1>6
  <2>2. \A i, j \in 1 .. L : i < j => rest[i][2] < rest[j][1]
    <3> TAKE i, j \in 1 .. L
    <3> HAVE i < j
    <3>1. i + 1 \in 1 .. Len(bs) /\ j + 1 \in 1 .. Len(bs) /\ i + 1 < j + 1
      BY <1>5
    <3>2. bs[i + 1][2] < bs[j + 1][1]
      BY <1>2, <3>1
    <3> QED
      BY <1>5, <3>2
  <2>3. \A a \in TakenOf(T, n, rest) : ItemsIn(T, a) # {} /\ \A i \in 1 .. L : a[2] < rest[i][1]
    <3> TAKE a \in TakenOf(T, n, rest)
    <3>1. CASE a = b
      <4>1. \A i \in 1 .. L : 1 < i + 1
        BY <1>5
      <4> QED
        BY <1>2, <1>5, <1>8, <3>1, <4>1 DEF b
    <3>2. CASE a \in TakenOf(T, n, bs)
      BY <1>2, <1>5, <3>2
    <3> QED
      BY <1>9, <3>1, <3>2
  <2> QED
    BY <1>5, <1>6, <1>11, <2>1, <2>2, <2>3 DEF IsWaiting, T
<1>13. rest \in Seq(Upto(tr[f].tokens, n))
  BY <1>5 DEF U, T
<1> QED
  BY <1>11, <1>12, <1>13

-----------------------------------------------------------------------------
(***************************************************************************)
(* THE INVARIANT                                                           *)
(***************************************************************************)
Types ==
    /\ tree \in Seq(SourceFile)
    /\ fileList \in Seq(DOMAIN tree) /\ todo \in Seq(DOMAIN tree)
    /\ parsing \in DOMAIN tree \cup {0} /\ tk \in Nat
    /\ extractJni \in BOOLEAN /\ jniBlock \in Seq(Token) /\ jniTokens \in Seq(Seq(Token))
    /\ jniMap \in MapsOf(tree) /\ jniBridgeMap \in MapsOf(tree)
    /\ outcome \in {"scanning", "running", "saved", "crashed"}
    /\ unparsed \subseteq DOMAIN tree

(* What the running parser has read and collected of its file. *)
ReadInv ==
    /\ IsScanning(tree[parsing].tokens, tk, extractJni, jniBlock)
    /\ \E bs \in Seq(Upto(tree[parsing].tokens, tk)) :
          IsWaiting(tree, fileList, parsing, tk, jniTokens, jniMap, bs)

FilesInv ==
    /\ outcome = "scanning" => todo = <<>> /\ parsing = 0 /\ jniBridgeMap = <<>> /\ unparsed = {}
    /\ outcome \in {"running", "saved"} \/ file # Old =>
          IsProgress(tree, fileList, todo, parsing, unparsed, jniBridgeMap)
    /\ outcome = "running" /\ parsing # 0 => ReadInv

FileInv ==
    /\ outcome = "saved" \/ file # Old => todo = <<>> /\ parsing = 0
    /\ outcome = "saved" => file = jniBridgeMap
    /\ outcome \in {"scanning", "running"} => file = Old
    /\ outcome = "crashed" => file \in {Old, Torn}

MapInv == Types /\ FilesInv /\ FileInv

LEMMA MapsAreMaps == ASSUME NEW m \in MapsOf(tree) PROVE IsMap(m)
  BY MapsOfFacts DEF IsMap

LEMMA InitMapInv == Init => MapInv
<1> SUFFICES ASSUME Init PROVE MapInv
  OBVIOUS
<1>1. <<>> \in MapsOf(tree)
  <2>1. DOMAIN <<>> = {} /\ <<>> = [c \in {} |-> <<>>[c]]
    OBVIOUS
  <2> QED
    BY <2>1, MapsOfFacts
<1>2. /\ fileList = <<>> /\ todo = <<>> /\ parsing = 0 /\ tk = 0 /\ extractJni = FALSE
      /\ jniBlock = <<>> /\ jniTokens = <<>> /\ jniMap = <<>> /\ jniBridgeMap = <<>>
      /\ outcome = "scanning" /\ file = Old /\ unparsed = {}
  BY DEF Init
<1>3. Types
  <2>1. tree \in Seq(SourceFile)
    BY TreesAssumption DEF Init
  <2>2. fileList \in Seq(DOMAIN tree) /\ todo \in Seq(DOMAIN tree)
    BY <1>2
  <2>3. jniBlock \in Seq(Token) /\ jniTokens \in Seq(Seq(Token))
    BY <1>2
  <2>4. jniMap \in MapsOf(tree) /\ jniBridgeMap \in MapsOf(tree)
    BY <1>1, <1>2
  <2>5. /\ parsing \in DOMAIN tree \cup {0} /\ tk \in Nat /\ extractJni \in BOOLEAN
        /\ outcome \in {"scanning", "running", "saved", "crashed"} /\ unparsed \subseteq DOMAIN tree
    BY <1>2
  <2> QED
    BY <2>1, <2>2, <2>3, <2>4, <2>5 DEF Types
<1>4. FilesInv /\ FileInv
  BY <1>2 DEF FilesInv, FileInv
<1> QED
  BY <1>3, <1>4 DEF MapInv

(* Every file that is to come is a file of the directory. *)
LEMMA FilesAreFiles == ASSUME NEW tr, NEW td \in Seq(CppIn(tr)) PROVE td \in Seq(DOMAIN tr)
<1>1. \A i \in 1 .. Len(td) : td[i] \in DOMAIN tr
  <2>1. \A i \in 1 .. Len(td) : td[i] \in CppIn(tr)
    OBVIOUS
  <2> QED
    BY <2>1 DEF CppIn
<1>2. td = [i \in 1 .. Len(td) |-> td[i]] /\ Len(td) \in Nat
  OBVIOUS
<1> QED
  BY <1>1, <1>2

LEMMA ScanFilesInv == MapInv /\ ScanFiles => MapInv'
<1> SUFFICES ASSUME MapInv, ScanFiles PROVE MapInv'
  OBVIOUS
<1>1. /\ outcome = "scanning" /\ outcome' = "running" /\ parsing = 0
      /\ UNCHANGED <<tree, parsing, tk, extractJni, jniBlock, jniTokens, jniMap, jniBridgeMap, file, unparsed>>
      /\ jniBridgeMap = <<>> /\ unparsed = {}
  BY DEF ScanFiles, MapInv, FilesInv, parserVars
<1>2. PICK list \in Orders(TargetFiles) : fileList' = list /\ todo' = GetCppFiles(list)
  BY DEF ScanFiles
<1>3. tree \in Seq(SourceFile)
  BY DEF MapInv, Types
<1>4. IsScan(tree, list)
  BY <1>2, <1>3, OrdersAreScans
<1>5. IsPart(tree, list, todo', 1, 4)
  BY <1>2, <1>4, FilesInOrder
<1>6. IsProgress(tree, list, todo', 0, {}, <<>>)
  BY <1>4, <1>5, BeginProgress
<1>7. fileList' \in Seq(DOMAIN tree) /\ todo' \in Seq(DOMAIN tree)
  BY <1>2, <1>4, <1>5, FilesAreFiles DEF IsScan, IsPart
<1>8. Types'
  BY <1>1, <1>7 DEF MapInv, Types
<1>9. FilesInv'
  BY <1>1, <1>2, <1>6 DEF FilesInv
<1>10. FileInv'
  BY <1>1 DEF MapInv, FileInv
<1> QED
  BY <1>8, <1>9, <1>10 DEF MapInv

(* What is left of the state when the program crashes is of no use. *)
LEMMA CrashInv ==
    ASSUME MapInv, outcome \in {"scanning", "running"}, outcome' = "crashed",
           UNCHANGED <<tree, fileList, todo, parsing, tk, extractJni, jniBlock, jniTokens, jniMap,
                       jniBridgeMap, file, unparsed>>
    PROVE  MapInv'
<1>1. Types'
  BY DEF MapInv, Types
<1>2. FilesInv' /\ FileInv'
  BY DEF MapInv, FilesInv, FileInv
<1> QED
  BY <1>1, <1>2 DEF MapInv

(* The first of the files that are still to come. *)
LEMMA NextFileFacts ==
    ASSUME MapInv, Idle, todo # <<>>
    PROVE  /\ tree \in Seq(SourceFile)
           /\ IsProgress(tree, fileList, todo, 0, unparsed, jniBridgeMap)
           /\ Tail(todo) \in Seq(DOMAIN tree) /\ Head(todo) \in DOMAIN tree
<1>1. tree \in Seq(SourceFile) /\ todo \in Seq(DOMAIN tree)
  BY DEF MapInv, Types
<1>2. IsProgress(tree, fileList, todo, 0, unparsed, jniBridgeMap)
  BY DEF MapInv, FilesInv, Idle, Running
<1> QED
  BY <1>1, <1>2

LEMMA SkipFileInv == MapInv /\ SkipFile => MapInv'
<1> SUFFICES ASSUME MapInv, SkipFile PROVE MapInv'
  OBVIOUS
<1>1. /\ Idle /\ todo # <<>> /\ ~tree[Head(todo)].check /\ todo' = Tail(todo)
      /\ UNCHANGED <<tree, fileList, parsing, tk, extractJni, jniBlock, jniTokens, jniMap,
                     jniBridgeMap, outcome, file, unparsed>>
      /\ outcome = "running" /\ parsing = 0
  BY DEF SkipFile, parserVars, Idle, Running
<1>2. IsProgress(tree, fileList, Tail(todo), 0, unparsed, jniBridgeMap)
  BY <1>1, NextFileFacts, SkipProgress
<1>3. Types'
  BY <1>1, NextFileFacts DEF MapInv, Types
<1>4. FilesInv' /\ FileInv'
  BY <1>1, <1>2 DEF MapInv, FilesInv, FileInv
<1> QED
  BY <1>3, <1>4 DEF MapInv

LEMMA ParseFailsInv == MapInv /\ ParseFails => MapInv'
<1> SUFFICES ASSUME MapInv, ParseFails PROVE MapInv'
  OBVIOUS
<1>1. /\ Idle /\ todo # <<>> /\ todo' = Tail(todo) /\ unparsed' = unparsed \cup {Head(todo)}
      /\ UNCHANGED <<tree, fileList, parsing, tk, extractJni, jniBlock, jniTokens, jniMap,
                     jniBridgeMap, outcome, file>>
      /\ outcome = "running" /\ parsing = 0
  BY DEF ParseFails, parserVars, Idle, Running
<1>2. IsProgress(tree, fileList, Tail(todo), 0, unparsed', jniBridgeMap)
  BY <1>1, NextFileFacts, SkipProgress
<1>3. Types'
  <2>1. unparsed' \subseteq DOMAIN tree
    BY <1>1, NextFileFacts DEF MapInv, Types
  <2> QED
    BY <1>1, <2>1, NextFileFacts DEF MapInv, Types
<1>4. FilesInv' /\ FileInv'
  BY <1>1, <1>2 DEF MapInv, FilesInv, FileInv
<1> QED
  BY <1>3, <1>4 DEF MapInv

LEMMA ParseOneInv == MapInv /\ ParseOne => MapInv'
<1> SUFFICES ASSUME MapInv, ParseOne PROVE MapInv'
  OBVIOUS
<1>1. /\ Idle /\ todo # <<>> /\ tree[Head(todo)].check
      /\ todo' = Tail(todo) /\ parsing' = Head(todo)
      /\ tk' = 0 /\ extractJni' = FALSE /\ jniBlock' = <<>> /\ jniTokens' = <<>> /\ jniMap' = <<>>
      /\ UNCHANGED <<tree, fileList, jniBridgeMap, outcome, file, unparsed>>
      /\ outcome = "running" /\ parsing = 0
  BY DEF ParseOne, Idle, Running
<1>2. IsProgress(tree, fileList, Tail(todo), Head(todo), unparsed, jniBridgeMap)
  BY <1>1, NextFileFacts, ParseProgress
<1>3. <<>> \in MapsOf(tree)
  <2>1. DOMAIN <<>> = {} /\ <<>> = [c \in {} |-> <<>>[c]]
    OBVIOUS
  <2> QED
    BY <2>1, MapsOfFacts
<1>4. Types'
  <2>1. todo' \in Seq(DOMAIN tree) /\ parsing' \in DOMAIN tree
    BY <1>1, NextFileFacts
  <2>2. jniBlock' \in Seq(Token) /\ jniTokens' \in Seq(Seq(Token)) /\ tk' \in Nat
        /\ extractJni' \in BOOLEAN
    <3>1. <<>> \in Seq(Token) /\ <<>> \in Seq(Seq(Token)) /\ 0 \in Nat
      OBVIOUS
    <3>2. jniBlock' = <<>> /\ jniTokens' = <<>> /\ tk' = 0 /\ extractJni' = FALSE
      BY <1>1
    <3> QED
      BY <3>1, <3>2
  <2>3. jniMap' \in MapsOf(tree)
    BY <1>1, <1>3
  <2>4. /\ tree \in Seq(SourceFile) /\ fileList \in Seq(DOMAIN tree) /\ jniBridgeMap \in MapsOf(tree)
        /\ outcome \in {"scanning", "running", "saved", "crashed"} /\ unparsed \subseteq DOMAIN tree
    BY DEF MapInv, Types
  <2>5. UNCHANGED <<tree, fileList, jniBridgeMap, outcome, unparsed>>
    BY <1>1
  <2> QED
    BY <2>1, <2>2, <2>3, <2>4, <2>5 DEF Types
<1>5. ReadInv'
  <2>1. /\ IsScanning(tree[Head(todo)].tokens, 0, FALSE, <<>>)
        /\ \E bs \in Seq(Upto(tree[Head(todo)].tokens, 0)) :
              IsWaiting(tree, fileList, Head(todo), 0, <<>>, <<>>, bs)
    BY <1>1, NextFileFacts, BeginReading
  <2> QED
    BY <1>1, <2>1 DEF ReadInv
<1>6. FilesInv' /\ FileInv'
  BY <1>1, <1>2, <1>5 DEF MapInv, FilesInv, FileInv
<1> QED
  BY <1>4, <1>6 DEF MapInv

LEMMA ParsingFacts ==
    ASSUME MapInv, Running, parsing # 0
    PROVE  /\ parsing \in DOMAIN tree /\ tree[parsing].tokens \in Seq(Token)
           /\ tree \in Seq(SourceFile) /\ outcome = "running" /\ ReadInv
           /\ IsProgress(tree, fileList, todo, parsing, unparsed, jniBridgeMap)
<1>1. parsing \in DOMAIN tree /\ tree \in Seq(SourceFile)
  BY DEF MapInv, Types
<1>2. tree[parsing] \in SourceFile
  BY <1>1
<1> QED
  BY <1>1, <1>2 DEF MapInv, FilesInv, Running, SourceFile

LEMMA ReadTokenInv == MapInv /\ ReadToken => MapInv'
<1> SUFFICES ASSUME MapInv, ReadToken PROVE MapInv'
  OBVIOUS
<1> DEFINE T == tree[parsing].tokens
           t == T[tk + 1]
           starts == t.spelling = JNINativeMethod
           block == IF starts THEN <<>> ELSE jniBlock
           inside == extractJni \/ starts
<1>1. Running /\ parsing # 0 /\ tk < Len(T)
  BY DEF ReadToken, Reading, Tokens
<1>2. /\ extractJni' = (inside /\ t.spelling # Semicolon)
      /\ jniTokens' = IF inside /\ t.spelling = Semicolon THEN Append(jniTokens, block) ELSE jniTokens
      /\ jniBlock' = IF inside /\ t.spelling # Semicolon THEN Append(block, t) ELSE block
      /\ tk' = tk + 1
      /\ UNCHANGED <<tree, fileList, todo, parsing, jniMap, jniBridgeMap, outcome, file, unparsed>>
  BY DEF ReadToken, Tokens
<1>3. /\ parsing \in DOMAIN tree /\ T \in Seq(Token) /\ tree \in Seq(SourceFile) /\ outcome = "running"
      /\ ReadInv /\ IsProgress(tree, fileList, todo, parsing, unparsed, jniBridgeMap)
  BY <1>1, ParsingFacts
<1>4. /\ extractJni \in BOOLEAN /\ jniBlock \in Seq(Token) /\ jniTokens \in Seq(Seq(Token))
      /\ tk \in Nat
  BY DEF MapInv, Types
<1>5. PICK bs \in Seq(Upto(T, tk)) : IsWaiting(tree, fileList, parsing, tk, jniTokens, jniMap, bs)
  BY <1>3 DEF ReadInv
<1>6. IsScanning(T, tk, extractJni, jniBlock)
  BY <1>3 DEF ReadInv
<1> HIDE DEF T
<1>7. tk \in 0 .. Len(T) - 1 /\ t \in Token
  BY <1>1, <1>3, <1>4
<1>8. JNINativeMethod # Semicolon
  BY DistinctAssumption
<1>9. starts \in BOOLEAN
  OBVIOUS
<1> HIDE DEF t
<1>10. block \in Seq(Token) /\ (inside /\ t.spelling # Semicolon) \in BOOLEAN
  BY <1>4
<1>11. jniBlock' \in Seq(Token) /\ extractJni' \in BOOLEAN /\ jniTokens' \in Seq(Seq(Token)) /\ tk' \in Nat
  BY <1>2, <1>4, <1>7, <1>10
<1>12. (extractJni' /\ starts => jniBlock' = Append(<<>>, t))
       /\ (extractJni' /\ ~starts => jniBlock' = Append(jniBlock, t))
       /\ (extractJni' <=> (extractJni \/ starts) /\ t.spelling # Semicolon)
  BY <1>2
<1>13. jniTokens' = IF extractJni /\ t.spelling = Semicolon THEN Append(jniTokens, jniBlock) ELSE jniTokens
  BY <1>2, <1>8
<1>14. IsScanning(T, tk', extractJni', jniBlock')
  <2> DEFINE s == starts
  <2>1. s \in BOOLEAN /\ (s <=> T[tk + 1].spelling = JNINativeMethod)
    BY DEF t
  <2>2. (extractJni' /\ s => jniBlock' = Append(<<>>, T[tk + 1]))
        /\ (extractJni' /\ ~s => jniBlock' = Append(jniBlock, T[tk + 1]))
        /\ (extractJni' <=> (extractJni \/ s) /\ T[tk + 1].spelling # Semicolon)
    BY <1>12 DEF t
  <2> HIDE DEF s
  <2>3. IsScanning(T, tk + 1, extractJni', jniBlock')
    BY <1>3, <1>4, <1>6, <1>7, <1>11, <2>1, <2>2, ScanningStep
  <2> QED
    BY <1>2, <2>3
<1>15. \E bs1 \in Seq(Upto(T, tk')) : IsWaiting(tree, fileList, parsing, tk', jniTokens', jniMap, bs1)
  <2>1. \E bs1 \in Seq(Upto(T, tk + 1)) : IsWaiting(tree, fileList, parsing, tk + 1, jniTokens', jniMap, bs1)
    BY <1>3, <1>4, <1>5, <1>6, <1>7, <1>13, WaitingStep DEF T, t
  <2> QED
    BY <1>2, <2>1
<1>16. ReadInv'
  BY <1>2, <1>14, <1>15 DEF ReadInv, T
<1>17. Types'
  BY <1>2, <1>11 DEF MapInv, Types
<1>18. FilesInv' /\ FileInv'
  BY <1>2, <1>3, <1>16 DEF MapInv, FilesInv, FileInv
<1> QED
  BY <1>17, <1>18 DEF MapInv

LEMMA ExtractJniBlockInv == MapInv /\ ExtractJniBlock => MapInv'
<1> SUFFICES ASSUME MapInv, ExtractJniBlock PROVE MapInv'
  OBVIOUS
<1> DEFINE its == Items(Head(jniTokens))
           T == tree[parsing].tokens
<1>1. /\ Running /\ parsing # 0 /\ jniTokens # <<>> /\ its # <<>>
      /\ jniMap' = IF IsTable(its) THEN WithEntries(jniMap, its, parsing) ELSE jniMap
      /\ jniTokens' = Tail(jniTokens)
      /\ UNCHANGED <<tree, fileList, todo, parsing, tk, extractJni, jniBlock, jniBridgeMap, outcome, file, unparsed>>
  BY DEF ExtractJniBlock, Extracting
<1>2. /\ parsing \in DOMAIN tree /\ tree \in Seq(SourceFile) /\ outcome = "running"
      /\ ReadInv /\ IsProgress(tree, fileList, todo, parsing, unparsed, jniBridgeMap)
  BY <1>1, ParsingFacts
<1>3. jniTokens \in Seq(Seq(Token)) /\ tk \in Nat /\ jniMap \in MapsOf(tree)
  BY DEF MapInv, Types
<1>4. PICK bs \in Seq(Upto(T, tk)) : IsWaiting(tree, fileList, parsing, tk, jniTokens, jniMap, bs)
  BY <1>2 DEF ReadInv
<1>5. /\ jniMap' \in MapsOf(tree)
      /\ \E bs1 \in Seq(Upto(T, tk)) : IsWaiting(tree, fileList, parsing, tk, Tail(jniTokens), jniMap', bs1)
  BY <1>1, <1>2, <1>3, <1>4, ExtractingStep
<1> HIDE DEF its
<1>6. Tail(jniTokens) \in Seq(Seq(Token))
  BY <1>1, <1>3
<1>7. ReadInv'
  BY <1>1, <1>2, <1>5 DEF ReadInv
<1>8. Types'
  BY <1>1, <1>5, <1>6 DEF MapInv, Types
<1>9. FilesInv' /\ FileInv'
  BY <1>1, <1>2, <1>7 DEF MapInv, FilesInv, FileInv
<1> QED
  BY <1>8, <1>9 DEF MapInv

LEMMA UpdateInv == MapInv /\ Update => MapInv'
<1> SUFFICES ASSUME MapInv, Update PROVE MapInv'
  OBVIOUS
<1> DEFINE T == tree[parsing].tokens
<1>1. /\ Running /\ parsing # 0 /\ tk = Len(T) /\ jniTokens = <<>>
      /\ jniBridgeMap' = Updated(jniBridgeMap, jniMap) /\ parsing' = 0
      /\ UNCHANGED <<tree, fileList, todo, tk, extractJni, jniBlock, jniTokens, jniMap, outcome, file, unparsed>>
  BY DEF Update, Tokens, parserVars
<1>2. /\ parsing \in DOMAIN tree /\ tree \in Seq(SourceFile) /\ outcome = "running"
      /\ ReadInv /\ IsProgress(tree, fileList, todo, parsing, unparsed, jniBridgeMap)
  BY <1>1, ParsingFacts
<1>3. jniMap \in MapsOf(tree) /\ jniBridgeMap \in MapsOf(tree)
  BY DEF MapInv, Types
<1>4. PICK bs : IsWaiting(tree, fileList, parsing, Len(T), <<>>, jniMap, bs)
  BY <1>1, <1>2 DEF ReadInv
<1>5. MapIs(tree, fileList, jniMap, EntriesIn(tree, parsing)) /\ \A b \in BlocksIn(T) : ItemsIn(T, b) # {}
  BY <1>2, <1>4, EndReading
<1>6. IsProgress(tree, fileList, todo, 0, unparsed, jniBridgeMap')
  BY <1>1, <1>2, <1>5, UpdateProgress
<1>7. jniBridgeMap' \in MapsOf(tree)
  BY <1>1, <1>3, UpdatedMaps
<1>8. Types'
  BY <1>1, <1>7 DEF MapInv, Types
<1>9. FilesInv' /\ FileInv'
  BY <1>1, <1>2, <1>6 DEF MapInv, FilesInv, FileInv
<1> QED
  BY <1>8, <1>9 DEF MapInv

LEMMA WriteJsonInv == MapInv /\ WriteJson => MapInv'
<1> SUFFICES ASSUME MapInv, WriteJson PROVE MapInv'
  OBVIOUS
<1>1. /\ outcome = "running" /\ parsing = 0 /\ todo = <<>> /\ file' = jniBridgeMap /\ outcome' = "saved"
      /\ UNCHANGED <<tree, fileList, todo, parsing, tk, extractJni, jniBlock, jniTokens, jniMap,
                     jniBridgeMap, unparsed>>
  BY DEF WriteJson, Idle, Running, parserVars
<1>2. Types'
  BY <1>1 DEF MapInv, Types
<1>3. FilesInv' /\ FileInv'
  BY <1>1 DEF MapInv, FilesInv, FileInv
<1> QED
  BY <1>2, <1>3 DEF MapInv

(* A map that is not written stays in memory as it is. *)
LEMMA WriteFailsInv == MapInv /\ WriteFails => MapInv'
<1> SUFFICES ASSUME MapInv, WriteFails PROVE MapInv'
  OBVIOUS
<1>1. /\ outcome = "running" /\ parsing = 0 /\ todo = <<>> /\ file' \in {file, Torn}
      /\ outcome' = "crashed" /\ file = Old
      /\ UNCHANGED <<tree, fileList, todo, parsing, tk, extractJni, jniBlock, jniTokens, jniMap,
                     jniBridgeMap, unparsed>>
  BY DEF WriteFails, Idle, Running, parserVars, MapInv, FileInv
<1>2. Types'
  BY <1>1 DEF MapInv, Types
<1>3. FilesInv' /\ FileInv'
  BY <1>1 DEF MapInv, FilesInv, FileInv
<1> QED
  BY <1>2, <1>3 DEF MapInv

LEMMA NextMapInv == MapInv /\ [Next]_vars => MapInv'
<1> SUFFICES ASSUME MapInv, [Next]_vars PROVE MapInv'
  OBVIOUS
<1>1. CASE ScanFails
  BY <1>1, CrashInv DEF ScanFails, parserVars
<1>2. CASE CreateFails
  BY <1>2, CrashInv DEF CreateFails, Idle, Running, parserVars
<1>3. CASE PopFails
  BY <1>3, CrashInv DEF PopFails, Extracting, Running, parserVars
<1>4. CASE UNCHANGED vars
  <2>1. UNCHANGED <<tree, fileList, todo, parsing, tk, extractJni, jniBlock, jniTokens, jniMap,
                    jniBridgeMap, outcome, file, unparsed>>
    BY <1>4 DEF vars
  <2>2. Types' /\ FileInv' /\ ReadInv' = ReadInv
    BY <2>1 DEF MapInv, Types, FileInv, ReadInv
  <2>3. FilesInv'
    BY <2>1, <2>2 DEF MapInv, FilesInv
  <2> QED
    BY <2>2, <2>3 DEF MapInv
<1> QED
  BY <1>1, <1>2, <1>3, <1>4, ScanFilesInv, SkipFileInv, ParseFailsInv, ParseOneInv, ReadTokenInv,
     ExtractJniBlockInv, UpdateInv, WriteJsonInv, WriteFailsInv DEF Next

(* In every reachable state the maps hold what was read so far. *)
THEOREM JniInvariance == Spec => []MapInv
<1> QED
  BY InitMapInv, NextMapInv, PTL DEF Spec

-----------------------------------------------------------------------------
(***************************************************************************)
(* WHAT IS SAVED                                                           *)
(***************************************************************************)

(***************************************************************************)
(* All maps, those of the parsers, the collected and the saved one, lead   *)
(* from spellings to a file of the directory and a spelling.               *)
(***************************************************************************)
THEOREM JniTypeCorrect == Spec => []TypeOK
<1>1. MapInv => TypeOK
  <2> SUFFICES ASSUME MapInv PROVE TypeOK
    OBVIOUS
  <2>1. IsMap(jniMap) /\ IsMap(jniBridgeMap)
    BY MapsAreMaps DEF MapInv, Types
  <2>2. file \in {Old, Torn} \/ file = jniBridgeMap
    BY DEF MapInv, FileInv, Types
  <2> QED
    BY <2>1, <2>2 DEF MapInv, Types, TypeOK
<1> QED
  BY <1>1, JniInvariance, PTL

(* When the map gets written, the entries of all parsed files are in it. *)
LEMMA WrittenFacts ==
    ASSUME MapInv, file # Old
    PROVE  /\ tree \in Seq(SourceFile) /\ IsScan(tree, fileList)
           /\ Parsed \subseteq CppIn(tree)
           /\ MapIs(tree, fileList, jniBridgeMap, UNION {EntriesOf(f) : f \in Parsed})
           /\ \A f \in Parsed : \A b \in BlocksIn(tree[f].tokens) : ItemsIn(tree[f].tokens, b) # {}
<1>1. todo = <<>> /\ parsing = 0 /\ tree \in Seq(SourceFile)
  BY DEF MapInv, FileInv, Types
<1>2. IsProgress(tree, fileList, <<>>, 0, unparsed, jniBridgeMap)
  BY <1>1 DEF MapInv, FilesInv
<1>3. Ahead(<<>>, 0) = {}
  BY DEF Ahead
<1>4. ReadOf(tree, <<>>, 0, unparsed) = Parsed
  BY <1>3 DEF ReadOf, DoneOf, CppIn, Parsed
<1>5. Parsed \subseteq CppIn(tree)
  BY DEF CppIn, Parsed
<1>6. AllEntries(tree, Parsed) = UNION {EntriesOf(f) : f \in Parsed}
  BY DEF AllEntries, EntriesIn, EntriesOf
<1>7. /\ MapIs(tree, fileList, jniBridgeMap, AllEntries(tree, Parsed))
      /\ \A f \in Parsed : \A b \in BlocksIn(tree[f].tokens) : ItemsIn(tree[f].tokens, b) # {}
      /\ IsScan(tree, fileList)
  BY <1>2, <1>4 DEF IsProgress
<1> QED
  BY <1>1, <1>5, <1>6, <1>7

(* A map that was saved is the one in memory. *)
LEMMA SavedFacts ==
    ASSUME MapInv, file \notin {Old, Torn}
    PROVE  file = jniBridgeMap /\ file \in MapsOf(tree)
<1>1. outcome = "saved"
  BY DEF MapInv, FileInv, Types
<1> QED
  BY <1>1 DEF MapInv, FileInv, Types

(***************************************************************************)
(* When a map is written no file that was parsed had a block without a     *)
(* name; in every outcome but "saved" data/jni.json is what it was, or     *)
(* torn by a write that failed.                                            *)
(***************************************************************************)
THEOREM NamelessBlockCorrect == Spec => []NamelessBlockLosesAll
<1>1. MapInv => NamelessBlockLosesAll
  <2>1. MapInv => (outcome # "saved" => file \in {Old, Torn})
    BY DEF MapInv, FileInv, Types
  <2> QED
    BY <2>1, WrittenFacts DEF NamelessBlockLosesAll
<1> QED
  BY <1>1, JniInvariance, PTL

(* An entry is a pair of a file and a position in it. *)
LEMMA EntriesArePairs ==
    ASSUME tree \in Seq(SourceFile), NEW f \in Parsed, NEW e \in EntriesOf(f)
    PROVE  e = <<f, e[2]>> /\ e[1] = f /\ e[2] \in Nat
<1>1. f \in DOMAIN tree /\ tree[f] \in SourceFile
  BY DEF Parsed
<1>2. tree[f].tokens \in Seq(Token)
  BY <1>1 DEF SourceFile
<1> DEFINE T == tree[f].tokens
<1>3. PICK k \in UNION {NamesOf(T, b) : b \in BlocksIn(T)} : e = <<f, k>>
  BY DEF EntriesOf
<1>4. PICK b \in BlocksIn(T) : k \in NamesOf(T, b)
  BY <1>3
<1>5. k \in ItemsIn(T, b) /\ T \in Seq(Token)
  BY <1>2, <1>4 DEF NamesOf
<1> HIDE DEF T
<1>6. k \in Nat
  BY <1>4, <1>5, BlockFacts
<1> QED
  BY <1>3, <1>6

(***************************************************************************)
(* The entry that decides a name is the last one that there is for it.     *)
(***************************************************************************)
LEMMA DecidingIsLast ==
    ASSUME MapInv, file \notin {Old, Torn}, NEW c \in DOMAIN file
    PROVE  /\ Naming(c) # {}
           /\ file[c] = [cpp |-> Last(Naming(c))[1],
                         java |-> JavaIn(tree[Last(Naming(c))[1]].tokens, Last(Naming(c))[2])]
<1> DEFINE E == UNION {EntriesOf(f) : f \in Parsed}
           IsLast(x) == x \in Naming(c)
                        /\ \A d \in Naming(c) : (d[1] = x[1] /\ d[2] <= x[2]) \/ Later(x[1], d[1])
<1>1. /\ tree \in Seq(SourceFile) /\ IsScan(tree, fileList) /\ Parsed \subseteq CppIn(tree)
      /\ MapIs(tree, fileList, file, E)
  BY WrittenFacts, SavedFacts
<1>2. \A x : x \in Naming(c) <=> x \in E /\ SpellingAt(tree, x) = c
  BY DEF Naming, SpellingAt
<1>3. ASSUME NEW x \in E PROVE x = <<x[1], x[2]>> /\ x[1] \in CppIn(tree) /\ x[2] \in Nat
  <2>1. PICK f \in Parsed : x \in EntriesOf(f)
    OBVIOUS
  <2> QED
    BY <1>1, <2>1, EntriesArePairs
<1>4. ASSUME NEW f, NEW g PROVE Later(f, g) <=> LaterIn(tree, fileList, f, g)
  BY DEF Later, LaterIn, ExtRank, ExtRankIn, PlaceOf, PlaceIn
<1> HIDE DEF E
<1>5. PICK e \in E : Decides(tree, fileList, file, E, c, e)
  BY <1>1 DEF MapIs
<1>6. e \in Naming(c) /\ file[c] = ValueAt(tree, e)
  BY <1>2, <1>5 DEF Decides
<1>7. \A d \in Naming(c) : (d[1] = e[1] /\ d[2] <= e[2]) \/ Later(e[1], d[1])
  BY <1>2, <1>4, <1>5 DEF Decides, NotAfter
<1>8. ASSUME NEW x, IsLast(x) PROVE x = e
  <2>1. x \in E
    BY <1>2, <1>8
  <2>2. /\ x = <<x[1], x[2]>> /\ x[1] \in CppIn(tree) /\ x[2] \in Nat
        /\ e = <<e[1], e[2]>> /\ e[1] \in CppIn(tree) /\ e[2] \in Nat
    BY <1>3, <2>1
  <2>3. (e[1] = x[1] /\ e[2] <= x[2]) \/ LaterIn(tree, fileList, x[1], e[1])
    BY <1>4, <1>6, <1>8
  <2>4. (x[1] = e[1] /\ x[2] <= e[2]) \/ LaterIn(tree, fileList, e[1], x[1])
    BY <1>4, <1>7, <1>8
  <2>5. x[1] = e[1] /\ x[2] <= e[2] /\ e[2] <= x[2]
    BY <1>1, <2>2, <2>3, <2>4, LaterIsStrict
  <2>6. x[2] = e[2]
    BY <2>2, <2>5
  <2> QED
    BY <2>2, <2>5, <2>6
<1>9. IsLast(e)
  BY <1>6, <1>7
<1>10. Last(Naming(c)) = e
  <2>1. Last(Naming(c)) = CHOOSE x \in Naming(c) :
           \A d \in Naming(c) : (d[1] = x[1] /\ d[2] <= x[2]) \/ Later(x[1], d[1])
    BY DEF Last
  <2>2. IsLast(Last(Naming(c)))
    BY <1>9, <2>1
  <2> QED
    BY <1>8, <2>2
<1> QED
  BY <1>6, <1>10 DEF ValueAt

(***************************************************************************)
(* For every directory, every order of its files and whatever their tokens *)
(* are, a saved map has just the names that the tables of the parsed files *)
(* have, and each leads to the last entry for it.                          *)
(***************************************************************************)
THEOREM SavedMapCorrect == Spec => []SavedMapIsExact
<1>1. MapInv => SavedMapIsExact
  <2> SUFFICES ASSUME MapInv, file \notin {Old, Torn} PROVE SavedMapIsExact
    BY DEF SavedMapIsExact
  <2>1. DOMAIN file = {c \in Spelling : Naming(c) # {}}
    <3>1. DOMAIN file \subseteq Spelling
      BY SavedFacts, MapsOfFacts
    <3>2. \A c : c \in DOMAIN file <=> \E e \in UNION {EntriesOf(f) : f \in Parsed} : SpellingAt(tree, e) = c
      BY WrittenFacts, SavedFacts DEF MapIs
    <3>3. \A c : Naming(c) # {} <=> \E e \in UNION {EntriesOf(f) : f \in Parsed} : SpellingAt(tree, e) = c
      BY DEF Naming, SpellingAt
    <3> QED
      BY <3>1, <3>2, <3>3
  <2>2. \A c \in DOMAIN file :
           LET e == Last(Naming(c)) IN file[c] = [cpp |-> e[1], java |-> JavaIn(tree[e[1]].tokens, e[2])]
    BY DecidingIsLast
  <2> QED
    BY <2>1, <2>2 DEF SavedMapIsExact
<1> QED
  BY <1>1, JniInvariance, PTL

=============================================================================
