------------------------- MODULE ClangBinding_proofs -------------------------
(***************************************************************************)
(* The binding, for any number of objects, any library and all translation *)
(* units: kinds are found by their value, no object that promises to keep  *)
(* its memory loses it, counting references frees everything, and a walk   *)
(* collects just what it comes to.                                         *)
(***************************************************************************)
EXTENDS ClangBinding, RoundsLemmas, SequenceTheorems

-----------------------------------------------------------------------------
(***************************************************************************)
(* THE TABLE OF FUNCTIONS                                                  *)
(***************************************************************************)
(* The rank of a kind: references lead to objects of lower rank, but for a *)
(* cursor that a property of another cursor keeps.                         *)
Rank ==
    [k \in Kind |-> CASE k \in {"cursor", "token"} -> 3
                      [] k \in {"type", "group"} -> 2
                      [] k \in {"tu", "location", "command"} -> 1
                      [] OTHER -> 0]

(* What makes the row of a function safe. *)
IsSafeRow(r) ==
    /\ r.gives \in Kind /\ r.on \in Kind \cup {"none"} /\ r.gives \notin {"group", "token"}
    /\ \/ r.by = "nothing" /\ r.gives \notin KeepsItsMemory
       \/ r.by = "self" /\ <<r.on, r.gives>> \in {<<"index", "tu">>, <<"commands", "command">>}
       \/ /\ r.by \in {"from_result", "stored", "from_cursor_result"} /\ r.gives \in {"cursor", "type"}
          /\ r.on \in {"cursor", "type", "token"} \/ (r.on = "tu" /\ r.by # "from_cursor_result")
    /\ r.on = "none" => r.by = "nothing"
    /\ r.name \in CachedFunctions =>
          <<r.on, r.gives>> \in {<<"cursor", "cursor">>, <<"cursor", "type">>, <<"cursor", "location">>,
                                 <<"location", "file">>}

(* Every row of the table is safe. *)
LEMMA SafeRows == \A r \in FunctionList : IsSafeRow(r)
<1>1. \A r \in RowsToDisposeTokens : IsSafeRow(r)
  BY DEF RowsToDisposeTokens, Row, IsSafeRow, Kind, KeepsItsMemory, CachedFunctions
<1>2. \A r \in RowsToGetCursorType : IsSafeRow(r)
  BY DEF RowsToGetCursorType, Row, IsSafeRow, Kind, KeepsItsMemory, CachedFunctions
<1>3. \A r \in RowsToGetNumDiagnosticsInSet : IsSafeRow(r)
  BY DEF RowsToGetNumDiagnosticsInSet, Row, IsSafeRow, Kind, KeepsItsMemory, CachedFunctions
<1>4. \A r \in RowsToIsRestrictQualifiedType : IsSafeRow(r)
  BY DEF RowsToIsRestrictQualifiedType, Row, IsSafeRow, Kind, KeepsItsMemory, CachedFunctions
<1>5. \A r \in RowsToVisitFields : IsSafeRow(r)
  BY DEF RowsToVisitFields, Row, IsSafeRow, Kind, KeepsItsMemory, CachedFunctions
<1> QED
  BY <1>1, <1>2, <1>3, <1>4, <1>5 DEF FunctionList

-----------------------------------------------------------------------------
(***************************************************************************)
(* OBJECTS                                                                 *)
(*                                                                         *)
(* Why memory lasts: what an object of a kind that promises it points      *)
(* into, it refers to itself.  Why there is no circle: references go down  *)
(* in rank; cursors that keep each other were made one after the other.    *)
(***************************************************************************)
OwnersInv ==
    \A s \in Live :
        /\ heap[s].kind \in KeepsItsMemory => heap[s].liesIn \subseteq heap[s].refs
        /\ heap[s].kind \in {"cursor", "type", "group"} => \A t \in heap[s].liesIn : heap[t].kind = "tu"
        /\ heap[s].kind = "token" => \A t \in heap[s].liesIn : heap[t].kind \in {"tu", "group"}

RanksInv ==
    \A s \in Live :
        /\ \A t \in heap[s].refs : Rank[heap[t].kind] < Rank[heap[s].kind]
        /\ \A t \in heap[s].cached : \/ heap[s].kind = "cursor" /\ heap[t].kind = "cursor"
                                     \/ Rank[heap[t].kind] < Rank[heap[s].kind]

CachedInv ==
    \A X \in SUBSET Live : X # {} => \E s \in X : \A t \in X : s \notin heap[t].cached

ObjectInv == ObjectTypeOK /\ OwnersInv /\ HandlesStayValid /\ RanksInv /\ CachedInv

(* An object that may be added. *)
IsPlaced(o) ==
    /\ o \in Object /\ o.cached = {} /\ o.refs \cup o.liesIn \subseteq Live
    /\ o.kind \in KeepsItsMemory => o.liesIn \subseteq o.refs
    /\ o.kind \in {"cursor", "type", "group"} => \A t \in o.liesIn : heap[t].kind = "tu"
    /\ o.kind = "token" => \A t \in o.liesIn : heap[t].kind \in {"tu", "group"}
    /\ \A t \in o.refs : Rank[heap[t].kind] < Rank[o.kind]

(* There is a slot for it. *)
LEMMA FreshFacts ==
    ASSUME Free # {}
    PROVE  Fresh \in Slot /\ Fresh \notin Live
<1>1. Free \in SUBSET Nat
  BY BoundAssumption DEF Free, Slot
<1>2. \E s \in Free : \A t \in Free : s <= t
  BY <1>1, LeastNatural
<1> QED
  BY <1>2 DEF Fresh, Free

(* It is added in the slot f, and kept by the objects of C. *)
IsAdded(f, o, C) ==
    /\ f \in Slot /\ f \notin Live /\ IsPlaced(o) /\ C \subseteq Live
    /\ \A t \in C : \/ heap[t].kind = "cursor" /\ o.kind = "cursor"
                    \/ Rank[o.kind] < Rank[heap[t].kind]
    /\ DOMAIN heap' = Live \cup {f} /\ heap'[f] = o
    /\ \A t \in Live : /\ heap'[t] \in Object /\ heap'[t].kind = heap[t].kind
                       /\ heap'[t].refs = heap[t].refs /\ heap'[t].liesIn = heap[t].liesIn
                       /\ t \in C => heap'[t].cached = heap[t].cached \cup {f}
                       /\ t \notin C => heap'[t].cached = heap[t].cached
    /\ held' = held \cup {f} /\ dangling' = dangling

(* Adding it keeps the invariant. *)
LEMMA OneMoreObject ==
    ASSUME ObjectInv, NEW f, NEW o, NEW C, IsAdded(f, o, C)
    PROVE  ObjectInv'
<1> USE DEF IsAdded
<1>0. Live' = Live \cup {f}
  BY DEF Live
<1>1. /\ Live \subseteq Slot /\ held \subseteq Live /\ dangling \subseteq Live
      /\ \A s \in Live : heap[s] \in Object /\ heap[s].refs \cup heap[s].cached \cup heap[s].liesIn \subseteq Live
  BY DEF ObjectInv, ObjectTypeOK
<1>2. ObjectTypeOK'
  <2> SUFFICES ASSUME NEW s \in Live'
               PROVE  heap'[s] \in Object /\ heap'[s].refs \cup heap'[s].cached \cup heap'[s].liesIn \subseteq Live'
    BY <1>0, <1>1 DEF ObjectTypeOK
  <2>1. CASE s = f
    BY <1>0, <2>1 DEF IsPlaced
  <2>2. CASE s \in Live
    BY <1>0, <1>1, <2>2
  <2> QED
    BY <1>0, <2>1, <2>2
<1>3. OwnersInv'
  <2> SUFFICES ASSUME NEW s \in Live'
               PROVE  /\ heap'[s].kind \in KeepsItsMemory => heap'[s].liesIn \subseteq heap'[s].refs
                      /\ heap'[s].kind \in {"cursor", "type", "group"} =>
                            \A t \in heap'[s].liesIn : heap'[t].kind = "tu"
                      /\ heap'[s].kind = "token" =>
                            \A t \in heap'[s].liesIn : heap'[t].kind \in {"tu", "group"}
    BY DEF OwnersInv
  <2>1. CASE s = f
    BY <1>0, <2>1 DEF IsPlaced
  <2>2. CASE s \in Live
    BY <1>0, <1>1, <2>2 DEF ObjectInv, OwnersInv
  <2> QED
    BY <1>0, <2>1, <2>2
<1>4. HandlesStayValid'
  BY <1>0, <1>1 DEF ObjectInv, HandlesStayValid
<1>5. RanksInv'
  <2> SUFFICES ASSUME NEW s \in Live'
               PROVE  /\ \A t \in heap'[s].refs : Rank[heap'[t].kind] < Rank[heap'[s].kind]
                      /\ \A t \in heap'[s].cached : \/ heap'[s].kind = "cursor" /\ heap'[t].kind = "cursor"
                                                    \/ Rank[heap'[t].kind] < Rank[heap'[s].kind]
    BY DEF RanksInv
  <2>1. CASE s = f
    BY <1>0, <2>1 DEF IsPlaced
  <2>2. CASE s \in Live
    BY <1>0, <1>1, <2>2 DEF ObjectInv, RanksInv
  <2> QED
    BY <1>0, <2>1, <2>2
<1>6. CachedInv'
  <2> SUFFICES ASSUME NEW X \in SUBSET Live', X # {}
               PROVE  \E s \in X : \A t \in X : s \notin heap'[t].cached
    BY DEF CachedInv
  <2>1. heap'[f].cached = {}
    BY DEF IsPlaced
  <2>2. CASE X = {f}
    BY <2>1, <2>2
  <2>3. CASE X # {f}
    <3>1. X \ {f} \in SUBSET Live /\ X \ {f} # {}
      BY <1>0, <2>3
    <3>2. PICK s \in X \ {f} : \A t \in X \ {f} : s \notin heap[t].cached
      BY <3>1 DEF ObjectInv, CachedInv
    <3>3. \A t \in X \ {f} : s \notin heap'[t].cached
      BY <3>1, <3>2
    <3> QED
      BY <2>1, <3>2, <3>3
  <2> QED
    BY <2>2, <2>3
<1> QED
  BY <1>2, <1>3, <1>4, <1>5, <1>6 DEF ObjectInv

(* The objects the functions of the table make. *)
LEMMA MadeIsPlaced ==
    ASSUME ObjectInv, NEW s \in Live, NEW e \in Makes(heap[s].kind)
    PROVE  /\ IsPlaced(New(e.gives, References(s, e.by), LiesIn(s, e.gives)))
           /\ e.caches => \/ heap[s].kind = "cursor" /\ e.gives = "cursor"
                          \/ Rank[e.gives] < Rank[heap[s].kind]
<1>0. heap[s].kind \in Kind
  BY DEF ObjectInv, ObjectTypeOK, Object
<1>1a. PICK r \in RowsOn[heap[s].kind] :
          e = [gives |-> r.gives, by |-> r.by, caches |-> r.name \in CachedFunctions]
  BY Zenon DEF Makes
<1>1. /\ r \in FunctionList /\ r.on = heap[s].kind
      /\ e.gives = r.gives /\ e.by = r.by
  <2>1. r \in {x \in FunctionList : x.on = heap[s].kind}
    BY <1>0 DEF RowsOn
  <2> QED
    BY <1>1a, <2>1
<1>1b. e.caches => r.name \in CachedFunctions
  BY <1>1a, Zenon
<1>2. IsSafeRow(r)
  BY <1>1, SafeRows
<1>3. /\ heap[s] \in Object /\ heap[s].kind \in Kind /\ heap[s].kind # "none"
      /\ heap[s].refs \subseteq Live /\ heap[s].liesIn \subseteq Live /\ Live \subseteq Slot
  BY DEF ObjectInv, ObjectTypeOK, Object, Kind
<1> DEFINE o == New(e.gives, References(s, e.by), LiesIn(s, e.gives))
<1>4. /\ o.kind = e.gives /\ o.refs = References(s, e.by) /\ o.cached = {} /\ o.liesIn = LiesIn(s, e.gives)
      /\ o = [kind |-> e.gives, refs |-> References(s, e.by), cached |-> {}, liesIn |-> LiesIn(s, e.gives)]
  BY DEF New
<1> HIDE DEF o
<1>5. UnitsOf(s) = {t \in heap[s].refs : heap[t].kind = "tu"} /\ UnitsOf(s) \subseteq Live
  BY <1>3 DEF UnitsOf
<1>6. /\ e.by = "nothing" => References(s, e.by) = {}
      /\ e.by = "self" => References(s, e.by) = {s}
      /\ e.by \in {"from_result", "stored", "from_cursor_result"} =>
            References(s, e.by) = IF heap[s].kind = "tu" THEN {s} ELSE UnitsOf(s)
  BY <1>1, <1>2 DEF IsSafeRow, References, FromResult, FromCursorResult, Stored
<1>7. /\ heap[s].kind \in {"index", "tu", "commands", "results"} => LiesIn(s, e.gives) \subseteq {s}
      /\ heap[s].kind \notin {"index", "tu", "commands", "results"} =>
            LiesIn(s, e.gives) \subseteq {t \in heap[s].liesIn : heap[t].kind # "group"}
  BY DEF LiesIn
<1>8. References(s, e.by) \subseteq Live /\ LiesIn(s, e.gives) \subseteq Live
  BY <1>1, <1>2, <1>3, <1>5, <1>6, <1>7 DEF IsSafeRow
<1>9. o \in Object
  BY <1>1, <1>2, <1>3, <1>4, <1>8 DEF IsSafeRow, Object
<1>10. \A t \in o.refs : Rank[heap[t].kind] < Rank[o.kind]
  <2>1. CASE e.by = "nothing"
    BY <1>4, <1>6, <2>1
  <2>2. CASE e.by = "self"
    BY <1>1, <1>2, <1>4, <1>6, <2>2 DEF IsSafeRow, Rank, Kind
  <2>3. CASE e.by \in {"from_result", "stored", "from_cursor_result"}
    <3>1. e.gives \in {"cursor", "type"}
      BY <1>1, <1>2, <2>3 DEF IsSafeRow
    <3>2. \A t \in o.refs : heap[t].kind = "tu"
      BY <1>4, <1>5, <1>6, <2>3
    <3> QED
      BY <1>4, <3>1, <3>2 DEF Rank, Kind
  <2> QED
    BY <1>1, <1>2, <2>1, <2>2, <2>3 DEF IsSafeRow
<1>11. /\ o.kind \in KeepsItsMemory => o.liesIn \subseteq o.refs
       /\ o.kind \in {"cursor", "type", "group"} => \A t \in o.liesIn : heap[t].kind = "tu"
       /\ o.kind # "token"
  <2>1. CASE e.by = "nothing"
    BY <1>1, <1>2, <1>4, <2>1 DEF IsSafeRow, KeepsItsMemory
  <2>2. CASE e.by = "self"
    BY <1>1, <1>2, <1>4, <1>6, <1>7, <2>2 DEF IsSafeRow, KeepsItsMemory
  <2>3. CASE e.by \in {"from_result", "stored", "from_cursor_result"} /\ heap[s].kind = "tu"
    BY <1>1, <1>2, <1>4, <1>6, <1>7, <2>3 DEF IsSafeRow
  <2>4. CASE e.by \in {"from_result", "stored", "from_cursor_result"} /\ heap[s].kind # "tu"
    <3>1. heap[s].kind \in {"cursor", "type", "token"} /\ e.gives \in {"cursor", "type"}
      BY <1>1, <1>2, <2>4 DEF IsSafeRow
    <3>2. heap[s].liesIn \subseteq heap[s].refs
      BY <3>1 DEF ObjectInv, OwnersInv, KeepsItsMemory
    <3>3. \A t \in heap[s].liesIn : heap[t].kind \in {"tu", "group"}
      BY <3>1 DEF ObjectInv, OwnersInv
    <3>4. \A t \in o.liesIn : t \in heap[s].refs /\ heap[t].kind = "tu"
      BY <1>4, <1>7, <3>1, <3>2, <3>3
    <3> QED
      BY <1>4, <1>5, <1>6, <2>4, <3>1, <3>4
  <2> QED
    BY <1>1, <1>2, <2>1, <2>2, <2>3, <2>4 DEF IsSafeRow
<1>12. e.caches => \/ heap[s].kind = "cursor" /\ e.gives = "cursor"
                   \/ Rank[e.gives] < Rank[heap[s].kind]
  BY <1>1, <1>1b, <1>2 DEF IsSafeRow, Rank, Kind
<1>13. IsPlaced(o)
  BY <1>4, <1>8, <1>9, <1>10, <1>11 DEF IsPlaced
<1> QED
  BY <1>12, <1>13 DEF o

(* The objects the functions make from nothing. *)
LEMMA CreatedIsPlaced ==
    ASSUME NEW e \in Makes("none")
    PROVE  IsPlaced(New(e.gives, {}, {}))
<1>1. PICK r \in RowsOn["none"] :
          e = [gives |-> r.gives, by |-> r.by, caches |-> r.name \in CachedFunctions]
  BY Zenon DEF Makes
<1>2. r \in FunctionList /\ r.on = "none" /\ e.gives = r.gives
  <2>1. r \in {x \in FunctionList : x.on = "none"}
    BY DEF RowsOn
  <2> QED
    BY <1>1, <2>1
<1>3. IsSafeRow(r)
  BY <1>2, SafeRows
<1>4. e.gives \in Kind
  BY <1>2, <1>3 DEF IsSafeRow
<1> QED
  BY <1>4 DEF IsPlaced, New, Object

(* A method that makes an object, and may keep it. *)
LEMMA DeriveStep ==
    ASSUME ObjectInv, NEW s \in Live, NEW e \in Makes(heap[s].kind), Derive(s, e)
    PROVE  ObjectInv'
<1> DEFINE f == Fresh
           o == New(e.gives, References(s, e.by), LiesIn(s, e.gives))
           C == IF e.caches THEN {s} ELSE {}
<1>1. f \in Slot /\ f \notin Live
  BY FreshFacts DEF Derive
<1>2. IsPlaced(o)
  BY MadeIsPlaced
<1>3. /\ heap' = IF e.caches THEN [With(heap, f, o) EXCEPT ![s].cached = @ \cup {f}] ELSE With(heap, f, o)
      /\ held' = held \cup {f} /\ dangling' = dangling
  BY Zenon DEF Derive
<1>4. o.kind = e.gives
  BY DEF New
<1>5. e.caches => \/ heap[s].kind = "cursor" /\ o.kind = "cursor"
                  \/ Rank[o.kind] < Rank[heap[s].kind]
  BY <1>4, MadeIsPlaced
<1> HIDE DEF f, o
<1>6. \A t \in Live : heap[t] \in Object
  BY DEF ObjectInv, ObjectTypeOK
<1>7. CASE ~e.caches
  <2>1. heap' = With(heap, f, o) /\ C = {}
    BY <1>3, <1>7
  <2>2. DOMAIN heap' = Live \cup {f} /\ heap'[f] = o /\ \A t \in Live : heap'[t] = heap[t]
    BY <1>1, <2>1 DEF With, Live
  <2>3. IsAdded(f, o, C)
    BY <1>1, <1>2, <1>3, <1>6, <2>1, <2>2 DEF IsAdded
  <2> HIDE DEF C
  <2> QED
    BY <2>3, OneMoreObject
<1>8. CASE e.caches
  <2>1. heap' = [With(heap, f, o) EXCEPT ![s].cached = @ \cup {f}] /\ C = {s}
    BY <1>3, <1>8
  <2>2. With(heap, f, o) = [t \in Live \cup {f} |-> IF t = f THEN o ELSE heap[t]]
    BY DEF With, Live
  <2>3. /\ DOMAIN heap' = Live \cup {f} /\ heap'[f] = o
        /\ \A t \in Live : t # s => heap'[t] = heap[t]
        /\ heap'[s] = [heap[s] EXCEPT !.cached = @ \cup {f}]
    BY <1>1, <2>1, <2>2
  <2>4. heap[s] = [kind |-> heap[s].kind, refs |-> heap[s].refs, cached |-> heap[s].cached,
                   liesIn |-> heap[s].liesIn]
        /\ heap[s].kind \in Kind /\ heap[s].refs \in SUBSET Slot /\ heap[s].cached \in SUBSET Slot
        /\ heap[s].liesIn \in SUBSET Slot
    BY <1>6 DEF Object
  <2>5. heap'[s] = [kind |-> heap[s].kind, refs |-> heap[s].refs, cached |-> heap[s].cached \cup {f},
                    liesIn |-> heap[s].liesIn]
    BY <2>3, <2>4
  <2>6. heap'[s] \in Object
    BY <1>1, <2>4, <2>5 DEF Object
  <2>7. \A t \in Live :
            /\ heap'[t] \in Object /\ heap'[t].kind = heap[t].kind
            /\ heap'[t].refs = heap[t].refs /\ heap'[t].liesIn = heap[t].liesIn
            /\ t \in C => heap'[t].cached = heap[t].cached \cup {f}
            /\ t \notin C => heap'[t].cached = heap[t].cached
    BY <1>6, <2>1, <2>3, <2>5, <2>6
  <2>8. \A t \in C : \/ heap[t].kind = "cursor" /\ o.kind = "cursor"
                     \/ Rank[o.kind] < Rank[heap[t].kind]
    BY <1>5, <1>8, <2>1
  <2>9. C \in SUBSET Live
    BY <2>1
  <2> HIDE DEF C
  <2>10. IsAdded(f, o, C)
    BY <1>1, <1>2, <1>3, <2>3, <2>7, <2>8, <2>9 DEF IsAdded
  <2> QED
    BY <2>10, OneMoreObject
<1> QED
  BY <1>7, <1>8

(* An object that is added and kept by no other: Create, GetTokens. *)
LEMMA AddedStep ==
    ASSUME ObjectInv, Free # {}, NEW o, IsPlaced(o), heap' = With(heap, Fresh, o),
           held' = held \cup {Fresh}, dangling' = dangling
    PROVE  ObjectInv'
<1> DEFINE f == Fresh
<1>1. f \in Slot /\ f \notin Live
  BY FreshFacts
<1> HIDE DEF f
<1>2. heap' = With(heap, f, o) /\ held' = held \cup {f} /\ dangling' = dangling
  BY DEF f
<1>3. DOMAIN heap' = Live \cup {f} /\ heap'[f] = o /\ \A t \in Live : heap'[t] = heap[t]
  BY <1>1, <1>2 DEF With, Live
<1>4. \A t \in Live : heap[t] \in Object
  BY DEF ObjectInv, ObjectTypeOK
<1>5. IsAdded(f, o, {})
  BY <1>1, <1>2, <1>3, <1>4 DEF IsAdded
<1> QED
  BY <1>5, OneMoreObject

(* Index.create and fromDirectory. *)
LEMMA CreateStep == ASSUME ObjectInv, NEW e \in Makes("none"), Create(e) PROVE ObjectInv'
<1>1. IsPlaced(New(e.gives, {}, {}))
  BY CreatedIsPlaced
<1> QED
  BY <1>1, AddedStep DEF Create

(* A new TokenGroup refers to the unit it lies in. *)
LEMMA GetTokensStep == ASSUME ObjectInv, NEW s \in Live, GetTokens(s) PROVE ObjectInv'
<1>1. heap[s] \in Object /\ heap[s].refs \subseteq Live /\ Live \subseteq Slot
  BY DEF ObjectInv, ObjectTypeOK
<1>2. Stored(s) \subseteq Live /\ \A t \in Stored(s) : heap[t].kind = "tu"
  BY <1>1 DEF Stored, UnitsOf
<1> DEFINE o == New("group", Stored(s), Stored(s))
<1>3. /\ o.kind = "group" /\ o.refs = Stored(s) /\ o.cached = {} /\ o.liesIn = Stored(s)
      /\ o = [kind |-> "group", refs |-> Stored(s), cached |-> {}, liesIn |-> Stored(s)]
  BY DEF New
<1> HIDE DEF o
<1>4. o \in Object
  BY <1>1, <1>2, <1>3 DEF Object, Kind
<1>5. \A t \in o.refs : Rank[heap[t].kind] < Rank[o.kind]
  BY <1>2, <1>3 DEF Rank, Kind
<1>6. IsPlaced(o)
  BY <1>2, <1>3, <1>4, <1>5 DEF IsPlaced
<1>7. Free # {} /\ heap' = With(heap, Fresh, o) /\ held' = held \cup {Fresh} /\ dangling' = dangling
  BY DEF GetTokens, o
<1> QED
  BY <1>6, <1>7, AddedStep

(* A token refers to its group and the unit. *)
LEMMA NextTokenStep == ASSUME ObjectInv, NEW g \in Live, NextToken(g) PROVE ObjectInv'
<1>1. heap[g] \in Object /\ heap[g].refs \subseteq Live /\ Live \subseteq Slot
  BY DEF ObjectInv, ObjectTypeOK
<1> DEFINE R == UnitsOf(g) \cup {g}
           o == New("token", R, R)
<1>2. /\ R \subseteq Live /\ heap[g].kind = "group"
      /\ \A t \in R : heap[t].kind \in {"tu", "group"}
  BY <1>1 DEF UnitsOf, NextToken
<1> HIDE DEF R
<1>3. /\ o.kind = "token" /\ o.refs = R /\ o.cached = {} /\ o.liesIn = R
      /\ o = [kind |-> "token", refs |-> R, cached |-> {}, liesIn |-> R]
  BY DEF New
<1> HIDE DEF o
<1>4. o \in Object
  BY <1>1, <1>2, <1>3 DEF Object, Kind
<1>5. \A t \in o.refs : Rank[heap[t].kind] < Rank[o.kind]
  BY <1>2, <1>3 DEF Rank, Kind
<1>6. IsPlaced(o)
  BY <1>2, <1>3, <1>4, <1>5 DEF IsPlaced
<1>7. Free # {} /\ heap' = With(heap, Fresh, o) /\ held' = held \cup {Fresh} /\ dangling' = dangling
  BY DEF NextToken, o, R
<1> QED
  BY <1>6, <1>7, AddedStep

(* Only variables of the program change. *)
LEMMA HeldStep ==
    ASSUME ObjectInv, held' \subseteq Live, heap' = heap, dangling' = dangling
    PROVE  ObjectInv'
  BY DEF ObjectInv, ObjectTypeOK, OwnersInv, HandlesStayValid, RanksInv, CachedInv, Live

(* Nothing that keeps its memory lies in what is freed: it would refer to it. *)
LEMMA ReleaseStep == ASSUME ObjectInv, NEW s \in Slot, Release(s) PROVE ObjectInv'
<1>1. /\ Live \subseteq Slot /\ held \subseteq Live /\ dangling \subseteq Live
      /\ \A t \in Live : heap[t] \in Object /\ heap[t].refs \cup heap[t].cached \cup heap[t].liesIn \subseteq Live
  BY DEF ObjectInv, ObjectTypeOK
<1>2. s \in Live \ held /\ \A t \in Live : s \notin heap[t].refs /\ s \notin heap[t].cached
  BY DEF Release, Unreferenced, IsReferredTo
<1>3. /\ heap' = [t \in Live \ {s} |-> [heap[t] EXCEPT !.liesIn = @ \ {s}]]
      /\ dangling' = (dangling \cup {t \in Live : s \in heap[t].liesIn}) \ {s}
      /\ held' = held
  BY DEF Release
<1>4. Live' = Live \ {s}
  BY <1>3 DEF Live
<1>5. ASSUME NEW t \in Live \ {s}
      PROVE  /\ heap'[t] \in Object /\ heap'[t].kind = heap[t].kind /\ heap'[t].refs = heap[t].refs
             /\ heap'[t].cached = heap[t].cached /\ heap'[t].liesIn = heap[t].liesIn \ {s}
  <2>1. heap'[t] = [heap[t] EXCEPT !.liesIn = @ \ {s}]
    BY <1>3
  <2>2. heap[t] \in Object
    BY <1>1
  <2> QED
    BY <2>1, <2>2 DEF Object
<1>6. ObjectTypeOK'
  <2>1. Live' \subseteq Slot /\ held' \subseteq Live' /\ dangling' \subseteq Live'
    BY <1>1, <1>2, <1>3, <1>4
  <2>2. \A t \in Live' : heap'[t] \in Object
                         /\ heap'[t].refs \cup heap'[t].cached \cup heap'[t].liesIn \subseteq Live'
    BY <1>1, <1>2, <1>4, <1>5
  <2> QED
    BY <2>1, <2>2 DEF ObjectTypeOK
<1>7. OwnersInv'
  <2> SUFFICES ASSUME NEW t \in Live'
               PROVE  /\ heap'[t].kind \in KeepsItsMemory => heap'[t].liesIn \subseteq heap'[t].refs
                      /\ heap'[t].kind \in {"cursor", "type", "group"} =>
                            \A x \in heap'[t].liesIn : heap'[x].kind = "tu"
                      /\ heap'[t].kind = "token" =>
                            \A x \in heap'[t].liesIn : heap'[x].kind \in {"tu", "group"}
    BY DEF OwnersInv
  <2>1. \A x \in heap'[t].liesIn : x \in heap[t].liesIn /\ heap'[x].kind = heap[x].kind
    BY <1>1, <1>4, <1>5
  <2> QED
    BY <1>4, <1>5, <2>1 DEF ObjectInv, OwnersInv
<1>8. HandlesStayValid'
  <2> SUFFICES ASSUME NEW t \in Live', heap'[t].kind \in KeepsItsMemory, t \in dangling' PROVE FALSE
    BY DEF HandlesStayValid
  <2>1. t \in Live \ {s} /\ heap[t].kind \in KeepsItsMemory
    BY <1>4, <1>5
  <2>2. t \notin dangling
    BY <2>1 DEF ObjectInv, HandlesStayValid
  <2>3. s \in heap[t].liesIn
    BY <1>3, <2>2
  <2> QED
    BY <1>2, <2>1, <2>3 DEF ObjectInv, OwnersInv
<1>9. RanksInv'
  <2> SUFFICES ASSUME NEW t \in Live'
               PROVE  /\ \A x \in heap'[t].refs : Rank[heap'[x].kind] < Rank[heap'[t].kind]
                      /\ \A x \in heap'[t].cached : \/ heap'[t].kind = "cursor" /\ heap'[x].kind = "cursor"
                                                    \/ Rank[heap'[x].kind] < Rank[heap'[t].kind]
    BY DEF RanksInv
  <2>1. t \in Live \ {s} /\ \A x \in heap[t].refs \cup heap[t].cached : x \in Live \ {s}
    BY <1>1, <1>2, <1>4
  <2>2. /\ \A x \in heap[t].refs : Rank[heap[x].kind] < Rank[heap[t].kind]
        /\ \A x \in heap[t].cached : \/ heap[t].kind = "cursor" /\ heap[x].kind = "cursor"
                                     \/ Rank[heap[x].kind] < Rank[heap[t].kind]
    BY <2>1 DEF ObjectInv, RanksInv
  <2> QED
    BY <1>5, <2>1, <2>2
<1>10. CachedInv'
  <2> SUFFICES ASSUME NEW X \in SUBSET Live', X # {}
               PROVE  \E x \in X : \A t \in X : x \notin heap'[t].cached
    BY DEF CachedInv
  <2>1. X \in SUBSET Live /\ \A t \in X : t \in Live \ {s}
    BY <1>4
  <2>2. PICK x \in X : \A t \in X : x \notin heap[t].cached
    BY <2>1 DEF ObjectInv, CachedInv
  <2> QED
    BY <1>5, <2>1, <2>2
<1> QED
  BY <1>6, <1>7, <1>8, <1>9, <1>10 DEF ObjectInv

(* Without objects everything holds. *)
LEMMA ObjectInitially == ASSUME ObjectInit PROVE ObjectInv
<1>1. Live = {} /\ held = {} /\ dangling = {}
  BY DEF ObjectInit, Live
<1> QED
  BY <1>1 DEF ObjectInv, ObjectTypeOK, OwnersInv, HandlesStayValid, RanksInv, CachedInv

(* Every operation on objects keeps the invariant. *)
LEMMA ObjectStep == ASSUME ObjectInv, ObjectNext PROVE ObjectInv'
<1>1. /\ held \subseteq Live /\ Usable \subseteq Live
      /\ \A s \in Live : heap[s].cached \subseteq Live
  BY DEF ObjectInv, ObjectTypeOK, Usable
<1>2. ASSUME NEW e \in Makes("none"), Create(e) PROVE ObjectInv'
  BY <1>2, CreateStep
<1>3. ASSUME NEW s \in Usable, NEW e \in Makes(heap[s].kind), Derive(s, e) PROVE ObjectInv'
  BY <1>1, <1>3, DeriveStep
<1>4. ASSUME NEW s \in Usable, ReadCached(s) PROVE ObjectInv'
  <2>1. held' \subseteq Live /\ heap' = heap /\ dangling' = dangling
    BY <1>1, <1>4 DEF ReadCached
  <2> QED
    BY <2>1, HeldStep
<1>5. ASSUME NEW s \in Usable, GetTokens(s) PROVE ObjectInv'
  BY <1>1, <1>5, GetTokensStep
<1>6. ASSUME NEW s \in Usable, NextToken(s) PROVE ObjectInv'
  BY <1>1, <1>6, NextTokenStep
<1>7. ASSUME NEW s \in held, Drop(s) PROVE ObjectInv'
  <2>1. held' \subseteq Live /\ heap' = heap /\ dangling' = dangling
    BY <1>1, <1>7 DEF Drop
  <2> QED
    BY <2>1, HeldStep
<1>8. ASSUME NEW s \in Slot, Release(s) PROVE ObjectInv'
  BY <1>8, ReleaseStep
<1> QED
  BY <1>2, <1>3, <1>4, <1>5, <1>6, <1>7, <1>8 DEF ObjectNext, UseObject

(* Where the references of an object lead. *)
PointsTo == [s \in Slot |-> IF s \in Live THEN heap[s].refs \cup heap[s].cached ELSE {}]

(* Reached is the least set that has the variables of the program and,     *)
(* with an object, what it refers to.                                      *)
LEMMA ReachedFacts ==
    ASSUME ObjectTypeOK
    PROVE  /\ held \subseteq Reached /\ Reached \subseteq Live
           /\ \A s \in Reached : heap[s].refs \cup heap[s].cached \subseteq Reached
<1> DEFINE reach[n \in 0 .. MaxObjects] ==
              IF n = 0 THEN held
              ELSE reach[n - 1] \cup UNION {heap[s].refs \cup heap[s].cached : s \in reach[n - 1]}
           N == MaxObjects
<1>1. /\ N \in Nat /\ IsFiniteSet(Slot) /\ Cardinality(Slot) = N
      /\ Live \in SUBSET Slot /\ held \in SUBSET Live /\ held \in SUBSET Slot
      /\ \A s \in Live : heap[s].refs \cup heap[s].cached \subseteq Live
  <2>1. N \in Nat /\ N - 1 + 1 = N
    BY BoundAssumption
  <2>2. IsFiniteSet(Slot) /\ Cardinality(Slot) = N
    BY <2>1, FS_Interval DEF Slot
  <2>3. /\ Live \in SUBSET Slot /\ held \in SUBSET Live
        /\ \A s \in Live : heap[s].refs \cup heap[s].cached \subseteq Live
    BY DEF ObjectTypeOK
  <2> QED
    BY <2>1, <2>2, <2>3
<1>2. PointsTo \in [Slot -> SUBSET Slot] /\ IsClosedIn(PointsTo, Live)
  <2>1. PointsTo \in [Slot -> SUBSET Slot]
    BY <1>1 DEF PointsTo
  <2>2. \A s \in Live : PointsTo[s] \subseteq Live
    BY <1>1 DEF PointsTo
  <2> QED
    BY <2>1, <2>2 DEF IsClosedIn, SuccessorsIn
<1>3. ASSUME NEW X \in SUBSET Live
      PROVE  UNION {heap[s].refs \cup heap[s].cached : s \in X} = SuccessorsIn(PointsTo, X)
  BY <1>1 DEF PointsTo, SuccessorsIn
<1>4. PICK f : IsRounds(f, PointsTo, held, N)
  BY <1>1, RoundsExist
<1>5. \A k \in 0 .. N : f[k] \in SUBSET Live
  <2> DEFINE T == {k \in 0 .. N : f[k] \notin SUBSET Live}
  <2>1. f[0] = held /\ \A k \in 0 .. N - 1 : f[k + 1] = f[k] \cup SuccessorsIn(PointsTo, f[k])
    <3> HIDE DEF N
    <3>1. f[0] = held
      BY <1>1, <1>4, RoundByRound
    <3>2. \A k \in 0 .. N - 1 : f[k + 1] = f[k] \cup SuccessorsIn(PointsTo, f[k])
      BY <1>1, <1>4, RoundByRound
    <3> QED
      BY <3>1, <3>2
  <2>2. \A X \in SUBSET Live : SuccessorsIn(PointsTo, X) \in SUBSET Live
    BY <1>2 DEF IsClosedIn, SuccessorsIn
  <2>3. T \in SUBSET (0 .. N) /\ 0 \notin T
    BY <1>1, <2>1
  <2>4. \A k \in 0 .. N - 1 : k \notin T => k + 1 \notin T
    BY <1>1, <2>1, <2>2
  <2>5. T = {}
    <3> HIDE DEF T, N
    <3> QED
      BY <1>1, <2>3, <2>4, NoFirstException
  <2> QED
    BY <2>5
<1>6. f = [k \in 0 .. N |-> IF k = 0 THEN held
                            ELSE f[k - 1] \cup UNION {heap[s].refs \cup heap[s].cached : s \in f[k - 1]}]
  <2> HIDE DEF N
  <2>1. \A k \in 0 .. N : k # 0 => UNION {heap[s].refs \cup heap[s].cached : s \in f[k - 1]}
                                     = SuccessorsIn(PointsTo, f[k - 1])
    <3> SUFFICES ASSUME NEW k \in 0 .. N, k # 0
                 PROVE  UNION {heap[s].refs \cup heap[s].cached : s \in f[k - 1]}
                          = SuccessorsIn(PointsTo, f[k - 1])
      OBVIOUS
    <3>1. k - 1 \in 0 .. N
      BY <1>1
    <3>2. f[k - 1] \in SUBSET Live
      BY <1>5, <3>1
    <3> QED
      BY <1>3, <3>2
  <2> QED
    BY <1>1, <1>4, <2>1 DEF IsRounds
<1>7. reach = [k \in 0 .. N |-> IF k = 0 THEN held
                ELSE reach[k - 1] \cup UNION {heap[s].refs \cup heap[s].cached : s \in reach[k - 1]}]
  BY <1>6
<1>8. Reached = reach[N]
  BY DEF Reached
<1> HIDE DEF reach, N
<1>9. \A k \in 0 .. N : reach[k] \in SUBSET Live
  <2> DEFINE T == {k \in 0 .. N : reach[k] \notin SUBSET Live}
  <2>1. reach[0] = held
    BY <1>1, <1>7
  <2>2. \A k \in 0 .. N - 1 : k \notin T => k + 1 \notin T
    <3> SUFFICES ASSUME NEW k \in 0 .. N - 1, k \notin T PROVE k + 1 \notin T
      OBVIOUS
    <3>1. k \in 0 .. N /\ k + 1 \in 0 .. N /\ (k + 1) - 1 = k /\ k + 1 # 0
      BY <1>1
    <3>2. reach[k + 1] = reach[k] \cup UNION {heap[s].refs \cup heap[s].cached : s \in reach[k]}
      BY <1>7, <3>1
    <3>3. reach[k] \in SUBSET Live
      BY <3>1
    <3> QED
      BY <1>1, <3>2, <3>3
  <2>3. T \in SUBSET (0 .. N) /\ 0 \notin T
    BY <1>1, <2>1
  <2>4. T = {}
    <3> HIDE DEF T
    <3> QED
      BY <1>1, <2>2, <2>3, NoFirstException
  <2> QED
    BY <2>4
<1>10. IsRounds(reach, PointsTo, held, N)
  <2>1. \A k \in 0 .. N : k # 0 => UNION {heap[s].refs \cup heap[s].cached : s \in reach[k - 1]}
                                     = SuccessorsIn(PointsTo, reach[k - 1])
    <3> SUFFICES ASSUME NEW k \in 0 .. N, k # 0
                 PROVE  UNION {heap[s].refs \cup heap[s].cached : s \in reach[k - 1]}
                          = SuccessorsIn(PointsTo, reach[k - 1])
      OBVIOUS
    <3>1. k - 1 \in 0 .. N
      BY <1>1
    <3>2. reach[k - 1] \in SUBSET Live
      BY <1>9, <3>1
    <3> QED
      BY <1>3, <3>2
  <2> QED
    BY <1>1, <1>7, <2>1 DEF IsRounds
<1>11. held \subseteq reach[N] /\ IsClosedIn(PointsTo, reach[N])
  BY <1>1, <1>2, <1>10, RoundsAreLeastClosed
<1>12. N \in 0 .. N
  BY <1>1
<1> QED
  BY <1>3, <1>8, <1>9, <1>11, <1>12 DEF IsClosedIn, SuccessorsIn

(***************************************************************************)
(* What cannot be reached but is referred to would be referred to from     *)
(* there again; among the highest of these only cursors keep each other,   *)
(* and one of them is kept by none.                                        *)
(***************************************************************************)
LEMMA FreedByCounting == ASSUME ObjectInv PROVE EverythingIsFreed
<1> SUFFICES ASSUME Unreferenced = {}, Live \ Reached # {} PROVE FALSE
  BY ReachedFacts DEF EverythingIsFreed, ObjectInv
<1> DEFINE X == Live \ Reached
           H == {3 - Rank[heap[s].kind] : s \in X}
<1>1. held \subseteq Reached /\ \A s \in Reached : heap[s].refs \cup heap[s].cached \subseteq Reached
  BY ReachedFacts DEF ObjectInv
<1>2. \A s \in Live : Rank[heap[s].kind] \in 0 .. 3
  BY DEF ObjectInv, ObjectTypeOK, Object, Rank
<1>3. ASSUME NEW x \in X
      PROVE  \E t \in X : x \in heap[t].refs \cup heap[t].cached
  <2>1. IsReferredTo(x)
    BY <1>1 DEF Unreferenced
  <2> QED
    BY <1>1, <2>1 DEF IsReferredTo
<1>4. \E h \in H : \A g \in H : h <= g
  <2>1. H \in SUBSET Nat /\ H # {}
    BY <1>2
  <2> HIDE DEF H
  <2> QED
    BY <2>1, LeastNatural
<1>5. PICK m \in X : \A t \in X : Rank[heap[t].kind] <= Rank[heap[m].kind]
  <2>1. PICK h \in H : \A g \in H : h <= g
    BY <1>4
  <2>2. PICK m \in X : h = 3 - Rank[heap[m].kind]
    BY <2>1
  <2>3. \A t \in X : 3 - Rank[heap[m].kind] <= 3 - Rank[heap[t].kind]
    BY <2>1, <2>2
  <2> HIDE DEF H
  <2> QED
    BY <1>2, <2>3
<1> DEFINE Y == {t \in X : Rank[heap[t].kind] = Rank[heap[m].kind]}
<1>6. ASSUME NEW y \in Y
      PROVE  \E t \in Y : y \in heap[t].cached
  <2>1. PICK t \in X : y \in heap[t].refs \cup heap[t].cached
    BY <1>3
  <2>2. Rank[heap[t].kind] <= Rank[heap[y].kind] /\ Rank[heap[t].kind] \in Nat /\ Rank[heap[y].kind] \in Nat
    BY <1>2, <1>5
  <2>3. ~(Rank[heap[y].kind] < Rank[heap[t].kind])
    BY <2>2
  <2>4. y \in heap[t].cached /\ heap[t].kind = "cursor" /\ heap[y].kind = "cursor"
    BY <2>1, <2>3 DEF ObjectInv, RanksInv
  <2> QED
    BY <2>4
<1>7. Y \in SUBSET Live /\ Y # {}
  BY <1>5
<1> HIDE DEF Y
<1> QED
  BY <1>6, <1>7 DEF ObjectInv, CachedInv

-----------------------------------------------------------------------------
(***************************************************************************)
(* THE LIBRARY AND THE ENUMERATIONS                                        *)
(***************************************************************************)
LEMMA LibInitially == ASSUME LibInit PROVE LibTypeOK
  BY DEF LibInit, LibTypeOK, NotCached, FileName

(* The setters and the loading of the library. *)
LEMMA LibStep == ASSUME LibTypeOK, LibNext PROVE LibTypeOK'
<1>1. ASSUME NEW d \in Directory, SetLibraryPath(d) PROVE LibTypeOK'
  BY <1>1 DEF LibTypeOK, SetLibraryPath
<1>2. ASSUME NEW f \in LibraryFile, SetLibraryFile(f) PROVE LibTypeOK'
  BY <1>2 DEF LibTypeOK, SetLibraryFile
<1>3. ASSUME NEW b \in BOOLEAN, SetCompatibilityCheck(b) PROVE LibTypeOK'
  BY <1>3 DEF LibTypeOK, SetCompatibilityCheck
<1>4. CASE LoadLib
  <2>1. GetFilename \in Installed /\ GetFilename \in FileName /\ Lacks[GetFilename] \in SUBSET FunctionNames
    BY <1>4, InstalledAssumption DEF LoadLib, CanLoad
  <2>2. lib' \in [from : FileName, without : SUBSET FunctionNames]
    BY <1>4, <2>1 DEF LoadLib
  <2> QED
    BY <1>4, <2>2 DEF LibTypeOK, LoadLib
<1> QED
  BY <1>1, <1>2, <1>3, <1>4 DEF LibNext

(* The list holds just the values of R. *)
Lists(list, R) ==
    /\ list \in Seq((0 .. 700) \cup {Gap})
    /\ \A i \in DOMAIN list : list[i] = IF i - 1 \in R THEN i - 1 ELSE Gap
    /\ \A v \in R : v < Len(list)
    /\ list # <<>> => Len(list) - 1 \in R

(* The parts of Lists. *)
LEMMA ListedFacts ==
    ASSUME NEW list, NEW R, Lists(list, R)
    PROVE  /\ Len(list) \in Nat /\ DOMAIN list = 1 .. Len(list)
           /\ \A i \in DOMAIN list : list[i] = IF i - 1 \in R THEN i - 1 ELSE Gap
           /\ \A v \in R : v < Len(list)
           /\ Len(list) # 0 => Len(list) - 1 \in R
<1> DEFINE S == (0 .. 700) \cup {Gap}
<1>1. list \in Seq(S)
  BY DEF Lists
<1> HIDE DEF S
<1>2. Len(list) \in Nat /\ DOMAIN list = 1 .. Len(list)
  BY <1>1
<1>3. Len(list) # 0 => list # <<>>
  OBVIOUS
<1> QED
  BY <1>2, <1>3 DEF Lists

(* Filling up with None and putting the kind adds just this kind, in       *)
(* whatever order the kinds come.                                          *)
LEMMA LoadedLists ==
    ASSUME NEW R \in SUBSET (0 .. 700), NEW v \in 0 .. 700, NEW list, Lists(list, R)
    PROVE  Lists(Loaded(list, v), R \cup {v})
<1> DEFINE room == WithRoomFor(list, v)
           new == Loaded(list, v)
           S == (0 .. 700) \cup {Gap}
<1>1. list \in Seq(S) /\ Len(list) \in Nat /\ DOMAIN list = 1 .. Len(list)
  <2>1. list \in Seq(S)
    BY DEF Lists
  <2> HIDE DEF S
  <2> QED
    BY <2>1
<1>2. CASE v < Len(list)
  <2>1. room = list
    BY <1>2 DEF WithRoomFor
  <2>2. v + 1 \in 1 .. Len(list) /\ v \in S
    BY <1>1, <1>2
  <2>3. new = [list EXCEPT ![v + 1] = v]
    BY <2>1 DEF Loaded
  <2>4. new \in Seq(S) /\ Len(new) = Len(list) /\ DOMAIN new = DOMAIN list
    BY <1>1, <2>2, <2>3
  <2>5. \A i \in DOMAIN new : new[i] = IF i = v + 1 THEN v ELSE list[i]
    BY <1>1, <2>2, <2>3
  <2> HIDE DEF new
  <2>6. \A i \in DOMAIN new : new[i] = IF i - 1 \in R \cup {v} THEN i - 1 ELSE Gap
    BY <1>1, <2>4, <2>5 DEF Lists
  <2>7. new # <<>> => Len(new) - 1 \in R \cup {v}
    <3>1. list # <<>>
      BY <1>1, <1>2
    <3>2. Len(list) - 1 \in R
      BY <3>1 DEF Lists
    <3> QED
      BY <2>4, <3>2
  <2>8. \A w \in R \cup {v} : w < Len(new)
    BY <1>2, <2>4 DEF Lists
  <2>9. Lists(new, R \cup {v})
    BY <2>4, <2>6, <2>7, <2>8 DEF Lists
  <2> QED
    BY <2>9 DEF new
<1>3. CASE ~(v < Len(list))
  <2> DEFINE gaps == [i \in 1 .. v - Len(list) + 1 |-> Gap]
  <2>1. room = list \o gaps
    BY <1>3 DEF WithRoomFor
  <2>2. v - Len(list) + 1 \in Nat /\ gaps \in Seq(S) /\ Len(gaps) = v - Len(list) + 1
    BY <1>1, <1>3
  <2> HIDE DEF gaps
  <2>3. room \in Seq(S) /\ Len(room) = v + 1 /\ DOMAIN room = 1 .. v + 1
    BY <1>1, <2>1, <2>2
  <2>4. \A i \in 1 .. v + 1 : room[i] = IF i <= Len(list) THEN list[i] ELSE Gap
    <3>1. \A i \in 1 .. v - Len(list) + 1 : gaps[i] = Gap
      BY DEF gaps
    <3> QED
      BY <1>1, <2>1, <2>2, <3>1
  <2> HIDE DEF room
  <2>5. new = [room EXCEPT ![v + 1] = v]
    BY DEF Loaded, room
  <2> HIDE DEF new
  <2>6. new \in Seq(S) /\ Len(new) = v + 1 /\ DOMAIN new = 1 .. v + 1
    BY <2>3, <2>5
  <2>7. \A i \in 1 .. v + 1 : new[i] = IF i = v + 1 THEN v ELSE room[i]
    BY <2>3, <2>5
  <2>8. \A w \in R \cup {v} : w < v + 1
    BY <1>1, <1>3 DEF Lists
  <2>9. \A i \in 1 .. v + 1 : new[i] = IF i - 1 \in R \cup {v} THEN i - 1 ELSE Gap
    <3> SUFFICES ASSUME NEW i \in 1 .. v + 1
                 PROVE  new[i] = IF i - 1 \in R \cup {v} THEN i - 1 ELSE Gap
      OBVIOUS
    <3>1. CASE i = v + 1
      BY <2>7, <3>1
    <3>2. CASE i # v + 1 /\ i <= Len(list)
      BY <1>1, <2>4, <2>7, <3>2 DEF Lists
    <3>3. CASE i # v + 1 /\ ~(i <= Len(list))
      <4>1. i - 1 \notin R
        BY <1>1, <3>3 DEF Lists
      <4> QED
        BY <2>4, <2>7, <3>3, <4>1
    <3> QED
      BY <3>1, <3>2, <3>3
  <2>10. Len(new) - 1 \in R \cup {v}
    BY <2>6
  <2>11. \A w \in R \cup {v} : w < Len(new)
    <3>1. Len(new) = v + 1
      BY <2>6
    <3> QED
      BY <2>8, <3>1
  <2>12. \A i \in DOMAIN new : new[i] = IF i - 1 \in R \cup {v} THEN i - 1 ELSE Gap
    <3>1. DOMAIN new = 1 .. v + 1
      BY <2>6
    <3> QED
      BY <2>9, <3>1
  <2>13. new \in Seq((0 .. 700) \cup {Gap})
    BY <2>6
  <2>14. Lists(new, R \cup {v})
    BY <2>10, <2>11, <2>12, <2>13 DEF Lists
  <2> QED
    BY <2>14 DEF new
<1> QED
  BY <1>2, <1>3

(* The values of the class at place k that are registered. *)
RegisteredAt(k) == IF k < class THEN Values[Classes[k]] ELSE IF k = class THEN registered ELSE {}

EnumInv ==
    /\ class \in 1 .. 12
    /\ registered \subseteq (IF class = 12 THEN {} ELSE Values[Classes[class]])
    /\ DOMAIN kinds = DOMAIN Values
    /\ \A k \in 1 .. 11 : Lists(kinds[Classes[k]], RegisteredAt(k))

(* The eleven classes, each at one place. *)
LEMMA ClassFacts ==
    /\ Len(Classes) = 11
    /\ \A k \in 1 .. 11 : Classes[k] \in DOMAIN Values
    /\ \A k, j \in 1 .. 11 : Classes[k] = Classes[j] => k = j
    /\ \A c \in DOMAIN Values : \E k \in 1 .. 11 : c = Classes[k]
<1>1. Len(Classes) = 11
  BY DEF Classes
<1>2. \A k \in 1 .. 11 : Classes[k] \in DOMAIN Values
  BY DEF Classes, Values
<1>3. \A k, j \in 1 .. 11 : Classes[k] = Classes[j] => k = j
  BY DEF Classes
<1>4. \A c \in DOMAIN Values : \E k \in 1 .. 11 : c = Classes[k]
  BY DEF Classes, Values
<1> QED
  BY <1>1, <1>2, <1>3, <1>4

(* The values of a class are few and not none. *)
LEMMA ValuesFacts ==
    \A c \in DOMAIN Values : Values[c] \subseteq 0 .. 700 /\ Values[c] # {}
<1>1. CursorKinds \subseteq 0 .. 700 /\ 1 \in CursorKinds
  BY DEF CursorKinds, DeclarationKinds, ReferenceKinds, InvalidKinds, ExpressionKinds,
         ObjectiveExpressionKinds, StatementKinds, DirectiveKinds, OtherKinds
<1> SUFFICES ASSUME NEW c \in DOMAIN Values
             PROVE  Values[c] \subseteq 0 .. 700 /\ Values[c] # {}
  OBVIOUS
<1>2. CASE c = "CursorKind"
  BY <1>1, <1>2 DEF Values
<1>3. CASE c # "CursorKind"
  <2>1. c \in {"TemplateArgumentKind", "ExceptionSpecificationKind", "StorageClass", "AvailabilityKind",
               "AccessSpecifier", "TypeKind", "RefQualifierKind", "LinkageKind", "TLSKind", "TokenKind"}
    BY <1>3 DEF Values
  <2>2. Values[c] \subseteq 0 .. 700 /\ 0 \in Values[c]
    BY <2>1 DEF Values, TemplateArgumentKinds, ExceptionSpecificationKinds, StorageClasses, AvailabilityKinds,
           AccessSpecifiers, TypeKinds, RefQualifierKinds, LinkageKinds, TLSKinds, TokenKinds
  <2> QED
    BY <2>2
<1> QED
  BY <1>2, <1>3

(* Empty lists hold nothing. *)
LEMMA EnumInitially == ASSUME EnumInit PROVE EnumInv
<1>1. Lists(<<>>, {})
  BY DEF Lists
<1>2. \A k \in 1 .. 11 : kinds[Classes[k]] = <<>>
  BY ClassFacts DEF EnumInit
<1>3. \A k \in 1 .. 11 : RegisteredAt(k) = {}
  BY DEF RegisteredAt, EnumInit
<1>4. class = 1 /\ registered = {} /\ DOMAIN kinds = DOMAIN Values
  BY DEF EnumInit
<1>5. \A k \in 1 .. 11 : Lists(kinds[Classes[k]], RegisteredAt(k))
  BY <1>1, <1>2, <1>3
<1> QED
  BY <1>4, <1>5 DEF EnumInv

(* A statement Class.NAME = Class(value). *)
LEMMA RegisterStep == ASSUME EnumInv, RegisterKind PROVE EnumInv'
<1> DEFINE c == Classes[class]
           left == Values[c] \ registered
           v == Min(left)
<1>1. class \in 1 .. 11 /\ class' = class
  BY ClassFacts DEF EnumInv, RegisterKind, Imported
<1>2. /\ left # {} /\ registered' = registered \cup {v}
      /\ kinds' = [kinds EXCEPT ![c] = Loaded(kinds[c], v)]
  BY DEF RegisterKind
<1>3. c \in DOMAIN Values /\ Values[c] \subseteq 0 .. 700
  BY <1>1, ClassFacts, ValuesFacts
<1>4. v \in left
  <2>1. left \in SUBSET Nat
    BY <1>3
  <2> HIDE DEF left
  <2>2. \E x \in left : \A y \in left : x <= y
    BY <1>2, <2>1, LeastNatural
  <2> QED
    BY <2>2 DEF Min
<1> HIDE DEF v
<1>5. registered \subseteq Values[c] /\ registered' \subseteq Values[c]
  BY <1>1, <1>2, <1>4 DEF EnumInv
<1>6. Lists(kinds[c], registered)
  BY <1>1 DEF EnumInv, RegisteredAt
<1>7. Lists(Loaded(kinds[c], v), registered \cup {v})
  <2>1. registered \in SUBSET (0 .. 700) /\ v \in 0 .. 700
    BY <1>3, <1>4, <1>5
  <2> HIDE DEF c
  <2> QED
    BY <1>6, <2>1, LoadedLists
<1>8. DOMAIN kinds' = DOMAIN Values
  BY <1>2 DEF EnumInv
<1>9. ASSUME NEW k \in 1 .. 11
      PROVE  Lists(kinds'[Classes[k]], RegisteredAt(k)')
  <2>1. CASE k = class
    <3>1. kinds'[Classes[k]] = Loaded(kinds[c], v)
      BY <1>2, <1>3, <2>1 DEF EnumInv
    <3>2. RegisteredAt(k)' = registered \cup {v}
      BY <1>1, <1>2, <2>1 DEF RegisteredAt
    <3> QED
      BY <1>7, <3>1, <3>2
  <2>2. CASE k # class
    <3>1. Classes[k] # c /\ Classes[k] \in DOMAIN kinds
      BY <1>1, <2>2, ClassFacts DEF EnumInv
    <3>2. kinds'[Classes[k]] = kinds[Classes[k]]
      BY <1>2, <3>1
    <3>3. RegisteredAt(k)' = RegisteredAt(k)
      BY <1>1, <2>2 DEF RegisteredAt
    <3> QED
      BY <3>2, <3>3 DEF EnumInv
  <2> QED
    BY <2>1, <2>2
<1>10. registered' \subseteq (IF class' = 12 THEN {} ELSE Values[Classes[class']])
  BY <1>1, <1>5
<1> QED
  BY <1>1, <1>8, <1>9, <1>10 DEF EnumInv

(* The statements of a class are through. *)
LEMMA NextClassStep == ASSUME EnumInv, NextClass PROVE EnumInv'
<1>1. class \in 1 .. 11 /\ class' = class + 1 /\ registered' = {} /\ kinds' = kinds
  BY ClassFacts DEF EnumInv, NextClass, Imported
<1>2. registered = Values[Classes[class]]
  BY DEF NextClass
<1>3. \A k \in 1 .. 11 : RegisteredAt(k)' = RegisteredAt(k)
  BY <1>1, <1>2 DEF RegisteredAt
<1> QED
  BY <1>1, <1>3 DEF EnumInv

(* Once the module is imported every list holds just the values of its     *)
(* class.                                                                  *)
LEMMA ImportedLists ==
    ASSUME EnumInv, Imported, NEW c \in DOMAIN Values
    PROVE  Lists(kinds[c], Values[c])
<1>1. class = 12
  BY ClassFacts DEF EnumInv, Imported
<1>2. PICK k \in 1 .. 11 : c = Classes[k]
  BY ClassFacts
<1>3. RegisteredAt(k) = Values[c]
  BY <1>1, <1>2 DEF RegisteredAt
<1> QED
  BY <1>2, <1>3 DEF EnumInv

(* from_id of a value that is not negative. *)
LEMMA FromIdFacts ==
    ASSUME EnumInv, Imported, NEW c \in DOMAIN Values, NEW id \in Nat
    PROVE  FromId(c, id) = IF id \in Values[c] THEN id ELSE Unknown
<1> DEFINE list == kinds[c]
<1>1. Lists(list, Values[c])
  BY ImportedLists
<1> HIDE DEF list
<1>2. /\ Len(list) \in Nat /\ DOMAIN list = 1 .. Len(list)
      /\ \A i \in DOMAIN list : list[i] = IF i - 1 \in Values[c] THEN i - 1 ELSE Gap
      /\ \A v \in Values[c] : v < Len(list)
  BY <1>1, ListedFacts
<1>3. FromId(c, id) = IF id + 1 \notin DOMAIN list \/ list[id + 1] = Gap THEN Unknown ELSE list[id + 1]
  BY DEF FromId, list
<1>4. CASE id \in Values[c]
  <2>1. id + 1 \in DOMAIN list /\ list[id + 1] = id
    BY <1>2, <1>4
  <2> QED
    BY <1>3, <1>4, <2>1, GapAssumption
<1>5. CASE id \notin Values[c]
  <2>1. id + 1 \in DOMAIN list => list[id + 1] = Gap
    BY <1>2, <1>5
  <2> QED
    BY <1>3, <1>5, <2>1
<1> QED
  BY <1>4, <1>5

(* The same for all values, -1 included. *)
LEMMA KindsFound == ASSUME EnumInv PROVE FromIdIsExact
<1> SUFFICES ASSUME Imported, NEW c \in DOMAIN Values
             PROVE  /\ \A id \in 0 .. 701 : FromId(c, id) = IF id \in Values[c] THEN id ELSE Unknown
                    /\ FromId(c, -1) = IF c = "TokenKind" THEN Unknown ELSE Max(Values[c])
  BY DEF FromIdIsExact
<1>1. \A id \in 0 .. 701 : FromId(c, id) = IF id \in Values[c] THEN id ELSE Unknown
  BY FromIdFacts
<1> DEFINE list == kinds[c]
<1>2. Lists(list, Values[c])
  BY ImportedLists
<1> HIDE DEF list
<1>3. /\ Len(list) \in Nat /\ DOMAIN list = 1 .. Len(list)
      /\ \A i \in DOMAIN list : list[i] = IF i - 1 \in Values[c] THEN i - 1 ELSE Gap
      /\ \A w \in Values[c] : w < Len(list)
      /\ Len(list) # 0 => Len(list) - 1 \in Values[c]
  BY <1>2, ListedFacts
<1>4. CASE c = "TokenKind"
  <2>1. FromId(c, -1) = IF 0 \notin DOMAIN list \/ list[0] = Gap THEN Unknown ELSE list[0]
    BY <1>4 DEF FromId, list
  <2> QED
    BY <1>1, <1>3, <1>4, <2>1
<1>5. CASE c # "TokenKind"
  <2>1. FromId(c, -1) = IF Len(list) \notin DOMAIN list \/ list[Len(list)] = Gap THEN Unknown ELSE list[Len(list)]
    <3>1. Len(list) + (-1) + 1 = Len(list)
      BY <1>3
    <3> QED
      BY <1>5, <3>1 DEF FromId, list
  <2>2. PICK v : v \in Values[c] /\ v \in 0 .. 700
    BY ValuesFacts
  <2>3. Len(list) \in DOMAIN list /\ Len(list) - 1 \in Values[c] /\ list[Len(list)] = Len(list) - 1
    BY <1>3, <2>2
  <2>4. Len(list) - 1 # Gap
    BY <1>3, GapAssumption
  <2>5. FromId(c, -1) = Len(list) - 1
    BY <2>1, <2>3, <2>4
  <2>6. Max(Values[c]) = Len(list) - 1
    <3> DEFINE S == Values[c]
    <3>1. S \in SUBSET Nat
      BY ValuesFacts
    <3>2. Len(list) - 1 \in S /\ \A y \in S : y < Len(list)
      BY <1>3, <2>3
    <3> HIDE DEF S
    <3>3. \A y \in S : Len(list) - 1 >= y
      BY <1>3, <3>1, <3>2
    <3>4. \A x \in S : (\A y \in S : x >= y) => x = Len(list) - 1
      <4> SUFFICES ASSUME NEW x \in S, \A y \in S : x >= y PROVE x = Len(list) - 1
        OBVIOUS
      <4>1. x >= Len(list) - 1 /\ Len(list) - 1 >= x /\ x \in Nat
        BY <3>1, <3>2, <3>3
      <4>2. Len(list) \in Nat
        BY <1>3
      <4> QED
        BY <4>1, <4>2
    <3>5. Max(S) = Len(list) - 1
      BY <3>2, <3>3, <3>4 DEF Max
    <3> QED
      BY <3>5 DEF S
  <2> QED
    BY <1>1, <1>5, <2>5, <2>6
<1> QED
  BY <1>4, <1>5

(* The invariant gives the types. *)
LEMMA EnumTyped == ASSUME EnumInv PROVE EnumTypeOK
<1>1. class \in 1 .. Len(Classes) + 1
  BY ClassFacts DEF EnumInv
<1>2. registered \subseteq 0 .. 700
  BY ClassFacts, ValuesFacts DEF EnumInv
<1>3. \A c \in DOMAIN Values : kinds[c] \in Seq((0 .. 700) \cup {Gap})
  <2> SUFFICES ASSUME NEW c \in DOMAIN Values PROVE kinds[c] \in Seq((0 .. 700) \cup {Gap})
    OBVIOUS
  <2>1. PICK k \in 1 .. 11 : c = Classes[k]
    BY ClassFacts
  <2>2. Lists(kinds[c], RegisteredAt(k))
    BY <2>1 DEF EnumInv
  <2> QED
    BY <2>2 DEF Lists
<1> QED
  BY <1>1, <1>2, <1>3 DEF EnumTypeOK

-----------------------------------------------------------------------------
(***************************************************************************)
(* WALKS                                                                   *)
(*                                                                         *)
(* A walk comes to its nodes in the order of the tree.  What is ahead of   *)
(* it: the nodes it comes to from the head of the stack on; those of them  *)
(* whose parent it has seen are the stack.                                 *)
(***************************************************************************)
IsOrdered(s) == \A i, j \in DOMAIN s : i < j => s[i] < s[j]

Has(s, x) == \E i \in DOMAIN s : s[i] = x

Ahead == IF stack = <<>> THEN Len(tree) + 1 ELSE Head(stack)

Seen == {n \in Nodes : n < Ahead}

IsWaiting(n) == n \in Nodes /\ n >= Ahead /\ (n = 1 \/ tree[n].parent < Ahead)

(* The nodes of F are collected, in order. *)
IsFound(F) ==
    /\ Len(found) = Cardinality(F)
    /\ \A i \in DOMAIN found :
          /\ found[i][2] \in F
          /\ \A j \in 1 .. i - 1 : found[j][2] < found[i][2]

StackInv ==
    /\ stack \in Seq(DOMAIN tree) /\ IsOrdered(stack)
    /\ \A n \in DOMAIN tree : Has(stack, n) <=> IsWaiting(n)

FoundInv ==
    /\ found \in Seq({"namespaces", "functions", "enums", "classes", "structs", "nodes", "yielded"} \X DOMAIN tree)
    /\ IsFound({n \in Seen : LooksFor(n)})

SeenInv == \A n \in Seen : n \notin Stops

WalkInv ==
    /\ walkState \in {"none", "walking", "done", "raised"}
    /\ walkState = "none" => WalkInit
    /\ walkState # "none" => /\ tree \in Trees /\ walk \in Walks
                             /\ StackInv /\ FoundInv /\ SeenInv
    /\ walkState = "done" => stack = <<>>
    /\ walkState = "raised" => stack # <<>> /\ Head(stack) \in Stops

(* Head and tail of an ordered sequence. *)
LEMMA HeadTailFacts ==
    ASSUME NEW s \in Seq(Nat), s # <<>>, IsOrdered(s)
    PROVE  /\ Tail(s) \in Seq(Nat) /\ IsOrdered(Tail(s)) /\ Has(s, Head(s)) /\ Head(s) \in Nat
           /\ \A x : Has(Tail(s), x) <=> Has(s, x) /\ x # Head(s)
           /\ \A x : Has(Tail(s), x) => Head(s) < x
<1>1. /\ Len(s) \in Nat /\ Len(s) # 0 /\ DOMAIN s = 1 .. Len(s) /\ Head(s) = s[1] /\ 1 \in DOMAIN s
      /\ \A j \in DOMAIN s : s[j] \in Nat
  OBVIOUS
<1>2. /\ Tail(s) \in Seq(Nat) /\ DOMAIN Tail(s) = 1 .. Len(s) - 1
      /\ \A j \in 1 .. Len(s) - 1 : Tail(s)[j] = s[j + 1]
  BY <1>1
<1>3. IsOrdered(Tail(s))
  BY <1>1, <1>2 DEF IsOrdered
<1>4. ASSUME NEW x, Has(Tail(s), x)
      PROVE  Has(s, x) /\ Head(s) < x
  <2>1. PICK j \in 1 .. Len(s) - 1 : s[j + 1] = x
    BY <1>2, <1>4 DEF Has
  <2>2. j + 1 \in DOMAIN s /\ 1 < j + 1
    BY <1>1
  <2> QED
    BY <1>1, <2>1, <2>2 DEF Has, IsOrdered
<1>5. ASSUME NEW x, Has(s, x), x # Head(s)
      PROVE  Has(Tail(s), x)
  <2>1. PICK j \in DOMAIN s : s[j] = x
    BY <1>5 DEF Has
  <2>2. j - 1 \in 1 .. Len(s) - 1 /\ (j - 1) + 1 = j
    BY <1>1, <1>5, <2>1
  <2> QED
    BY <1>2, <2>1, <2>2 DEF Has
<1>6. \A x : Has(Tail(s), x) => x # Head(s)
  BY <1>1, <1>4
<1> QED
  BY <1>1, <1>2, <1>3, <1>4, <1>5, <1>6 DEF Has

(* Ordered sequences, one behind the other. *)
LEMMA ConcatFacts ==
    ASSUME NEW a \in Seq(Nat), NEW b \in Seq(Nat), IsOrdered(a), IsOrdered(b),
           \A x, y : Has(a, x) /\ Has(b, y) => x < y
    PROVE  /\ a \o b \in Seq(Nat) /\ IsOrdered(a \o b)
           /\ \A x : Has(a \o b, x) <=> Has(a, x) \/ Has(b, x)
<1>1. /\ Len(a) \in Nat /\ Len(b) \in Nat /\ DOMAIN a = 1 .. Len(a) /\ DOMAIN b = 1 .. Len(b)
      /\ \A i \in DOMAIN a : a[i] \in Nat
      /\ \A i \in DOMAIN b : b[i] \in Nat
  OBVIOUS
<1> DEFINE c == a \o b
<1>2. /\ c \in Seq(Nat) /\ DOMAIN c = 1 .. Len(a) + Len(b)
      /\ \A i \in 1 .. Len(a) : c[i] = a[i]
      /\ \A i \in 1 .. Len(b) : c[Len(a) + i] = b[i]
      /\ \A i \in DOMAIN c : c[i] = IF i <= Len(a) THEN a[i] ELSE b[i - Len(a)]
  BY <1>1
<1> HIDE DEF c
<1>3. \A x : Has(c, x) => Has(a, x) \/ Has(b, x)
  <2> SUFFICES ASSUME NEW x, Has(c, x) PROVE Has(a, x) \/ Has(b, x)
    OBVIOUS
  <2>1. PICK i \in DOMAIN c : c[i] = x
    BY DEF Has
  <2>2. CASE i <= Len(a)
    <3>1. i \in DOMAIN a /\ a[i] = x
      BY <1>1, <1>2, <2>1, <2>2
    <3> QED
      BY <3>1 DEF Has
  <2>3. CASE ~(i <= Len(a))
    <3>1. i - Len(a) \in DOMAIN b /\ b[i - Len(a)] = x
      BY <1>1, <1>2, <2>1, <2>3
    <3> QED
      BY <3>1 DEF Has
  <2> QED
    BY <2>2, <2>3
<1>4. \A x : Has(a, x) => Has(c, x)
  <2> SUFFICES ASSUME NEW x, Has(a, x) PROVE Has(c, x)
    OBVIOUS
  <2>1. PICK i \in DOMAIN a : a[i] = x
    BY DEF Has
  <2>2. i \in DOMAIN c /\ c[i] = x
    BY <1>1, <1>2, <2>1
  <2> QED
    BY <2>2 DEF Has
<1>5. \A x : Has(b, x) => Has(c, x)
  <2> SUFFICES ASSUME NEW x, Has(b, x) PROVE Has(c, x)
    OBVIOUS
  <2>1. PICK i \in DOMAIN b : b[i] = x
    BY DEF Has
  <2>2. Len(a) + i \in DOMAIN c /\ c[Len(a) + i] = x
    BY <1>1, <1>2, <2>1
  <2> QED
    BY <2>2 DEF Has
<1>6. IsOrdered(c)
  <2> SUFFICES ASSUME NEW i \in DOMAIN c, NEW j \in DOMAIN c, i < j PROVE c[i] < c[j]
    BY DEF IsOrdered
  <2>1. CASE j <= Len(a)
    <3>1. i \in DOMAIN a /\ j \in DOMAIN a /\ c[i] = a[i] /\ c[j] = a[j]
      BY <1>1, <1>2, <2>1
    <3> QED
      BY <3>1 DEF IsOrdered
  <2>2. CASE i <= Len(a) /\ ~(j <= Len(a))
    <3>1. i \in DOMAIN a /\ c[i] = a[i] /\ j - Len(a) \in DOMAIN b /\ c[j] = b[j - Len(a)]
      BY <1>1, <1>2, <2>2
    <3>2. Has(a, c[i]) /\ Has(b, c[j])
      BY <3>1 DEF Has
    <3> QED
      BY <3>2
  <2>3. CASE ~(i <= Len(a))
    <3>1. /\ i - Len(a) \in DOMAIN b /\ c[i] = b[i - Len(a)]
          /\ j - Len(a) \in DOMAIN b /\ c[j] = b[j - Len(a)]
          /\ i - Len(a) < j - Len(a)
      <4>1. ~(j <= Len(a))
        BY <1>1, <1>2, <2>3
      <4>2. c[i] = b[i - Len(a)] /\ c[j] = b[j - Len(a)]
        BY <1>2, <2>3, <4>1
      <4>3. i \in Nat /\ j \in Nat /\ i <= Len(a) + Len(b) /\ j <= Len(a) + Len(b)
        BY <1>1, <1>2
      <4>4. i - Len(a) \in 1 .. Len(b) /\ j - Len(a) \in 1 .. Len(b) /\ i - Len(a) < j - Len(a)
        BY <1>1, <2>3, <4>1, <4>3
      <4> QED
        BY <1>1, <4>2, <4>4
    <3> QED
      BY <3>1 DEF IsOrdered
  <2> QED
    BY <1>1, <1>2, <2>1, <2>2, <2>3
<1> QED
  BY <1>2, <1>3, <1>4, <1>5, <1>6 DEF c

(* The visitor of get_children, child by child. *)
IsChildren(f, t, n, N) ==
    f = [k \in 0 .. N |-> IF k = 0 THEN <<>>
                          ELSE IF t[k].parent = n THEN Append(f[k - 1], k)
                          ELSE f[k - 1]]

(* The function of the recursive definition exists. *)
LEMMA ChildrenExist ==
    ASSUME NEW t, NEW n, NEW N \in Nat
    PROVE  \E f : IsChildren(f, t, n, N)
<1> DEFINE T == {k \in 0 .. N : ~\E f : IsChildren(f, t, n, k)}
<1>1. 0 \notin T
  <2> DEFINE f == [j \in 0 .. 0 |-> <<>>]
  <2>1. IsChildren(f, t, n, 0)
    BY DEF IsChildren
  <2> QED
    BY <2>1
<1>2. ASSUME NEW k \in 0 .. N - 1, k \notin T
      PROVE  k + 1 \notin T
  <2>1. k \in 0 .. N /\ k + 1 \in 0 .. N
    OBVIOUS
  <2>2. PICK f : IsChildren(f, t, n, k)
    BY <1>2, <2>1
  <2> DEFINE last == IF t[k + 1].parent = n THEN Append(f[k], k + 1) ELSE f[k]
             g == [j \in 0 .. k + 1 |-> IF j = k + 1 THEN last ELSE f[j]]
  <2>3. \A j \in 0 .. k : g[j] = f[j]
    BY <2>1
  <2>4. \A j \in 0 .. k : f[j] = IF j = 0 THEN <<>>
                                ELSE IF t[j].parent = n THEN Append(f[j - 1], j) ELSE f[j - 1]
    BY <2>2 DEF IsChildren
  <2>5. \A j \in 0 .. k + 1 : g[j] = IF j = 0 THEN <<>>
                                    ELSE IF t[j].parent = n THEN Append(g[j - 1], j) ELSE g[j - 1]
    <3> SUFFICES ASSUME NEW j \in 0 .. k + 1
                 PROVE  g[j] = IF j = 0 THEN <<>>
                               ELSE IF t[j].parent = n THEN Append(g[j - 1], j) ELSE g[j - 1]
      OBVIOUS
    <3>1. CASE j = k + 1
      <4>1. g[j] = last /\ g[j - 1] = f[k] /\ j # 0
        BY <2>1, <2>3, <3>1
      <4> QED
        BY <3>1, <4>1
    <3>2. CASE j # k + 1 /\ j # 0
      <4>1. j \in 0 .. k /\ j - 1 \in 0 .. k
        BY <2>1, <3>2
      <4> HIDE DEF g
      <4> QED
        BY <2>3, <2>4, <3>2, <4>1
    <3>3. CASE j = 0
      <4>1. j \in 0 .. k
        BY <2>1, <3>3
      <4> HIDE DEF g
      <4> QED
        BY <2>3, <2>4, <3>3, <4>1
    <3> QED
      BY <3>1, <3>2, <3>3
  <2>6. g = [j \in 0 .. k + 1 |-> g[j]]
    OBVIOUS
  <2> HIDE DEF g
  <2>7. IsChildren(g, t, n, k + 1)
    BY <2>5, <2>6 DEF IsChildren
  <2> QED
    BY <2>7
<1>3. T \in SUBSET (0 .. N)
  OBVIOUS
<1>4. T = {}
  <2> HIDE DEF T
  <2> QED
    BY <1>1, <1>2, <1>3, NoFirstException
<1>5. N \in 0 .. N
  OBVIOUS
<1> QED
  BY <1>4, <1>5

(* get_children gives all children, in the order of the source. *)
LEMMA ChildrenFacts ==
    ASSUME NEW t \in Seq(Node), NEW n
    PROVE  /\ GetChildren(t, n) \in Seq(Nat) /\ IsOrdered(GetChildren(t, n))
           /\ \A c : Has(GetChildren(t, n), c) <=> c \in DOMAIN t /\ t[c].parent = n
<1> DEFINE N == Len(t)
           children[k \in 0 .. N] ==
              IF k = 0 THEN <<>>
              ELSE IF t[k].parent = n THEN Append(children[k - 1], k)
              ELSE children[k - 1]
<1>1. N \in Nat /\ DOMAIN t = 1 .. N
  OBVIOUS
<1>2. GetChildren(t, n) = children[N]
  BY DEF GetChildren
<1>3. IsChildren(children, t, n, N)
  <2> HIDE DEF N
  <2>1. PICK f : IsChildren(f, t, n, N)
    BY <1>1, ChildrenExist
  <2>2. f = [k \in 0 .. N |-> IF k = 0 THEN <<>>
                              ELSE IF t[k].parent = n THEN Append(f[k - 1], k) ELSE f[k - 1]]
    BY <2>1 DEF IsChildren
  <2>3. children = [k \in 0 .. N |-> IF k = 0 THEN <<>>
                                     ELSE IF t[k].parent = n THEN Append(children[k - 1], k)
                                     ELSE children[k - 1]]
    BY <2>2
  <2> HIDE DEF children
  <2> QED
    BY <2>3 DEF IsChildren
<1> HIDE DEF children, N
<1>4. \A k \in 0 .. N : children[k] = IF k = 0 THEN <<>>
                                     ELSE IF t[k].parent = n THEN Append(children[k - 1], k)
                                     ELSE children[k - 1]
  BY <1>3 DEF IsChildren
<1> DEFINE OK(k) == /\ children[k] \in Seq(Nat) /\ IsOrdered(children[k])
                    /\ \A c : Has(children[k], c) <=> c \in 1 .. k /\ t[c].parent = n
           T == {k \in 0 .. N : ~OK(k)}
<1>5. OK(0)
  <2>1. children[0] = <<>>
    BY <1>1, <1>4
  <2> QED
    BY <2>1 DEF IsOrdered, Has
<1>6. ASSUME NEW k \in 0 .. N - 1, OK(k)
      PROVE  OK(k + 1)
  <2>1. k + 1 \in 0 .. N /\ k + 1 # 0 /\ (k + 1) - 1 = k /\ k \in Nat
    BY <1>1
  <2>2. children[k + 1] = IF t[k + 1].parent = n THEN Append(children[k], k + 1) ELSE children[k]
    BY <1>4, <2>1
  <2>3. CASE t[k + 1].parent # n
    <3>1. \A c : c \in 1 .. k + 1 /\ t[c].parent = n <=> c \in 1 .. k /\ t[c].parent = n
      BY <2>1, <2>3
    <3> QED
      BY <1>6, <2>2, <2>3, <3>1
  <2>4. CASE t[k + 1].parent = n
    <3> DEFINE a == children[k]
               b == <<k + 1>>
    <3>1. a \in Seq(Nat) /\ b \in Seq(Nat) /\ IsOrdered(a) /\ IsOrdered(b)
      BY <1>6, <2>1 DEF IsOrdered
    <3>2. \A y : Has(b, y) <=> y = k + 1
      BY DEF Has
    <3>3. \A x : Has(a, x) <=> x \in 1 .. k /\ t[x].parent = n
      BY <1>6
    <3>4. children[k + 1] = a \o b
      <4>1. a \in Seq(Nat) /\ k + 1 \in Nat
        BY <2>1, <3>1
      <4>2. Append(a, k + 1) = a \o b
        BY <4>1, AppendIsConcat
      <4> QED
        BY <2>2, <2>4, <4>2
    <3> HIDE DEF a, b
    <3>5. \A x, y : Has(a, x) /\ Has(b, y) => x < y
      BY <2>1, <3>2, <3>3
    <3>6. /\ a \o b \in Seq(Nat) /\ IsOrdered(a \o b)
          /\ \A x : Has(a \o b, x) <=> Has(a, x) \/ Has(b, x)
      BY <3>1, <3>5, ConcatFacts
    <3>7. \A c : Has(a \o b, c) <=> c \in 1 .. k + 1 /\ t[c].parent = n
      BY <2>1, <2>4, <3>2, <3>3, <3>6
    <3> QED
      BY <3>4, <3>6, <3>7
  <2> QED
    BY <2>3, <2>4
<1>7. OK(N)
  <2>1. T \in SUBSET (0 .. N) /\ 0 \notin T
    BY <1>5
  <2>2. \A k \in 0 .. N - 1 : k \notin T => k + 1 \notin T
    <3> SUFFICES ASSUME NEW k \in 0 .. N - 1, k \notin T PROVE k + 1 \notin T
      OBVIOUS
    <3>1. k \in 0 .. N
      BY <1>1
    <3>2. OK(k)
      BY <3>1
    <3> HIDE DEF OK
    <3> QED
      BY <1>6, <3>2
  <2>3. T = {}
    <3> HIDE DEF T
    <3> QED
      BY <1>1, <2>1, <2>2, NoFirstException
  <2>4. N \in 0 .. N
    BY <1>1
  <2> HIDE DEF OK
  <2> QED
    BY <2>3, <2>4
<1> QED
  BY <1>1, <1>2, <1>7

(* A node is come to when its parent is come to and entered. *)
LEMMA ComesToFacts ==
    ASSUME IsTree(tree)
    PROVE  /\ ComesTo(1)
           /\ \A n \in DOMAIN tree : n # 1 =>
                 (ComesTo(n) <=> ComesTo(tree[n].parent) /\ IsPassed(tree[n].parent))
<1> DEFINE D == DOMAIN tree
           above[k \in D] == IF k = 1 THEN {} ELSE {tree[k].parent} \cup above[tree[k].parent]
           IsUp(U, k) == /\ k # 1 => tree[k].parent \in U
                         /\ \A u \in U : u # 1 => tree[u].parent \in U
           f == [k \in D |-> {m \in D : \A U \in SUBSET D : IsUp(U, k) => m \in U}]
<1>1. 1 \in D /\ \A k \in D : k # 1 => tree[k].parent \in D
  <2>1. /\ tree \in Seq(Node) /\ tree # <<>> /\ D = 1 .. Len(tree) /\ Len(tree) \in Nat
        /\ \A n \in 2 .. Len(tree) : tree[n].parent \in 1 .. n - 1
    BY DEF IsTree
  <2>2. 1 \in D
    BY <2>1
  <2>3. ASSUME NEW k \in D, k # 1 PROVE tree[k].parent \in D
    <3>1. k \in 2 .. Len(tree)
      BY <2>1, <2>3
    <3> QED
      BY <2>1, <3>1
  <2> QED
    BY <2>2, <2>3
<1> HIDE DEF D
<1>2. f[1] = {}
  <2>1. IsUp({}, 1)
    OBVIOUS
  <2>2. {} \in SUBSET D
    OBVIOUS
  <2> HIDE DEF IsUp
  <2>3. \A m \in D : m \notin f[1]
    BY <1>1, <2>1, <2>2
  <2>4. f[1] \subseteq D
    BY <1>1
  <2> HIDE DEF f
  <2> QED
    BY <2>3, <2>4
<1>3. ASSUME NEW k \in D, k # 1
      PROVE  f[k] = {tree[k].parent} \cup f[tree[k].parent]
  <2> DEFINE p == tree[k].parent
             U0 == {p} \cup f[p]
  <2>1. p \in D
    BY <1>1, <1>3
  <2>2. f[p] \subseteq D
    BY <2>1
  <2>3. ASSUME NEW q \in D, q # 1 PROVE tree[q].parent \in f[q]
    BY <1>1, <2>3
  <2>4. ASSUME NEW q \in D, NEW u \in f[q], u # 1 PROVE tree[u].parent \in f[q]
    BY <1>1, <2>4
  <2>5. IsUp(U0, k) /\ U0 \in SUBSET D
    <3>1. p \in U0
      OBVIOUS
    <3>2. ASSUME NEW u \in U0, u # 1 PROVE tree[u].parent \in U0
      BY <2>1, <2>3, <2>4, <3>2
    <3> HIDE DEF f
    <3> QED
      BY <2>1, <2>2, <3>1, <3>2
  <2>6. f[k] \subseteq U0
    BY <2>5
  <2>7. p \in f[k]
    BY <1>3, <2>3
  <2>8. f[p] \subseteq f[k]
    <3> SUFFICES ASSUME NEW m \in f[p], NEW U \in SUBSET D, IsUp(U, k) PROVE m \in U
      BY <2>1
    <3>1. IsUp(U, p)
      BY <1>3
    <3> HIDE DEF IsUp
    <3> QED
      BY <2>1, <3>1
  <2> HIDE DEF f
  <2> QED
    BY <2>6, <2>7, <2>8
<1>4. f = [k \in D |-> IF k = 1 THEN {} ELSE {tree[k].parent} \cup f[tree[k].parent]]
  <2>1. f = [k \in D |-> f[k]]
    OBVIOUS
  <2> HIDE DEF f
  <2> QED
    BY <1>2, <1>3, <2>1
<1> HIDE DEF f
<1>5. above = [k \in D |-> IF k = 1 THEN {} ELSE {tree[k].parent} \cup above[tree[k].parent]]
  BY <1>4
<1>6. \A n \in D : Above(n) = above[n]
  BY DEF Above, D
<1> HIDE DEF above
<1>7. /\ Above(1) = {}
      /\ \A n \in D : n # 1 => Above(n) = {tree[n].parent} \cup Above(tree[n].parent)
  BY <1>1, <1>5, <1>6
<1> QED
  BY <1>1, <1>7 DEF ComesTo, D

(* What a walk asks of a node, and what the source says of it. *)
LEMMA KindOfFacts ==
    ASSUME EnumInv, Imported, tree \in Trees, NEW n \in DOMAIN tree
    PROVE  /\ KindOf(n) = IF tree[n].kind \in CursorKinds THEN tree[n].kind ELSE Unknown
           /\ tree[n].kind \in Nat /\ tree[n].here \in BOOLEAN /\ tree[n].parula \in BOOLEAN
<1>1. tree[n] \in Node
  BY TreesAssumption DEF IsTree
<1>2. tree[n].kind \in Nat /\ tree[n].here \in BOOLEAN /\ tree[n].parula \in BOOLEAN
  BY <1>1 DEF Node
<1>3. "CursorKind" \in DOMAIN Values /\ Values["CursorKind"] = CursorKinds
  BY DEF Values
<1> QED
  BY <1>2, <1>3, FromIdFacts DEF KindOf

(* The kinds the walks know are in the table. *)
LEMMA SomeCursorKinds ==
    {NAMESPACE, STRUCT_DECL, CLASS_DECL, ENUM_DECL, FUNCTION_DECL, FUNCTION_TEMPLATE, CLASS_TEMPLATE}
      \subseteq CursorKinds
  BY DEF NAMESPACE, STRUCT_DECL, CLASS_DECL, ENUM_DECL, FUNCTION_DECL, FUNCTION_TEMPLATE, CLASS_TEMPLATE,
         CursorKinds, DeclarationKinds

(* The list of a node whose kind may be unknown. *)
LEMMA ListOfFacts ==
    ASSUME EnumInv, Imported, tree \in Trees, NEW n \in DOMAIN tree
    PROVE  LET k == tree[n].kind
           IN  /\ ListOf(KindOf(n)) \in {"namespaces", "functions", "enums", "classes", "structs", "none"}
               /\ ListOf(KindOf(n)) # "none" <=>
                     k \in {NAMESPACE, STRUCT_DECL, CLASS_DECL, ENUM_DECL, FUNCTION_DECL,
                            FUNCTION_TEMPLATE, CLASS_TEMPLATE}
               /\ ListOf(KindOf(n)) = "namespaces" <=> k = NAMESPACE
               /\ KindOf(n) = Unknown <=> IsStrange(n)
<1> DEFINE k == tree[n].kind
<1>1. k \in Nat /\ KindOf(n) = IF k \in CursorKinds THEN k ELSE Unknown
  BY KindOfFacts
<1>2. Unknown \notin Nat
  BY GapAssumption
<1>3. CASE k \in CursorKinds
  <2>1. KindOf(n) = k /\ k # Unknown
    BY <1>1, <1>2, <1>3
  <2> QED
    BY <1>3, <2>1 DEF ListOf, IsStrange, NAMESPACE, STRUCT_DECL, CLASS_DECL, ENUM_DECL, FUNCTION_DECL,
                      FUNCTION_TEMPLATE, CLASS_TEMPLATE
<1>4. CASE k \notin CursorKinds
  <2>1. KindOf(n) = Unknown
    BY <1>1, <1>4
  <2>2. ListOf(Unknown) = "none"
    BY <1>2 DEF ListOf, NAMESPACE, STRUCT_DECL, CLASS_DECL, ENUM_DECL, FUNCTION_DECL,
                FUNCTION_TEMPLATE, CLASS_TEMPLATE
  <2>3. k \notin {NAMESPACE, STRUCT_DECL, CLASS_DECL, ENUM_DECL, FUNCTION_DECL, FUNCTION_TEMPLATE, CLASS_TEMPLATE}
    BY <1>4, SomeCursorKinds
  <2> QED
    BY <1>4, <2>1, <2>2, <2>3 DEF IsStrange
<1> QED
  BY <1>3, <1>4

(* A walk collects what it looks for and enters what it passes. *)
LEMMA CollectsFacts ==
    ASSUME EnumInv, Imported, tree \in Trees, walk \in Walks, NEW n \in DOMAIN tree
    PROVE  /\ Collects(n) \in {"namespaces", "functions", "enums", "classes", "structs", "nodes", "yielded", "none"}
           /\ Collects(n) # "none" <=> LooksFor(n)
           /\ Enters(n) <=> IsPassed(n)
<1>1. n \in Nat /\ n >= 1
  BY TreesAssumption DEF IsTree
<1>2. CASE walk = "preorder"
  BY <1>2 DEF Collects, LooksFor, Enters, IsPassed
<1>3. CASE walk = "extract"
  <2>1. KindOf(n) = FUNCTION_DECL <=> tree[n].kind = FUNCTION_DECL
    BY KindOfFacts, SomeCursorKinds, GapAssumption DEF FUNCTION_DECL
  <2> QED
    BY <1>1, <1>3, <2>1 DEF Collects, LooksFor, Enters, IsPassed, IsMethod
<1>4. CASE walk = "traverse"
  <2>1. tree[n].here \in BOOLEAN /\ tree[n].parula \in BOOLEAN
    BY KindOfFacts
  <2>2. Collects(n) = IF IsLeftOut(n) THEN "none" ELSE ListOf(KindOf(n))
    BY <1>4 DEF Collects
  <2>3. LooksFor(n) <=> /\ ~IsLeftOut(n)
                        /\ tree[n].kind \in {NAMESPACE, STRUCT_DECL, CLASS_DECL, ENUM_DECL, FUNCTION_DECL,
                                             FUNCTION_TEMPLATE, CLASS_TEMPLATE}
    BY <1>4 DEF LooksFor, IsLeftOut
  <2>4. Enters(n) <=> ~IsLeftOut(n) /\ ListOf(KindOf(n)) \in {"none", "namespaces"}
    BY <1>4 DEF Enters, IsEnteredByTraverse
  <2>5. IsPassed(n) <=> /\ ~IsLeftOut(n)
                        /\ tree[n].kind \notin {STRUCT_DECL, CLASS_DECL, ENUM_DECL, FUNCTION_DECL,
                                                FUNCTION_TEMPLATE, CLASS_TEMPLATE}
    BY <1>4 DEF IsPassed, IsLeftOut
  <2>6. NAMESPACE \notin {STRUCT_DECL, CLASS_DECL, ENUM_DECL, FUNCTION_DECL, FUNCTION_TEMPLATE, CLASS_TEMPLATE}
    BY DEF NAMESPACE, STRUCT_DECL, CLASS_DECL, ENUM_DECL, FUNCTION_DECL, FUNCTION_TEMPLATE, CLASS_TEMPLATE
  <2>7. ListOf(KindOf(n)) \in {"none", "namespaces"} <=>
           tree[n].kind \notin {STRUCT_DECL, CLASS_DECL, ENUM_DECL, FUNCTION_DECL, FUNCTION_TEMPLATE, CLASS_TEMPLATE}
    BY <2>6, ListOfFacts
  <2>8. Collects(n) # "none" <=> LooksFor(n)
    BY <2>2, <2>3, ListOfFacts
  <2>9. Collects(n) \in {"namespaces", "functions", "enums", "classes", "structs", "none"}
    BY <2>2, ListOfFacts
  <2> QED
    BY <2>4, <2>5, <2>7, <2>8, <2>9
<1> QED
  BY <1>2, <1>3, <1>4 DEF Walks

(* A walk raises at the nodes that stop it. *)
LEMMA RaisesFacts ==
    ASSUME EnumInv, Imported, tree \in Trees, walk \in Walks, NEW n \in Nodes
    PROVE  Raises(n) <=> n \in Stops
<1>1. n \in DOMAIN tree /\ n \in Nat /\ n >= 1
  BY TreesAssumption DEF IsTree, Nodes
<1>2. CASE walk = "preorder"
  BY <1>2 DEF Raises, Stops
<1>3. CASE walk = "extract"
  <2>1. KindOf(n) = Unknown <=> IsStrange(n)
    BY <1>1, ListOfFacts
  <2> QED
    BY <1>1, <1>3, <2>1 DEF Raises, Stops
<1>4. CASE walk = "traverse"
  <2>1. Raises(n) <=> /\ ~IsLeftOut(n)
                      /\ \/ KindOf(n) = Unknown
                         \/ AsksChildren(n) /\ \E c \in DOMAIN tree : tree[c].parent = n /\ KindOf(c) = Unknown
    BY <1>4 DEF Raises
  <2>2. n \in Stops <=> StopsTraverse(n)
    BY <1>4 DEF Stops
  <2>3. ~IsLeftOut(n) <=> tree[n].here /\ ~tree[n].parula
    BY DEF IsLeftOut
  <2>4. \A c \in DOMAIN tree : KindOf(c) = Unknown <=> IsStrange(c)
    BY ListOfFacts
  <2>5. ~IsLeftOut(n) => (AsksChildren(n) <=> LooksFor(n) /\ tree[n].kind # NAMESPACE)
    <3>1. AsksChildren(n) <=> ListOf(KindOf(n)) # "none" /\ ListOf(KindOf(n)) # "namespaces"
      BY <1>1, ListOfFacts DEF AsksChildren
    <3>2. ~IsLeftOut(n) => (LooksFor(n) <=> ListOf(KindOf(n)) # "none")
      BY <1>1, <1>4, <2>3, ListOfFacts DEF LooksFor
    <3> QED
      BY <1>1, <3>1, <3>2, ListOfFacts
  <2>6. StopsTraverse(n) <=>
           /\ ~IsLeftOut(n)
           /\ \/ IsStrange(n)
              \/ /\ LooksFor(n) /\ tree[n].kind # NAMESPACE
                 /\ \E c \in DOMAIN tree : tree[c].parent = n /\ IsStrange(c)
    BY <2>3 DEF StopsTraverse
  <2> QED
    BY <1>1, <2>1, <2>2, <2>4, <2>5, <2>6
<1> QED
  BY <1>2, <1>3, <1>4 DEF Walks

(* The tree, as the walk uses it. *)
LEMMA TreeFacts ==
    ASSUME tree \in Trees
    PROVE  /\ IsTree(tree) /\ tree \in Seq(Node)
           /\ Len(tree) \in Nat /\ Len(tree) >= 1 /\ DOMAIN tree = 1 .. Len(tree)
           /\ tree[1].parent = 0
           /\ \A n \in DOMAIN tree : n # 1 => tree[n].parent \in 1 .. n - 1
           /\ \A n \in DOMAIN tree : n # 1 =>
                 \A m \in tree[n].parent + 1 .. n : tree[m].parent >= tree[n].parent
           /\ \A n \in DOMAIN tree : tree[n].parent \in Nat
           /\ Nodes \subseteq DOMAIN tree /\ 1 \in Nodes
           /\ \A n \in DOMAIN tree : n # 1 =>
                 (n \in Nodes <=> tree[n].parent \in Nodes /\ IsPassed(tree[n].parent))
<1>1. IsTree(tree)
  BY TreesAssumption
<1>2. /\ tree \in Seq(Node) /\ tree # <<>> /\ tree[1].parent = 0
      /\ Len(tree) \in Nat /\ DOMAIN tree = 1 .. Len(tree)
      /\ \A n \in 2 .. Len(tree) : /\ tree[n].parent \in 1 .. n - 1
                                   /\ \A m \in tree[n].parent + 1 .. n : tree[m].parent >= tree[n].parent
  BY <1>1 DEF IsTree
<1>3. Len(tree) >= 1 /\ 1 \in DOMAIN tree
  BY <1>2
<1>4. ASSUME NEW n \in DOMAIN tree, n # 1
      PROVE  /\ tree[n].parent \in 1 .. n - 1 /\ tree[n].parent \in DOMAIN tree
             /\ \A m \in tree[n].parent + 1 .. n : tree[m].parent >= tree[n].parent
  <2>1. n \in 2 .. Len(tree)
    BY <1>2, <1>4
  <2> QED
    BY <1>2, <2>1
<1>5. \A n \in DOMAIN tree : tree[n].parent \in Nat
  BY <1>2 DEF Node
<1>6. 1 \in Nodes
  BY <1>1, <1>3, ComesToFacts DEF Nodes
<1>7. ASSUME NEW n \in DOMAIN tree, n # 1
      PROVE  n \in Nodes <=> tree[n].parent \in Nodes /\ IsPassed(tree[n].parent)
  BY <1>1, <1>4, <1>7, ComesToFacts DEF Nodes
<1>8. Nodes \subseteq DOMAIN tree
  BY DEF Nodes
<1> QED
  BY <1>1, <1>2, <1>3, <1>4, <1>5, <1>6, <1>7, <1>8

(* The nodes come to depend on the tree and the walk only. *)
LEMMA SameNodes == ASSUME tree' = tree, walk' = walk PROVE Nodes' = Nodes
<1>1. \A n : Above(n)' = Above(n)
  BY DEF Above
<1> QED
  BY <1>1 DEF Nodes, ComesTo, IsPassed

(* So do the nodes looked for and those that stop the walk. *)
LEMMA SameStops ==
    ASSUME tree' = tree, walk' = walk
    PROVE  Stops' = Stops /\ \A n : LooksFor(n)' = LooksFor(n)
<1>1. Nodes' = Nodes
  BY SameNodes
<1>2. \A n : LooksFor(n)' = LooksFor(n)
  BY DEF LooksFor
<1>3. \A n : StopsTraverse(n)' = StopsTraverse(n)
  BY DEF LooksFor, StopsTraverse, IsStrange
<1> QED
  BY <1>1, <1>2, <1>3 DEF Stops, IsStrange

(* A walk begins with everything ahead. *)
IsStarted ==
    /\ walkState = "walking" /\ tree \in Trees /\ walk \in Walks
    /\ stack = <<1>> /\ found = <<>>

(* The invariant holds of it. *)
LEMMA WalkStarts == ASSUME IsStarted PROVE WalkInv
<1>1. tree \in Trees /\ walk \in Walks /\ stack = <<1>> /\ found = <<>> /\ walkState = "walking"
  BY DEF IsStarted
<1>2. /\ Len(tree) \in Nat /\ Len(tree) >= 1 /\ DOMAIN tree = 1 .. Len(tree)
      /\ \A n \in DOMAIN tree : n # 1 => tree[n].parent \in 1 .. n - 1
      /\ Nodes \subseteq DOMAIN tree /\ 1 \in Nodes
  BY <1>1, TreeFacts
<1>3. Ahead = 1 /\ \A n : Has(stack, n) <=> n = 1
  BY <1>1 DEF Ahead, Has
<1>4. StackInv
  <2>1. stack \in Seq(DOMAIN tree) /\ IsOrdered(stack)
    BY <1>1, <1>2 DEF IsOrdered
  <2>2. \A n \in DOMAIN tree : IsWaiting(n) <=> n = 1
    BY <1>2, <1>3 DEF IsWaiting
  <2> QED
    BY <1>3, <2>1, <2>2 DEF StackInv
<1>5. Seen = {}
  BY <1>2, <1>3 DEF Seen
<1>6. FoundInv /\ SeenInv
  BY <1>1, <1>5, FS_EmptySet DEF FoundInv, SeenInv, IsFound
<1> QED
  BY <1>1, <1>4, <1>6 DEF WalkInv

(***************************************************************************)
(* One visit: the children of the node go in front of the stack when the   *)
(* node is entered, and no node the walk comes to is passed over.          *)
(***************************************************************************)
LEMMA VisitStack ==
    ASSUME EnumInv, Imported, tree \in Trees, walk \in Walks, StackInv, Visit
    PROVE  /\ StackInv' /\ Nodes' = Nodes
           /\ Head(stack) \in Nodes /\ Head(stack) = Ahead
           /\ Seen' = Seen \cup {Head(stack)}
<1> DEFINE h == Head(stack)
           kids == IF Enters(h) THEN GetChildren(tree, h) ELSE <<>>
           rest == Tail(stack)
           new == kids \o rest
           D == DOMAIN tree
<1>0. /\ tree \in Seq(Node) /\ Len(tree) \in Nat /\ D = 1 .. Len(tree) /\ tree[1].parent = 0
      /\ \A n \in D : n # 1 => tree[n].parent \in 1 .. n - 1
      /\ \A n \in D : n # 1 => \A m \in tree[n].parent + 1 .. n : tree[m].parent >= tree[n].parent
      /\ \A n \in D : tree[n].parent \in Nat
      /\ Nodes \subseteq D /\ 1 \in Nodes
      /\ \A n \in D : n # 1 => (n \in Nodes <=> tree[n].parent \in Nodes /\ IsPassed(tree[n].parent))
  BY TreeFacts
<1>1. tree' = tree /\ walk' = walk /\ stack # <<>> /\ stack' = new
  BY DEF Visit
<1>2. Nodes' = Nodes
  BY <1>1, SameNodes
<1>3. /\ stack \in Seq(D) /\ stack \in Seq(Nat) /\ IsOrdered(stack)
      /\ \A n \in D : Has(stack, n) <=> IsWaiting(n)
  BY <1>0 DEF StackInv
<1> HIDE DEF D
<1>3a. (\A x \in D : x \in Nat /\ x >= 1) /\ Nodes \subseteq D
  BY <1>0
<1>3b. \A n \in Nodes : n # 1 => tree[n].parent \in Nodes /\ tree[n].parent < n
  <2> SUFFICES ASSUME NEW n \in Nodes, n # 1 PROVE tree[n].parent \in Nodes /\ tree[n].parent < n
    OBVIOUS
  <2>1. n \in D /\ n \in Nat
    BY <1>3a
  <2>2. tree[n].parent \in 1 .. n - 1
    BY <1>0, <2>1
  <2> QED
    BY <1>0, <2>1, <2>2
<1>4. /\ rest \in Seq(Nat) /\ IsOrdered(rest) /\ Has(stack, h) /\ h \in Nat
      /\ \A x : Has(rest, x) <=> Has(stack, x) /\ x # h
      /\ \A x : Has(rest, x) => h < x
  BY <1>1, <1>3, HeadTailFacts
<1>5. Ahead = h
  BY <1>1 DEF Ahead
<1>6. h \in D /\ h \in Nodes /\ h >= 1
  <2>1. h \in D
    BY <1>1, <1>3
  <2> QED
    BY <1>0, <1>3, <1>4, <2>1 DEF IsWaiting
<1>7. /\ kids \in Seq(Nat) /\ IsOrdered(kids)
      /\ \A c : Has(kids, c) <=> c \in Nodes /\ c # 1 /\ tree[c].parent = h
  <2>1. Enters(h) <=> IsPassed(h)
    BY <1>6, CollectsFacts DEF D
  <2>2. CASE Enters(h)
    <3>1. /\ kids \in Seq(Nat) /\ IsOrdered(kids)
          /\ \A c : Has(kids, c) <=> c \in D /\ tree[c].parent = h
      BY <1>0, <2>2, ChildrenFacts DEF D
    <3>2. \A c : c \in D /\ tree[c].parent = h <=> c \in Nodes /\ c # 1 /\ tree[c].parent = h
      <4>1. ASSUME NEW c \in D, tree[c].parent = h PROVE c \in Nodes /\ c # 1
        <5>1. c # 1
          BY <1>0, <1>6, <4>1
        <5> QED
          BY <1>0, <1>6, <2>1, <2>2, <4>1, <5>1
      <4> QED
        BY <1>3a, <4>1
    <3> QED
      BY <3>1, <3>2
  <2>3. CASE ~Enters(h)
    <3>1. kids = <<>>
      BY <2>3
    <3>2. <<>> \in Seq(Nat) /\ IsOrdered(<<>>) /\ \A c : ~Has(<<>>, c)
      BY DEF IsOrdered, Has
    <3>3. \A c : ~(c \in Nodes /\ c # 1 /\ tree[c].parent = h)
      BY <1>0, <1>3a, <2>1, <2>3
    <3> HIDE DEF kids
    <3> QED
      BY <3>1, <3>2, <3>3
  <2> QED
    BY <2>2, <2>3
<1> HIDE DEF kids, h
<1>8. \A x : Has(rest, x) <=> x \in Nodes /\ x > h /\ tree[x].parent < h
  <2>1. \A x : Has(stack, x) => x \in D
    BY <1>3 DEF Has
  <2>2. \A x \in D : x \in Nat
    BY <1>0
  <2>3. \A x : Has(rest, x) <=> x \in D /\ IsWaiting(x) /\ x # h
    BY <1>3, <1>4, <2>1
  <2>4. \A x \in D : IsWaiting(x) <=> x \in Nodes /\ x >= h /\ (x = 1 \/ tree[x].parent < h)
    BY <1>5 DEF IsWaiting
  <2>5. ASSUME NEW x \in D
        PROVE  Has(rest, x) <=> x \in Nodes /\ x > h /\ tree[x].parent < h
    <3>1. x \in Nat
      BY <2>2
    <3>2. Has(rest, x) <=> x \in Nodes /\ x >= h /\ (x = 1 \/ tree[x].parent < h) /\ x # h
      BY <2>3, <2>4
    <3> QED
      BY <1>4, <1>6, <3>1, <3>2
  <2> QED
    BY <1>3a, <2>3, <2>5
<1> HIDE DEF rest
<1>9. \A x, y : Has(kids, x) /\ Has(rest, y) => x < y
  <2> SUFFICES ASSUME NEW x, NEW y, Has(kids, x), Has(rest, y), ~(x < y) PROVE FALSE
    OBVIOUS
  <2>1. x \in D /\ x # 1 /\ tree[x].parent = h /\ y \in D /\ y > h /\ tree[y].parent < h
    BY <1>0, <1>7, <1>8
  <2>2. x \in Nat /\ y \in Nat /\ tree[y].parent \in Nat
    BY <1>0, <2>1
  <2>3. y \in tree[x].parent + 1 .. x
    BY <1>4, <2>1, <2>2
  <2>4. tree[y].parent >= h
    BY <1>0, <2>1, <2>3
  <2> QED
    BY <1>4, <2>1, <2>2, <2>4
<1>10. /\ new \in Seq(Nat) /\ IsOrdered(new)
       /\ \A x : Has(new, x) <=> Has(kids, x) \/ Has(rest, x)
  BY <1>4, <1>7, <1>9, ConcatFacts
<1> HIDE DEF new
<1> DEFINE a == IF new = <<>> THEN Len(tree) + 1 ELSE Head(new)
<1>11. Ahead' = a
  BY <1>1 DEF Ahead
<1>12. \A x : Has(new, x) => x \in D /\ x \in Nat /\ x > h
  <2>1. \A x : Has(kids, x) => x \in D /\ x \in Nat /\ x > h
    BY <1>3a, <1>3b, <1>4, <1>7
  <2>2. \A x : Has(rest, x) => x \in D /\ x \in Nat /\ x > h
    BY <1>3a, <1>8
  <2> QED
    BY <1>10, <2>1, <2>2
<1>13. a \in Nat /\ a > h /\ (\A x : Has(new, x) => x >= a) /\ a <= Len(tree) + 1
  <2>1. CASE new = <<>>
    <3>1. a = Len(tree) + 1 /\ \A x : ~Has(new, x)
      BY <2>1 DEF Has
    <3> QED
      BY <1>0, <1>6, <3>1
  <2>2. CASE new # <<>>
    <3>1. a = Head(new)
      BY <2>2
    <3>2. /\ Has(new, a) /\ a \in Nat
          /\ \A x : Has(Tail(new), x) <=> Has(new, x) /\ x # a
          /\ \A x : Has(Tail(new), x) => a < x
      BY <1>10, <2>2, <3>1, HeadTailFacts
    <3>3. a \in D /\ a > h
      BY <1>12, <3>2
    <3> HIDE DEF a
    <3>4. a <= Len(tree) + 1
      BY <1>0, <3>3
    <3>5. \A x : Has(new, x) => x >= a
      BY <1>12, <3>2
    <3> QED
      BY <3>2, <3>3, <3>4, <3>5
  <2> QED
    BY <2>1, <2>2
<1> HIDE DEF a
<1>14. \A n \in Nodes : ~(h < n /\ n < a)
  <2> DEFINE T == {n \in Nodes : h < n /\ n < a}
  <2> SUFFICES ASSUME T # {} PROVE FALSE
    OBVIOUS
  <2>1. T \in SUBSET Nat
    BY <1>3a
  <2>2. \E n \in T : \A m \in T : n <= m
    <3> HIDE DEF T
    <3> QED
      BY <2>1, LeastNatural
  <2>3. PICK n \in T : \A m \in T : n <= m
    BY <2>2
  <2>4. n \in D /\ n \in Nat /\ n # 1 /\ n \in Nodes /\ h < n /\ n < a
    BY <1>0, <1>6, <2>3
  <2>5. tree[n].parent \in Nodes /\ tree[n].parent \in Nat /\ tree[n].parent < n
    BY <1>0, <2>4
  <2>6. CASE tree[n].parent < h
    <3>1. Has(rest, n)
      BY <1>8, <2>4, <2>6
    <3> QED
      BY <1>10, <1>13, <2>4, <3>1
  <2>7. CASE tree[n].parent = h
    <3>1. Has(kids, n)
      BY <1>7, <2>4, <2>7
    <3> QED
      BY <1>10, <1>13, <2>4, <3>1
  <2>8. CASE tree[n].parent > h
    <3>1. tree[n].parent < a
      BY <1>13, <2>4, <2>5
    <3>2. tree[n].parent \in T
      BY <2>5, <2>8, <3>1
    <3>3. n <= tree[n].parent
      BY <2>3, <3>2
    <3> QED
      BY <2>4, <2>5, <3>3
  <2> QED
    BY <1>4, <2>5, <2>6, <2>7, <2>8
<1>15. \A n \in D : Has(new, n) <=> n \in Nodes /\ n >= a /\ (n = 1 \/ tree[n].parent < a)
  <2> SUFFICES ASSUME NEW n \in D
               PROVE  Has(new, n) <=> n \in Nodes /\ n >= a /\ (n = 1 \/ tree[n].parent < a)
    OBVIOUS
  <2>1. n \in Nat /\ tree[n].parent \in Nat
    BY <1>0
  <2>2. ASSUME Has(new, n)
        PROVE  n \in Nodes /\ n >= a /\ tree[n].parent < a
    <3>1. n \in Nodes /\ tree[n].parent <= h
      BY <1>4, <1>7, <1>8, <1>10, <2>1, <2>2
    <3> QED
      BY <1>4, <1>13, <2>1, <2>2, <3>1
  <2>3. ASSUME n \in Nodes, n >= a, n = 1 \/ tree[n].parent < a
        PROVE  Has(new, n)
    <3>1. n # 1 /\ n > h
      BY <1>4, <1>6, <1>13, <2>1, <2>3
    <3>2. tree[n].parent \in Nodes /\ tree[n].parent < a
      BY <1>0, <2>3, <3>1
    <3>3. tree[n].parent <= h
      BY <1>4, <1>13, <1>14, <2>1, <3>2
    <3>4. CASE tree[n].parent = h
      BY <1>7, <1>10, <2>3, <3>1, <3>4
    <3>5. CASE tree[n].parent < h
      BY <1>8, <1>10, <2>3, <3>1, <3>5
    <3> QED
      BY <1>4, <2>1, <3>3, <3>4, <3>5
  <2> QED
    BY <2>2, <2>3
<1>16. StackInv'
  <2>1. new \in Seq(D)
    <3>1. \A i \in 1 .. Len(new) : new[i] \in D
      <4> SUFFICES ASSUME NEW i \in 1 .. Len(new) PROVE new[i] \in D
        OBVIOUS
      <4>1. Has(new, new[i])
        BY <1>10 DEF Has
      <4> QED
        BY <1>12, <4>1
    <3> QED
      BY <1>10, <3>1
  <2>2. \A n : IsWaiting(n)' <=> n \in Nodes /\ n >= a /\ (n = 1 \/ tree[n].parent < a)
    BY <1>1, <1>2, <1>11 DEF IsWaiting
  <2>3. Has(stack, 1)' <=> Has(new, 1)
    BY <1>1 DEF Has
  <2>4. stack' \in Seq(DOMAIN tree') /\ IsOrdered(stack)'
    BY <1>1, <1>10, <2>1 DEF D, IsOrdered
  <2>5. \A n \in DOMAIN tree' : Has(stack, n)' <=> IsWaiting(n)'
    BY <1>1, <1>15, <2>2 DEF D, Has
  <2> QED
    BY <2>4, <2>5 DEF StackInv
<1>17. Seen' = Seen \cup {h}
  <2>1. \A n \in Nodes : n \in Nat
    BY <1>3a
  <2>2. Seen' = {n \in Nodes : n < a} /\ Seen = {n \in Nodes : n < h}
    BY <1>2, <1>5, <1>11 DEF Seen
  <2> QED
    <3>1. ASSUME NEW n \in Nodes PROVE n < a <=> n < h \/ n = h
      BY <1>4, <1>13, <1>14, <2>1, <3>1
    <3> QED
      BY <1>6, <2>2, <3>1
<1> QED
  BY <1>2, <1>5, <1>6, <1>16, <1>17 DEF h

(* It is collected if it is looked for, and does not stop the walk. *)
LEMMA VisitFound ==
    ASSUME EnumInv, Imported, tree \in Trees, walk \in Walks, StackInv, FoundInv, SeenInv, Visit
    PROVE  FoundInv' /\ SeenInv'
<1> DEFINE h == Head(stack)
           F == {n \in Seen : LooksFor(n)}
           Names == {"namespaces", "functions", "enums", "classes", "structs", "nodes", "yielded"}
<1>1. /\ Nodes' = Nodes /\ h \in Nodes /\ h = Ahead /\ Seen' = Seen \cup {h}
      /\ tree' = tree /\ walk' = walk /\ ~Raises(h)
      /\ found' = IF Collects(h) = "none" THEN found ELSE Append(found, <<Collects(h), h>>)
  BY VisitStack DEF Visit
<1>2. Stops' = Stops /\ \A n : LooksFor(n)' = LooksFor(n)
  BY <1>1, SameStops
<1> HIDE DEF h
<1>3. h \notin Stops
  BY <1>1, RaisesFacts
<1>4. SeenInv'
  BY <1>1, <1>2, <1>3 DEF SeenInv
<1>5. /\ Nodes \subseteq DOMAIN tree /\ DOMAIN tree = 1 .. Len(tree) /\ Len(tree) \in Nat
      /\ h \in DOMAIN tree /\ h \in Nat
  BY <1>1, TreeFacts
<1>6. h \notin Seen /\ Seen \subseteq DOMAIN tree /\ \A n \in Seen : n < h /\ n \in Nat
  BY <1>1, <1>5 DEF Seen
<1>7. IsFiniteSet(F) /\ Cardinality(F) \in Nat /\ h \notin F /\ \A n \in F : n < h
  <2>1. IsFiniteSet(DOMAIN tree) /\ F \in SUBSET DOMAIN tree
    BY <1>5, <1>6, FS_Interval
  <2> HIDE DEF F
  <2>2. IsFiniteSet(F)
    BY <2>1, FS_Subset
  <2>3. Cardinality(F) \in Nat
    BY <2>2, FS_CardinalityType
  <2> QED
    BY <1>6, <2>2, <2>3 DEF F
<1>8. found \in Seq(Names \X DOMAIN tree) /\ IsFound(F)
  BY DEF FoundInv
<1>9. Collects(h) \in Names \cup {"none"} /\ (Collects(h) # "none" <=> LooksFor(h))
  BY <1>5, CollectsFacts
<1>10. {n \in Seen : LooksFor(n)}' = IF LooksFor(h) THEN F \cup {h} ELSE F
  BY <1>1, <1>2
<1> HIDE DEF F
<1>11. CASE ~LooksFor(h)
  <2>1. found' = found /\ {n \in Seen : LooksFor(n)}' = F
    BY <1>1, <1>9, <1>10, <1>11
  <2>2. IsFound({n \in Seen : LooksFor(n)})'
    BY <1>8, <2>1 DEF IsFound
  <2>3. found' \in Seq(Names \X DOMAIN tree')
    BY <1>1, <1>8, <2>1
  <2> QED
    BY <1>4, <2>2, <2>3 DEF FoundInv
<1>12. CASE LooksFor(h)
  <2> DEFINE e == <<Collects(h), h>>
             S == Names \X DOMAIN tree
  <2>1. e \in S /\ e[2] = h
    BY <1>5, <1>9, <1>12
  <2>2. found' = Append(found, e) /\ {n \in Seen : LooksFor(n)}' = F \cup {h}
    BY <1>1, <1>9, <1>10, <1>12
  <2>3. found \in Seq(S)
    BY <1>8
  <2> HIDE DEF e, S
  <2>4. /\ Len(found) \in Nat /\ DOMAIN found = 1 .. Len(found)
        /\ found' \in Seq(S) /\ Len(found') = Len(found) + 1 /\ DOMAIN found' = 1 .. Len(found) + 1
        /\ \A i \in 1 .. Len(found) : found'[i] = found[i]
        /\ found'[Len(found) + 1] = e
    BY <2>1, <2>2, <2>3
  <2>5. Cardinality(F \cup {h}) = Cardinality(F) + 1
    BY <1>7, FS_AddElement
  <2>6. Len(found) = Cardinality(F) /\ \A i \in 1 .. Len(found) : found[i][2] \in F
    BY <1>8, <2>4 DEF IsFound
  <2>7. \A i \in 1 .. Len(found) : \A j \in 1 .. i - 1 : found[j][2] < found[i][2]
    BY <1>8, <2>4 DEF IsFound
  <2>8. ASSUME NEW i \in DOMAIN found'
        PROVE  found'[i][2] \in F \cup {h} /\ \A j \in 1 .. i - 1 : found'[j][2] < found'[i][2]
    <3>1. CASE i = Len(found) + 1
      <4>1. found'[i][2] = h
        BY <2>1, <2>4, <3>1
      <4>2. \A j \in 1 .. i - 1 : found'[j][2] \in F
        BY <2>4, <2>6, <3>1
      <4> QED
        BY <1>7, <4>1, <4>2
    <3>2. CASE i \in 1 .. Len(found)
      <4>1. found'[i][2] = found[i][2] /\ \A j \in 1 .. i - 1 : found'[j] = found[j]
        BY <2>4, <3>2
      <4> QED
        BY <2>6, <2>7, <3>2, <4>1
    <3> QED
      BY <2>4, <3>1, <3>2
  <2>9. IsFound({n \in Seen : LooksFor(n)})'
    BY <2>2, <2>4, <2>5, <2>6, <2>8 DEF IsFound
  <2>10. found' \in Seq(Names \X DOMAIN tree')
    BY <1>1, <2>4 DEF S
  <2> QED
    BY <1>4, <2>9, <2>10 DEF FoundInv
<1> QED
  BY <1>11, <1>12

(* A step that leaves tree, stack and found alone. *)
LEMMA SameWalk ==
    ASSUME tree' = tree, walk' = walk, stack' = stack, found' = found, StackInv, FoundInv, SeenInv
    PROVE  StackInv' /\ FoundInv' /\ SeenInv'
<1>1. Nodes' = Nodes /\ Stops' = Stops /\ \A n : LooksFor(n)' = LooksFor(n)
  BY SameNodes, SameStops
<1>2. Ahead' = Ahead
  BY DEF Ahead
<1>3. Seen' = Seen /\ \A n : IsWaiting(n)' = IsWaiting(n)
  BY <1>1, <1>2 DEF Seen, IsWaiting
<1>4. {n \in Seen : LooksFor(n)}' = {n \in Seen : LooksFor(n)}
  BY <1>1, <1>3
<1>5. StackInv'
  BY <1>3 DEF StackInv, IsOrdered, Has
<1>6. FoundInv'
  BY <1>4 DEF FoundInv, IsFound
<1>7. SeenInv'
  BY <1>1, <1>3 DEF SeenInv
<1> QED
  BY <1>5, <1>6, <1>7

(* A step that does not concern the walk. *)
LEMMA SameWalkInv == ASSUME WalkInv, UNCHANGED walkVars PROVE WalkInv'
<1>1. tree' = tree /\ walk' = walk /\ stack' = stack /\ found' = found /\ walkState' = walkState
  BY DEF walkVars
<1>2. WalkInit => WalkInit'
  BY <1>1 DEF WalkInit
<1>3. StackInv /\ FoundInv /\ SeenInv => StackInv' /\ FoundInv' /\ SeenInv'
  BY <1>1, SameWalk
<1>4. Stops' = Stops
  BY <1>1, SameStops
<1> QED
  BY <1>1, <1>2, <1>3, <1>4 DEF WalkInv

(* Every step of a walk keeps the invariant. *)
LEMMA WalkStep ==
    ASSUME EnumInv, Imported, WalkInv, WalkNext
    PROVE  WalkInv' \/ IsStarted'
<1>1. CASE StartWalk
  BY <1>1 DEF StartWalk, WalkInv, WalkInit, IsStarted
<1>2. CASE Visit
  <2>1. /\ walkState = "walking" /\ walkState' = "walking"
        /\ tree \in Trees /\ walk \in Walks /\ StackInv /\ FoundInv /\ SeenInv
        /\ tree' = tree /\ walk' = walk
    BY <1>2 DEF Visit, WalkInv
  <2>2. StackInv'
    BY <1>2, <2>1, VisitStack
  <2>3. FoundInv' /\ SeenInv'
    BY <1>2, <2>1, VisitFound
  <2> QED
    BY <2>1, <2>2, <2>3 DEF WalkInv
<1>3. CASE WalkRaises
  <2>1. /\ walkState = "walking" /\ walkState' = "raised" /\ stack # <<>> /\ Raises(Head(stack))
        /\ tree \in Trees /\ walk \in Walks /\ StackInv /\ FoundInv /\ SeenInv
        /\ tree' = tree /\ walk' = walk /\ stack' = stack /\ found' = found
    BY <1>3 DEF WalkRaises, WalkInv
  <2>2. Head(stack) \in Nodes
    <3>1. 1 \in DOMAIN stack /\ Head(stack) = stack[1] /\ Head(stack) \in DOMAIN tree
      BY <2>1 DEF StackInv
    <3>2. Has(stack, Head(stack))
      BY <3>1 DEF Has
    <3> QED
      BY <2>1, <3>1, <3>2 DEF StackInv, IsWaiting
  <2>3. Head(stack) \in Stops
    BY <2>1, <2>2, RaisesFacts
  <2>4. Stops' = Stops
    BY <2>1, SameStops
  <2>5. StackInv' /\ FoundInv' /\ SeenInv'
    BY <2>1, SameWalk
  <2> QED
    BY <2>1, <2>3, <2>4, <2>5 DEF WalkInv
<1>4. CASE WalkReturns
  <2>1. /\ walkState = "walking" /\ walkState' = "done" /\ stack = <<>>
        /\ tree \in Trees /\ walk \in Walks /\ StackInv /\ FoundInv /\ SeenInv
        /\ tree' = tree /\ walk' = walk /\ stack' = stack /\ found' = found
    BY <1>4 DEF WalkReturns, WalkInv
  <2>2. StackInv' /\ FoundInv' /\ SeenInv'
    BY <2>1, SameWalk
  <2> QED
    BY <2>1, <2>2 DEF WalkInv
<1> QED
  BY <1>1, <1>2, <1>3, <1>4 DEF WalkNext

(* The invariant gives the types. *)
LEMMA WalkTyped == ASSUME WalkInv PROVE WalkTypeOK
<1>1. CASE walkState = "none"
  BY <1>1 DEF WalkInv, WalkInit, WalkTypeOK
<1>2. CASE walkState # "none"
  <2>1. /\ tree \in Trees /\ walk \in Walks /\ StackInv /\ FoundInv
        /\ walkState \in {"none", "walking", "done", "raised"}
    BY <1>2 DEF WalkInv
  <2>2. /\ tree \in Seq(Node) /\ DOMAIN tree = 1 .. Len(tree) /\ Len(tree) \in Nat
        /\ tree[1].parent = 0
        /\ \A n \in DOMAIN tree : n # 1 => tree[n].parent \in 1 .. n - 1
    BY <2>1, TreeFacts
  <2>3. \A n \in DOMAIN tree : tree[n] \in Node /\ tree[n].parent < n
    <3> SUFFICES ASSUME NEW n \in DOMAIN tree PROVE tree[n] \in Node /\ tree[n].parent < n
      OBVIOUS
    <3>1. n \in Nat /\ n >= 1 /\ tree[n] \in Node
      BY <2>2
    <3> QED
      BY <2>2, <3>1
  <2>4. \A i \in DOMAIN found : found[i][2] \in DOMAIN tree
    BY <2>1 DEF FoundInv
  <2> QED
    BY <2>1, <2>3, <2>4 DEF WalkTypeOK, StackInv
<1> QED
  BY <1>1, <1>2

(* At the end all nodes, or those before the first that stops, are seen. *)
LEMMA WalkExact == ASSUME WalkInv PROVE WalkIsExact
<1> DEFINE expected == {n \in Nodes : LooksFor(n) /\ \A s \in Stops : n < s}
           F == {n \in Seen : LooksFor(n)}
<1> SUFFICES ASSUME walkState \in {"done", "raised"}
             PROVE  /\ walkState = "raised" <=> Stops # {}
                    /\ Len(found) = Cardinality(expected)
                    /\ \A i \in DOMAIN found :
                          /\ found[i][2] \in expected
                          /\ \A j \in 1 .. i - 1 : found[j][2] < found[i][2]
  BY DEF WalkIsExact
<1>1. /\ tree \in Trees /\ IsFound(F) /\ \A n \in Seen : n \notin Stops
      /\ walkState = "done" => stack = <<>>
      /\ walkState = "raised" => stack # <<>> /\ Head(stack) \in Stops
  BY DEF WalkInv, FoundInv, SeenInv
<1>2. Len(tree) \in Nat /\ Nodes \subseteq 1 .. Len(tree)
  BY <1>1, TreeFacts
<1>3. Stops \subseteq Nodes
  <2>1. walk \in Walks
    BY DEF WalkInv
  <2> QED
    BY <2>1 DEF Stops, Walks
<1>4. CASE walkState = "done"
  <2>1. Seen = Nodes
    <3>1. Ahead = Len(tree) + 1
      BY <1>1, <1>4 DEF Ahead
    <3>2. \A n \in Nodes : n < Len(tree) + 1
      BY <1>2
    <3> QED
      BY <3>1, <3>2 DEF Seen
  <2>2. Stops = {}
    BY <1>1, <1>3, <2>1
  <2>3. expected = F
    BY <2>1, <2>2
  <2> QED
    BY <1>1, <1>4, <2>2, <2>3 DEF IsFound
<1>5. CASE walkState = "raised"
  <2>1. Head(stack) \in Stops /\ Seen = {n \in Nodes : n < Head(stack)} /\ Head(stack) \in Nat
    <3>1. Ahead = Head(stack) /\ Head(stack) \in Stops
      BY <1>1, <1>5 DEF Ahead
    <3>2. Head(stack) \in Nat
      <4>1. Head(stack) \in 1 .. Len(tree)
        BY <1>2, <1>3, <3>1
      <4> QED
        BY <1>2, <4>1
    <3> QED
      BY <3>1, <3>2 DEF Seen
  <2>2. \A s \in Stops : s >= Head(stack)
    BY <1>1, <1>2, <1>3, <2>1
  <2>3. expected = F
    <3>1. ASSUME NEW n \in Nodes PROVE (\A s \in Stops : n < s) <=> n < Head(stack)
      BY <1>2, <1>3, <2>1, <2>2
    <3> QED
      BY <2>1, <3>1
  <2> QED
    BY <1>1, <1>5, <2>1, <2>3 DEF IsFound
<1> QED
  BY <1>4, <1>5

-----------------------------------------------------------------------------
(***************************************************************************)
(* THE PROGRAM                                                             *)
(***************************************************************************)
BindingInv ==
    /\ EnumInv /\ LibTypeOK /\ ObjectInv /\ WalkInv
    /\ loaded => Imported

(* It holds before the import. *)
LEMMA BindingInitially == ASSUME Init PROVE BindingInv
<1>1. EnumInv /\ LibTypeOK /\ ObjectInv
  BY EnumInitially, LibInitially, ObjectInitially DEF Init
<1>2. WalkInv /\ ~loaded
  BY DEF Init, WalkInit, LibInit, WalkInv
<1> QED
  BY <1>1, <1>2 DEF BindingInv

(* Steps of the other parts. *)
LEMMA SameEnum == ASSUME EnumInv, UNCHANGED enumVars PROVE EnumInv' /\ Imported' = Imported
  BY DEF EnumInv, enumVars, RegisteredAt, Imported

(* Steps of the other parts. *)
LEMMA SameLib == ASSUME LibTypeOK, UNCHANGED libVars PROVE LibTypeOK' /\ loaded' = loaded
  BY DEF LibTypeOK, libVars

(* Steps of the other parts. *)
LEMMA SameObjects == ASSUME ObjectInv, UNCHANGED objectVars PROVE ObjectInv'
<1>1. held' = held /\ heap' = heap /\ dangling' = dangling
  BY DEF objectVars
<1>2. held \subseteq Live
  BY DEF ObjectInv, ObjectTypeOK
<1> QED
  BY <1>1, <1>2, HeldStep

(* What holds when a walk has just been started. *)
IsStartedInv == EnumInv /\ LibTypeOK /\ ObjectInv /\ IsStarted /\ (loaded => Imported)

(* Each step keeps it, or starts a walk. *)
LEMMA BindingStep == BindingInv /\ [Next]_vars => BindingInv' \/ IsStartedInv'
<1> SUFFICES ASSUME BindingInv, [Next]_vars PROVE BindingInv' \/ IsStartedInv'
  OBVIOUS
<1>1. CASE ImportModule
  <2>1. UNCHANGED libVars /\ UNCHANGED objectVars /\ UNCHANGED walkVars /\ ~Imported
    BY <1>1 DEF ImportModule, RegisterKind, NextClass
  <2>2. EnumInv'
    BY <1>1, RegisterStep, NextClassStep DEF ImportModule, BindingInv
  <2>3. ~loaded'
    BY <2>1, SameLib DEF BindingInv
  <2> QED
    BY <2>1, <2>2, <2>3, SameLib, SameObjects, SameWalkInv DEF BindingInv
<1>2. CASE UseLibrary
  <2>1. LibNext /\ Imported /\ UNCHANGED enumVars /\ UNCHANGED objectVars /\ UNCHANGED walkVars
    BY <1>2 DEF UseLibrary
  <2>2. LibTypeOK'
    BY <2>1, LibStep DEF BindingInv
  <2> QED
    BY <2>1, <2>2, SameEnum, SameObjects, SameWalkInv DEF BindingInv
<1>3. CASE UseObjects
  <2>1. ObjectNext /\ UNCHANGED enumVars /\ UNCHANGED libVars /\ UNCHANGED walkVars
    BY <1>3 DEF UseObjects
  <2>2. ObjectInv'
    BY <2>1, ObjectStep DEF BindingInv
  <2> QED
    BY <2>1, <2>2, SameEnum, SameLib, SameWalkInv DEF BindingInv
<1>4. CASE Walk
  <2>1. loaded /\ WalkNext /\ UNCHANGED enumVars /\ UNCHANGED libVars /\ UNCHANGED objectVars
    BY <1>4 DEF Walk
  <2>2. WalkInv' \/ IsStarted'
    BY <2>1, WalkStep DEF BindingInv
  <2>3. EnumInv' /\ LibTypeOK' /\ ObjectInv' /\ (loaded' => Imported')
    BY <2>1, SameEnum, SameLib, SameObjects DEF BindingInv
  <2> QED
    BY <2>2, <2>3 DEF BindingInv, IsStartedInv
<1>5. CASE UNCHANGED vars
  <2>1. UNCHANGED enumVars /\ UNCHANGED libVars /\ UNCHANGED objectVars /\ UNCHANGED walkVars
    BY <1>5 DEF vars
  <2> QED
    BY <2>1, SameEnum, SameLib, SameObjects, SameWalkInv DEF BindingInv
<1> QED
  BY <1>1, <1>2, <1>3, <1>4, <1>5 DEF Next

(* It holds of a walk that was just started. *)
LEMMA BindingStarted == IsStartedInv => BindingInv
  BY WalkStarts DEF IsStartedInv, BindingInv

(* The inductive invariant of the binding: lists of kinds that hold just   *)
(* the registered values, objects that refer to the memory they lie in,    *)
(* and a stack that has just what is ahead of a walk.                      *)
THEOREM BindingInvariance == Spec => []BindingInv
<1>1. Init => BindingInv
  BY BindingInitially
<1>2. BindingInv /\ [Next]_vars => BindingInv' \/ IsStartedInv'
  BY BindingStep
<1>3. IsStartedInv => BindingInv
  BY BindingStarted
<1> QED
  BY <1>1, <1>2, <1>3, PTL DEF Spec

(* Types, of the enumerations until the library is loaded, of the library, *)
(* the objects and the walks all the time.                                 *)
THEOREM BindingTypeCorrect == Spec => []TypeOK
<1>1. BindingInv => TypeOK
  BY EnumTyped, WalkTyped DEF BindingInv, TypeOK, ObjectInv
<1> QED
  BY <1>1, BindingInvariance, PTL

(* from_id knows the values of the table and no others, once the module is *)
(* imported; -1 is the last kind of a list.                                *)
THEOREM KindsCorrect == Spec => []KindsAreExact
<1>1. BindingInv => KindsAreExact
  BY KindsFound DEF BindingInv, KindsAreExact
<1> QED
  BY <1>1, BindingInvariance, PTL

(* No object that keeps a reference to the owner of its memory outlives    *)
(* that memory, for any table row, any number of objects and any order of  *)
(* making and dropping them.                                               *)
THEOREM HandlesCorrect == Spec => []HandlesStayValid
<1>1. BindingInv => HandlesStayValid
  BY DEF BindingInv, ObjectInv
<1> QED
  BY <1>1, BindingInvariance, PTL

(* Counting references frees all that cannot be reached: there is never a  *)
(* circle of references.                                                   *)
THEOREM FreedCorrect == Spec => []EverythingIsFreed
<1>1. BindingInv => EverythingIsFreed
  BY FreedByCounting DEF BindingInv
<1> QED
  BY <1>1, BindingInvariance, PTL

(* A walk over a tree of any size collects just the nodes it comes to and  *)
(* looks for, in order, up to the first kind the binding does not know.    *)
THEOREM WalkCorrect == Spec => []WalkIsExact
<1>1. BindingInv => WalkIsExact
  BY WalkExact DEF BindingInv
<1> QED
  BY <1>1, BindingInvariance, PTL

=============================================================================
