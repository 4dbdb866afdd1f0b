---------------------------- MODULE ClangObjects ----------------------------
(***************************************************************************)
(* The Python objects of clang/cindex.py and the memory of libclang they   *)
(* point into.  Index, TranslationUnit, TokenGroup, CompilationDatabase,   *)
(* CompileCommands and CodeCompletionResults own memory, which __del__     *)
(* gives back; the others point into the memory of an owner, and several   *)
(* of them store a reference "so it won't get GC'd before the Cursor".     *)
(*                                                                         *)
(* Python frees an object as soon as no variable and no object refers to   *)
(* it, and then those only that one referred to.                           *)
(* refs are the references an object is made with, cached those of the     *)
(* properties that keep their value (canonical, type, ...), liesIn the     *)
(* owners whose memory the object points into.                             *)
(***************************************************************************)
EXTENDS ClangLibrary, Naturals

CONSTANT MaxObjects     \* bound on the objects alive at a time

ASSUME BoundAssumption == MaxObjects \in Nat

Slot == 1 .. MaxObjects

Kind == {"index", "tu", "cursor", "type", "group", "token", "location", "file", "diagnostic",
         "database", "commands", "command", "results"}

Object == [kind : Kind, refs : SUBSET Slot, cached : SUBSET Slot, liesIn : SUBSET Slot]

VARIABLES
    heap,       \* the objects alive, by slot
    held,       \* the slots variables of the program refer to
    dangling    \* history: live objects that point into memory given back

objectVars == <<heap, held, dangling>>

ObjectInit == heap = <<>> /\ held = {} /\ dangling = {}

Live == DOMAIN heap

Free == Slot \ Live

Fresh == CHOOSE s \in Free : \A t \in Free : s <= t

(* Objects a program can go on with: it has a variable for them and their  *)
(* memory is there.                                                        *)
Usable == held \ dangling

-----------------------------------------------------------------------------
(***************************************************************************)
(* The references a conversion stores.                                     *)
(***************************************************************************)
UnitsOf(s) == {t \in heap[s].refs : heap[t].kind = "tu"}

(* from_result looks for a TranslationUnit among the arguments, or for an  *)
(* argument that has one.                                                  *)
FromResult(s) == IF heap[s].kind = "tu" THEN {s} ELSE UnitsOf(s)

(* seeded fault: the reference is not copied *)
FromCursorResultFault(s) == {}

FromCursorResult(s) == UnitsOf(s)

Stored(s) == IF heap[s].kind = "tu" THEN {s} ELSE UnitsOf(s)

References(s, by) ==
    CASE by = "from_result" -> FromResult(s)
      [] by = "from_cursor_result" -> FromCursorResult(s)
      [] by = "stored" -> Stored(s)
      [] by = "self" -> {s}
      [] by = "nothing" -> {}

(* Commands and completion results are copies: they lie in no other memory.*)
LiesIn(s, gives) ==
    CASE gives \in {"commands", "results"} -> {}
      [] heap[s].kind \in {"index", "tu", "commands", "results"} -> {s}
      [] OTHER -> {t \in heap[s].liesIn : heap[t].kind # "group"}

(* The functions whose result the calling property keeps.  Cursor.result_type *)
(* keeps a type, too, but calls getResultType on the type of the cursor, as   *)
(* Type.get_result does and keeps nothing: a reference of a cursor to a type, *)
(* which getCursorType already brings.                                        *)
(* seeded fault: TranslationUnit.cursor is kept, too *)
CachedFunctionsFault ==
    {"getTranslationUnitCursor", "getCursorType", "getCanonicalCursor"}

CachedFunctions ==
    {"getCursorExtent", "getCursorLocation", "getCursorType", "getCanonicalCursor",
     "getTypedefDeclUnderlyingType", "getEnumDeclIntegerType", "getCursorSemanticParent",
     "getCursorLexicalParent", "getCursorReferenced", "getInstantiationLocation"}

New(kind, refs, liesIn) == [kind |-> kind, refs |-> refs, cached |-> {}, liesIn |-> liesIn]

With(h, s, o) == [t \in DOMAIN h \cup {s} |-> IF t = s THEN o ELSE h[t]]

-----------------------------------------------------------------------------
(* Rows of the table that make the same kind of object in the same way. *)
RowsOn == [k \in Kind \cup {"none"} |-> {r \in FunctionList : r.on = k}]

Makes(on) ==
    {[gives |-> r.gives, by |-> r.by, caches |-> r.name \in CachedFunctions] :
        r \in {x \in RowsOn[on] : x.name \notin lib.without}}

(* Index.create, CompilationDatabase.fromDirectory. *)
Create(e) ==
    /\ Free # {}
    /\ heap' = With(heap, Fresh, New(e.gives, {}, {}))
    /\ held' = held \cup {Fresh}
    /\ UNCHANGED dangling

(* A method or property of an object that makes another. *)
Derive(s, e) ==
    /\ Free # {}
    /\ LET o == New(e.gives, References(s, e.by), LiesIn(s, e.gives))
           h == With(heap, Fresh, o)
       IN  heap' = IF e.caches THEN [h EXCEPT ![s].cached = @ \cup {Fresh}] ELSE h
    /\ held' = held \cup {Fresh}
    /\ UNCHANGED dangling

(* A property that has its value already. *)
ReadCached(s) ==
    /\ \E t \in heap[s].cached : held' = held \cup {t}
    /\ UNCHANGED <<heap, dangling>>

(***************************************************************************)
(* TokenGroup.get_tokens: a generator, whose frame refers to the group     *)
(* until it is finished or dropped.                                        *)
(***************************************************************************)
GetTokens(s) ==
    /\ heap[s].kind \in {"tu", "cursor"} /\ Free # {}
    /\ heap' = With(heap, Fresh, New("group", Stored(s), Stored(s)))
    /\ held' = held \cup {Fresh}
    /\ UNCHANGED dangling

NextToken(g) ==
    /\ heap[g].kind = "group" /\ Free # {}
    /\ heap' = With(heap, Fresh, New("token", UnitsOf(g) \cup {g}, UnitsOf(g) \cup {g}))
    /\ held' = held \cup {Fresh}
    /\ UNCHANGED dangling

Drop(s) ==
    /\ held' = held \ {s}
    /\ UNCHANGED <<heap, dangling>>

-----------------------------------------------------------------------------
(***************************************************************************)
(* The last reference is gone: __del__ gives the memory of an owner back,  *)
(* then the references of the object go.                                   *)
(***************************************************************************)
(* seeded fault: a value a property keeps does not count as a reference *)
IsReferredToFault(s) == \E t \in Live : s \in heap[t].refs

IsReferredTo(s) == \E t \in Live : s \in heap[t].refs \cup heap[t].cached

Unreferenced == {s \in Live \ held : ~IsReferredTo(s)}

Release(s) ==
    /\ s \in Unreferenced
    /\ heap' = [t \in Live \ {s} |-> [heap[t] EXCEPT !.liesIn = @ \ {s}]]
    /\ dangling' = (dangling \cup {t \in Live : s \in heap[t].liesIn}) \ {s}
    /\ UNCHANGED held

(* The program goes on when everything that can be freed has been. *)
UseObject ==
    \/ \E e \in Makes("none") : Create(e)
    \/ \E s \in Usable : \E e \in Makes(heap[s].kind) : Derive(s, e)
    \/ \E s \in Usable : ReadCached(s)
    \/ \E s \in Usable : GetTokens(s)
    \/ \E s \in Usable : NextToken(s)
    \/ \E s \in held : Drop(s)

ObjectNext ==
    \/ Unreferenced = {} /\ UseObject
    \/ \E s \in Slot : Release(s)

-----------------------------------------------------------------------------
(* Type invariant: a reference leads to an object that is alive. *)
ObjectTypeOK ==
    /\ Live \subseteq Slot /\ held \subseteq Live /\ dangling \subseteq Live
    /\ \A s \in Live :
          /\ heap[s] \in Object
          /\ heap[s].refs \cup heap[s].cached \cup heap[s].liesIn \subseteq Live

(***************************************************************************)
(* "Store a reference to the TU in the Python object so it won't get GC'd  *)
(* before the Cursor" (cindex.py:1870), "keep a reference to the           *)
(* originating CompileCommands" (1144), "each token in a group contains a  *)
(* reference back" (511): none of these objects ever outlives memory it    *)
(* points into, in whatever order a program makes and drops objects.       *)
(*                                                                         *)
(* The list of what is to do, at the top of the file, says the opposite:   *)
(* "fix memory management issues (currently client must hold on to index   *)
(* and translation unit, or risk crashes)" (55-56).  Of the kinds below it *)
(* is out of date: a caller may drop the index and the unit first, since   *)
(* the object itself refers to them.  It still holds of locations, ranges, *)
(* files and diagnostics, which keep nothing and do end up in dangling.    *)
(***************************************************************************)
KeepsItsMemory == {"tu", "cursor", "type", "group", "token", "command"}

HandlesStayValid ==
    \A s \in Live : heap[s].kind \in KeepsItsMemory => s \notin dangling

(***************************************************************************)
(* Whenever the program goes on, all it can no longer reach has been freed *)
(* by counting references alone: objects never refer to each other in a    *)
(* circle, which would keep the memory of libclang until the collector of  *)
(* circles runs, and would then give it back in no particular order.       *)
(***************************************************************************)
Reached ==
    LET reach[n \in 0 .. MaxObjects] ==
            IF n = 0 THEN held
            ELSE reach[n - 1] \cup UNION {heap[s].refs \cup heap[s].cached : s \in reach[n - 1]}
    IN  reach[MaxObjects]

EverythingIsFreed == Unreferenced = {} => Live = Reached

=============================================================================
