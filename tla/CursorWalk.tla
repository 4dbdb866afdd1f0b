----------------------------- MODULE CursorWalk -----------------------------
(***************************************************************************)
(* Walks over the cursors of a translation unit: traverse of main.py,      *)
(* extract_method_in_node of utils.py, walk_preorder of cindex.py.  All    *)
(* are recursions over get_children, which collects the children of a node *)
(* with a visitor before the first of them is entered.                     *)
(*                                                                         *)
(* A tree is a sequence of nodes in preorder, the first one the unit.  A   *)
(* node records the place of its parent, the value libclang gives for its  *)
(* kind, whether it is located in the parsed file (the unit itself has no  *)
(* location), and whether it is called PARULA_COLOR_MAP.                   *)
(***************************************************************************)
EXTENDS ClangEnumerations

CONSTANT Trees      \* the translation units considered

UNEXPOSED_DECL == 1
STRUCT_DECL == 2
CLASS_DECL == 4
ENUM_DECL == 5
FUNCTION_DECL == 8
NAMESPACE == 22
FUNCTION_TEMPLATE == 30
CLASS_TEMPLATE == 31
TRANSLATION_UNIT == 300

Walks == {"traverse", "extract", "preorder"}

Node == [parent : Nat, kind : Nat, here : BOOLEAN, parula : BOOLEAN]

(* Preorder: between a node and its child are only nodes below that node. *)
IsTree(t) ==
    /\ t \in Seq(Node) /\ t # <<>> /\ t[1].parent = 0
    /\ \A n \in 2 .. Len(t) :
          /\ t[n].parent \in 1 .. n - 1
          /\ \A m \in t[n].parent + 1 .. n : t[m].parent >= t[n].parent

ASSUME TreesAssumption == \A t \in Trees : IsTree(t)

VARIABLES
    tree,       \* the translation unit
    walk,       \* the walk that is running, or "none"
    stack,      \* the nodes to visit: the rest of each children list, innermost first
    found,      \* the nodes collected, with the list they are in
    walkState   \* "none", "walking", "done" or "raised"

walkVars == <<tree, walk, stack, found, walkState>>

WalkInit ==
    /\ tree = <<>> /\ walk = "none"
    /\ stack = <<>> /\ found = <<>> /\ walkState = "none"

-----------------------------------------------------------------------------
(* seeded fault: the visitor stops at the first child *)
GetChildrenFault(t, n) ==
    LET children[k \in 0 .. Len(t)] ==
            IF k = 0 THEN <<>>
            ELSE IF t[k].parent = n /\ children[k - 1] = <<>> THEN Append(children[k - 1], k)
            ELSE children[k - 1]
    IN  children[Len(t)]

(* get_children: the visitor appends every child and goes on. *)
GetChildren(t, n) ==
    LET children[k \in 0 .. Len(t)] ==
            IF k = 0 THEN <<>>
            ELSE IF t[k].parent = n THEN Append(children[k - 1], k)
            ELSE children[k - 1]
    IN  children[Len(t)]

(***************************************************************************)
(* traverse: the list a kind goes to, "none" for those that are passed.    *)
(***************************************************************************)
KindOf(n) == FromId("CursorKind", tree[n].kind)

IsLeftOut(n) == ~tree[n].here \/ tree[n].parula

ListOf(kind) ==
    CASE kind = NAMESPACE -> "namespaces"
      [] kind \in {FUNCTION_DECL, FUNCTION_TEMPLATE} -> "functions"
      [] kind = ENUM_DECL -> "enums"
      [] kind \in {CLASS_DECL, CLASS_TEMPLATE} -> "classes"
      [] kind = STRUCT_DECL -> "structs"
      [] OTHER -> "none"

(* Only the branch of a namespace goes on to the children. *)
IsEnteredByTraverse(kind) == ListOf(kind) \in {"none", "namespaces"}

(* extract_method_in_node tests the children of a node, not the root. *)
IsMethod(n) == n # 1 /\ KindOf(n) = FUNCTION_DECL

(* What a walk collects at a node, and whether it goes on to the children. *)
Collects(n) ==
    CASE walk = "traverse" -> IF IsLeftOut(n) THEN "none" ELSE ListOf(KindOf(n))
      [] walk = "extract" -> IF IsMethod(n) THEN "nodes" ELSE "none"
      [] walk = "preorder" -> "yielded"

Enters(n) == walk = "traverse" => ~IsLeftOut(n) /\ IsEnteredByTraverse(KindOf(n))

(* Function, Enum and Class ask the children for their kinds, too: for     *)
(* annotations, parameters, constants.                                     *)
AsksChildren(n) == ListOf(KindOf(n)) \in {"functions", "enums", "classes", "structs"}

(* A kind the binding does not know raises when the walk asks for it. *)
Raises(n) ==
    \/ walk = "extract" /\ n # 1 /\ KindOf(n) = Unknown
    \/ /\ walk = "traverse" /\ ~IsLeftOut(n)
       /\ \/ KindOf(n) = Unknown
          \/ AsksChildren(n) /\ \E c \in DOMAIN tree : tree[c].parent = n /\ KindOf(c) = Unknown

StartWalk ==
    /\ walkState = "none"
    /\ tree' \in Trees /\ walk' \in Walks
    /\ stack' = <<1>> /\ walkState' = "walking"
    /\ UNCHANGED found

Visit ==
    /\ walkState = "walking" /\ stack # <<>>
    /\ ~Raises(Head(stack))
    /\ LET n == Head(stack)
       IN  /\ found' = IF Collects(n) = "none" THEN found ELSE Append(found, <<Collects(n), n>>)
           /\ stack' = (IF Enters(n) THEN GetChildren(tree, n) ELSE <<>>) \o Tail(stack)
    /\ UNCHANGED <<tree, walk, walkState>>

WalkRaises ==
    /\ walkState = "walking" /\ stack # <<>>
    /\ Raises(Head(stack))
    /\ walkState' = "raised"
    /\ UNCHANGED <<tree, walk, stack, found>>

WalkReturns ==
    /\ walkState = "walking" /\ stack = <<>>
    /\ walkState' = "done"
    /\ UNCHANGED <<tree, walk, stack, found>>

WalkNext ==
    \/ StartWalk
    \/ Visit
    \/ WalkRaises
    \/ WalkReturns

WalkTypeOK ==
    /\ \A n \in DOMAIN tree : tree[n] \in Node /\ tree[n].parent < n
    /\ walk \in Walks \cup {"none"}
    /\ stack \in Seq(DOMAIN tree)
    /\ \A i \in DOMAIN found : found[i][2] \in DOMAIN tree
    /\ walkState \in {"none", "walking", "done", "raised"}

(***************************************************************************)
(* Without a walk: a node is come to when every node above it is entered.  *)
(* A walk that returns has collected, once and in the order of the source, *)
(* all nodes it comes to and is looking for: for traverse the declarations *)
(* of the file that only namespaces and passed nodes enclose, for extract  *)
(* all functions, those of other files included.  A walk raises just when  *)
(* it comes to a kind the binding does not know, as that of a node or of   *)
(* a child of a declaration it collects, and then it has what came before. *)
(***************************************************************************)
Above(n) ==
    LET above[k \in DOMAIN tree] ==
            IF k = 1 THEN {} ELSE {tree[k].parent} \cup above[tree[k].parent]
    IN  above[n]

IsPassed(n) ==
    walk = "traverse" =>
        /\ tree[n].here /\ ~tree[n].parula
        /\ tree[n].kind \notin {STRUCT_DECL, CLASS_DECL, ENUM_DECL, FUNCTION_DECL, FUNCTION_TEMPLATE, CLASS_TEMPLATE}

ComesTo(n) == \A p \in Above(n) : IsPassed(p)

LooksFor(n) ==
    CASE walk = "preorder" -> TRUE
      [] walk = "extract" -> n > 1 /\ tree[n].kind = FUNCTION_DECL
      [] walk = "traverse" ->
             /\ tree[n].here /\ ~tree[n].parula
             /\ tree[n].kind \in {NAMESPACE, STRUCT_DECL, CLASS_DECL, ENUM_DECL, FUNCTION_DECL,
                                  FUNCTION_TEMPLATE, CLASS_TEMPLATE}

Nodes == {n \in DOMAIN tree : ComesTo(n)}

IsStrange(n) == tree[n].kind \notin CursorKinds

StopsTraverse(n) ==
    /\ tree[n].here /\ ~tree[n].parula
    /\ \/ IsStrange(n)
       \/ /\ LooksFor(n) /\ tree[n].kind # NAMESPACE
          /\ \E c \in DOMAIN tree : tree[c].parent = n /\ IsStrange(c)

Stops ==
    CASE walk = "preorder" -> {}
      [] walk = "extract" -> {n \in Nodes : n > 1 /\ IsStrange(n)}
      [] walk = "traverse" -> {n \in Nodes : StopsTraverse(n)}

WalkIsExact ==
    walkState \in {"done", "raised"} =>
        LET expected == {n \in Nodes : LooksFor(n) /\ \A s \in Stops : n < s}
        IN  /\ walkState = "raised" <=> Stops # {}
            /\ Len(found) = Cardinality(expected)
            /\ \A i \in DOMAIN found :
                  /\ found[i][2] \in expected
                  /\ \A j \in 1 .. i - 1 : found[j][2] < found[i][2]

=============================================================================
