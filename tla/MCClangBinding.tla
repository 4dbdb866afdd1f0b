--------------------------- MODULE MCClangBinding ---------------------------
(***************************************************************************)
(* Two directories and a file for the library, one of which is whole, one  *)
(* lacks a function and one is empty; every tree of three nodes below the  *)
(* unit with the kinds that make a difference, and 149, which libclang 8   *)
(* has and the binding does not know.                                      *)
(***************************************************************************)
EXTENDS ClangBinding

CONSTANTS libclang, empty, older

MCLacks == [f \in {libclang, older} |-> IF f = older THEN {"visitChildren"} ELSE {}]

N(p, k, h) == [parent |-> p, kind |-> k, here |-> h, parula |-> FALSE]

Unit == N(0, TRANSLATION_UNIT, TRUE)

Labels == {<<k, TRUE>> : k \in {NAMESPACE, FUNCTION_DECL, CLASS_DECL, UNEXPOSED_DECL, 149}}
          \cup {<<FUNCTION_DECL, FALSE>>}

Preorder == {<<1, 1, 1>>, <<1, 1, 3>>, <<1, 2, 1>>, <<1, 2, 2>>, <<1, 2, 3>>}

Threes ==
    {<<Unit>> \o [i \in 1 .. 3 |-> N(p[i], l[i][1], l[i][2])] :
        p \in Preorder, l \in [1 .. 3 -> Labels]}

Ones ==
    {<<Unit, [parent |-> 1, kind |-> k, here |-> h, parula |-> q], N(2, CLASS_DECL, TRUE)>> :
        k \in {STRUCT_DECL, ENUM_DECL, FUNCTION_TEMPLATE, CLASS_TEMPLATE, NAMESPACE},
        h \in BOOLEAN, q \in BOOLEAN}

MCTrees == Threes \cup Ones

=============================================================================
