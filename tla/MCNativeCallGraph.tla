------------------------- MODULE MCNativeCallGraph -------------------------
(***************************************************************************)
(* Functions f and nf (f of a namespace: same display name), a class       *)
(* member m and NewGlobalRef itself; up to two files in each order, and    *)
(* the first one once more at the end.                                     *)
(***************************************************************************)
EXTENDS NativeCallGraph

CONSTANTS f, m, ngr, ns, C, env, void

Cursor(kind, scope, n) == [kind |-> kind, scope |-> scope, spelling |-> n, params |-> void]

ff == Cursor("function", <<>>, f)
nf == Cursor("function", <<ns>>, f)
fm == Cursor("method", <<C>>, m)
newRef == Cursor("method", <<env>>, ngr)

MCCursors == {ff, nf, fm, newRef}

Defines(kind, c, calls, text) == [kind |-> kind, cursor |-> c, calls |-> calls, text |-> text]

Definitions ==
    {Defines("function", ff, c, t) :
        c \in {<<>>, <<ff>>, <<nf, fm>>}, t \in {"none", "later", "unreadable"}}
    \cup {Defines("function", nf, <<newRef, ff>>, "first"),
          Defines("member", fm, <<nf, newRef>>, "later"),
          Defines("other", fm, <<ff>>, "later")}

MCFile == {<<d>> : d \in Definitions} \cup {<<d, c>> : d \in Definitions, c \in Definitions}

MCInputs ==
    {<<x>> : x \in MCFile}
    \cup {<<x, y, x>> : x \in {z \in MCFile : Len(z) = 1}, y \in {z \in MCFile : Len(z) = 2}}

=============================================================================
