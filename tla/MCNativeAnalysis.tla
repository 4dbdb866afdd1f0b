-------------------------- MODULE MCNativeAnalysis --------------------------
(***************************************************************************)
(* Entry functions a and b, another b of a namespace, a helper g, the      *)
(* class C and one of that name in the namespace, NewGlobalRef.  A         *)
(* directory of two files and the test file, which is the second one       *)
(* again; or, with every start-up, one small file twice.                   *)
(***************************************************************************)
EXTENDS NativeAnalysis

CONSTANTS a, b, g, ngr, C, ns, env, void, home, builtIn, D, c1, c2

Cursor(kind, scope, n) == [kind |-> kind, scope |-> scope, spelling |-> n, params |-> void]

fa == Cursor("function", <<>>, a)
fb == Cursor("function", <<>>, b)
nb == Cursor("function", <<ns>>, b)
fg == Cursor("function", <<>>, g)
class == Cursor("class", <<>>, C)
nclass == Cursor("class", <<ns>>, C)
init == Cursor("constructor", <<C>>, C)
ninit == Cursor("constructor", <<ns, C>>, C)
nfree == Cursor("destructor", <<ns, C>>, C)
newRef == Cursor("method", <<env>>, ngr)

MCCursors == {fa, fb, nb, fg, class, nclass, init, ninit, nfree, newRef}

MCAndroidFunctions == {fa, fb, nb}

Defines(kind, c, calls, text) == [kind |-> kind, cursor |-> c, calls |-> calls, text |-> text]

Entries ==
    {Defines("function", fa, <<fb>>, "later"), Defines("function", fa, <<fa>>, "later"),
     Defines("function", fa, <<fg, nb>>, "none"), Defines("function", fa, <<class, nclass>>, "none")}

Callees ==
    {Defines("function", nb, <<newRef>>, "none"), Defines("member", init, <<fg>>, "later"),
     Defines("member", ninit, <<newRef>>, "none"), Defines("function", fg, <<fb, newRef>>, "none")}

Others ==
    {Defines("function", fb, <<fa, newRef>>, "first"), Defines("function", fb, <<nclass>>, "unreadable"),
     Defines("nested", fb, <<newRef>>, "later"), Defines("member", nfree, <<newRef>>, "later"),
     Defines("other", nfree, <<fa>>, "later")}

Plain == [argv |-> [source |-> home, db |-> None], databases |-> [x \in {None, D} |-> <<>>]]

WithFiles(w, f) == [argv |-> w.argv, databases |-> w.databases, files |-> f]

Directories ==
    {<<<<x>>, <<y, z>>, <<y>>>> : x \in Entries, y \in Callees \cup Others, z \in Callees}

Entry(f, c) == [file |-> f, command |-> c]

Databases == {<<>>, <<Entry(1, c1), Entry(1, c2)>>, <<Entry(1, c1), Entry(2, None), Entry(1, c2)>>}

Startups ==
    {[argv |-> [source |-> s, db |-> d], databases |-> [x \in {None, D} |-> IF x = None THEN m ELSE n]] :
        s \in {home, None}, d \in {None, D}, m \in Databases, n \in Databases}

OneFile == <<Defines("function", fa, <<newRef>>, "none")>>

MCWorlds ==
    {WithFiles(Plain, f) : f \in Directories}
    \cup {WithFiles(s, <<OneFile, OneFile, <<>>>>) : s \in Startups}

=============================================================================
