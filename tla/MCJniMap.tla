------------------------------ MODULE MCJniMap ------------------------------
(***************************************************************************)
(* Files built of pieces of a table: its beginning, a name, an entry for c *)
(* or d, other words, the end, in every order up to MaxPieces of them; and *)
(* directories of several files, which name the same functions.            *)
(***************************************************************************)
EXTENDS JniMap

CONSTANTS J, semi, brace, x, y, c, d, MaxPieces

Item(s) == [kind |-> "item", spelling |-> s]

Mark(s) == [kind |-> "mark", spelling |-> s]

Pieces == {<<Item(J)>>, <<Item(J), Mark(brace), Item(x)>>, <<Item(x), Item(y), Item(c)>>,
           <<Item(y), Item(x), Item(d)>>, <<Item(y)>>, <<Mark(semi)>>}

Flat(q) ==
    LET flat[k \in 0 .. Len(q)] == IF k = 0 THEN <<>> ELSE flat[k - 1] \o q[k] IN flat[Len(q)]

Source(e, b, q) == [ext |-> e, check |-> b, tokens |-> Flat(q)]

Table(a, q) == Flat(<<<<Item(J), Item(a)>>, q, <<Mark(semi)>>>>)

OneFile == UNION {{<<Source(".cpp", TRUE, q)>> : q \in [1 .. n -> Pieces]} : n \in 0 .. MaxPieces}

Contents == {Table(x, <<Item(x), Item(y), Item(c)>>), Table(x, <<Item(y), Item(y), Item(c)>>),
             Table(y, <<Item(y), Item(x), Item(d), Item(x), Item(x), Item(c)>>), <<Item(J), Mark(semi)>>}

Small == {[ext |-> e, check |-> b, tokens |-> q] : e \in {".c", ".cc", ".h", ".java"}, b \in BOOLEAN, q \in Contents}

MCTrees ==
    OneFile \cup {<<f, g>> : f \in Small, g \in Small}
    \cup {<<f, g, h>> : f \in {s \in Small : s.ext = ".c" /\ s.check}, g \in {s \in Small : s.ext = ".h"},
                        h \in {s \in Small : s.ext = ".c" /\ s.check}}

=============================================================================
