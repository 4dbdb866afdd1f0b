------------------------ MODULE MCCallGraphAnalysis ------------------------
(***************************************************************************)
(* Small programs for CallGraphAnalysis.  MCProgramRich lets the bodies    *)
(* hold every kind of statement in every order; MCProgramDeep has one      *)
(* method more and fewer kinds, for call paths of different lengths to one *)
(* method.                                                                 *)
(***************************************************************************)
EXTENDS CallGraphAnalysis

CONSTANTS e, a, b, c

Direct(m) == [iface |-> FALSE, kind |-> "call", binder |-> FALSE, targets |-> {m}]
Implicit(S) == [iface |-> FALSE, kind |-> "call", binder |-> FALSE, targets |-> S]
LinkToDeath == [iface |-> TRUE, kind |-> "exit", binder |-> FALSE, targets |-> {}]
AddBinder == [iface |-> FALSE, kind |-> "add", binder |-> TRUE, targets |-> {}]
AddLocal(m) == [iface |-> FALSE, kind |-> "add", binder |-> FALSE, targets |-> {m}]
Register == [iface |-> FALSE, kind |-> "register", binder |-> FALSE, targets |-> {}]
InterfaceAdd(m) == [iface |-> TRUE, kind |-> "add", binder |-> TRUE, targets |-> {m}]

Upto(S, n) == UNION {[1 .. k -> S] : k \in 0 .. n}

(***************************************************************************)
(* Programs whose method m holds at most size[m] statements of stmt[m].    *)
(***************************************************************************)
Programs(stmt, size) ==
    LET bodies == [m \in Method |-> Upto(stmt[m], size[m])]
    IN  {p \in [Method -> UNION {bodies[m] : m \in Method}] :
            \A m \in Method : p[m] \in bodies[m]}

RichStmt(m) ==
    CASE m = e -> {Direct(a), Implicit({a, b}), LinkToDeath, AddBinder, Register}
      [] m = a -> {Direct(e), Direct(b), LinkToDeath, AddBinder, InterfaceAdd(b)}
      [] m = b -> {Direct(a), AddLocal(a), LinkToDeath, AddBinder}

MCProgramRich ==
    Programs([m \in Method |-> RichStmt(m)], [m \in Method |-> IF m = b THEN 1 ELSE 2])

DeepStmt(m) ==
    CASE m = e -> {Direct(a), Direct(b), LinkToDeath}
      [] m = a -> {Direct(b), Direct(c), AddBinder}
      [] m = b -> {Direct(a), Direct(c), LinkToDeath}
      [] m = c -> {Direct(a), LinkToDeath, AddBinder}

MCProgramDeep ==
    Programs([m \in Method |-> DeepStmt(m)], [m \in Method |-> IF m \in {b, c} THEN 1 ELSE 2])

=============================================================================
