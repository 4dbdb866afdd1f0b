-------------------------- MODULE BinderLeakSearch --------------------------
(***************************************************************************)
(* What the call graph search promises, whatever the order it walks in: it *)
(* enters methods one by one, each the entry or a callee of one entered    *)
(* before; it may give some of them up; it says "leak" exactly when the    *)
(* entered methods come to hold a method that adds a binder to a list and  *)
(* a method with an exit point, and "none" only when nothing is left that  *)
(* it neither entered nor gave up.                                         *)
(***************************************************************************)
CONSTANTS Method, Entry

VARIABLES
    calls,      \* the callees of each method
    adds,       \* the methods that add a binder to a list
    exits,      \* the methods with an exit point
    reached,    \* the methods entered so far
    givenUp,    \* the methods refused
    verdict     \* "running", "leak" or "none"

vars == <<calls, adds, exits, reached, givenUp, verdict>>

program == <<calls, adds, exits>>

Known == {Entry} \cup UNION {calls[m] : m \in reached}

Evidence(S) == S \cap adds # {} /\ S \cap exits # {}

Init ==
    /\ calls \in [Method -> SUBSET Method]
    /\ adds \in SUBSET Method
    /\ exits \in SUBSET Method
    /\ reached = {}
    /\ givenUp = {}
    /\ verdict = "running"

Visit(m) ==
    /\ verdict = "running"
    /\ m \in Known \ reached
    /\ reached' = reached \cup {m}
    /\ verdict' = IF Evidence(reached') THEN "leak" ELSE "running"
    /\ UNCHANGED <<program, givenUp>>

GiveUp(m) ==
    /\ verdict = "running"
    /\ m \in Known
    /\ givenUp' = givenUp \cup {m}
    /\ UNCHANGED <<program, reached, verdict>>

Exhaust ==
    /\ verdict = "running"
    /\ Known \subseteq reached \cup givenUp
    /\ verdict' = "none"
    /\ UNCHANGED <<program, reached, givenUp>>

Next == (\E m \in Method : Visit(m) \/ GiveUp(m)) \/ Exhaust

Spec == Init /\ [][Next]_vars

=============================================================================
