------------------------ MODULE MCAnalysisHelperApi ------------------------
(***************************************************************************)
(* A helper method h, two methods x and y it may call, which may call back *)
(* and each other, and two subsignatures; x and y have a different one, so *)
(* either, both or none of the calls matches the vulnerable methods.  The  *)
(* search may begin at any of the three.                                   *)
(***************************************************************************)
EXTENDS AnalysisHelperApi

CONSTANTS h, x, y, s, t

MCSubSignature == [m \in Method |-> IF m = y THEN t ELSE s]

ToMethod(m) == [kind |-> "call", callee |-> m, sub |-> s]
Ipc(sig) == [kind |-> "ipc", callee |-> h, sub |-> sig]
Listener == [kind |-> "interface", callee |-> h, sub |-> s]

Upto(S, n) == UNION {[1 .. k -> S] : k \in 0 .. n}

MCProgram ==
    LET bodies == [m \in Method |->
            CASE m = h -> Upto({ToMethod(x), ToMethod(y), Listener}, 2)
              [] m = x -> Upto({ToMethod(h), ToMethod(y), Ipc(s)}, 2)
              [] m = y -> Upto({ToMethod(y), ToMethod(x), Ipc(t)}, 2)]
    IN  {p \in [Method -> UNION {bodies[m] : m \in Method}] : \A m \in Method : p[m] \in bodies[m]}

=============================================================================
