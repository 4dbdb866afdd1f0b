--------------------- MODULE MCVulnerabilitiesDetecting ---------------------
(***************************************************************************)
(* Two service classes S and T with the interface I, a helper class H and  *)
(* a plain class P.  One list has a service resolved to the interface only *)
(* and so without inf, one a class T without a binder interface, for which *)
(* inf is the class itself; S is registered under two names.               *)
(***************************************************************************)
EXTENDS VulnerabilitiesDetecting

CONSTANTS I, S, T, H, P, run, stop, one, two,
          irun, srun, sstop, trun, tstop, h1, h2, prun

Declared == [c \in Class |-> CASE c = I -> {irun}
                               [] c = S -> {srun, sstop}
                               [] c = T -> {trun, tstop}
                               [] c = H -> {h1, h2}
                               [] c = P -> {prun}]

SubSignatures == [m \in Method |-> IF m \in {irun, srun, trun, prun, h1} THEN run ELSE stop]

Service(i, c, inf, name) ==
    [id |-> i, helperClass |-> NoClass, inf |-> inf, implClass |-> c, serviceName |-> name]

Helper(i) ==
    [id |-> i, helperClass |-> H, inf |-> NoClass, implClass |-> NoClass, serviceName |-> one]

MCServiceLists ==
    {{Service(1, S, I, one), Service(2, S, I, two), Helper(3)},
     {Service(1, S, I, one), Service(2, T, T, two), Helper(3)},
     {Service(1, T, I, one), Service(2, I, NoClass, two), Helper(3), Helper(4)}}

ToMethod(m) == [kind |-> "call", callee |-> m, sub |-> run]
Ipc(sig) == [kind |-> "ipc", callee |-> irun, sub |-> sig]

MCProgram ==
    {[m \in Method |-> CASE m = h1 -> p [] m = h2 -> q [] m = prun -> r [] OTHER -> <<>>] :
        p \in {<<Ipc(run)>>, <<ToMethod(prun)>>},
        q \in {<<ToMethod(h1)>>, <<ToMethod(h2), Ipc(stop)>>},
        r \in {<<Ipc(run)>>, <<ToMethod(h2)>>}}

=============================================================================
