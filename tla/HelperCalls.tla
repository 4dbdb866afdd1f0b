----------------------------- MODULE HelperCalls -----------------------------
(***************************************************************************)
(* The program as services/AnalysisHelperApi.kt sees it: each method is    *)
(* the sequence of its invocations, of which it tells three kinds apart:   *)
(*   "call"       not an interface invocation: callee is followed          *)
(*   "ipc"        an interface method whose class extends IInterface:      *)
(*                sub is compared with the vulnerable methods              *)
(*   "interface"  any other interface invocation: ignored                  *)
(***************************************************************************)
EXTENDS Naturals, Sequences

CONSTANTS
    Method,
    SubSig,         \* method subsignatures: name, parameter and result types
    subSignature    \* the subsignature of each method

ASSUME SubSignatureAssumption == subSignature \in [Method -> SubSig]

HelperStmt == [kind : {"call", "ipc", "interface"}, callee : Method, sub : SubSig]

HelperBody == Seq(HelperStmt)

(***************************************************************************)
(* findCallInCurrentMethod compares subsignatures and nothing else: the    *)
(* class of the vulnerable method does not matter.                         *)
(***************************************************************************)
Matches(s, exitPoints) ==
    s.kind = "ipc" /\ \E v \in exitPoints : subSignature[v] = s.sub

Calls(prog, m, x) == \E i \in DOMAIN prog[m] : prog[m][i].kind = "call" /\ prog[m][i].callee = x

CallsVulnerable(prog, exitPoints, m) ==
    \E i \in DOMAIN prog[m] : Matches(prog[m][i], exitPoints)

(***************************************************************************)
(* A vulnerable IPC method is called at the end of a call path of at most  *)
(* lev methods from m.                                                     *)
(***************************************************************************)
FindsIpc(prog, exitPoints, m, lev) ==
    \E n \in 1 .. lev : \E p \in [1 .. n -> Method] :
        /\ p[1] = m
        /\ \A i \in 1 .. n - 1 : Calls(prog, p[i], p[i + 1])
        /\ CallsVulnerable(prog, exitPoints, p[n])

=============================================================================
