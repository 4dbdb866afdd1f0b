-------------------------- MODULE ExitPointChecker --------------------------
(***************************************************************************)
(* What services/ExitPointChecker.kt says of ONE method body.              *)
(*                                                                         *)
(* A body is the sequence of its statements that contain an invocation;    *)
(* other units are never looked at by this class.  A statement records     *)
(*   iface    the invocation is an InterfaceInvokeExpr                     *)
(*   kind     which name tests of the checker the invoked method passes:   *)
(*            "exit" (asBinder, linkToDeath), "register"                   *)
(*            (RemoteCallbackList.register), "add" (add or put of a        *)
(*            collection class), or "call" (none of them)                  *)
(*   binder   for an "add": the receiver is not a collection created in    *)
(*            this body, and some argument is of a class that wraps a      *)
(*            binder                                                       *)
(*   targets  the methods the invocation resolves to                       *)
(***************************************************************************)
EXTENDS Naturals, Sequences

CONSTANT Method

Kind == {"call", "exit", "register", "add"}

Stmt == [iface : BOOLEAN, kind : Kind, binder : BOOLEAN, targets : SUBSET Method]

Body == Seq(Stmt)

(***************************************************************************)
(* detectAddToList: interface invocations are rejected first, then the     *)
(* RemoteCallbackList, then the collections.                               *)
(***************************************************************************)
DetectAddToList(s) ==
    /\ ~s.iface
    /\ \/ s.kind = "register"
       \/ s.kind = "add" /\ s.binder

ListTag == {"RemoteCallbackList", "collection"}

(* seeded fault: the tag is the name of the method, not of its class *)
ListTagOfFault(s) == s.kind

ListTagOf(s) == IF s.kind = "register" THEN "RemoteCallbackList" ELSE "collection"

(***************************************************************************)
(* checkContainExitPoint looks at the method's name only, so it accepts an *)
(* interface invocation; a detected "register" counts as an exit point     *)
(* of its own.                                                             *)
(***************************************************************************)
SetsExitPoint(s) == s.kind = "exit" \/ (~s.iface /\ s.kind = "register")

(***************************************************************************)
(* containBinderList scans the body in order and returns at the first      *)
(* detected addition: nothing after it is looked at.                       *)
(***************************************************************************)
Detections(b) == {i \in DOMAIN b : DetectAddToList(b[i])}

Scanned(b) == {i \in DOMAIN b : \A j \in Detections(b) : i <= j}

HasBinderList(b) == Detections(b) # {}

FirstDetection(b) == CHOOSE i \in Detections(b) : \A j \in Detections(b) : i <= j

ContainsExitPoint(b) == \E i \in Scanned(b) : SetsExitPoint(b[i])

=============================================================================
