--------------------------- MODULE NativeCallGraph ---------------------------
(***************************************************************************)
(* CallGraph of call_graph_analysis.py: walk the parsed C++ files one      *)
(* after the other and collect the edges of the call graph.                *)
(*                                                                         *)
(* A node of the graph is a simple name (method_calls is keyed by it and   *)
(* the walk follows it); the edges of a node are a Python set whose        *)
(* elements are equal when their full names are.  The full name of a plain *)
(* function has no namespace, so two callees may share it.                 *)
(*                                                                         *)
(* A file is the sequence of its definitions.  A definition records        *)
(*   kind   "function"  a FUNCTION_DECL of the file or of a namespace      *)
(*          "member"    a constructor, destructor or method of a class     *)
(*          "nested"    a FUNCTION_DECL elsewhere, as in extern "C"         *)
(*          "other"     out-of-class members, structs, templates           *)
(*          The walk enters the first two only.                            *)
(*   cursor the function it defines                                        *)
(*   calls  what clang resolves the calls in it to and, for sp<> variables,*)
(*          the class, in order                                            *)
(*   text   where its source text says env->NewGlobalRef:                  *)
(*          "none", "first" (the first line only), "later", or             *)
(*          "unreadable" (read_lines fails and returns None)               *)
(***************************************************************************)
EXTENDS NativeNames, Naturals

CONSTANT Inputs     \* the sequences of files considered

IsFunction(d) == d.kind \in {"function", "nested"}

Definition ==
    {d \in [kind : {"function", "member", "nested", "other"}, cursor : Cursors,
            calls : Seq(Cursors), text : {"none", "first", "later", "unreadable"}] :
        /\ IsFunction(d) => d.cursor.kind = "function"
        /\ d.kind = "member" => IsMember(d.cursor)}

Key(d) == MethodSimpleName(d.cursor)

IsEntered(d) == d.kind \in {"function", "member"}

Edge == [simple : Names, full : FullNames, exit : BOOLEAN]

(* What Inputs is taken to be; a module that uses the graph assumes it. *)
InputsAssumption == Inputs \subseteq Seq(Seq(Definition))

VARIABLES
    files,          \* the files, in the order add_file is called
    fi, di, ci,     \* file, definition and number of calls of it processed
    methodCalls,    \* method_calls
    failed          \* history: files whose walk ended in an exception

vars == <<files, fi, di, ci, methodCalls, failed>>

Init ==
    /\ files \in Inputs
    /\ fi = 1 /\ di = 1 /\ ci = 0
    /\ methodCalls = [n \in Names |-> {}]
    /\ failed = {}

-----------------------------------------------------------------------------
(***************************************************************************)
(* __add_to_call_set: adding to a set keeps the element that is there.     *)
(***************************************************************************)
(* seeded fault: edges are compared as objects *)
AddToFault(S, e) == S \cup {e}

AddTo(S, e) == IF \E d \in S : d.full = e.full THEN S ELSE S \cup {e}

CallEdge(c) == [simple |-> MethodSimpleName(c), full |-> FullNameOf(c), exit |-> FALSE]

(* seeded fault: the edge is compared by the simple name *)
ExitEdgeFault(d) == [simple |-> Key(d), full |-> Key(d), exit |-> TRUE]

(* The edge stands for the function itself, marked as an exit point. *)
ExitEdge(d) == [simple |-> Key(d), full |-> FullNameOf(d.cursor), exit |-> TRUE]

InFile == fi <= Len(files)

AtDefinition == InFile /\ di <= Len(files[fi])

Def == files[fi][di]

NextDefinition == di' = di + 1 /\ ci' = 0 /\ fi' = fi

NextFile == fi' = fi + 1 /\ di' = 1 /\ ci' = 0

(* The parse raises, or the walk anywhere in the file (a cursor of a kind *)
(* the binding does not know): it is logged, the rest is left out.        *)
AddFileFails ==
    /\ AtDefinition
    /\ failed' = failed \cup {fi}
    /\ NextFile
    /\ UNCHANGED <<files, methodCalls>>

SkipDefinition ==
    /\ AtDefinition /\ ~IsEntered(Def)
    /\ NextDefinition
    /\ UNCHANGED <<files, methodCalls, failed>>

(* __extract_child_call_node and __add_edge. *)
AddEdge ==
    /\ AtDefinition /\ IsEntered(Def)
    /\ ci < Len(Def.calls)
    /\ ci' = ci + 1
    /\ methodCalls' = [methodCalls EXCEPT ![Key(Def)] = AddTo(@, CallEdge(Def.calls[ci + 1]))]
    /\ UNCHANGED <<files, fi, di, failed>>

(***************************************************************************)
(* __find_new_global_ref_by_hardcode, after the calls: only for functions, *)
(* and the lines read start after the first one.                           *)
(***************************************************************************)
CallsDone == AtDefinition /\ IsEntered(Def) /\ ci = Len(Def.calls)

SaysNewGlobalRef(d) == d.kind = "function" /\ d.text = "later"

(* seeded fault: the calls of the function are not kept *)
FindNewGlobalRefFault ==
    /\ CallsDone
    /\ SaysNewGlobalRef(Def)
    /\ methodCalls' = [methodCalls EXCEPT ![Key(Def)] = {ExitEdge(Def)}]
    /\ NextDefinition
    /\ UNCHANGED <<files, failed>>

FindNewGlobalRef ==
    /\ CallsDone
    /\ SaysNewGlobalRef(Def)
    /\ methodCalls' = [methodCalls EXCEPT ![Key(Def)] = AddTo(@, ExitEdge(Def))]
    /\ NextDefinition
    /\ UNCHANGED <<files, failed>>

FindNothing ==
    /\ CallsDone
    /\ Def.kind = "function" => Def.text \notin {"later", "unreadable"}
    /\ NextDefinition
    /\ UNCHANGED <<files, methodCalls, failed>>

(* Iterating over None raises: the rest of the file is left out. *)
ReadFails ==
    /\ CallsDone
    /\ Def.kind = "function" /\ Def.text = "unreadable"
    /\ failed' = failed \cup {fi}
    /\ NextFile
    /\ UNCHANGED <<files, methodCalls>>

FinishFile ==
    /\ InFile /\ di > Len(files[fi])
    /\ NextFile
    /\ UNCHANGED <<files, methodCalls, failed>>

Next ==
    \/ AddFileFails
    \/ SkipDefinition
    \/ AddEdge
    \/ FindNewGlobalRef
    \/ FindNothing
    \/ ReadFails
    \/ FinishFile

Spec == Init /\ [][Next]_vars

-----------------------------------------------------------------------------
(***************************************************************************)
(* Type invariant.                                                         *)
(***************************************************************************)
TypeOK ==
    /\ files \in Seq(Seq(Definition))
    /\ fi \in Nat \ {0} /\ di \in Nat \ {0} /\ ci \in Nat
    /\ methodCalls \in [Names -> SUBSET Edge]
    /\ failed \subseteq 1 .. Len(files)

(***************************************************************************)
(* A file that fails, wherever it does, takes nothing away from the others:*)
(* of every other file that was processed, each call and each NewGlobalRef *)
(* is an edge of its function, or lost to an edge of the same full name.   *)
(* The order of the files, and processing one twice, make no difference.   *)
(***************************************************************************)
Walked(i) == {files[i][j] : j \in {k \in DOMAIN files[i] : IsEntered(files[i][k])}}

HasEdge(n, full) == \E e \in methodCalls[n] : e.full = full

LostOnlyToEqualFullName ==
    \A i \in DOMAIN files : i < fi /\ i \notin failed =>
        \A d \in Walked(i) :
            /\ \A k \in DOMAIN d.calls : HasEdge(Key(d), FullNameOf(d.calls[k]))
            /\ SaysNewGlobalRef(d) => HasEdge(Key(d), FullNameOf(d.cursor))

(***************************************************************************)
(* No edge is made up: it is a call of a definition of that name, or marks *)
(* a function of that name whose text says NewGlobalRef; and no node has   *)
(* two edges that compare equal.                                           *)
(***************************************************************************)
EdgesComeFromDefinitions ==
    \A n \in Names : \A e \in methodCalls[n] :
        /\ \E i \in DOMAIN files : \E d \in Walked(i) :
              /\ Key(d) = n
              /\ \/ ~e.exit /\ \E k \in DOMAIN d.calls : CallEdge(d.calls[k]) = e
                 \/ SaysNewGlobalRef(d) /\ e = ExitEdge(d)
        /\ \A f \in methodCalls[n] : e.full = f.full => e = f

(***************************************************************************)
(* "If the node is not parser correctly, try to read the source code       *)
(* directly" (call_graph_analysis.py:200): a function whose text says      *)
(* env->NewGlobalRef has an exit edge, whatever clang made of its calls.   *)
(***************************************************************************)
FallbackFindsGlobalRef ==
    \A i \in DOMAIN files : i < fi /\ i \notin failed =>
        \A d \in Walked(i) : SaysNewGlobalRef(d) => \E e \in methodCalls[Key(d)] : e.exit

=============================================================================
