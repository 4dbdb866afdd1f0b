----------------------------- MODULE NativeNames -----------------------------
(***************************************************************************)
(* The names of the native call graph: fully_qualified and                 *)
(* fully_qualified_spelling of utils.py, get_method_simple_name and        *)
(* Edge.full_name of call_graph_analysis.py.                               *)
(*                                                                         *)
(* A cursor is what clang knows of a function or class: its kind, the      *)
(* namespaces and classes around it, outermost first, its spelling and     *)
(* its parameters.  A name is the sequence of the words that "::" joins.   *)
(***************************************************************************)
EXTENDS Naturals, Sequences, SequencesExt

CONSTANT Cursors    \* the functions and classes considered

CursorKinds == {"function", "method", "constructor", "destructor", "class"}

IsMember(c) == c.kind \in {"method", "constructor", "destructor"}

IsSequence(s) == Len(s) \in Nat /\ s = [i \in 1 .. Len(s) |-> s[i]]

ASSUME CursorsAssumption ==
    \A c \in Cursors : /\ DOMAIN c = {"kind", "scope", "spelling", "params"}
                       /\ c.kind \in CursorKinds
                       /\ IsSequence(c.scope)
                       /\ IsMember(c) => c.scope # <<>>

(***************************************************************************)
(* displayname: the spelling, with the parameters for a function.          *)
(***************************************************************************)
DisplayName(c) == IF c.kind = "class" THEN c.spelling ELSE <<c.spelling, c.params>>

FullyQualified(c) == Append(c.scope, DisplayName(c))

FullyQualifiedSpelling(c) == Append(c.scope, c.spelling)

(* seeded fault: a class stands for its constructor, class::class *)
MethodSimpleNameFault(c) ==
    CASE c.kind = "class" -> Append(FullyQualifiedSpelling(c), c.spelling)
      [] c.kind = "destructor" -> <<Last(c.scope), <<Last(c.scope), "~">>>>
      [] OTHER -> FullyQualifiedSpelling(c)

(* The spelling of the type of a class is its qualified name, so twice     *)
(* that; a destructor has the class only, without what is around it.       *)
MethodSimpleName(c) ==
    CASE c.kind = "class" -> FullyQualifiedSpelling(c) \o FullyQualifiedSpelling(c)
      [] c.kind = "destructor" -> <<Last(c.scope), <<Last(c.scope), "~">>>>
      [] OTHER -> FullyQualifiedSpelling(c)

(* What edges are compared by. *)
FullNameOf(c) == IF c.kind \in {"class", "method"} THEN FullyQualified(c) ELSE <<DisplayName(c)>>

(* An entry point is a spelling, taken for a name. *)
EntryName(c) == <<c.spelling>>

Names == {MethodSimpleName(c) : c \in Cursors} \cup {EntryName(c) : c \in {x \in Cursors : x.kind = "function"}}

FullNames == {FullNameOf(c) : c \in Cursors}

=============================================================================
