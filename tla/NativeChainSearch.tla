-------------------------- MODULE NativeChainSearch --------------------------
(***************************************************************************)
(* CallGraphAnalysis of call_graph_analysis.py: from every entry point     *)
(* walk the call graph depth first until an edge to an exit point, then    *)
(* save the chains of all entry points.                                    *)
(*                                                                         *)
(* The walk remembers no node and has no level: only Python's limit on the *)
(* recursion stops it on a circle, with an exception nobody catches.  The  *)
(* entry points and the edges of a node are Python sets: their order is a  *)
(* nondeterministic choice.                                                *)
(***************************************************************************)
EXTENDS Naturals, Sequences, FiniteSets

CONSTANTS
    Name,           \* simple names
    FullName,       \* full names
    exitPoints,     \* the names that are exit points
    maxDepth,       \* the recursion limit, in invocations of the walk
    None,           \* no entry point
    Old,            \* what the result file holds before this run
    Torn            \* what is left of it when a write fails half-way

(***************************************************************************)
(* exit is is_exit_point: the edge marks the function itself, and its own  *)
(* simple name is no node of the graph.                                    *)
(***************************************************************************)
Edge == [simple : Name, full : FullName, exit : BOOLEAN]

(* call_chains: a dictionary from entry points to chains. *)
AreChains(c, S) == DOMAIN c \subseteq S /\ \A n \in DOMAIN c : c[n] \in Seq(Edge)

(* What the constants are taken to be; a module that uses the search       *)
(* assumes it.                                                             *)
NameAssumption == IsFiniteSet(Name) /\ exitPoints \subseteq Name
DepthAssumption == maxDepth \in Nat \ {0}
NoneAssumption == None \notin Name /\ \A T \in SUBSET Name : Old \notin [T -> Seq(Edge)]

VARIABLES
    methodCalls,    \* the call graph: method_calls, complete when the search begins
    entryPoints,    \* the names run_analysis is called with
    pending,        \* entry points that were not searched yet
    start,          \* the entry point searched last
    stack,          \* invocations of __walk_call_graph, the running one last
    callChains,     \* call_chains
    outcome,        \* "building" the graph, "running", "saved" or "crashed"
    file            \* data/results.txt

vars == <<methodCalls, entryPoints, pending, start, stack, callChains, outcome, file>>

(* path: the edges that led to the invocation; todo: edges not looked at. *)
Frame == [path : Seq(Edge), todo : SUBSET Edge]

SearchInit ==
    /\ entryPoints = {} /\ pending = {}
    /\ start = None
    /\ stack = <<>>
    /\ callChains = <<>>
    /\ outcome = "building"
    /\ file = Old

-----------------------------------------------------------------------------
IsExit(e) == e.exit \/ e.simple \in exitPoints

(* seeded fault: an edge that marks its own function is followed back to it *)
CallSetFault(e) == methodCalls[e.simple]

CallSet(e) == IF e.exit THEN {} ELSE methodCalls[e.simple]

Top == stack[Len(stack)]

RunAnalysis(eps) ==
    /\ outcome = "building"
    /\ entryPoints' = eps /\ pending' = eps
    /\ outcome' = "running"
    /\ UNCHANGED <<methodCalls, start, stack, callChains, file>>

StartSearch(n) ==
    /\ outcome = "running" /\ stack = <<>>
    /\ n \in pending
    /\ pending' = pending \ {n}
    /\ start' = n
    /\ stack' = <<[path |-> <<>>, todo |-> methodCalls[n]]>>
    /\ UNCHANGED <<methodCalls, entryPoints, callChains, outcome, file>>

(***************************************************************************)
(* Each edge is followed with a copy of the path before it is tested.      *)
(***************************************************************************)
(* seeded fault: the path is not copied, the invocations share one list *)
FollowFault(e) ==
    /\ outcome = "running" /\ stack # <<>>
    /\ e \in Top.todo
    /\ Len(stack) < maxDepth
    /\ stack' = Append([stack EXCEPT ![Len(stack)] =
                            [path |-> Append(Top.path, e), todo |-> Top.todo \ {e}]],
                       [path |-> Append(Top.path, e), todo |-> CallSet(e)])
    /\ UNCHANGED <<methodCalls, entryPoints, pending, start, callChains, outcome, file>>

Follow(e) ==
    /\ outcome = "running" /\ stack # <<>>
    /\ e \in Top.todo
    /\ Len(stack) < maxDepth
    /\ stack' = Append([stack EXCEPT ![Len(stack)] =
                            [path |-> Top.path, todo |-> Top.todo \ {e}]],
                       [path |-> Append(Top.path, e), todo |-> CallSet(e)])
    /\ UNCHANGED <<methodCalls, entryPoints, pending, start, callChains, outcome, file>>

RecursionError ==
    /\ outcome = "running" /\ stack # <<>>
    /\ Top.todo # {}
    /\ Len(stack) = maxDepth
    /\ outcome' = "crashed"
    /\ UNCHANGED <<methodCalls, entryPoints, pending, start, stack, callChains, file>>

(***************************************************************************)
(* The invocation found nothing; now its caller tests the edge itself.     *)
(***************************************************************************)
Exhausted ==
    /\ outcome = "running" /\ stack # <<>>
    /\ Top.todo = {}

LastEdge == Top.path[Len(Top.path)]

(* seeded fault: the edge is followed again *)
NotFoundFault ==
    /\ Exhausted
    /\ Len(stack) > 1 /\ ~IsExit(LastEdge)
    /\ stack' = [i \in 1 .. Len(stack) - 1 |->
                    [stack[i] EXCEPT !.todo = IF i = Len(stack) - 1 THEN @ \cup {LastEdge} ELSE @]]
    /\ UNCHANGED <<methodCalls, entryPoints, pending, start, callChains, outcome, file>>

(* seeded fault: what the first edge gives is returned, chain or not *)
ReturnFirstFault ==
    /\ Exhausted
    /\ Len(stack) > 1 /\ ~IsExit(LastEdge)
    /\ stack' = [SubSeq(stack, 1, Len(stack) - 1) EXCEPT ![Len(stack) - 1].todo = {}]
    /\ UNCHANGED <<methodCalls, entryPoints, pending, start, callChains, outcome, file>>

NotFound ==
    /\ Exhausted
    /\ Len(stack) > 1 /\ ~IsExit(LastEdge)
    /\ stack' = SubSeq(stack, 1, Len(stack) - 1)
    /\ UNCHANGED <<methodCalls, entryPoints, pending, start, callChains, outcome, file>>

Found ==
    /\ Exhausted
    /\ Len(stack) > 1 /\ IsExit(LastEdge)
    /\ callChains' = [n \in DOMAIN callChains \cup {start} |->
                        IF n = start THEN Top.path ELSE callChains[n]]
    /\ stack' = <<>>
    /\ UNCHANGED <<methodCalls, entryPoints, pending, start, outcome, file>>

NoChain ==
    /\ Exhausted
    /\ Len(stack) = 1
    /\ stack' = <<>>
    /\ UNCHANGED <<methodCalls, entryPoints, pending, start, callChains, outcome, file>>

(***************************************************************************)
(* __save_results runs once, after the last entry point.  Opening the file *)
(* fails when there is no directory data, and then it stays; once it is    *)
(* open the old text is gone, and a write that fails leaves it torn.       *)
(***************************************************************************)
SaveResults ==
    /\ outcome = "running" /\ stack = <<>> /\ pending = {}
    /\ file' = callChains
    /\ outcome' = "saved"
    /\ UNCHANGED <<methodCalls, entryPoints, pending, start, stack, callChains>>

SaveFails ==
    /\ outcome = "running" /\ stack = <<>> /\ pending = {}
    /\ file' \in {file, Torn}
    /\ outcome' = "crashed"
    /\ UNCHANGED <<methodCalls, entryPoints, pending, start, stack, callChains>>

Next ==
    \/ \E n \in pending : StartSearch(n)
    \/ stack # <<>> /\ \E e \in Top.todo : Follow(e)
    \/ RecursionError
    \/ NotFound
    \/ Found
    \/ NoChain
    \/ SaveResults
    \/ SaveFails

-----------------------------------------------------------------------------
(***************************************************************************)
(* Type invariant.                                                         *)
(***************************************************************************)
TypeOK ==
    /\ pending \subseteq entryPoints /\ entryPoints \subseteq Name
    /\ start \in entryPoints \cup {None}
    /\ stack \in Seq(Frame)
    /\ AreChains(callChains, entryPoints)
    /\ outcome \in {"building", "running", "saved", "crashed"}
    /\ (file \in {Old, Torn} \/ AreChains(file, entryPoints))

(***************************************************************************)
(* A path of the graph: its first edge is one of n, each other one is one  *)
(* of the node the edge before leads to.                                   *)
(***************************************************************************)
IsWalk(n, p) ==
    \A i \in 1 .. Len(p) : p[i] \in IF i = 1 THEN methodCalls[n] ELSE CallSet(p[i - 1])

(***************************************************************************)
(* Each chain leads from its entry point to an exit point, along calls     *)
(* that are in the graph, whatever branches were abandoned on the way.     *)
(***************************************************************************)
ChainLeadsToExit ==
    \A n \in DOMAIN callChains :
        /\ callChains[n] # <<>>
        /\ IsWalk(n, callChains[n])
        /\ IsExit(callChains[n][Len(callChains[n])])

(***************************************************************************)
(* The nodes some path from n reaches.                                     *)
(***************************************************************************)
Successors(S) == {e.simple : e \in {d \in UNION {methodCalls[x] : x \in S} : ~d.exit}}

ReachedFrom(n) ==
    LET reach[k \in 0 .. Cardinality(Name)] ==
            IF k = 0 THEN {n} ELSE reach[k - 1] \cup Successors(reach[k - 1])
    IN  reach[Cardinality(Name)]

ReachesExit(n) == \E m \in ReachedFrom(n) : \E e \in methodCalls[m] : IsExit(e)

(***************************************************************************)
(* A saved file is complete: it has a chain for just those entry points    *)
(* from which an exit point is reached, whichever edges were tried first.  *)
(* Nothing but the write at the very end touches the old one: a run that   *)
(* fails before, on any entry point, leaves it as it was.                  *)
(***************************************************************************)
SavedIsComplete ==
    /\ file \notin {Old, Torn} => DOMAIN file = {n \in entryPoints : ReachesExit(n)}
    /\ file # Old => pending = {} /\ stack = <<>>

(***************************************************************************)
(* A recursion limit above the number of names is only hit while searching *)
(* from an entry point that reaches a circle of calls.  (Trying an edge in *)
(* another order, the search may find an exit first and never run into     *)
(* that circle.)                                                           *)
(***************************************************************************)
LimitMeansCircle ==
    outcome = "crashed" /\ stack # <<>> /\ maxDepth > Cardinality(Name) =>
        \E m \in ReachedFrom(start) : \E x \in Successors({m}) : m \in ReachedFrom(x)

(***************************************************************************)
(* The run ends, with a file or with an exception, also on a circle.       *)
(***************************************************************************)
Termination == <>(outcome \notin {"building", "running"})

=============================================================================
