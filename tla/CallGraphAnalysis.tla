-------------------------- MODULE CallGraphAnalysis --------------------------
(***************************************************************************)
(* The search of services/CallGraphAnalysis.kt: from one entry point,      *)
(* follow calls depth first, at most callGraphLev methods deep, never      *)
(* entering a method twice, until some method adds a binder to a list and  *)
(* some method touches an exit point.                                      *)
(*                                                                         *)
(* The recursion is a stack of activation records plus the invocation that *)
(* is about to begin.  The targets of one implicit call come from a        *)
(* HashSet, whose order is not fixed: the order is a nondeterministic      *)
(* choice.  The program under analysis, `body', never changes.             *)
(***************************************************************************)
EXTENDS ExitPointChecker, Integers

CONSTANTS
    Program,        \* the programs considered: functions from methods to bodies
    Entry,          \* the method analysisEntryPoint is called with
    callGraphLev,   \* the level (depth budget) the search starts with
    NoVul,          \* the null descriptor
    NoCall          \* no invocation is about to begin

(***************************************************************************)
(* A VulnerableApiDesc.  foundIn stands for its binderCls: the method whose*)
(* scan created the descriptor.                                            *)
(***************************************************************************)
Vul == [foundIn : Method, listTag : ListTag, callChain : Seq(Method)]

(***************************************************************************)
(* An invocation of callGraphAnalysis, and an activation record of one that*)
(* passed its guards: `path' is the LinkedList of the invocation, `pc' the *)
(* number of statements begun, and `todo' the targets of the current one   *)
(* that were not called yet.                                               *)
(***************************************************************************)
Call == [mtd : Method, path : Seq(Method), lev : Int]

Frame == [mtd : Method, path : Seq(Method), lev : Int, pc : Nat, todo : SUBSET Method]

ASSUME ProgramAssumption == Program \subseteq [Method -> Body]
ASSUME EntryAssumption == Entry \in Method
ASSUME LevAssumption == callGraphLev \in Nat
ASSUME NullAssumption == NoVul \notin Vul /\ NoCall \notin Call

VARIABLES
    body,               \* the program under analysis
    visitSet,           \* methods entered so far
    vul,                \* the latest detection, kept for the whole search
    containExitPoint,   \* whether an exit point was seen so far
    call,               \* the invocation about to begin
    stack,              \* activation records, the running one last
    done,               \* analysisEntryPoint has returned
    report,             \* what it returned
    cutOff              \* history: methods refused because the level was used up

vars == <<body, visitSet, vul, containExitPoint, call, stack, done, report, cutOff>>

Init ==
    /\ body \in Program
    /\ visitSet = {}
    /\ vul = NoVul
    /\ containExitPoint = FALSE
    /\ call = [mtd |-> Entry, path |-> <<>>, lev |-> callGraphLev]
    /\ stack = <<>>
    /\ done = FALSE
    /\ report = NoVul
    /\ cutOff = {}

-----------------------------------------------------------------------------
(***************************************************************************)
(* The beginning of an invocation.  It returns null at once when the level *)
(* is used up or the method was entered before; otherwise the method is    *)
(* marked, the path extended and the method's own body checked.            *)
(***************************************************************************)
RefuseLevel ==
    /\ call # NoCall
    /\ call.lev <= 0
    /\ cutOff' = cutOff \cup {call.mtd}
    /\ call' = NoCall
    /\ UNCHANGED <<body, visitSet, vul, containExitPoint, stack, done, report>>

RefuseVisited ==
    /\ call # NoCall
    /\ call.lev > 0
    /\ call.mtd \in visitSet
    /\ call' = NoCall
    /\ UNCHANGED <<body, visitSet, vul, containExitPoint, stack, done, report, cutOff>>

(***************************************************************************)
(* checkOneMethod: a new detection replaces an older one (vul = detect ?:  *)
(* vul), an exit point seen once stays seen, and the search ends as soon   *)
(* as there is one of each.                                                *)
(***************************************************************************)
VulAfter(m) ==
    IF HasBinderList(body[m])
    THEN [foundIn |-> m, callChain |-> <<>>,
          listTag |-> ListTagOf(body[m][FirstDetection(body[m])])]
    ELSE vul

(* seeded fault: containExitPoint is overwritten, not kept *)
ExitPointAfterFault(m) == ContainsExitPoint(body[m])

ExitPointAfter(m) == containExitPoint \/ ContainsExitPoint(body[m])

(* seeded fault: the exit point is not asked for *)
DetectedFault(m) == VulAfter(m) # NoVul

Detected(m) == ExitPointAfter(m) /\ VulAfter(m) # NoVul

(* seeded fault: the method is not marked as visited *)
BeginMethodFault ==
    /\ call # NoCall
    /\ call.lev > 0
    /\ call.mtd \notin visitSet
    /\ visitSet' = visitSet
    /\ vul' = VulAfter(call.mtd)
    /\ containExitPoint' = ExitPointAfter(call.mtd)
    /\ call' = NoCall

BeginMethod ==
    /\ call # NoCall
    /\ call.lev > 0
    /\ call.mtd \notin visitSet
    /\ visitSet' = visitSet \cup {call.mtd}
    /\ vul' = VulAfter(call.mtd)
    /\ containExitPoint' = ExitPointAfter(call.mtd)
    /\ call' = NoCall

Report ==
    /\ BeginMethod
    /\ Detected(call.mtd)
    /\ report' = [VulAfter(call.mtd) EXCEPT !.callChain = Append(call.path, call.mtd)]
    /\ done' = TRUE
    /\ stack' = <<>>
    /\ UNCHANGED <<body, cutOff>>

NewFrame == [mtd |-> call.mtd, path |-> Append(call.path, call.mtd),
             lev |-> call.lev, pc |-> 0, todo |-> {}]

(* seeded fault: the path is not copied, so every record shares one list *)
EnterFault ==
    /\ BeginMethod
    /\ ~Detected(call.mtd)
    /\ stack' = Append([i \in DOMAIN stack |-> [stack[i] EXCEPT !.path = NewFrame.path]],
                       NewFrame)
    /\ UNCHANGED <<body, done, report, cutOff>>

Enter ==
    /\ BeginMethod
    /\ ~Detected(call.mtd)
    /\ stack' = Append(stack, NewFrame)
    /\ UNCHANGED <<body, done, report, cutOff>>

-----------------------------------------------------------------------------
(***************************************************************************)
(* The body of an invocation: take the next statement, call its targets    *)
(* one by one with a copy of the path and one level less, return null      *)
(* after the last statement.                                               *)
(***************************************************************************)
Top == stack[Len(stack)]

Targets(s) == IF s.iface THEN {} ELSE s.targets

AtStmt(f, n, S) == [f EXCEPT !.pc = n, !.todo = S]

(* seeded fault: only one target of an implicit call is followed *)
NextStmtFault ==
    /\ call = NoCall /\ stack # <<>>
    /\ Top.pc < Len(body[Top.mtd])
    /\ stack' = [stack EXCEPT ![Len(stack)] =
                     AtStmt(Top, Top.pc + 1, Targets(body[Top.mtd][Top.pc + 1]))]
    /\ UNCHANGED <<body, visitSet, vul, containExitPoint, call, done, report, cutOff>>

NextStmt ==
    /\ call = NoCall /\ stack # <<>>
    /\ Top.todo = {}
    /\ Top.pc < Len(body[Top.mtd])
    /\ stack' = [stack EXCEPT ![Len(stack)] =
                     AtStmt(Top, Top.pc + 1, Targets(body[Top.mtd][Top.pc + 1]))]
    /\ UNCHANGED <<body, visitSet, vul, containExitPoint, call, done, report, cutOff>>

(* seeded fault: the target stays in todo *)
CallTargetFault(m) ==
    /\ call = NoCall /\ stack # <<>>
    /\ m \in Top.todo
    /\ call' = [mtd |-> m, path |-> Top.path, lev |-> Top.lev - 1]
    /\ UNCHANGED <<body, visitSet, vul, containExitPoint, stack, done, report, cutOff>>

CallTarget(m) ==
    /\ call = NoCall /\ stack # <<>>
    /\ m \in Top.todo
    /\ call' = [mtd |-> m, path |-> Top.path, lev |-> Top.lev - 1]
    /\ stack' = [stack EXCEPT ![Len(stack)] = AtStmt(Top, Top.pc, Top.todo \ {m})]
    /\ UNCHANGED <<body, visitSet, vul, containExitPoint, done, report, cutOff>>

(* seeded fault: null is returned after the first call that found nothing *)
ReturnNullFault ==
    /\ call = NoCall /\ stack # <<>>
    /\ Top.pc > 0
    /\ stack' = SubSeq(stack, 1, Len(stack) - 1)
    /\ UNCHANGED <<body, visitSet, vul, containExitPoint, call, done, report, cutOff>>

ReturnNull ==
    /\ call = NoCall /\ stack # <<>>
    /\ Top.todo = {}
    /\ Top.pc = Len(body[Top.mtd])
    /\ stack' = SubSeq(stack, 1, Len(stack) - 1)
    /\ UNCHANGED <<body, visitSet, vul, containExitPoint, call, done, report, cutOff>>

(***************************************************************************)
(* The outermost invocation returned null.                                 *)
(***************************************************************************)
Finish ==
    /\ call = NoCall /\ stack = <<>>
    /\ ~done
    /\ done' = TRUE
    /\ UNCHANGED <<body, visitSet, vul, containExitPoint, call, stack, report, cutOff>>

Next ==
    \/ RefuseLevel
    \/ RefuseVisited
    \/ Report
    \/ Enter
    \/ NextStmt
    \/ \E m \in Method : CallTarget(m)
    \/ ReturnNull
    \/ Finish

(***************************************************************************)
(* The search runs in one thread that nothing else blocks: it takes its    *)
(* next step as long as there is one.                                      *)
(***************************************************************************)
Spec == Init /\ [][Next]_vars /\ WF_vars(Next)

-----------------------------------------------------------------------------
(***************************************************************************)
(* PROPERTIES                                                              *)
(***************************************************************************)

Callees(m) == UNION {Targets(body[m][i]) : i \in DOMAIN body[m]}

(***************************************************************************)
(* A sequence of methods, each calling the next, that starts at the entry  *)
(* point, is no longer than the level allows and never repeats a method.   *)
(***************************************************************************)
IsCallPath(p) ==
    /\ Len(p) \in 1 .. callGraphLev
    /\ p[1] = Entry
    /\ \A i \in 1 .. Len(p) - 1 : p[i + 1] \in Callees(p[i])
    /\ \A i, j \in 1 .. Len(p) : p[i] = p[j] => i = j

(***************************************************************************)
(* Type invariant.                                                         *)
(***************************************************************************)
TypeOK ==
    /\ body \in [Method -> Body]
    /\ visitSet \subseteq Method
    /\ vul \in Vul \cup {NoVul}
    /\ containExitPoint \in BOOLEAN
    /\ call \in Call \cup {NoCall}
    /\ stack \in Seq(Frame)
    /\ done \in BOOLEAN
    /\ report \in Vul \cup {NoVul}
    /\ cutOff \subseteq Method

(***************************************************************************)
(* The callChain written to results.json is a call path of the analysed    *)
(* program, whatever branches were abandoned before it was found.          *)
(***************************************************************************)
ReportedChainIsCallPath == report # NoVul => IsCallPath(report.callChain)

(***************************************************************************)
(* A report is backed by two methods the search entered: the descriptor's  *)
(* own method adds a binder to a list, and some method touches an exit     *)
(* point; the reported chain ends in one of the two.                       *)
(***************************************************************************)
ReportIsJustified ==
    report # NoVul =>
        /\ report.foundIn \in visitSet
        /\ HasBinderList(body[report.foundIn])
        /\ \E x \in visitSet :
              /\ ContainsExitPoint(body[x])
              /\ report.callChain[Len(report.callChain)] \in {report.foundIn, x}

(***************************************************************************)
(* Returning null means the search is exhausted: the entry and every       *)
(* callee of an entered method was entered itself unless the level stopped *)
(* it, and the entered methods do not hold both kinds of evidence.  So     *)
(* neither the visited set nor abandoned branches lose a method that the   *)
(* level did not refuse.                                                   *)
(***************************************************************************)
NullIsExhaustive ==
    done /\ report = NoVul =>
        /\ Entry \in visitSet \cup cutOff
        /\ \A m \in visitSet : Callees(m) \subseteq visitSet \cup cutOff
        /\ ~ /\ \E a \in visitSet : HasBinderList(body[a])
             /\ \E x \in visitSet : ContainsExitPoint(body[x])

(***************************************************************************)
(* The recursion is never deeper than the level, and a method is in at     *)
(* most one activation record: recursive code cannot grow the stack.       *)
(***************************************************************************)
StackIsBounded ==
    /\ Len(stack) <= callGraphLev
    /\ \A i, j \in 1 .. Len(stack) : stack[i].mtd = stack[j].mtd => i = j

(***************************************************************************)
(* Recursive and mutually recursive programs do not make the search run    *)
(* forever.                                                                *)
(***************************************************************************)
Termination == <>done

(***************************************************************************)
(* The search implements BinderLeakSearch: each invocation that enters a   *)
(* method is a Visit, one the level refuses a GiveUp, the null verdict     *)
(* Exhaust; walking the statements and returning are invisible.            *)
(***************************************************************************)
Abstract == INSTANCE BinderLeakSearch WITH
    calls <- [m \in Method |-> Callees(m)],
    adds <- {m \in Method : HasBinderList(body[m])},
    exits <- {m \in Method : ContainsExitPoint(body[m])},
    reached <- visitSet,
    givenUp <- cutOff,
    verdict <- IF ~done THEN "running" ELSE IF report = NoVul THEN "none" ELSE "leak"

ImplementsSearch == Abstract!Spec

-----------------------------------------------------------------------------
(***************************************************************************)
(* THE INDUCTIVE INVARIANT                                                 *)
(***************************************************************************)

Last(p) == p[Len(p)]

Visited(p) == \A k \in 1 .. Len(p) : p[k] \in visitSet

(***************************************************************************)
(* An activation record holds a call path of entered methods to its own,   *)
(* as long as its depth in the stack and as the level already spent.       *)
(***************************************************************************)
FrameOK(i) ==
    /\ stack[i].mtd \in visitSet
    /\ IsCallPath(stack[i].path)
    /\ Last(stack[i].path) = stack[i].mtd
    /\ Visited(stack[i].path)
    /\ Len(stack[i].path) = i
    /\ Len(stack[i].path) + stack[i].lev = callGraphLev + 1
    /\ stack[i].pc <= Len(body[stack[i].mtd])
    /\ stack[i].todo \subseteq Callees(stack[i].mtd)

(***************************************************************************)
(* An invocation about to begin extends the call path of the running       *)
(* record, or is the outermost one.                                        *)
(***************************************************************************)
CallOK ==
    call # NoCall =>
        /\ ~done
        /\ Len(call.path) = Len(stack)
        /\ Len(call.path) + call.lev = callGraphLev
        /\ Visited(call.path)
        /\ IF Len(call.path) = 0
           THEN call.mtd = Entry
           ELSE IsCallPath(call.path) /\ call.mtd \in Callees(Last(call.path))

(***************************************************************************)
(* vul and containExitPoint summarise the entered methods, and the search  *)
(* goes on only while one of the two is missing.                           *)
(***************************************************************************)
EvidenceOK ==
    /\ vul # NoVul => vul.foundIn \in visitSet /\ HasBinderList(body[vul.foundIn])
    /\ vul = NoVul => \A m \in visitSet : ~HasBinderList(body[m])
    /\ containExitPoint <=> \E m \in visitSet : ContainsExitPoint(body[m])
    /\ report = NoVul => vul = NoVul \/ ~containExitPoint

(***************************************************************************)
(* Until a report ends the search nothing is forgotten: what a statement   *)
(* already begun calls was entered or refused, is about to begin, or waits *)
(* in todo; a method that left the stack has no callee missing.            *)
(***************************************************************************)
Handled == visitSet \cup cutOff \cup (IF call = NoCall THEN {} ELSE {call.mtd})

OnStack(m) == \E i \in 1 .. Len(stack) : stack[i].mtd = m

ClosureOK ==
    report = NoVul =>
        /\ Entry \in Handled
        /\ \A i \in 1 .. Len(stack) : \A k \in 1 .. stack[i].pc :
              Targets(body[stack[i].mtd][k]) \subseteq Handled \cup stack[i].todo
        /\ \A m \in visitSet : OnStack(m) \/ Callees(m) \subseteq visitSet \cup cutOff

DoneOK ==
    /\ report # NoVul => done
    /\ done => call = NoCall /\ stack = <<>>

IInv ==
    /\ TypeOK
    /\ \A i \in 1 .. Len(stack) : FrameOK(i)
    /\ \A i, j \in 1 .. Len(stack) : stack[i].mtd = stack[j].mtd => i = j
    /\ CallOK
    /\ EvidenceOK
    /\ ClosureOK
    /\ DoneOK
    /\ ReportedChainIsCallPath
    /\ ReportIsJustified

-----------------------------------------------------------------------------
(***************************************************************************)
(* WHAT THE REPOSITORY SAYS, AND THE SEARCH DOES NOT DO                    *)
(***************************************************************************)

(***************************************************************************)
(* The known false negatives are attributed to "exceed max level"          *)
(* (VulnerabilitiesDetecting.kt:240).  If only the level can hide a method,*)
(* then a null verdict means every method that some call path within the   *)
(* level reaches was entered.                                              *)
(***************************************************************************)
ReachableWithin ==
    LET reach[n \in 0 .. callGraphLev] ==
            IF n = 0 THEN {}
            ELSE {Entry} \cup UNION {Callees(m) : m \in reach[n - 1]}
    IN  reach[callGraphLev]

MissesOnlyBeyondLevel == done /\ report = NoVul => ReachableWithin \subseteq visitSet

=============================================================================
