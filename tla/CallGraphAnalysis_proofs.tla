---------------------- MODULE CallGraphAnalysis_proofs ----------------------
(***************************************************************************)
(* Proofs about CallGraphAnalysis, for every program, entry point and      *)
(* level.                                                                  *)
(***************************************************************************)
EXTENDS CallGraphAnalysis, SequenceTheorems, TLAPS

-----------------------------------------------------------------------------
(***************************************************************************)
(* LEMMAS ABOUT BODIES                                                     *)
(***************************************************************************)

(***************************************************************************)
(* What a statement calls are methods, and callees of the body it is in.   *)
(***************************************************************************)
LEMMA TargetsType ==
    ASSUME body \in [Method -> Body], NEW m \in Method, NEW i \in 1 .. Len(body[m])
    PROVE  /\ Targets(body[m][i]) \subseteq Method
           /\ Targets(body[m][i]) \subseteq Callees(m)
<1>1. body[m] \in Seq(Stmt)
  BY DEF Body
<1>2. body[m][i] \in Stmt /\ i \in DOMAIN body[m]
  BY <1>1
<1>. QED
  BY <1>2 DEF Targets, Callees, Stmt

LEMMA CalleesType ==
    ASSUME body \in [Method -> Body], NEW m \in Method
    PROVE  Callees(m) \subseteq Method
<1>1. DOMAIN body[m] = 1 .. Len(body[m])
  BY DEF Body
<1>. QED
  BY <1>1, TargetsType DEF Callees

(***************************************************************************)
(* checkOneMethod leaves a descriptor or null.                             *)
(***************************************************************************)
LEMMA VulAfterType ==
    ASSUME body \in [Method -> Body], vul \in Vul \cup {NoVul}, NEW m \in Method
    PROVE  VulAfter(m) \in Vul \cup {NoVul}
<1>1. <<>> \in Seq(Method)
  OBVIOUS
<1>2. ListTagOf(body[m][FirstDetection(body[m])]) \in ListTag
  BY DEF ListTagOf, ListTag
<1>. QED
  BY <1>1, <1>2 DEF VulAfter, Vul

(***************************************************************************)
(* Stepping a record to another statement changes pc and todo only.        *)
(***************************************************************************)
LEMMA FrameStep ==
    ASSUME NEW f \in Frame, NEW n \in Nat, NEW S \in SUBSET Method
    PROVE  /\ AtStmt(f, n, S) \in Frame
           /\ AtStmt(f, n, S).mtd = f.mtd
           /\ AtStmt(f, n, S).path = f.path
           /\ AtStmt(f, n, S).lev = f.lev
           /\ AtStmt(f, n, S).pc = n
           /\ AtStmt(f, n, S).todo = S
<1>. DEFINE g == AtStmt(f, n, S)
<1>1. g = [f EXCEPT !.pc = n, !.todo = S]
  BY DEF AtStmt
<1>. HIDE DEF g
<1>2. g \in Frame
  BY <1>1 DEF Frame
<1>3. g.mtd = f.mtd /\ g.path = f.path /\ g.lev = f.lev /\ g.pc = n /\ g.todo = S
  BY <1>1 DEF Frame
<1>. QED
  BY <1>2, <1>3 DEF g

-----------------------------------------------------------------------------
(***************************************************************************)
(* TYPE CORRECTNESS                                                        *)
(***************************************************************************)

LEMMA InitTypeOK == Init => TypeOK
<1>. SUFFICES ASSUME Init PROVE TypeOK
  OBVIOUS
<1>1. body \in [Method -> Body]
  BY ProgramAssumption DEF Init
<1>2. call \in Call
  BY EntryAssumption, LevAssumption DEF Init, Call
<1>3. stack \in Seq(Frame)
  BY DEF Init
<1>. QED
  BY <1>1, <1>2, <1>3 DEF Init, TypeOK

LEMMA NextTypeOK == TypeOK /\ [Next]_vars => TypeOK'
<1>. SUFFICES ASSUME TypeOK, [Next]_vars PROVE TypeOK'
  OBVIOUS
<1>. USE DEF TypeOK
<1>1. ASSUME RefuseLevel PROVE TypeOK'
  BY <1>1, NullAssumption DEF RefuseLevel, Call
<1>2. ASSUME RefuseVisited PROVE TypeOK'
  BY <1>2 DEF RefuseVisited
<1>3. ASSUME BeginMethod
      PROVE  /\ call \in Call
             /\ VulAfter(call.mtd) \in Vul \cup {NoVul}
             /\ Append(call.path, call.mtd) \in Seq(Method)
             /\ visitSet' \subseteq Method
             /\ vul' \in Vul \cup {NoVul}
             /\ containExitPoint' \in BOOLEAN
  <2>1. call \in Call
    BY <1>3 DEF BeginMethod
  <2>2. call.mtd \in Method /\ call.path \in Seq(Method)
    BY <2>1 DEF Call
  <2>3. VulAfter(call.mtd) \in Vul \cup {NoVul}
    BY <2>2, VulAfterType
  <2>4. ExitPointAfter(call.mtd) \in BOOLEAN
    BY DEF ExitPointAfter, ContainsExitPoint
  <2>5. Append(call.path, call.mtd) \in Seq(Method)
    BY <2>2
  <2>. QED
    BY <1>3, <2>1, <2>2, <2>3, <2>4, <2>5 DEF BeginMethod
<1>4. ASSUME Report PROVE TypeOK'
  <2>1. BeginMethod /\ VulAfter(call.mtd) # NoVul
    BY <1>4 DEF Report, Detected
  <2>2. report' \in Vul
    BY <1>4, <2>1, <1>3 DEF Report, Vul
  <2>3. stack' \in Seq(Frame)
    BY <1>4 DEF Report
  <2>. QED
    BY <1>4, <2>1, <2>2, <2>3, <1>3 DEF Report, BeginMethod
<1>5. ASSUME Enter PROVE TypeOK'
  <2>1. BeginMethod
    BY <1>5 DEF Enter
  <2>2. NewFrame \in Frame
    BY <2>1, <1>3 DEF NewFrame, Frame, Call
  <2>3. stack' \in Seq(Frame)
    BY <1>5, <2>2 DEF Enter
  <2>. QED
    BY <1>5, <2>1, <2>3, <1>3 DEF Enter, BeginMethod
<1>6. ASSUME stack # <<>> PROVE Len(stack) \in 1 .. Len(stack) /\ Top \in Frame
  BY <1>6 DEF Top
<1>7. ASSUME NextStmt PROVE TypeOK'
  <2>1. Top \in Frame /\ Top.mtd \in Method /\ Top.pc \in Nat
    BY <1>6, <1>7 DEF NextStmt, Frame
  <2>2. Top.pc + 1 \in 1 .. Len(body[Top.mtd])
    BY <2>1, <1>7 DEF NextStmt, Body
  <2>3. Targets(body[Top.mtd][Top.pc + 1]) \subseteq Method
    BY <2>1, <2>2, TargetsType
  <2>4. AtStmt(Top, Top.pc + 1, Targets(body[Top.mtd][Top.pc + 1])) \in Frame
    BY <2>1, <2>3, FrameStep
  <2>5. stack' \in Seq(Frame)
    BY <1>6, <1>7, <2>4 DEF NextStmt, Top, AtStmt
  <2>. QED
    BY <1>7, <2>5 DEF NextStmt
<1>8. ASSUME NEW m \in Method, CallTarget(m) PROVE TypeOK'
  <2>1. Top \in Frame
    BY <1>6, <1>8 DEF CallTarget
  <2>2. call' \in Call
    BY <2>1, <1>8 DEF CallTarget, Call, Frame
  <2>3. AtStmt(Top, Top.pc, Top.todo \ {m}) \in Frame
    <3>1. Top.pc \in Nat /\ Top.todo \ {m} \in SUBSET Method
      BY <2>1 DEF Frame
    <3>. QED
      BY <2>1, <3>1, FrameStep
  <2>4. stack' \in Seq(Frame)
    BY <1>6, <1>8, <2>3 DEF CallTarget, Top
  <2>. QED
    BY <1>8, <2>2, <2>4 DEF CallTarget
<1>9. ASSUME ReturnNull PROVE TypeOK'
  <2>1. stack' \in Seq(Frame)
    BY <1>6, <1>9 DEF ReturnNull
  <2>. QED
    BY <1>9, <2>1 DEF ReturnNull
<1>10. ASSUME Finish PROVE TypeOK'
  BY <1>10 DEF Finish
<1>11. ASSUME UNCHANGED vars PROVE TypeOK'
  BY <1>11 DEF vars
<1>. QED
  BY <1>1, <1>2, <1>4, <1>5, <1>7, <1>8, <1>9, <1>10, <1>11 DEF Next

(***************************************************************************)
(* Every variable keeps its type.                                          *)
(***************************************************************************)
THEOREM TypeCorrect == Spec => []TypeOK
<1>. QED
  BY InitTypeOK, NextTypeOK, PTL DEF Spec

-----------------------------------------------------------------------------
(***************************************************************************)
(* LEMMAS ABOUT THE INDUCTIVE INVARIANT                                    *)
(***************************************************************************)

(***************************************************************************)
(* The program never changes, so neither do the callees nor the call paths.*)
(***************************************************************************)
LEMMA ProgramStable ==
    ASSUME body' = body
    PROVE  /\ \A m : Callees(m)' = Callees(m)
           /\ \A p : IsCallPath(p)' <=> IsCallPath(p)
<1>1. \A m : Callees(m)' = Callees(m)
  BY DEF Callees
<1>. QED
  BY <1>1 DEF IsCallPath

LEMMA NextKeepsBody == [Next]_vars => body' = body
BY DEF Next, RefuseLevel, RefuseVisited, Report, Enter, NextStmt, CallTarget, ReturnNull,
       Finish, vars

(***************************************************************************)
(* Appending an element, spelled out for the provers.                      *)
(***************************************************************************)
LEMMA AppendFacts ==
    ASSUME NEW S, NEW s \in Seq(S), NEW x \in S
    PROVE  /\ Append(s, x) \in Seq(S)
           /\ Len(Append(s, x)) = Len(s) + 1
           /\ Append(s, x)[Len(s) + 1] = x
           /\ \A i \in 1 .. Len(s) : Append(s, x)[i] = s[i]
BY AppendProperties

(***************************************************************************)
(* An invocation that passes the guards extends the call path by a method  *)
(* that is not on it.                                                      *)
(***************************************************************************)
LEMMA PathExtended ==
    ASSUME TypeOK, CallOK, call # NoCall, call.lev > 0, call.mtd \notin visitSet
    PROVE  IsCallPath(Append(call.path, call.mtd))
<1>1. call \in Call /\ call.mtd \in Method /\ call.path \in Seq(Method) /\ call.lev \in Int
  BY DEF TypeOK, Call
<1>. DEFINE q == Append(call.path, call.mtd)
            n == Len(call.path)
<1>2. /\ n \in Nat
      /\ Len(q) = n + 1
      /\ q[n + 1] = call.mtd
      /\ \A i \in 1 .. n : q[i] = call.path[i]
  BY <1>1, AppendFacts
<1>3. n + call.lev = callGraphLev /\ \A i \in 1 .. n : call.path[i] \in visitSet
  BY DEF CallOK, Visited
<1>4. n = 0 => call.mtd = Entry
  BY DEF CallOK
<1>5. n # 0 => IsCallPath(call.path) /\ call.mtd \in Callees(call.path[n])
  BY DEF CallOK, Last
<1>. HIDE DEF q, n
<1>6. Len(q) \in 1 .. callGraphLev
  BY <1>1, <1>2, <1>3, LevAssumption
<1>7. q[1] = Entry
  <2>1. CASE n = 0
    BY <2>1, <1>2, <1>4
  <2>2. CASE n # 0
    BY <2>2, <1>2, <1>5 DEF IsCallPath
  <2>. QED
    BY <2>1, <2>2
<1>8. \A i \in 1 .. Len(q) - 1 : q[i + 1] \in Callees(q[i])
  <2>. SUFFICES ASSUME NEW i \in 1 .. n PROVE q[i + 1] \in Callees(q[i])
    BY <1>2
  <2>1. CASE i = n
    BY <2>1, <1>2, <1>5
  <2>2. CASE i # n
    <3>1. i + 1 \in 1 .. n /\ i \in 1 .. n - 1
      BY <2>2, <1>2
    <3>2. call.path[i + 1] \in Callees(call.path[i])
      BY <3>1, <1>5 DEF IsCallPath, n
    <3>. QED
      BY <3>1, <3>2, <1>2
  <2>. QED
    BY <2>1, <2>2
<1>9. \A i, j \in 1 .. Len(q) : q[i] = q[j] => i = j
  <2>. SUFFICES ASSUME NEW i \in 1 .. n + 1, NEW j \in 1 .. n + 1, q[i] = q[j]
                PROVE  i = j
    BY <1>2
  <2>1. CASE i = n + 1 /\ j \in 1 .. n
    BY <2>1, <1>2, <1>3
  <2>2. CASE j = n + 1 /\ i \in 1 .. n
    BY <2>2, <1>2, <1>3
  <2>3. CASE i \in 1 .. n /\ j \in 1 .. n
    <3>1. n # 0 /\ call.path[i] = call.path[j]
      BY <2>3, <1>2
    <3>. QED
      BY <2>3, <3>1, <1>5 DEF IsCallPath, n
  <2>. QED
    BY <1>2, <2>1, <2>2, <2>3
<1>. QED
  BY <1>6, <1>7, <1>8, <1>9 DEF IsCallPath, q

-----------------------------------------------------------------------------
(***************************************************************************)
(* THE INVARIANT IS INDUCTIVE                                              *)
(***************************************************************************)

FramesOK == \A i \in 1 .. Len(stack) : FrameOK(i)

DistinctOK == \A i, j \in 1 .. Len(stack) : stack[i].mtd = stack[j].mtd => i = j

LEMMA InitIInv == Init => IInv
<1>. SUFFICES ASSUME Init PROVE IInv
  OBVIOUS
<1>1. TypeOK
  BY InitTypeOK
<1>2. /\ call = [mtd |-> Entry, path |-> <<>>, lev |-> callGraphLev]
      /\ call # NoCall /\ Len(stack) = 0 /\ Len(call.path) = 0
  <2>1. call = [mtd |-> Entry, path |-> <<>>, lev |-> callGraphLev]
    BY DEF Init
  <2>2. call \in Call
    BY <2>1, EntryAssumption, LevAssumption DEF Call
  <2>. QED
    BY <2>1, <2>2, NullAssumption DEF Init
<1>3. CallOK
  BY <1>2, LevAssumption DEF Init, CallOK, Visited
<1>4. EvidenceOK
  BY DEF Init, EvidenceOK
<1>5. ClosureOK
  BY <1>2 DEF Init, ClosureOK, Handled
<1>. QED
  BY <1>1, <1>2, <1>3, <1>4, <1>5
  DEF Init, IInv, DoneOK, ReportedChainIsCallPath, ReportIsJustified

(***************************************************************************)
(* Steps that end an invocation before it enters a method.                 *)
(***************************************************************************)
LEMMA RefuseIInv ==
    ASSUME IInv, TypeOK', body' = body, stack' = stack, call' = NoCall, call # NoCall,
           visitSet' = visitSet, vul' = vul, containExitPoint' = containExitPoint,
           done' = done, report' = report, cutOff \subseteq cutOff',
           call.mtd \in visitSet' \cup cutOff'
    PROVE  IInv'
<1>1. FramesOK'
  BY ProgramStable DEF IInv, FramesOK, FrameOK, Visited, Last
<1>2. DistinctOK'
  BY DEF IInv, DistinctOK
<1>3. CallOK'
  BY DEF CallOK
<1>4. EvidenceOK'
  BY DEF IInv, EvidenceOK
<1>5. ClosureOK'
  <2>. SUFFICES ASSUME report = NoVul PROVE ClosureOK'
    BY DEF ClosureOK
  <2>1. Handled \subseteq Handled' /\ visitSet \cup cutOff \subseteq visitSet' \cup cutOff'
    BY DEF Handled
  <2>2. \A m : OnStack(m) => OnStack(m)'
    BY DEF OnStack
  <2>. QED
    BY <2>1, <2>2, ProgramStable DEF IInv, ClosureOK
<1>6. DoneOK' /\ ReportedChainIsCallPath' /\ ReportIsJustified'
  BY ProgramStable DEF IInv, DoneOK, ReportedChainIsCallPath, ReportIsJustified
<1>. QED
  BY <1>1, <1>2, <1>3, <1>4, <1>5, <1>6 DEF IInv, FramesOK, DistinctOK

(***************************************************************************)
(* What checkOneMethod leaves behind, when it enters method m.             *)
(***************************************************************************)
LEMMA BeginFacts ==
    ASSUME IInv, BeginMethod, body' = body
    PROVE  /\ call \in Call /\ call.mtd \in Method /\ call.path \in Seq(Method)
           /\ call.mtd \in visitSet'
           /\ visitSet \subseteq visitSet'
           /\ vul' # NoVul => vul'.foundIn \in visitSet' /\ HasBinderList(body[vul'.foundIn])
           /\ vul' = NoVul => \A m \in visitSet' : ~HasBinderList(body[m])
           /\ containExitPoint' <=> \E m \in visitSet' : ContainsExitPoint(body[m])
<1>1. call \in Call /\ call.mtd \in Method /\ call.path \in Seq(Method)
  BY DEF IInv, TypeOK, BeginMethod, Call
<1>2. visitSet' = visitSet \cup {call.mtd} /\ vul' = VulAfter(call.mtd)
      /\ containExitPoint' = (containExitPoint \/ ContainsExitPoint(body[call.mtd]))
  BY DEF BeginMethod, ExitPointAfter
<1>3. CASE HasBinderList(body[call.mtd])
  <2>1. vul'.foundIn = call.mtd
    BY <1>2, <1>3 DEF VulAfter
  <2>2. vul' # NoVul
    <3>. DEFINE v == [foundIn |-> call.mtd, callChain |-> <<>>,
                      listTag |-> ListTagOf(body[call.mtd][FirstDetection(body[call.mtd])])]
    <3>1. v \in Vul
      BY <1>1 DEF Vul, ListTagOf, ListTag
    <3>2. vul' = v
      BY <1>2, <1>3 DEF VulAfter
    <3>. QED
      BY <3>1, <3>2, NullAssumption
  <2>. QED
    BY <1>1, <1>2, <1>3, <2>1, <2>2 DEF IInv, EvidenceOK
<1>4. CASE ~HasBinderList(body[call.mtd])
  <2>1. vul' = vul
    BY <1>2, <1>4 DEF VulAfter
  <2>. QED
    BY <1>1, <1>2, <1>4, <2>1 DEF IInv, EvidenceOK
<1>. QED
  BY <1>3, <1>4

LEMMA RefuseLevelIInv == IInv /\ RefuseLevel => IInv'
<1>. SUFFICES ASSUME IInv, RefuseLevel PROVE IInv'
  OBVIOUS
<1>1. TypeOK'
  BY NextTypeOK DEF IInv, Next
<1>. QED
  BY <1>1, RefuseIInv DEF RefuseLevel

LEMMA RefuseVisitedIInv == IInv /\ RefuseVisited => IInv'
<1>. SUFFICES ASSUME IInv, RefuseVisited PROVE IInv'
  OBVIOUS
<1>1. TypeOK'
  BY NextTypeOK DEF IInv, Next
<1>. QED
  BY <1>1, RefuseIInv DEF RefuseVisited

(***************************************************************************)
(* The report: either the method just entered holds the exit point, or an  *)
(* older one does and then the list was found in the method just entered,  *)
(* for the search had not stopped before.                                  *)
(***************************************************************************)
LEMMA ReportIInv == IInv /\ Report => IInv'
<1>. SUFFICES ASSUME IInv, Report PROVE IInv'
  OBVIOUS
<1>1. TypeOK' /\ BeginMethod /\ body' = body /\ call' = NoCall /\ stack' = <<>> /\ done'
  BY NextTypeOK DEF IInv, Next, Report, BeginMethod
<1>2. call \in Call /\ call.mtd \in Method /\ call.path \in Seq(Method)
  BY <1>1, BeginFacts
<1>. DEFINE q == Append(call.path, call.mtd)
<1>3. vul' = VulAfter(call.mtd) /\ vul' # NoVul /\ containExitPoint'
  BY <1>1 DEF Report, Detected, BeginMethod
<1>4. vul' \in Vul
  BY <1>1, <1>3 DEF TypeOK
<1>5. report' = [vul' EXCEPT !.callChain = q]
  BY <1>3 DEF Report
<1>6. report' \in Vul /\ report'.callChain = q /\ report'.foundIn = vul'.foundIn
  <2>1. q \in Seq(Method)
    BY <1>2
  <2>. HIDE DEF q
  <2>. QED
    BY <1>4, <1>5, <2>1 DEF Vul
<1>7. report' # NoVul
  BY <1>6, NullAssumption
<1>8. IsCallPath(q)
  BY <1>1, PathExtended DEF IInv, BeginMethod
<1>9. ReportedChainIsCallPath'
  BY <1>1, <1>6, <1>8, ProgramStable DEF ReportedChainIsCallPath
<1>10. ReportIsJustified'
  <2>1. q[Len(q)] = call.mtd
    BY <1>2, AppendFacts
  <2>2. vul'.foundIn \in visitSet' /\ HasBinderList(body[vul'.foundIn]) /\ call.mtd \in visitSet'
    BY <1>1, <1>3, BeginFacts
  <2>3. \E x \in visitSet' : ContainsExitPoint(body[x]) /\ call.mtd \in {vul'.foundIn, x}
    <3>1. CASE ContainsExitPoint(body[call.mtd])
      BY <2>2, <3>1
    <3>2. CASE ~ContainsExitPoint(body[call.mtd])
      <4>1. containExitPoint
        BY <1>1, <3>2 DEF BeginMethod, ExitPointAfter, Report, Detected
      <4>2. report = NoVul
        BY <1>1 DEF IInv, DoneOK, BeginMethod
      <4>3. vul = NoVul
        BY <4>1, <4>2 DEF IInv, EvidenceOK
      <4>4. HasBinderList(body[call.mtd])
        BY <1>3, <4>3 DEF VulAfter
      <4>5. vul'.foundIn = call.mtd
        BY <1>3, <4>4 DEF VulAfter
      <4>6. \E x \in visitSet : ContainsExitPoint(body[x])
        BY <4>1 DEF IInv, EvidenceOK
      <4>. QED
        BY <1>1, <4>5, <4>6, BeginFacts
    <3>. QED
      BY <3>1, <3>2
  <2>. QED
    BY <1>1, <1>6, <2>1, <2>2, <2>3 DEF ReportIsJustified
<1>11. EvidenceOK'
  BY <1>1, <1>7, BeginFacts DEF EvidenceOK
<1>12. FramesOK' /\ DistinctOK' /\ CallOK' /\ ClosureOK' /\ DoneOK'
  BY <1>1, <1>7 DEF FramesOK, DistinctOK, CallOK, ClosureOK, DoneOK
<1>. QED
  BY <1>1, <1>9, <1>10, <1>11, <1>12 DEF IInv, FramesOK, DistinctOK

(***************************************************************************)
(* The new record is the top of the stack; the others keep what they hold, *)
(* for only visitSet grows.                                                *)
(***************************************************************************)
LEMMA EnterIInv == IInv /\ Enter => IInv'
<1>. SUFFICES ASSUME IInv, Enter PROVE IInv'
  OBVIOUS
<1>1. TypeOK' /\ BeginMethod /\ body' = body /\ call' = NoCall /\ call # NoCall
      /\ done' = done /\ report' = report /\ cutOff' = cutOff
  BY NextTypeOK DEF IInv, Next, Enter, BeginMethod
<1>2. call \in Call /\ call.mtd \in Method /\ call.path \in Seq(Method) /\ call.lev \in Int
  BY <1>1, BeginFacts DEF Call
<1>3. visitSet' = visitSet \cup {call.mtd} /\ call.mtd \notin visitSet /\ call.lev > 0
  BY <1>1 DEF BeginMethod
<1>4. ~done /\ report = NoVul
  BY <1>1 DEF IInv, DoneOK
<1>n. PICK n \in Nat : n = Len(stack)
  BY DEF IInv, TypeOK
<1>m. PICK m \in Method : m = call.mtd
  BY <1>2
<1>q. PICK q \in Seq(Method) : q = Append(call.path, call.mtd)
  BY <1>2, AppendFacts
<1>. DEFINE f == [mtd |-> m, path |-> q, lev |-> call.lev, pc |-> 0, todo |-> {}]
<1>5. n \in Nat /\ Len(stack') = n + 1 /\ stack'[n + 1] = f
      /\ \A i \in 1 .. n : stack'[i] = stack[i]
  <2>1. stack \in Seq(Frame) /\ f \in Frame
    BY <1>2 DEF IInv, TypeOK, Frame
  <2>2. stack' = Append(stack, f)
    BY <1>m, <1>q DEF Enter, NewFrame
  <2>. QED
    BY <1>n, <2>1, <2>2, AppendFacts
<1>6. IsCallPath(q)
  BY <1>1, <1>q, PathExtended DEF IInv, BeginMethod
<1>7. /\ Len(q) = Len(call.path) + 1 /\ Len(call.path) \in Nat
      /\ q[Len(q)] = m
      /\ \A i \in 1 .. Len(call.path) : q[i] = call.path[i]
  BY <1>2, <1>m, <1>q, AppendFacts
<1>8. FrameOK(n + 1)'
  <2>1. Len(q) = n + 1 /\ Len(q) + call.lev = callGraphLev + 1
    BY <1>n, <1>m, <1>1, <1>2, <1>7, LevAssumption DEF IInv, CallOK
  <2>2. \A k \in 1 .. Len(q) : q[k] \in visitSet'
    BY <1>n, <1>m, <1>1, <1>3, <1>7 DEF IInv, CallOK, Visited
  <2>3. 0 <= Len(body[m])
    BY <1>m DEF IInv, TypeOK, Body
  <2>4. IsCallPath(q)'
    BY <1>n, <1>m, <1>1, <1>6, ProgramStable
  <2>5. /\ stack'[n + 1].mtd = m /\ stack'[n + 1].path = q
        /\ stack'[n + 1].lev = call.lev /\ stack'[n + 1].pc = 0
        /\ stack'[n + 1].todo = {}
    BY <1>n, <1>m, <1>5
  <2>. QED
    BY <1>n, <1>m, <1>1, <1>3, <1>5, <1>6, <1>7, <2>1, <2>2, <2>3, <2>5, ProgramStable
    DEF FrameOK, Visited, Last
<1>9. ASSUME NEW i \in 1 .. n PROVE FrameOK(i)'
  <2>1. FrameOK(i)
    BY <1>n DEF IInv
  <2>. QED
    BY <1>n, <1>m, <1>1, <1>3, <1>5, <2>1, ProgramStable DEF FrameOK, Visited, Last
<1>10. FramesOK'
  BY <1>n, <1>m, <1>5, <1>8, <1>9 DEF FramesOK
<1>11. DistinctOK'
  <2>1. \A i \in 1 .. n : stack[i].mtd # m
    BY <1>n, <1>m, <1>3 DEF IInv, FrameOK
  <2>2. \A i, j \in 1 .. n : stack[i].mtd = stack[j].mtd => i = j
    BY <1>n DEF IInv
  <2>3. stack'[n + 1].mtd = m
    BY <1>n, <1>m, <1>5
  <2>. QED
    BY <1>n, <1>m, <1>5, <2>1, <2>2, <2>3 DEF DistinctOK
<1>12. CallOK' /\ DoneOK'
  BY <1>n, <1>m, <1>1, <1>4 DEF CallOK, DoneOK, IInv
<1>13. EvidenceOK'
  <2>1. ~(containExitPoint' /\ vul' # NoVul)
    BY <1>1 DEF Enter, Detected, BeginMethod
  <2>. QED
    BY <1>n, <1>m, <1>1, <2>1, BeginFacts DEF EvidenceOK
<1>14. ClosureOK'
  <2>1. Handled' = Handled
    BY <1>n, <1>m, <1>1, <1>3 DEF Handled
  <2>2. \A x : OnStack(x) => OnStack(x)'
    BY <1>n, <1>m, <1>5 DEF OnStack
  <2>3. OnStack(m)'
    BY <1>n, <1>m, <1>5 DEF OnStack
  <2>4. ASSUME NEW i \in 1 .. n + 1, NEW k \in 1 .. stack'[i].pc
        PROVE  Targets(body[stack'[i].mtd][k]) \subseteq Handled \cup stack'[i].todo
    <3>1. CASE i = n + 1
      BY <1>n, <1>m, <1>5, <3>1
    <3>2. CASE i \in 1 .. n
      BY <1>n, <1>m, <1>4, <1>5, <3>2 DEF IInv, ClosureOK
    <3>. QED
      BY <1>n, <1>m, <1>5, <3>1, <3>2
  <2>5. Entry \in Handled'
    BY <1>n, <1>m, <1>4, <2>1 DEF IInv, ClosureOK
  <2>6. \A x \in visitSet' : OnStack(x)' \/ Callees(x)' \subseteq visitSet' \cup cutOff'
    BY <1>n, <1>m, <1>1, <1>3, <1>4, <2>2, <2>3, ProgramStable DEF IInv, ClosureOK
  <2>. QED
    BY <1>n, <1>m, <1>1, <1>5, <2>1, <2>4, <2>5, <2>6 DEF ClosureOK
<1>15. ReportedChainIsCallPath' /\ ReportIsJustified'
  BY <1>n, <1>m, <1>1, <1>4 DEF ReportedChainIsCallPath, ReportIsJustified
<1>. QED
  BY <1>n, <1>m, <1>1, <1>10, <1>11, <1>12, <1>13, <1>14, <1>15 DEF IInv, FramesOK, DistinctOK

(***************************************************************************)
(* Replacing the top of the stack by one that differs in pc and todo only  *)
(* disturbs nothing but what ClosureOK says of it.                         *)
(***************************************************************************)
LEMMA ReplaceTop ==
    ASSUME IInv, TypeOK', stack # <<>>, NEW p \in Nat, NEW S \in SUBSET Method,
           stack' = [stack EXCEPT ![Len(stack)] = AtStmt(Top, p, S)],
           p <= Len(body[Top.mtd]), S \subseteq Callees(Top.mtd), body' = body,
           visitSet' = visitSet
    PROVE  /\ Len(stack) \in 1 .. Len(stack) /\ Len(stack') = Len(stack)
           /\ Top \in Frame
           /\ \A i \in 1 .. Len(stack) : i # Len(stack) => stack'[i] = stack[i]
           /\ stack'[Len(stack)].mtd = Top.mtd
           /\ stack'[Len(stack)].path = Top.path
           /\ stack'[Len(stack)].lev = Top.lev
           /\ stack'[Len(stack)].pc = p
           /\ stack'[Len(stack)].todo = S
           /\ FramesOK' /\ DistinctOK'
           /\ \A m : OnStack(m) <=> OnStack(m)'
<1>1. stack \in Seq(Frame) /\ Len(stack) \in 1 .. Len(stack) /\ Top \in Frame
  BY DEF IInv, TypeOK, Top
<1>2. PICK n \in 1 .. Len(stack) : n = Len(stack)
  BY <1>1
<1>3. PICK f \in Frame : f = AtStmt(Top, p, S)
  BY <1>1, FrameStep
<1>4. f.mtd = Top.mtd /\ f.path = Top.path /\ f.lev = Top.lev /\ f.pc = p /\ f.todo = S
  BY <1>1, <1>3, FrameStep
<1>5. /\ Len(stack') = n
      /\ stack'[n] = f
      /\ stack[n] = Top
      /\ \A i \in 1 .. n : i # n => stack'[i] = stack[i]
  BY <1>1, <1>2, <1>3 DEF Top
<1>6. \A i \in 1 .. n : stack'[i].mtd = stack[i].mtd
  BY <1>4, <1>5
<1>7. FramesOK'
  <2>. SUFFICES ASSUME NEW i \in 1 .. n PROVE FrameOK(i)'
    BY <1>5 DEF FramesOK
  <2>1. FrameOK(i)
    BY <1>2 DEF IInv
  <2>2. CASE i = n
    BY <1>4, <1>5, <2>1, <2>2, ProgramStable DEF FrameOK, Visited, Last
  <2>3. CASE i # n
    BY <1>5, <2>1, <2>3, ProgramStable DEF FrameOK, Visited, Last
  <2>. QED
    BY <2>2, <2>3
<1>8. DistinctOK'
  BY <1>2, <1>5, <1>6 DEF IInv, DistinctOK
<1>9. \A m : OnStack(m) <=> OnStack(m)'
  BY <1>2, <1>5, <1>6 DEF OnStack
<1>. QED
  BY <1>1, <1>2, <1>4, <1>5, <1>7, <1>8, <1>9

(***************************************************************************)
(* The targets of the next statement are all in todo.                      *)
(***************************************************************************)
LEMMA NextStmtIInv == IInv /\ NextStmt => IInv'
<1>. SUFFICES ASSUME IInv, NextStmt PROVE IInv'
  OBVIOUS
<1>1. TypeOK' /\ body' = body /\ visitSet' = visitSet /\ cutOff' = cutOff /\ stack # <<>>
      /\ call = NoCall /\ call' = NoCall /\ report' = report /\ done' = done
      /\ vul' = vul /\ containExitPoint' = containExitPoint
  BY NextTypeOK DEF IInv, Next, NextStmt
<1>2. Top \in Frame /\ Top.mtd \in Method /\ Top.pc \in Nat
  <2>1. Top \in Frame
    BY <1>1 DEF IInv, TypeOK, Top
  <2>. QED
    BY <2>1 DEF Frame
<1>3. PICK m \in Method : m = Top.mtd
  BY <1>2
<1>4. PICK p \in Nat : p = Top.pc + 1
  BY <1>2
<1>5. p \in 1 .. Len(body[m])
  BY <1>2, <1>3, <1>4 DEF NextStmt, IInv, TypeOK, Body
<1>6. PICK S \in SUBSET Method : S = Targets(body[m][p]) /\ S \subseteq Callees(m)
  BY <1>5, TargetsType DEF IInv, TypeOK
<1>7. stack' = [stack EXCEPT ![Len(stack)] = AtStmt(Top, p, S)]
  BY <1>3, <1>4, <1>6 DEF NextStmt
<1>8. PICK n \in Nat : n = Len(stack) /\ n \in 1 .. Len(stack)
  BY <1>1 DEF IInv, TypeOK
<1>9. /\ Len(stack') = n
      /\ \A i \in 1 .. n : i # n => stack'[i] = stack[i]
      /\ stack'[n].mtd = m /\ stack'[n].pc = p /\ stack'[n].todo = S
      /\ FramesOK' /\ DistinctOK'
      /\ \A x : OnStack(x) <=> OnStack(x)'
  <2>1. p <= Len(body[Top.mtd]) /\ S \subseteq Callees(Top.mtd)
    BY <1>2, <1>3, <1>5, <1>6
  <2>2. /\ Len(stack') = Len(stack)
        /\ \A i \in 1 .. Len(stack) : i # Len(stack) => stack'[i] = stack[i]
        /\ stack'[Len(stack)].mtd = Top.mtd
        /\ stack'[Len(stack)].pc = p
        /\ stack'[Len(stack)].todo = S
    BY <1>1, <1>7, <2>1, ReplaceTop
  <2>3. FramesOK' /\ DistinctOK'
    BY <1>1, <1>7, <2>1, ReplaceTop
  <2>4. \A x : OnStack(x) <=> OnStack(x)'
    BY <1>1, <1>7, <2>1, ReplaceTop
  <2>. QED
    BY <1>3, <1>8, <2>2, <2>3, <2>4
<1>10. CallOK' /\ DoneOK' /\ EvidenceOK' /\ ReportedChainIsCallPath' /\ ReportIsJustified'
  <2>1. ~done
    BY <1>1 DEF IInv, DoneOK
  <2>2. report = NoVul
    BY <2>1 DEF IInv, DoneOK
  <2>. QED
    BY <1>1, <2>1, <2>2
    DEF CallOK, DoneOK, EvidenceOK, ReportedChainIsCallPath, ReportIsJustified, IInv
<1>11. ClosureOK'
  <2>. SUFFICES ASSUME report = NoVul PROVE ClosureOK'
    BY <1>1 DEF ClosureOK
  <2>1. Handled' = Handled
    BY <1>1 DEF Handled
  <2>2. ASSUME NEW i \in 1 .. n, NEW k \in 1 .. stack'[i].pc
        PROVE  Targets(body[stack'[i].mtd][k]) \subseteq Handled \cup stack'[i].todo
    <3>1. CASE i = n /\ k = p
      BY <1>6, <1>9, <3>1
    <3>2. CASE i = n /\ k # p
      <4>1. k \in 1 .. Top.pc
        BY <1>2, <1>4, <1>9, <3>2
      <4>2. Top.todo = {}
        BY DEF NextStmt
      <4>. QED
        BY <1>3, <1>8, <1>9, <3>2, <4>1, <4>2 DEF IInv, ClosureOK, Top
    <3>3. CASE i # n
      BY <1>8, <1>9, <3>3 DEF IInv, ClosureOK
    <3>. QED
      BY <3>1, <3>2, <3>3
  <2>. QED
    BY <1>1, <1>9, <2>1, <2>2, ProgramStable DEF IInv, ClosureOK
<1>. QED
  BY <1>1, <1>9, <1>10, <1>11 DEF IInv, FramesOK, DistinctOK

(***************************************************************************)
(* The target leaves todo and becomes the invocation about to begin.       *)
(***************************************************************************)
LEMMA CallTargetIInv ==
    ASSUME IInv, NEW m \in Method, CallTarget(m)
    PROVE  IInv'
<1>1. TypeOK' /\ body' = body /\ visitSet' = visitSet /\ cutOff' = cutOff /\ stack # <<>>
      /\ call = NoCall /\ report' = report /\ done' = done
      /\ vul' = vul /\ containExitPoint' = containExitPoint
  BY NextTypeOK DEF IInv, Next, CallTarget
<1>2. Top \in Frame /\ Top.mtd \in Method /\ Top.pc \in Nat /\ Top.todo \in SUBSET Method
      /\ Top.lev \in Int /\ Top.path \in Seq(Method)
  <2>1. Top \in Frame
    BY <1>1 DEF IInv, TypeOK, Top
  <2>. QED
    BY <2>1 DEF Frame
<1>3. PICK p \in Nat : p = Top.pc
  BY <1>2
<1>4. PICK S \in SUBSET Method : S = Top.todo \ {m}
  BY <1>2
<1>5. PICK n \in Nat : n = Len(stack) /\ n \in 1 .. Len(stack)
  BY <1>1 DEF IInv, TypeOK
<1>6. stack[n] = Top /\ FrameOK(n) /\ m \in Top.todo
  BY <1>5 DEF IInv, Top, CallTarget
<1>7. p <= Len(body[Top.mtd]) /\ Top.todo \subseteq Callees(Top.mtd)
  BY <1>3, <1>6 DEF FrameOK
<1>8. stack' = [stack EXCEPT ![Len(stack)] = AtStmt(Top, p, S)]
  BY <1>3, <1>4 DEF CallTarget
<1>9. /\ Len(stack') = n
      /\ \A i \in 1 .. n : i # n => stack'[i] = stack[i]
      /\ stack'[n].mtd = Top.mtd /\ stack'[n].pc = p /\ stack'[n].todo = S
      /\ FramesOK' /\ DistinctOK'
      /\ \A x : OnStack(x) <=> OnStack(x)'
  <2>1. S \subseteq Callees(Top.mtd)
    BY <1>4, <1>7
  <2>2. /\ Len(stack') = Len(stack)
        /\ \A i \in 1 .. Len(stack) : i # Len(stack) => stack'[i] = stack[i]
        /\ stack'[Len(stack)].mtd = Top.mtd
        /\ stack'[Len(stack)].pc = p
        /\ stack'[Len(stack)].todo = S
    BY <1>1, <1>7, <1>8, <2>1, ReplaceTop
  <2>3. FramesOK' /\ DistinctOK'
    BY <1>1, <1>7, <1>8, <2>1, ReplaceTop
  <2>4. \A x : OnStack(x) <=> OnStack(x)'
    BY <1>1, <1>7, <1>8, <2>1, ReplaceTop
  <2>. QED
    BY <1>5, <2>2, <2>3, <2>4
<1>10. ~done /\ report = NoVul
  BY <1>1 DEF IInv, DoneOK
<1>11. call' = [mtd |-> m, path |-> Top.path, lev |-> Top.lev - 1] /\ call' # NoCall
  <2>1. call' = [mtd |-> m, path |-> Top.path, lev |-> Top.lev - 1]
    BY DEF CallTarget
  <2>2. call' \in Call
    BY <1>2, <2>1 DEF Call
  <2>. QED
    BY <2>1, <2>2, NullAssumption
<1>12. CallOK'
  <2>1. call'.path = Top.path /\ call'.mtd = m /\ call'.lev = Top.lev - 1
    BY <1>11
  <2>2. Len(Top.path) = n /\ n # 0
    BY <1>5, <1>6 DEF FrameOK
  <2>3. Len(Top.path) + (Top.lev - 1) = callGraphLev
    BY <1>2, <1>6, LevAssumption DEF FrameOK
  <2>4. \A k \in 1 .. Len(Top.path) : Top.path[k] \in visitSet
    BY <1>6 DEF FrameOK, Visited
  <2>5. IsCallPath(Top.path) /\ m \in Callees(Top.path[Len(Top.path)])
    BY <1>6, <1>7 DEF FrameOK, Last
  <2>. QED
    BY <1>1, <1>9, <1>10, <2>1, <2>2, <2>3, <2>4, <2>5, ProgramStable
    DEF CallOK, Visited, Last
<1>13. DoneOK' /\ EvidenceOK' /\ ReportedChainIsCallPath' /\ ReportIsJustified'
  BY <1>1, <1>10
  DEF DoneOK, EvidenceOK, ReportedChainIsCallPath, ReportIsJustified, IInv
<1>14. ClosureOK'
  <2>1. Handled' = Handled \cup {m}
    BY <1>1, <1>11 DEF Handled
  <2>2. ASSUME NEW i \in 1 .. n, NEW k \in 1 .. stack'[i].pc
        PROVE  Targets(body[stack'[i].mtd][k]) \subseteq Handled \cup {m} \cup stack'[i].todo
    <3>1. CASE i = n
      <4>1. k \in 1 .. Top.pc
        BY <1>3, <1>9, <3>1
      <4>2. Targets(body[Top.mtd][k]) \subseteq Handled \cup Top.todo
        BY <1>5, <1>6, <1>10, <4>1 DEF IInv, ClosureOK
      <4>. QED
        BY <1>4, <1>9, <3>1, <4>2
    <3>2. CASE i # n
      BY <1>5, <1>9, <1>10, <3>2 DEF IInv, ClosureOK
    <3>. QED
      BY <3>1, <3>2
  <2>. QED
    BY <1>1, <1>9, <1>10, <2>1, <2>2, ProgramStable DEF IInv, ClosureOK
<1>. QED
  BY <1>1, <1>9, <1>12, <1>13, <1>14 DEF IInv, FramesOK, DistinctOK

(***************************************************************************)
(* A method leaves the stack after its last statement: all it calls was    *)
(* entered or refused.                                                     *)
(***************************************************************************)
LEMMA ReturnNullIInv == IInv /\ ReturnNull => IInv'
<1>. SUFFICES ASSUME IInv, ReturnNull PROVE IInv'
  OBVIOUS
<1>1. TypeOK' /\ body' = body /\ visitSet' = visitSet /\ cutOff' = cutOff /\ stack # <<>>
      /\ call = NoCall /\ call' = NoCall /\ report' = report /\ done' = done
      /\ vul' = vul /\ containExitPoint' = containExitPoint
  BY NextTypeOK DEF IInv, Next, ReturnNull
<1>2. PICK n \in Nat : n = Len(stack) /\ n \in 1 .. Len(stack)
  BY <1>1 DEF IInv, TypeOK
<1>3. Len(stack') = n - 1 /\ \A i \in 1 .. n - 1 : stack'[i] = stack[i]
  BY <1>1, <1>2 DEF IInv, TypeOK, ReturnNull
<1>4. ~done /\ report = NoVul
  BY <1>1 DEF IInv, DoneOK
<1>5. FramesOK'
  <2>. SUFFICES ASSUME NEW i \in 1 .. n - 1 PROVE FrameOK(i)'
    BY <1>2, <1>3 DEF FramesOK
  <2>1. FrameOK(i)
    BY <1>2 DEF IInv
  <2>. QED
    BY <1>1, <1>3, <2>1, ProgramStable DEF FrameOK, Visited, Last
<1>6. DistinctOK'
  BY <1>2, <1>3 DEF IInv, DistinctOK
<1>7. CallOK' /\ DoneOK' /\ EvidenceOK' /\ ReportedChainIsCallPath' /\ ReportIsJustified'
  BY <1>1, <1>4
  DEF CallOK, DoneOK, EvidenceOK, ReportedChainIsCallPath, ReportIsJustified, IInv
<1>8. Callees(Top.mtd) \subseteq visitSet \cup cutOff
  <2>1. Top = stack[n] /\ Top.todo = {} /\ Top.pc = Len(body[Top.mtd])
    BY <1>2 DEF Top, ReturnNull
  <2>2. Top.mtd \in Method
    BY <1>2, <2>1 DEF IInv, TypeOK, FrameOK
  <2>3. DOMAIN body[Top.mtd] = 1 .. Top.pc
    BY <2>1, <2>2 DEF IInv, TypeOK, Body
  <2>4. \A k \in 1 .. Top.pc : Targets(body[Top.mtd][k]) \subseteq Handled
    BY <1>2, <1>4, <2>1 DEF IInv, ClosureOK
  <2>5. Handled = visitSet \cup cutOff
    BY <1>1 DEF Handled
  <2>. QED
    BY <2>3, <2>4, <2>5 DEF Callees
<1>9. ClosureOK'
  <2>1. Handled' = Handled
    BY <1>1 DEF Handled
  <2>2. ASSUME NEW i \in 1 .. n - 1, NEW k \in 1 .. stack'[i].pc
        PROVE  Targets(body[stack'[i].mtd][k]) \subseteq Handled \cup stack'[i].todo
    BY <1>2, <1>3, <1>4 DEF IInv, ClosureOK
  <2>3. ASSUME NEW m \in visitSet
        PROVE  OnStack(m)' \/ Callees(m) \subseteq visitSet \cup cutOff
    <3>1. CASE m = Top.mtd
      BY <1>8, <3>1
    <3>2. CASE m # Top.mtd /\ OnStack(m)
      <4>1. PICK i \in 1 .. n : stack[i].mtd = m
        BY <1>2, <3>2 DEF OnStack
      <4>2. i \in 1 .. n - 1
        BY <1>2, <3>2, <4>1 DEF Top
      <4>3. stack'[i].mtd = m
        BY <1>3, <4>1, <4>2
      <4>. QED
        BY <1>3, <4>2, <4>3 DEF OnStack
    <3>3. CASE ~OnStack(m)
      BY <1>4, <3>3 DEF IInv, ClosureOK
    <3>. QED
      BY <3>1, <3>2, <3>3
  <2>. QED
    BY <1>1, <1>3, <1>4, <2>1, <2>2, <2>3, ProgramStable DEF IInv, ClosureOK
<1>. QED
  BY <1>1, <1>5, <1>6, <1>7, <1>9 DEF IInv, FramesOK, DistinctOK

LEMMA FinishIInv == IInv /\ Finish => IInv'
<1>. SUFFICES ASSUME IInv, Finish PROVE IInv'
  OBVIOUS
<1>1. TypeOK' /\ body' = body
  BY NextTypeOK DEF IInv, Next, Finish
<1>2. FramesOK' /\ DistinctOK' /\ CallOK'
  BY DEF Finish, FramesOK, DistinctOK, CallOK
<1>3. EvidenceOK' /\ DoneOK'
  BY DEF IInv, Finish, EvidenceOK, DoneOK
<1>4. ClosureOK'
  <2>1. Handled' = Handled /\ \A m : OnStack(m)' <=> OnStack(m)
    BY DEF Finish, Handled, OnStack
  <2>. QED
    BY <1>1, <2>1, ProgramStable DEF IInv, Finish, ClosureOK
<1>5. ReportedChainIsCallPath' /\ ReportIsJustified'
  BY <1>1, ProgramStable DEF IInv, Finish, ReportedChainIsCallPath, ReportIsJustified
<1>. QED
  BY <1>1, <1>2, <1>3, <1>4, <1>5 DEF IInv, FramesOK, DistinctOK

LEMMA StutterIInv == IInv /\ UNCHANGED vars => IInv'
<1>. SUFFICES ASSUME IInv, UNCHANGED vars PROVE IInv'
  OBVIOUS
<1>1. TypeOK' /\ body' = body
  BY NextTypeOK DEF IInv, vars
<1>2. FramesOK' /\ DistinctOK'
  BY <1>1, ProgramStable DEF IInv, vars, FramesOK, DistinctOK, FrameOK, Visited, Last
<1>3. CallOK' /\ EvidenceOK' /\ DoneOK'
  BY <1>1, ProgramStable DEF IInv, vars, CallOK, EvidenceOK, DoneOK, Visited, Last
<1>4. ClosureOK'
  <2>1. Handled' = Handled /\ \A m : OnStack(m)' <=> OnStack(m)
    BY DEF vars, Handled, OnStack
  <2>. QED
    BY <1>1, <2>1, ProgramStable DEF IInv, vars, ClosureOK
<1>5. ReportedChainIsCallPath' /\ ReportIsJustified'
  BY <1>1, ProgramStable DEF IInv, vars, ReportedChainIsCallPath, ReportIsJustified
<1>. QED
  BY <1>1, <1>2, <1>3, <1>4, <1>5 DEF IInv, FramesOK, DistinctOK

LEMMA NextIInv == IInv /\ [Next]_vars => IInv'
BY RefuseLevelIInv, RefuseVisitedIInv, ReportIInv, EnterIInv, NextStmtIInv, CallTargetIInv,
   ReturnNullIInv, FinishIInv, StutterIInv DEF Next

THEOREM Invariance == Spec => []IInv
<1>. QED
  BY InitIInv, NextIInv, PTL DEF Spec

-----------------------------------------------------------------------------
(***************************************************************************)
(* WHAT FOLLOWS                                                            *)
(***************************************************************************)

(***************************************************************************)
(* The reported callChain is a call path of the program.                   *)
(***************************************************************************)
THEOREM ReportedChainCorrect == Spec => []ReportedChainIsCallPath
<1>1. IInv => ReportedChainIsCallPath
  BY DEF IInv
<1>. QED
  BY <1>1, Invariance, PTL

(***************************************************************************)
(* A report is backed by an entered method that adds a binder to a list    *)
(* and an entered method with an exit point.                               *)
(***************************************************************************)
THEOREM ReportCorrect == Spec => []ReportIsJustified
<1>1. IInv => ReportIsJustified
  BY DEF IInv
<1>. QED
  BY <1>1, Invariance, PTL

(***************************************************************************)
(* The null verdict: nothing reachable was left out but for the level.     *)
(***************************************************************************)
THEOREM NullCorrect == Spec => []NullIsExhaustive
<1>1. IInv => NullIsExhaustive
  <2>. SUFFICES ASSUME IInv, done, report = NoVul
                PROVE  /\ Entry \in visitSet \cup cutOff
                       /\ \A m \in visitSet : Callees(m) \subseteq visitSet \cup cutOff
                       /\ ~ /\ \E a \in visitSet : HasBinderList(body[a])
                            /\ \E x \in visitSet : ContainsExitPoint(body[x])
    BY DEF NullIsExhaustive
  <2>1. call = NoCall /\ stack = <<>> /\ Handled = visitSet \cup cutOff /\ Len(stack) = 0
    BY DEF IInv, DoneOK, Handled
  <2>2. \A m : ~OnStack(m)
    BY <2>1 DEF OnStack
  <2>3. Entry \in visitSet \cup cutOff
        /\ \A m \in visitSet : Callees(m) \subseteq visitSet \cup cutOff
    BY <2>1, <2>2 DEF IInv, ClosureOK
  <2>. QED
    BY <2>3 DEF IInv, EvidenceOK
<1>. QED
  BY <1>1, Invariance, PTL

(***************************************************************************)
(* The recursion is bounded by the level, in every program.                *)
(***************************************************************************)
THEOREM StackCorrect == Spec => []StackIsBounded
<1>1. IInv => StackIsBounded
  <2>. SUFFICES ASSUME IInv PROVE Len(stack) <= callGraphLev
    BY DEF IInv, StackIsBounded
  <2>1. Len(stack) \in Nat
    BY DEF IInv, TypeOK
  <2>2. CASE Len(stack) = 0
    BY <2>2, LevAssumption
  <2>3. CASE Len(stack) # 0
    <3>1. FrameOK(Len(stack))
      BY <2>1, <2>3 DEF IInv
    <3>. QED
      BY <3>1, LevAssumption DEF FrameOK, IsCallPath
  <2>. QED
    BY <2>1, <2>2, <2>3
<1>. QED
  BY <1>1, Invariance, PTL

-----------------------------------------------------------------------------
(***************************************************************************)
(* REFINEMENT                                                              *)
(***************************************************************************)

LEMMA InitRefines == Init => Abstract!Init
<1>. SUFFICES ASSUME Init PROVE Abstract!Init
  OBVIOUS
<1>1. body \in [Method -> Body]
  BY InitTypeOK DEF TypeOK
<1>2. [m \in Method |-> Callees(m)] \in [Method -> SUBSET Method]
  BY <1>1, CalleesType
<1>. QED
  BY <1>2 DEF Init, Abstract!Init

(***************************************************************************)
(* The program of the abstract search is frozen because body is.           *)
(***************************************************************************)
LEMMA ProgramRefines == body' = body => UNCHANGED Abstract!program
BY ProgramStable DEF Abstract!program

(***************************************************************************)
(* What may be entered next: an invocation about to begin is for the entry *)
(* point or a callee of an entered method.                                 *)
(***************************************************************************)
LEMMA CallIsKnown ==
    ASSUME IInv, call # NoCall
    PROVE  call.mtd \in Method /\ call.mtd \in Abstract!Known /\ ~done /\ report = NoVul
<1>1. call \in Call /\ call.mtd \in Method /\ call.path \in Seq(Method) /\ ~done
  BY DEF IInv, TypeOK, Call, CallOK
<1>2. report = NoVul
  BY <1>1 DEF IInv, DoneOK
<1>3. CASE Len(call.path) = 0
  BY <1>1, <1>2, <1>3 DEF IInv, CallOK, Abstract!Known
<1>4. CASE Len(call.path) # 0
  <2>1. Len(call.path) \in 1 .. Len(call.path)
    BY <1>1, <1>4
  <2>2. PICK x \in Method : x = call.path[Len(call.path)]
    BY <1>1, <2>1
  <2>3. x \in visitSet /\ call.mtd \in Callees(x)
    BY <1>4, <2>1, <2>2 DEF IInv, CallOK, Visited, Last
  <2>. QED
    BY <1>1, <1>2, <2>2, <2>3 DEF Abstract!Known
<1>. QED
  BY <1>3, <1>4

(***************************************************************************)
(* Entering a method is a Visit.                                           *)
(***************************************************************************)
LEMMA BeginRefines ==
    ASSUME IInv, TypeOK', BeginMethod, body' = body, cutOff' = cutOff,
           \/ Detected(call.mtd) /\ done' /\ report' # NoVul
           \/ ~Detected(call.mtd) /\ done' = done
    PROVE  Abstract!Visit(call.mtd)
<1>1. call # NoCall /\ call.mtd \notin visitSet /\ visitSet' = visitSet \cup {call.mtd}
  BY DEF BeginMethod
<1>2. call.mtd \in Method /\ call.mtd \in Abstract!Known /\ ~done
  BY <1>1, CallIsKnown
<1>3. Detected(call.mtd) <=> vul' # NoVul /\ containExitPoint'
  BY DEF Detected, BeginMethod
<1>4. visitSet' \subseteq Method
  BY DEF TypeOK
<1>5. Detected(call.mtd) <=> /\ \E m \in visitSet' : HasBinderList(body[m])
                             /\ \E m \in visitSet' : ContainsExitPoint(body[m])
  BY <1>3, BeginFacts
<1>6. Detected(call.mtd) <=>
          /\ visitSet' \cap {m \in Method : HasBinderList(body'[m])} # {}
          /\ visitSet' \cap {m \in Method : ContainsExitPoint(body'[m])} # {}
  BY <1>4, <1>5
<1>. QED
  BY <1>1, <1>2, <1>6, ProgramRefines DEF Abstract!Visit, Abstract!Evidence

LEMMA NextRefines == IInv /\ [Next]_vars => [Abstract!Next]_Abstract!vars
<1>. SUFFICES ASSUME IInv, [Next]_vars PROVE [Abstract!Next]_Abstract!vars
  OBVIOUS
<1>1. TypeOK' /\ body' = body
  BY NextTypeOK, NextKeepsBody DEF IInv
<1>2. ASSUME RefuseLevel PROVE Abstract!Next
  <2>1. call.mtd \in Method /\ call.mtd \in Abstract!Known /\ ~done
    BY <1>2, CallIsKnown DEF RefuseLevel
  <2>2. Abstract!GiveUp(call.mtd)
    BY <1>1, <1>2, <2>1, ProgramRefines DEF RefuseLevel, Abstract!GiveUp
  <2>. QED
    BY <2>1, <2>2 DEF Abstract!Next
<1>3. ASSUME Report PROVE Abstract!Next
  <2>1. call.mtd \in Method
    BY <1>3, CallIsKnown DEF Report, BeginMethod
  <2>2. VulAfter(call.mtd) \in Vul
    BY <1>3, <2>1, VulAfterType DEF Report, Detected, IInv, TypeOK
  <2>3. PICK q \in Seq(Method) : q = Append(call.path, call.mtd)
    BY <1>1, <1>3, BeginFacts, AppendFacts DEF Report
  <2>4. report' \in Vul
    BY <1>3, <2>2, <2>3 DEF Report, Vul
  <2>5. Abstract!Visit(call.mtd)
    BY <1>1, <1>3, <2>4, BeginRefines, NullAssumption DEF Report
  <2>. QED
    BY <2>1, <2>5 DEF Abstract!Next
<1>4. ASSUME Enter PROVE Abstract!Next
  <2>1. call.mtd \in Method
    BY <1>4, CallIsKnown DEF Enter, BeginMethod
  <2>2. Abstract!Visit(call.mtd)
    BY <1>1, <1>4, BeginRefines DEF Enter
  <2>. QED
    BY <2>1, <2>2 DEF Abstract!Next
<1>5. ASSUME Finish PROVE Abstract!Next
  <2>1. ~done /\ report = NoVul /\ call = NoCall /\ Len(stack) = 0
    BY <1>5 DEF Finish, IInv, DoneOK
  <2>2. Entry \in visitSet \cup cutOff
        /\ \A m \in visitSet : Callees(m) \subseteq visitSet \cup cutOff
    BY <2>1 DEF IInv, ClosureOK, Handled, OnStack
  <2>3. visitSet \subseteq Method
    BY DEF IInv, TypeOK
  <2>4. Abstract!Known \subseteq visitSet \cup cutOff
    BY <2>2, <2>3 DEF Abstract!Known
  <2>. QED
    BY <1>1, <1>5, <2>1, <2>4, ProgramRefines DEF Finish, Abstract!Exhaust, Abstract!Next
<1>6. ASSUME RefuseVisited \/ NextStmt \/ (\E m \in Method : CallTarget(m)) \/ ReturnNull
             \/ UNCHANGED vars
      PROVE  UNCHANGED Abstract!vars
  <2>1. UNCHANGED <<visitSet, cutOff, done, report>>
    BY <1>6 DEF RefuseVisited, NextStmt, CallTarget, ReturnNull, vars
  <2>. QED
    BY <1>1, <2>1, ProgramRefines DEF Abstract!vars, Abstract!program
<1>. QED
  BY <1>2, <1>3, <1>4, <1>5, <1>6 DEF Next

(***************************************************************************)
(* The search implements its abstract specification.                       *)
(***************************************************************************)
THEOREM SearchIsImplemented == Spec => ImplementsSearch
<1>. QED
  BY InitRefines, NextRefines, Invariance, PTL DEF Spec, ImplementsSearch, Abstract!Spec

=============================================================================
