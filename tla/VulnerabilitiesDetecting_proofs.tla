------------------ MODULE VulnerabilitiesDetecting_proofs ------------------
(***************************************************************************)
(* Proofs about VulnerabilitiesDetecting.  The search of a helper method:  *)
(* its verdict is exact for every program, set of vulnerable methods and   *)
(* level.  The detection: the two loops see every service once, so         *)
(* whatever their order the sets they fill are those of the whole list,    *)
(* and saveDetail finds a service for every method that is saved.          *)
(***************************************************************************)
EXTENDS VulnerabilitiesDetecting, SequenceTheorems, TLAPS

-----------------------------------------------------------------------------
(***************************************************************************)
(* THE SEARCH OF A HELPER METHOD                                           *)
(***************************************************************************)

(***************************************************************************)
(* With no level left nothing is found: callGraphAnalysis returns at once. *)
(***************************************************************************)
LEMMA FindsAtZero ==
    ASSUME NEW prog, NEW ep, NEW m
    PROVE  ~FindsIpc(prog, ep, m, 0)
  BY DEF FindsIpc

(***************************************************************************)
(* Searching a method is searching its own calls, then its callees with    *)
(* one level less.                                                         *)
(***************************************************************************)
LEMMA FindsUnfold ==
    ASSUME NEW prog, NEW ep, NEW m \in Method, NEW lev \in Nat \ {0}
    PROVE  FindsIpc(prog, ep, m, lev) <=>
               \/ CallsVulnerable(prog, ep, m)
               \/ \E x \in Method : Calls(prog, m, x) /\ FindsIpc(prog, ep, x, lev - 1)
<1>1. ASSUME FindsIpc(prog, ep, m, lev), ~CallsVulnerable(prog, ep, m)
      PROVE  \E x \in Method : Calls(prog, m, x) /\ FindsIpc(prog, ep, x, lev - 1)
  <2>0. PICK n \in 1 .. lev : \E p \in [1 .. n -> Method] :
            /\ p[1] = m
            /\ \A i \in 1 .. n - 1 : Calls(prog, p[i], p[i + 1])
            /\ CallsVulnerable(prog, ep, p[n])
    BY <1>1 DEF FindsIpc
  <2>1. PICK p \in [1 .. n -> Method] :
            /\ p[1] = m
            /\ \A i \in 1 .. n - 1 : Calls(prog, p[i], p[i + 1])
            /\ CallsVulnerable(prog, ep, p[n])
    BY <2>0
  <2>2. n > 1
    BY <1>1, <2>1
  <2>3. p[2] \in Method /\ Calls(prog, m, p[2])
    BY <2>1, <2>2
  <2> DEFINE q == [i \in 1 .. n - 1 |-> p[i + 1]]
  <2>4. n - 1 \in 1 .. lev - 1 /\ q \in [1 .. n - 1 -> Method]
    BY <2>1, <2>2
  <2>5. q[1] = p[2] /\ q[n - 1] = p[n]
    BY <2>2
  <2>6. ASSUME NEW i \in 1 .. (n - 1) - 1
        PROVE  Calls(prog, q[i], q[i + 1])
    <3>1. q[i] = p[i + 1] /\ q[i + 1] = p[(i + 1) + 1] /\ i + 1 \in 1 .. n - 1
      BY <2>6
    <3>2. Calls(prog, p[i + 1], p[(i + 1) + 1])
      BY <2>1, <3>1
    <3> QED
      BY <3>1, <3>2
  <2> HIDE DEF q
  <2>7. FindsIpc(prog, ep, p[2], lev - 1)
    BY <2>1, <2>4, <2>5, <2>6 DEF FindsIpc
  <2> QED
    BY <2>3, <2>7
<1>2. ASSUME CallsVulnerable(prog, ep, m)
      PROVE  FindsIpc(prog, ep, m, lev)
  <2> DEFINE p == [i \in 1 .. 1 |-> m]
  <2>1. p \in [1 .. 1 -> Method] /\ p[1] = m /\ 1 \in 1 .. lev
    OBVIOUS
  <2>2. 1 .. 1 - 1 = {}
    OBVIOUS
  <2> HIDE DEF p
  <2>3. \A i \in 1 .. 1 - 1 : Calls(prog, p[i], p[i + 1])
    BY <2>2
  <2>4. CallsVulnerable(prog, ep, p[1])
    BY <1>2, <2>1
  <2> QED
    BY <2>1, <2>3, <2>4 DEF FindsIpc
<1>3. ASSUME NEW x \in Method, Calls(prog, m, x), FindsIpc(prog, ep, x, lev - 1)
      PROVE  FindsIpc(prog, ep, m, lev)
  <2>0. PICK n \in 1 .. lev - 1 : \E q \in [1 .. n -> Method] :
            /\ q[1] = x
            /\ \A i \in 1 .. n - 1 : Calls(prog, q[i], q[i + 1])
            /\ CallsVulnerable(prog, ep, q[n])
    BY <1>3 DEF FindsIpc
  <2>1. PICK q \in [1 .. n -> Method] :
            /\ q[1] = x
            /\ \A i \in 1 .. n - 1 : Calls(prog, q[i], q[i + 1])
            /\ CallsVulnerable(prog, ep, q[n])
    BY <2>0
  <2> DEFINE p == [i \in 1 .. n + 1 |-> IF i = 1 THEN m ELSE q[i - 1]]
  <2>2. n + 1 \in 1 .. lev /\ p \in [1 .. n + 1 -> Method]
    BY <2>1
  <2>3. p[1] = m /\ p[n + 1] = q[n]
    BY <2>1
  <2>4. ASSUME NEW i \in 1 .. (n + 1) - 1
        PROVE  Calls(prog, p[i], p[i + 1])
    <3>1. CASE i = 1
      BY <3>1, <2>1, <1>3
    <3>2. CASE i > 1
      <4>1. p[i] = q[i - 1] /\ p[i + 1] = q[(i - 1) + 1] /\ i - 1 \in 1 .. n - 1
        BY <3>2, <2>4
      <4>2. Calls(prog, q[i - 1], q[(i - 1) + 1])
        BY <2>1, <4>1
      <4> QED
        BY <4>1, <4>2
    <3> QED
      BY <3>1, <3>2
  <2> HIDE DEF p
  <2> QED
    BY <2>1, <2>2, <2>3, <2>4 DEF FindsIpc
<1> QED
  BY <1>1, <1>2, <1>3

-----------------------------------------------------------------------------
(***************************************************************************)
(* LEMMAS ABOUT BODIES AND RECORDS                                         *)
(***************************************************************************)

LEMMA BodyFacts ==
    ASSUME SearchTypeOK, NEW m \in Method
    PROVE  /\ body[m] \in Seq(HelperStmt)
           /\ Len(body[m]) \in Nat
           /\ DOMAIN body[m] = 1 .. Len(body[m])
           /\ \A k \in 1 .. Len(body[m]) : body[m][k] \in HelperStmt
<1>1. body[m] \in Seq(HelperStmt)
  BY DEF SearchTypeOK, HelperBody
<1> QED
  BY <1>1

(***************************************************************************)
(* A method all of whose statements were tried in vain finds nothing.      *)
(***************************************************************************)
LEMMA AllFruitless ==
    ASSUME SearchTypeOK, NEW m \in Method, NEW lev \in Nat \ {0},
           \A k \in 1 .. Len(body[m]) : Fruitless(m, lev, body[m][k])
    PROVE  ~FindsIpc(body, vulSet, m, lev)
<1>1. DOMAIN body[m] = 1 .. Len(body[m])
  BY BodyFacts
<1>2. ~CallsVulnerable(body, vulSet, m)
  BY <1>1 DEF CallsVulnerable, Fruitless
<1>3. \A x \in Method : Calls(body, m, x) => ~FindsIpc(body, vulSet, x, lev - 1)
  BY <1>1 DEF Calls, Fruitless
<1> QED
  BY <1>2, <1>3, FindsUnfold

LEMMA TopFacts ==
    ASSUME SearchTypeOK, stack # <<>>
    PROVE  /\ Len(stack) \in Nat \ {0}
           /\ Top \in Frame
           /\ Top.mtd \in Method /\ Top.lev \in Int /\ Top.pc \in Nat
           /\ \A i \in 1 .. Len(stack) : stack[i] \in Frame
<1>1. stack \in Seq(Frame) /\ Len(stack) \in Nat \ {0}
  BY DEF SearchTypeOK
<1>2. Top \in Frame
  BY <1>1 DEF Top
<1>3. Top.mtd \in Method /\ Top.lev \in Int /\ Top.pc \in Nat
  BY <1>2 DEF Frame
<1>4. \A i \in 1 .. Len(stack) : stack[i] \in Frame
  BY <1>1
<1> QED
  BY <1>1, <1>2, <1>3, <1>4

(***************************************************************************)
(* Moving on changes the pc of the running record only.                    *)
(***************************************************************************)
LEMMA AdvancedFacts ==
    ASSUME SearchTypeOK, stack # <<>>
    PROVE  /\ Advanced \in Seq(Frame)
           /\ Len(Advanced) = Len(stack)
           /\ \A i \in 1 .. Len(stack) - 1 : Advanced[i] = stack[i]
           /\ Advanced[Len(stack)].mtd = Top.mtd
           /\ Advanced[Len(stack)].lev = Top.lev
           /\ Advanced[Len(stack)].pc = Top.pc + 1
<1> DEFINE f == [Top EXCEPT !.pc = Top.pc + 1]
<1>1. f \in Frame /\ f.mtd = Top.mtd /\ f.lev = Top.lev /\ f.pc = Top.pc + 1
  BY TopFacts DEF Frame
<1>2. Advanced = [stack EXCEPT ![Len(stack)] = f]
  BY DEF Advanced
<1> HIDE DEF f
<1>3. stack \in Seq(Frame) /\ Len(stack) \in 1 .. Len(stack)
  BY TopFacts DEF SearchTypeOK
<1> QED
  BY <1>1, <1>2, <1>3

LEMMA AppendedFacts ==
    ASSUME NEW S, NEW s \in Seq(S), NEW x \in S
    PROVE  /\ Append(s, x) \in Seq(S)
           /\ Len(Append(s, x)) = Len(s) + 1
           /\ Append(s, x)[Len(s) + 1] = x
           /\ \A i \in 1 .. Len(s) : Append(s, x)[i] = s[i]
  BY AppendProperties

LEMMA FrontFacts ==
    ASSUME NEW S, NEW s \in Seq(S), s # <<>>
    PROVE  /\ SubSeq(s, 1, Len(s) - 1) \in Seq(S)
           /\ Len(SubSeq(s, 1, Len(s) - 1)) = Len(s) - 1
           /\ \A i \in 1 .. Len(s) - 1 : SubSeq(s, 1, Len(s) - 1)[i] = s[i]
<1> PICK n \in Nat : n = Len(s) - 1
  OBVIOUS
<1>1. Len(s) = n + 1 /\ \A i \in 1 .. n : s[i] \in S
  OBVIOUS
<1>2. /\ SubSeq(s, 1, n) \in Seq(S)
      /\ Len(SubSeq(s, 1, n)) = IF 1 <= n THEN n - 1 + 1 ELSE 0
      /\ \A i \in 1 .. n - 1 + 1 : SubSeq(s, 1, n)[i] = s[1 + i - 1]
  BY <1>1, SubSeqProperties
<1>3. \A i \in 1 .. n : i \in 1 .. n - 1 + 1 /\ 1 + i - 1 = i
  OBVIOUS
<1>4. \A i \in 1 .. n : SubSeq(s, 1, n)[i] = s[i]
  BY <1>2, <1>3
<1> QED
  BY <1>1, <1>2, <1>4

LEMMA PredZero ==
    ASSUME NEW j \in Nat, j - 1 = 0
    PROVE  j = 1
  OBVIOUS

(***************************************************************************)
(* While an invocation runs nothing was found and the search goes on.      *)
(***************************************************************************)
LEMMA StillSearching ==
    ASSUME IInv, stack # <<>>
    PROVE  called = NoMethod /\ done = FALSE
  BY DEF IInv, SearchTypeOK, OutcomeOK

-----------------------------------------------------------------------------
(***************************************************************************)
(* THE INVARIANT IS INDUCTIVE                                              *)
(***************************************************************************)

(* findVulIPCCall is called. *)
EntersSearch ==
    /\ body \in [Method -> HelperBody] /\ vulSet \subseteq Method /\ entryMtd \in Method
    /\ stack = Entered(entryMtd) /\ called = NoMethod /\ done = FALSE

LEMMA EnteredIInv == EntersSearch => IInv
<1> SUFFICES ASSUME EntersSearch PROVE IInv
  OBVIOUS
<1> DEFINE f == [mtd |-> entryMtd, lev |-> helperLev, pc |-> 0]
<1>1. f \in Frame /\ stack = <<f>>
  BY LevAssumption DEF EntersSearch, Entered, Frame
<1>2. f.mtd = entryMtd /\ f.lev = helperLev /\ f.pc = 0
  OBVIOUS
<1> HIDE DEF f
<1>3. Len(stack) = 1 /\ stack[1] = f /\ stack # <<>> /\ stack \in Seq(Frame)
  BY <1>1
<1>4. SearchTypeOK
  BY <1>3 DEF EntersSearch, SearchTypeOK
<1>5. SearchedOK
  BY <1>2, <1>3 DEF SearchedOK
<1>6. PathOK
  BY <1>2, <1>3, <1>4, BodyFacts, LevAssumption DEF EntersSearch, PathOK
<1>7. OutcomeOK
  BY <1>3 DEF EntersSearch, OutcomeOK
<1> QED
  BY <1>4, <1>5, <1>6, <1>7 DEF IInv

LEMMA InitIInv == SearchInit => IInv
  BY EnteredIInv, ProgramAssumption DEF EntersSearch, SearchInit

(***************************************************************************)
(* Moving past a statement that hides nothing.                             *)
(***************************************************************************)
LEMMA AdvanceIInv ==
    ASSUME IInv, AtStmt, Fruitless(Top.mtd, Top.lev, CurStmt), stack' = Advanced,
           UNCHANGED <<body, vulSet, entryMtd, called, done>>
    PROVE  IInv'
<1>1. SearchTypeOK /\ stack # <<>>
  BY DEF IInv, AtStmt
<1> PICK n \in Nat : n = Len(stack)
  BY <1>1, TopFacts
<1>2. n # 0 /\ Top = stack[n] /\ Top.mtd \in Method /\ Top.lev \in Int /\ Top.pc \in Nat
  BY <1>1, TopFacts DEF Top
<1>3. /\ stack' \in Seq(Frame) /\ Len(stack') = n /\ stack' # <<>>
      /\ \A i \in 1 .. n - 1 : stack'[i] = stack[i]
      /\ stack'[n].mtd = Top.mtd /\ stack'[n].lev = Top.lev /\ stack'[n].pc = Top.pc + 1
  BY <1>1, <1>2, AdvancedFacts
<1>3a. \A i \in 1 .. n : stack'[i].mtd = stack[i].mtd /\ stack'[i].lev = stack[i].lev
  <2> TAKE i \in 1 .. n
  <2>1. i = n \/ i \in 1 .. n - 1
    OBVIOUS
  <2> QED
    BY <2>1, <1>2, <1>3
<1>4. SearchTypeOK'
  BY <1>1, <1>3 DEF SearchTypeOK
<1>5. SearchedOK'
  <2> SUFFICES ASSUME NEW i \in 1 .. n, NEW k \in 1 .. stack'[i].pc, ~Pending(i, k)'
               PROVE  Fruitless(stack[i].mtd, stack[i].lev, body[stack[i].mtd][k])
    BY <1>3, <1>3a DEF SearchedOK, Fruitless
  <2>1. CASE i < n
    <3>1. stack'[i] = stack[i] /\ ~Pending(i, k) /\ i \in 1 .. Len(stack)
      BY <2>1, <1>3 DEF Pending
    <3> QED
      BY <3>1, <1>1, StillSearching DEF IInv, SearchedOK
  <2>2. CASE i = n
    <3>1. CASE k = Top.pc + 1
      BY <2>2, <3>1, <1>2 DEF CurStmt
    <3>2. CASE k # Top.pc + 1
      <4>1. k \in 1 .. stack[i].pc /\ ~Pending(i, k) /\ i \in 1 .. Len(stack)
        BY <2>2, <3>2, <1>2, <1>3 DEF Pending
      <4> QED
        BY <4>1, <1>1, StillSearching DEF IInv, SearchedOK
    <3> QED
      BY <3>1, <3>2
  <2> QED
    BY <2>1, <2>2
<1>6. PathOK'
  <2> SUFFICES ASSUME NEW i \in 1 .. n
               PROVE  /\ stack'[i].lev = helperLev + 1 - i /\ stack'[i].lev > 0
                      /\ stack'[i].pc <= Len(body[stack'[i].mtd])
                      /\ i = 1 => stack'[i].mtd = entryMtd
                      /\ i < n =>
                            /\ stack'[i].pc > 0
                            /\ body[stack'[i].mtd][stack'[i].pc].kind = "call"
                            /\ body[stack'[i].mtd][stack'[i].pc].callee = stack'[i + 1].mtd
    BY <1>3 DEF PathOK
  <2>1. i < n => stack'[i] = stack[i] /\ stack'[i + 1].mtd = stack[i + 1].mtd
    BY <1>2, <1>3
  <2>2. i = n => Top.pc + 1 <= Len(body[Top.mtd])
    BY <1>1, <1>2, BodyFacts DEF AtStmt
  <2>3. CASE i < n
    BY <2>1, <2>3 DEF IInv, PathOK
  <2>4. CASE i = n
    BY <2>2, <2>4, <1>2, <1>3 DEF IInv, PathOK
  <2> QED
    BY <2>3, <2>4
<1>7. OutcomeOK'
  BY <1>1, <1>3, StillSearching DEF OutcomeOK
<1> QED
  BY <1>4, <1>5, <1>6, <1>7 DEF IInv

(***************************************************************************)
(* At the last level a call is not followed, and could not find anything.  *)
(***************************************************************************)
LEMMA CallAtLimitIInv == IInv /\ CallAtLimit => IInv'
<1> SUFFICES ASSUME IInv, CallAtLimit PROVE IInv'
  OBVIOUS
<1>1. SearchTypeOK /\ stack # <<>> /\ AtStmt /\ CurStmt.kind = "call" /\ Top.lev - 1 <= 0
  BY DEF IInv, CallAtLimit, given, AtStmt
<1>2. Top.lev \in Int /\ Top.lev > 0
  BY <1>1, TopFacts DEF IInv, PathOK, Top
<1>3. Top.lev - 1 = 0
  BY <1>1, <1>2
<1>4. Fruitless(Top.mtd, Top.lev, CurStmt)
  BY <1>1, <1>3, FindsAtZero DEF Fruitless, Matches
<1> QED
  BY <1>1, <1>4, AdvanceIInv DEF CallAtLimit, given

LEMMA IgnoreInterfaceIInv == IInv /\ IgnoreInterface => IInv'
<1> SUFFICES ASSUME IInv, IgnoreInterface PROVE IInv'
  OBVIOUS
<1>1. Fruitless(Top.mtd, Top.lev, CurStmt)
  BY DEF IgnoreInterface, given, Fruitless
<1> QED
  BY <1>1, AdvanceIInv DEF IgnoreInterface, given

(***************************************************************************)
(* The call that is followed stays pending while its callee is searched.   *)
(***************************************************************************)
LEMMA CallDeeperIInv == IInv /\ CallDeeper => IInv'
<1> SUFFICES ASSUME IInv, CallDeeper PROVE IInv'
  OBVIOUS
<1>1. /\ SearchTypeOK /\ stack # <<>> /\ AtStmt /\ CurStmt.kind = "call" /\ Top.lev - 1 > 0
      /\ called = NoMethod
      /\ UNCHANGED <<body, vulSet, entryMtd, called, done>>
  BY StillSearching DEF IInv, CallDeeper, given, AtStmt
<1> PICK n \in Nat : n = Len(stack)
  BY <1>1, TopFacts
<1>2. n # 0 /\ Top = stack[n] /\ Top.mtd \in Method /\ Top.lev \in Int /\ Top.pc \in Nat
  BY <1>1, TopFacts DEF Top
<1>3. Top.pc + 1 \in 1 .. Len(body[Top.mtd]) /\ Len(body[Top.mtd]) \in Nat
  BY <1>1, <1>2, BodyFacts DEF AtStmt
<1>4. CurStmt = body[Top.mtd][Top.pc + 1] /\ CurStmt.callee \in Method
  BY <1>2, <1>3, <1>1, BodyFacts DEF CurStmt, HelperStmt
<1> DEFINE f == [mtd |-> CurStmt.callee, lev |-> Top.lev - 1, pc |-> 0]
<1>5. f \in Frame /\ f.mtd = CurStmt.callee /\ f.lev = Top.lev - 1 /\ f.pc = 0
  BY <1>2, <1>4 DEF Frame
<1>6. stack' = Append(Advanced, f)
  BY DEF CallDeeper, given
<1> HIDE DEF f
<1>7. /\ Advanced \in Seq(Frame) /\ Len(Advanced) = n
      /\ \A i \in 1 .. n - 1 : Advanced[i] = stack[i]
      /\ Advanced[n].mtd = Top.mtd /\ Advanced[n].lev = Top.lev /\ Advanced[n].pc = Top.pc + 1
  BY <1>1, AdvancedFacts
<1>8. /\ stack' \in Seq(Frame) /\ Len(stack') = n + 1 /\ stack'[n + 1] = f
      /\ \A i \in 1 .. n : stack'[i] = Advanced[i]
  BY <1>5, <1>6, <1>7, AppendedFacts
<1>9. /\ \A i \in 1 .. n - 1 : stack'[i] = stack[i]
      /\ stack'[n].mtd = Top.mtd /\ stack'[n].lev = Top.lev /\ stack'[n].pc = Top.pc + 1
  BY <1>2, <1>7, <1>8
<1>10. SearchTypeOK'
  BY <1>1, <1>8 DEF SearchTypeOK
<1>11. SearchedOK'
  <2> SUFFICES ASSUME NEW i \in 1 .. n + 1, NEW k \in 1 .. stack'[i].pc, ~Pending(i, k)'
               PROVE  Fruitless(stack'[i].mtd, stack'[i].lev, body[stack'[i].mtd][k])
    BY <1>1, <1>8 DEF SearchedOK, Fruitless
  <2>1. CASE i < n
    <3>1. stack'[i] = stack[i] /\ ~Pending(i, k) /\ i \in 1 .. Len(stack)
      BY <2>1, <1>8, <1>9 DEF Pending
    <3> QED
      BY <3>1, <1>1 DEF IInv, SearchedOK
  <2>2. CASE i = n
    <3>1. k # Top.pc + 1
      BY <2>2, <1>8, <1>9 DEF Pending
    <3>2. k \in 1 .. stack[i].pc /\ ~Pending(i, k) /\ i \in 1 .. Len(stack)
      BY <2>2, <3>1, <1>2, <1>9 DEF Pending
    <3> QED
      BY <2>2, <3>2, <1>1, <1>2, <1>9 DEF IInv, SearchedOK
  <2>3. CASE i = n + 1
    BY <2>3, <1>5, <1>8
  <2> QED
    BY <2>1, <2>2, <2>3
<1>12. PathOK'
  <2> SUFFICES ASSUME NEW i \in 1 .. n + 1
               PROVE  /\ stack'[i].lev = helperLev + 1 - i /\ stack'[i].lev > 0
                      /\ stack'[i].pc <= Len(body[stack'[i].mtd])
                      /\ i = 1 => stack'[i].mtd = entryMtd
                      /\ i < n + 1 =>
                            /\ stack'[i].pc > 0
                            /\ body[stack'[i].mtd][stack'[i].pc].kind = "call"
                            /\ body[stack'[i].mtd][stack'[i].pc].callee = stack'[i + 1].mtd
    BY <1>1, <1>8 DEF PathOK
  <2>1. CASE i < n
    <3>1. stack'[i] = stack[i] /\ stack'[i + 1].mtd = stack[i + 1].mtd
      <4>1. i + 1 = n \/ i + 1 \in 1 .. n - 1
        BY <2>1
      <4> QED
        BY <2>1, <4>1, <1>2, <1>9
    <3> QED
      BY <3>1, <2>1 DEF IInv, PathOK
  <2>2. CASE i = n
    <3>1. stack[n].lev = helperLev + 1 - n /\ stack[n].lev > 0 /\ (n = 1 => stack[n].mtd = entryMtd)
      BY <1>2 DEF IInv, PathOK
    <3>2. stack'[n + 1].mtd = CurStmt.callee
      BY <1>5, <1>8
    <3>3. body[Top.mtd][Top.pc + 1].kind = "call" /\ body[Top.mtd][Top.pc + 1].callee = CurStmt.callee
      BY <1>1, <1>4
    <3> QED
      BY <2>2, <3>1, <3>2, <3>3, <1>2, <1>3, <1>9
  <2>3. CASE i = n + 1
    <3>1. stack[n].lev = helperLev + 1 - n
      BY <1>2 DEF IInv, PathOK
    <3>2. Len(body[f.mtd]) \in Nat
      BY <1>1, <1>4, <1>5, BodyFacts
    <3> QED
      BY <2>3, <3>1, <3>2, <1>1, <1>2, <1>5, <1>8, LevAssumption
  <2> QED
    BY <2>1, <2>2, <2>3
<1>13. OutcomeOK'
  BY <1>1, <1>8, StillSearching DEF OutcomeOK
<1> QED
  BY <1>10, <1>11, <1>12, <1>13 DEF IInv

(***************************************************************************)
(* The records are a call path, so a match at its end is a finding.        *)
(***************************************************************************)
LEMMA FindVulIInv ==
    ASSUME NEW v \in Method
    PROVE  IInv /\ FindVul(v) => IInv'
<1> SUFFICES ASSUME IInv, FindVul(v) PROVE IInv'
  OBVIOUS
<1>1. /\ SearchTypeOK /\ stack # <<>> /\ AtStmt /\ CurStmt.kind = "ipc"
      /\ v \in vulSet /\ subSignature[v] = CurStmt.sub
      /\ called' = v /\ stack' = <<>>
      /\ UNCHANGED <<body, vulSet, entryMtd, done>>
  BY DEF IInv, FindVul, given, AtStmt
<1> PICK n \in Nat : n = Len(stack)
  BY <1>1, TopFacts
<1>2. n # 0 /\ Top = stack[n] /\ Top.mtd \in Method /\ Top.pc \in Nat
  BY <1>1, TopFacts DEF Top
<1>3. \A i \in 1 .. n : stack[i].mtd \in Method /\ stack[i].pc \in Nat
  BY <1>1, TopFacts DEF Frame
<1> DEFINE p == [i \in 1 .. n |-> stack[i].mtd]
<1>4. p \in [1 .. n -> Method] /\ \A i \in 1 .. n : p[i] = stack[i].mtd
  BY <1>3
<1> HIDE DEF p
<1>5. n \in 1 .. helperLev /\ p[1] = entryMtd
  <2>1. stack[n].lev = helperLev + 1 - n /\ stack[n].lev > 0 /\ stack[1].mtd = entryMtd
    BY <1>2 DEF IInv, PathOK
  <2> QED
    BY <2>1, <1>2, <1>4, LevAssumption
<1>6. \A i \in 1 .. n - 1 : Calls(body, p[i], p[i + 1])
  <2> TAKE i \in 1 .. n - 1
  <2>1. /\ stack[i].pc > 0 /\ stack[i].pc <= Len(body[stack[i].mtd])
        /\ body[stack[i].mtd][stack[i].pc].kind = "call"
        /\ body[stack[i].mtd][stack[i].pc].callee = stack[i + 1].mtd
    BY DEF IInv, PathOK
  <2>2. stack[i].pc \in DOMAIN body[stack[i].mtd]
    BY <2>1, <1>1, <1>3, BodyFacts
  <2>3. p[i] = stack[i].mtd /\ p[i + 1] = stack[i + 1].mtd
    BY <1>4
  <2> QED
    BY <2>1, <2>2, <2>3 DEF Calls
<1>7. CallsVulnerable(body, vulSet, p[n])
  <2>1. Top.pc + 1 \in DOMAIN body[Top.mtd]
    BY <1>1, <1>2, BodyFacts DEF AtStmt
  <2>2. Matches(body[Top.mtd][Top.pc + 1], vulSet)
    BY <1>1 DEF Matches, CurStmt
  <2> QED
    BY <2>1, <2>2, <1>2, <1>4 DEF CallsVulnerable
<1>8. FindsIpc(body, vulSet, entryMtd, helperLev)
  BY <1>4, <1>5, <1>6, <1>7 DEF FindsIpc
<1>9. FindsIpc(body, vulSet, entryMtd, helperLev)'
  BY <1>1, <1>8
<1>10. SearchTypeOK'
  BY <1>1 DEF SearchTypeOK
<1>11. v # NoMethod
  BY NoMethodAssumption
<1>12. SearchedOK' /\ PathOK'
  BY <1>1, <1>11 DEF SearchedOK, PathOK
<1>13. OutcomeOK'
  BY <1>1, <1>9, <1>11 DEF OutcomeOK
<1> QED
  BY <1>10, <1>12, <1>13 DEF IInv

(***************************************************************************)
(* A method that is left without a finding makes the pending call of its   *)
(* caller fruitless, or the whole search.                                  *)
(***************************************************************************)
LEMMA ReturnIInv == IInv /\ Return => IInv'
<1> SUFFICES ASSUME IInv, Return PROVE IInv'
  OBVIOUS
<1>1. /\ SearchTypeOK /\ stack # <<>> /\ called = NoMethod /\ done = FALSE
      /\ Top.pc = Len(body[Top.mtd])
      /\ stack' = SubSeq(stack, 1, Len(stack) - 1)
      /\ UNCHANGED <<body, vulSet, entryMtd, called, done>>
  BY StillSearching DEF IInv, Return, given
<1> PICK n \in Nat : n = Len(stack)
  BY <1>1, TopFacts
<1>2. n # 0 /\ Top = stack[n] /\ Top.mtd \in Method /\ Top.lev \in Int /\ Top.pc \in Nat
  BY <1>1, TopFacts DEF Top
<1>3. /\ stack' \in Seq(Frame) /\ Len(stack') = n - 1
      /\ \A i \in 1 .. n - 1 : stack'[i] = stack[i]
  BY <1>1, FrontFacts DEF SearchTypeOK
<1>4. Top.lev \in Nat \ {0} /\ Top.lev = helperLev + 1 - n
  BY <1>2 DEF IInv, PathOK
<1>5. ~FindsIpc(body, vulSet, Top.mtd, Top.lev)
  <2>1. \A k \in 1 .. Len(body[Top.mtd]) : ~Pending(n, k)
    BY DEF Pending
  <2>2. \A k \in 1 .. Len(body[Top.mtd]) : Fruitless(Top.mtd, Top.lev, body[Top.mtd][k])
    BY <2>1, <1>1, <1>2 DEF IInv, SearchedOK
  <2> QED
    BY <2>2, <1>1, <1>2, <1>4, AllFruitless
<1>6. SearchTypeOK'
  BY <1>1, <1>3 DEF SearchTypeOK
<1>7. SearchedOK'
  <2> SUFFICES ASSUME NEW i \in 1 .. n - 1, NEW k \in 1 .. stack[i].pc, ~Pending(i, k)'
               PROVE  Fruitless(stack[i].mtd, stack[i].lev, body[stack[i].mtd][k])
    BY <1>1, <1>3 DEF SearchedOK, Fruitless
  <2>1. CASE ~Pending(i, k)
    BY <2>1, <1>1 DEF IInv, SearchedOK
  <2>2. CASE Pending(i, k)
    <3>1. i = n - 1 /\ k = stack[i].pc
      BY <2>2, <1>3 DEF Pending
    <3>2. /\ body[stack[i].mtd][k].kind = "call"
          /\ body[stack[i].mtd][k].callee = stack[n].mtd
          /\ stack[i].lev = helperLev + 1 - i
      BY <3>1, <1>2 DEF IInv, PathOK
    <3>3. stack[i].lev - 1 = Top.lev
      BY <3>1, <3>2, <1>4, LevAssumption
    <3> QED
      BY <3>2, <3>3, <1>2, <1>5 DEF Fruitless, Matches
  <2> QED
    BY <2>1, <2>2
<1>8. PathOK'
  <2> SUFFICES ASSUME NEW i \in 1 .. n - 1
               PROVE  /\ stack[i].lev = helperLev + 1 - i /\ stack[i].lev > 0
                      /\ stack[i].pc <= Len(body[stack[i].mtd])
                      /\ i = 1 => stack[i].mtd = entryMtd
                      /\ i < n - 1 =>
                            /\ stack[i].pc > 0
                            /\ body[stack[i].mtd][stack[i].pc].kind = "call"
                            /\ body[stack[i].mtd][stack[i].pc].callee = stack[i + 1].mtd
    BY <1>1, <1>3 DEF PathOK
  <2> QED
    BY DEF IInv, PathOK
<1>9. OutcomeOK'
  <2>1. stack' = <<>> => ~FindsIpc(body, vulSet, entryMtd, helperLev)
    <3> SUFFICES ASSUME stack' = <<>> PROVE ~FindsIpc(body, vulSet, entryMtd, helperLev)
      OBVIOUS
    <3>1. n = 1
      <4>1. Len(stack') = 0
        OBVIOUS
      <4> QED
        BY <4>1, <1>3, PredZero
    <3>2. Top.mtd = entryMtd
      BY <3>1, <1>2 DEF IInv, PathOK
    <3>3. Top.lev = helperLev
      BY <3>1, <1>4, LevAssumption
    <3> QED
      BY <3>2, <3>3, <1>5
  <2> QED
    BY <2>1, <1>1 DEF OutcomeOK
<1> QED
  BY <1>6, <1>7, <1>8, <1>9 DEF IInv

LEMMA FinishIInv == IInv /\ Finish => IInv'
<1> SUFFICES ASSUME IInv, Finish PROVE IInv'
  OBVIOUS
<1>1. stack = <<>> /\ done' = TRUE /\ UNCHANGED <<body, vulSet, entryMtd, stack, called>>
  BY DEF Finish, given
<1>2. SearchTypeOK' /\ OutcomeOK'
  BY <1>1 DEF IInv, SearchTypeOK, OutcomeOK
<1>3. SearchedOK' /\ PathOK'
  BY <1>1 DEF SearchedOK, PathOK
<1> QED
  BY <1>2, <1>3 DEF IInv

LEMMA StutterIInv == IInv /\ UNCHANGED searchVars => IInv'
  BY DEF IInv, SearchTypeOK, SearchedOK, PathOK, OutcomeOK, Pending,
         Fruitless, searchVars

LEMMA NextIInv == IInv /\ [SearchNext]_searchVars => IInv'
  BY CallDeeperIInv, CallAtLimitIInv, FindVulIInv, IgnoreInterfaceIInv, ReturnIInv,
     FinishIInv, StutterIInv DEF SearchNext

-----------------------------------------------------------------------------
(***************************************************************************)
(* The invariant of the search holds in every state, and with it the type  *)
(* invariant.                                                              *)
(***************************************************************************)
THEOREM HelperInvariance == SearchSpec => []IInv
<1> QED
  BY InitIInv, NextIInv, PTL DEF SearchSpec

THEOREM HelperTypeCorrect == SearchSpec => []SearchTypeOK
<1>1. IInv => SearchTypeOK
  BY DEF IInv
<1> QED
  BY <1>1, HelperInvariance, PTL

(***************************************************************************)
(* findVulIPCCall answers non-null just when a call path within the level  *)
(* reaches a call of a vulnerable method.                                  *)
(***************************************************************************)
THEOREM VerdictCorrect == SearchSpec => []VerdictIsExact
<1>1. IInv => VerdictIsExact
  BY DEF IInv, OutcomeOK, VerdictIsExact
<1> QED
  BY <1>1, HelperInvariance, PTL

-----------------------------------------------------------------------------
(***************************************************************************)
(* THE SERVICES                                                            *)
(***************************************************************************)

(* The services of S that analysisImplClass is called for, and what it     *)
(* reports of them.                                                        *)
Impls(S) == {api \in S : ~IsHelperClass(api)}

VulsOf(S) == leaks \cap UNION {Exposed(api) : api \in Impls(S)}

(* The methods analysisHelperClass looks at, and what it reports of them   *)
(* when vuls are the vulnerable ones.                                      *)
HelpersOf(S) == UNION {HelperApis(api.helperClass) : api \in S \ Impls(S)}

HelperVulsOf(S, vuls) == {m \in HelpersOf(S) : FindsIpc(body, vuls, m, helperLev)}

-----------------------------------------------------------------------------
(***************************************************************************)
(* TYPES                                                                   *)
(***************************************************************************)

(***************************************************************************)
(* The classes of a service: that of a helper, or the one that implements  *)
(* it, is a class of the program.                                          *)
(***************************************************************************)
LEMMA ApiFacts ==
    ASSUME NEW S \in ServiceLists, NEW api \in S
    PROVE  /\ api \in ServiceApiClass
           /\ IsHelperClass(api) => api.helperClass \in Class
           /\ ~IsHelperClass(api) => api.implClass \in Class
<1>1. api \in ServiceApiClass /\ (~IsHelperClass(api) => api.implClass # NoClass)
  BY ServiceListsAssumption
<1> QED
  BY <1>1 DEF ServiceApiClass, IsHelperClass

(* The first state is typed.                                               *)
LEMMA InitTypeOK == Init => TypeOK
<1> SUFFICES ASSUME Init PROVE TypeOK
  OBVIOUS
<1>1. body \in [Method -> HelperBody]
  BY ProgramAssumption DEF Init
<1>2. leaks \subseteq Method
  BY DeclaredAssumption DEF Init
<1>3. allApi \subseteq ServiceApiClass
  BY ServiceListsAssumption DEF Init
<1>4. stack \in Seq(Frame)
  BY DEF Init
<1> QED
  BY <1>1, <1>2, <1>3, <1>4 DEF Init, TypeOK

(***************************************************************************)
(* A search that has begun is where the search of its method can be.       *)
(***************************************************************************)
SearchInv ==
    /\ phase = "impl" => entryMtd = NoMethod
    /\ entryMtd # NoMethod => IInv

(* No step of a search changes what it is about. *)
LEMMA SearchKeepsGiven == SearchNext => UNCHANGED <<body, vulSet, entryMtd>>
  BY DEF SearchNext, CallDeeper, CallAtLimit, FindVul, IgnoreInterface,
         Return, Finish, given

(* A search that begins is where a search begins. *)
LEMMA BeginSearchIInv ==
    ASSUME TypeOK, NEW m \in Method, BeginSearch(m)
    PROVE  IInv'
<1>1. /\ body' = body /\ vulSet' = vulSet /\ entryMtd' = m /\ stack' = Entered(m)
      /\ called' = NoMethod /\ done' = FALSE
  BY DEF BeginSearch, program
<1>2. EntersSearch'
  <2>1. Entered(entryMtd)' = Entered(m)
    BY <1>1 DEF Entered
  <2> QED
    BY <1>1, <2>1 DEF TypeOK, EntersSearch
<1>3. EntersSearch' => IInv'
  BY EnteredIInv, PTL
<1> QED
  BY <1>2, <1>3

(* The steps of a search. *)
LEMMA SearchStepIInv ==
    ASSUME SearchInv, FindVulIPCCall
    PROVE  IInv'
<1>1. IInv /\ SearchNext
  BY DEF SearchInv, FindVulIPCCall, Searching
<1> QED
  BY <1>1, NextIInv

(* Nothing else touches a search that runs. *)
LEMMA SearchUntouched ==
    ASSUME SearchInv, UNCHANGED <<body, vulSet, search>>
    PROVE  entryMtd' # NoMethod => IInv'
<1>1. UNCHANGED <<body, vulSet, entryMtd, stack, called, done>>
  BY DEF search
<1>2. entryMtd # NoMethod => IInv
  BY DEF SearchInv
<1>3. UNCHANGED searchVars
  BY <1>1 DEF searchVars
<1> QED
  BY <1>1, <1>2, <1>3, StutterIInv

LEMMA NextSearchInv ==
    ASSUME TypeOK, SearchInv, [Next]_vars
    PROVE  SearchInv'
<1>1. CASE \E api \in allApi : AnalysisImplClass(api)
  BY <1>1 DEF SearchInv, AnalysisImplClass, search
<1>2. CASE \E m \in helperMtds : BeginSearch(m)
  <2>1. PICK m \in helperMtds : BeginSearch(m)
    BY <1>2
  <2>2. m \in Method
    BY DEF TypeOK
  <2>3. phase' = "helper"
    BY <2>1 DEF BeginSearch
  <2> QED
    BY <2>1, <2>2, <2>3, BeginSearchIInv DEF SearchInv
<1>3. CASE FindVulIPCCall
  <2>1. phase' = "helper"
    BY <1>3 DEF FindVulIPCCall, Searching
  <2> QED
    BY <1>3, <2>1, SearchStepIInv DEF SearchInv
<1>4. CASE EndSearch
  BY <1>4 DEF EndSearch, SearchInv
<1>5. ASSUME UNCHANGED <<body, vulSet, search>>, phase' = "impl" => phase = "impl"
      PROVE  SearchInv'
  BY <1>5, SearchUntouched DEF SearchInv, search
<1>6. CASE \E api \in allApi : AnalysisHelperClass(api)
  BY <1>5, <1>6 DEF AnalysisHelperClass, program
<1>7. CASE StartHelpers \/ DumpVul
  BY <1>5, <1>7 DEF StartHelpers, DumpVul, program
<1>8. CASE SaveSummary \/ SaveDetail
  BY <1>5, <1>8 DEF SaveSummary, SaveDetail, program
<1>9. CASE Panic \/ SummaryFails \/ DetailFails
  BY <1>5, <1>9 DEF Panic, SummaryFails, DetailFails, program
<1>10. CASE UNCHANGED vars
  BY <1>5, <1>10 DEF vars, program
<1> QED
  BY <1>1, <1>2, <1>3, <1>4, <1>6, <1>7, <1>8, <1>9, <1>10 DEF Next

(* The types are kept.                                                     *)
LEMMA NextTypeOK ==
    ASSUME TypeOK, SearchInv, allApi \in ServiceLists, [Next]_vars
    PROVE  TypeOK'
<1> USE DEF TypeOK, program, search, files, Summary, Detail
<1>1. CASE \E api \in allApi : AnalysisImplClass(api)
  BY <1>1 DEF AnalysisImplClass
<1>2. CASE \E api \in allApi : AnalysisHelperClass(api)
  <2>1. PICK api \in allApi : AnalysisHelperClass(api)
    BY <1>2
  <2>2. IsHelperClass(api) => HelperApis(api.helperClass) \subseteq Method
    BY ApiFacts, DeclaredAssumption DEF HelperApis
  <2>3. helperMtds' \subseteq Method
    BY <2>1, <2>2 DEF AnalysisHelperClass
  <2> QED
    BY <2>1, <2>3 DEF AnalysisHelperClass
<1>2a. CASE \E m \in helperMtds : BeginSearch(m)
  <2>1. PICK m \in helperMtds : BeginSearch(m)
    BY <1>2a
  <2>2. SearchTypeOK'
    BY <2>1, BeginSearchIInv DEF IInv
  <2> QED
    BY <2>1, <2>2 DEF BeginSearch, SearchTypeOK
<1>2b. CASE FindVulIPCCall
  <2>1. SearchTypeOK'
    BY <1>2b, SearchStepIInv DEF IInv
  <2> QED
    BY <1>2b, <2>1 DEF FindVulIPCCall, SearchTypeOK
<1>2c. CASE EndSearch
  BY <1>2c DEF EndSearch, Searching
<1>3. CASE StartHelpers
  BY <1>3 DEF StartHelpers
<1>4. CASE DumpVul
  BY <1>4 DEF DumpVul
<1>5. CASE SaveSummary
  BY <1>5 DEF SaveSummary
<1>6. CASE SaveDetail
  <2>1. json' \subseteq [mtd : Method, serviceName : ServiceName]
    <3>1. PICK serviceFor \in [WithService -> allApi] :
            json' = UNION {{[mtd |-> m, serviceName |-> serviceFor[c].serviceName] :
                              m \in vulSet \cap declared[c]} : c \in WithService}
      BY <1>6 DEF SaveDetail
    <3>2. SUFFICES ASSUME NEW d \in json' PROVE d \in [mtd : Method, serviceName : ServiceName]
      OBVIOUS
    <3>3. PICK c \in WithService, m \in vulSet : d = [mtd |-> m, serviceName |-> serviceFor[c].serviceName]
      BY <3>1
    <3>4. serviceFor[c] \in ServiceApiClass
      OBVIOUS
    <3> QED
      BY <3>3, <3>4 DEF ServiceApiClass
  <2> QED
    BY <1>6, <2>1 DEF SaveDetail
<1>7. CASE Panic \/ SummaryFails \/ DetailFails
  BY <1>7 DEF Panic, SummaryFails, DetailFails
<1>8. CASE UNCHANGED vars
  BY <1>8 DEF vars
<1> QED
  BY <1>1, <1>2, <1>2a, <1>2b, <1>2c, <1>3, <1>4, <1>5, <1>6, <1>7, <1>8 DEF Next

(***************************************************************************)
(* The service list is one of those considered, and stays the same.        *)
(***************************************************************************)
TypeInv == TypeOK /\ SearchInv /\ allApi \in ServiceLists

(* The types and what never changes, at the start. *)
LEMMA InitTypeInv == Init => TypeInv
  BY InitTypeOK DEF Init, TypeInv, SearchInv

(* No step changes the analysed program. *)
LEMMA NextKeepsProgram == [Next]_vars => UNCHANGED program
<1>1. FindVulIPCCall => UNCHANGED program
  BY SearchKeepsGiven DEF FindVulIPCCall, program
<1> QED
  BY <1>1 DEF Next, vars, program, AnalysisImplClass, AnalysisHelperClass, StartHelpers, BeginSearch,
         EndSearch, DumpVul, SaveSummary, SummaryFails, SaveDetail, DetailFails, Panic

(* Types and program together. *)
LEMMA NextTypeInv == TypeInv /\ [Next]_vars => TypeInv'
  BY NextTypeOK, NextSearchInv, NextKeepsProgram DEF TypeInv, program

(***************************************************************************)
(* The variables of dumpVul keep their types, for every program, service   *)
(* list and verdict of the call graph search.                              *)
(***************************************************************************)
THEOREM DetectingTypeCorrect == Spec => []TypeOK
<1>1. TypeInv => TypeOK
  BY DEF TypeInv
<1> QED
  BY <1>1, InitTypeInv, NextTypeInv, PTL DEF Spec

-----------------------------------------------------------------------------
(***************************************************************************)
(* THE SETS OF REPORTED METHODS                                            *)
(***************************************************************************)

(* One service more: what is reported of it is added.                      *)
LEMMA OneMoreImpl ==
    ASSUME NEW S, NEW api
    PROVE  VulsOf(S \cup {api}) = IF IsHelperClass(api) THEN VulsOf(S)
                                  ELSE VulsOf(S) \cup (Exposed(api) \cap leaks)
<1>1. CASE IsHelperClass(api)
  <2>1. Impls(S \cup {api}) = Impls(S)
    BY <1>1 DEF Impls
  <2> QED
    BY <1>1, <2>1 DEF VulsOf
<1>2. CASE ~IsHelperClass(api)
  <2>1. Impls(S \cup {api}) = Impls(S) \cup {api}
    BY <1>2 DEF Impls
  <2> QED
    BY <1>2, <2>1 DEF VulsOf
<1> QED
  BY <1>1, <1>2

(* One more helper class: its methods are added. *)
LEMMA OneMoreHelper ==
    ASSUME NEW S, NEW api
    PROVE  HelpersOf(S \cup {api}) = IF IsHelperClass(api)
                                     THEN HelpersOf(S) \cup HelperApis(api.helperClass)
                                     ELSE HelpersOf(S)
<1>1. \A T : T \ Impls(T) = {a \in T : IsHelperClass(a)}
  BY DEF Impls
<1>2. CASE IsHelperClass(api)
  <2>1. (S \cup {api}) \ Impls(S \cup {api}) = (S \ Impls(S)) \cup {api}
    BY <1>1, <1>2
  <2> QED
    BY <1>2, <2>1 DEF HelpersOf
<1>3. CASE ~IsHelperClass(api)
  <2>1. (S \cup {api}) \ Impls(S \cup {api}) = S \ Impls(S)
    BY <1>1, <1>3
  <2> QED
    BY <1>3, <2>1 DEF HelpersOf
<1> QED
  BY <1>2, <1>3

(***************************************************************************)
(* The inductive invariant: each loop has reported what the services it    *)
(* has visited give it, the second one with all the results of the first   *)
(* and but for the methods that are still to be searched; and a file is    *)
(* there from the step on that writes it.  A panic stops the program       *)
(* between any two of these, or leaves the file torn that is written.      *)
(***************************************************************************)
Visited == allApi \ pending

(* Methods of the visited helper classes that have no verdict yet. *)
Left == helperMtds \cup ({entryMtd} \ {NoMethod})

HelpersInv ==
    /\ Left \subseteq HelpersOf(Visited)
    /\ HelperVulsOf(Visited, vulSet) \ Left \subseteq helperVulSet
    /\ helperVulSet \subseteq HelperVulsOf(Visited, vulSet)

Judged == phase \in {"helper", "summary", "detail", "done"}

Finished == phase \in {"summary", "detail", "done"}

IsSummary == txt = [services |-> VulsOf(allApi), helpers |-> HelperVulsOf(allApi, VulsOf(allApi))]

IsDetail ==
    \E serviceFor \in [WithService -> allApi] :
        json = UNION {{[mtd |-> m, serviceName |-> serviceFor[c].serviceName] :
                         m \in vulSet \cap declared[c]} : c \in WithService}

ReportInv ==
    /\ phase = "impl" => vulSet = VulsOf(Visited) /\ helperVulSet = {} /\ Left = {}
    /\ Judged => vulSet = VulsOf(allApi)
    /\ phase = "helper" => HelpersInv
    /\ Finished => helperVulSet = HelperVulsOf(allApi, vulSet)
    /\ phase \in {"impl", "helper", "summary"} => txt = Old
    /\ phase \in {"detail", "done"} => IsSummary
    /\ phase \notin {"done", "panicked"} => json = Old
    /\ phase = "panicked" => \/ txt \in {Old, Torn} /\ json = Old
                             \/ IsSummary /\ json \in {Old, Torn}
    /\ phase = "done" => IsDetail

DetectingInv == TypeInv /\ ReportInv

(* At the start nothing was visited. *)
LEMMA InitReportInv == Init => ReportInv
<1> SUFFICES ASSUME Init PROVE ReportInv
  OBVIOUS
<1>1. Visited = {}
  BY DEF Init, Visited
<1>2. VulsOf({}) = {}
  BY DEF VulsOf, Impls
<1> QED
  BY <1>1, <1>2 DEF Init, ReportInv, Judged, Finished, Left

(* What the sets are made of does not change.                              *)
LEMMA SetsKept ==
    ASSUME UNCHANGED program
    PROVE  /\ \A S : VulsOf(S)' = VulsOf(S)
           /\ HelperVulsOf(allApi, VulsOf(allApi))' = HelperVulsOf(allApi, VulsOf(allApi))
  BY DEF program, VulsOf, Impls, HelperVulsOf, HelpersOf

(* A class is visited: all its methods are to be searched. *)
LEMMA VisitHelpers ==
    ASSUME UNCHANGED program, pending \subseteq allApi, HelpersInv,
           NEW api \in allApi, AnalysisHelperClass(api)
    PROVE  HelpersInv'
<1>1. /\ helperMtds = {} /\ entryMtd = NoMethod /\ api \in pending /\ pending' = pending \ {api}
      /\ helperMtds' = IF IsHelperClass(api) THEN HelperApis(api.helperClass) ELSE {}
      /\ UNCHANGED <<body, allApi, vulSet, entryMtd, helperVulSet>>
  BY DEF AnalysisHelperClass, BetweenClasses, program, search
<1>2. Visited' = Visited \cup {api}
  BY <1>1 DEF Visited
<1>3. Left = {} /\ Left' = IF IsHelperClass(api) THEN HelperApis(api.helperClass) ELSE {}
  BY <1>1 DEF Left
<1>4. HelpersOf(Visited)' = HelpersOf(Visited')
      /\ HelperVulsOf(Visited, vulSet)' = HelperVulsOf(Visited', vulSet)
  BY <1>1 DEF HelpersOf, HelperVulsOf, Impls
<1>5. HelpersOf(Visited \cup {api}) = HelpersOf(Visited) \cup Left'
  BY <1>3, OneMoreHelper
<1>6. HelperVulsOf(Visited \cup {api}, vulSet) \ Left' \subseteq HelperVulsOf(Visited, vulSet)
      /\ HelperVulsOf(Visited, vulSet) \subseteq HelperVulsOf(Visited \cup {api}, vulSet)
  BY <1>5 DEF HelperVulsOf
<1> QED
  BY <1>1, <1>2, <1>3, <1>4, <1>5, <1>6 DEF HelpersInv

(* A verdict is added when there is one. *)
LEMMA AddVerdict ==
    ASSUME UNCHANGED program, TypeInv, HelpersInv, EndSearch
    PROVE  HelpersInv'
<1>1. /\ entryMtd # NoMethod /\ done
      /\ helperVulSet' = IF called # NoMethod THEN helperVulSet \cup {entryMtd} ELSE helperVulSet
      /\ entryMtd' = NoMethod
      /\ UNCHANGED <<body, allApi, pending, vulSet, helperMtds>>
  BY DEF EndSearch, Searching, program
<1>2. IInv
  BY <1>1 DEF TypeInv, SearchInv
<1>3. called # NoMethod <=> FindsIpc(body, vulSet, entryMtd, helperLev)
  BY <1>1, <1>2 DEF IInv, OutcomeOK
<1>4. Left = helperMtds \cup {entryMtd} /\ Left' = helperMtds
  BY <1>1 DEF Left
<1>5. HelpersOf(Visited)' = HelpersOf(Visited)
      /\ HelperVulsOf(Visited, vulSet)' = HelperVulsOf(Visited, vulSet)
  BY <1>1 DEF HelpersOf, HelperVulsOf, Impls, Visited
<1>6. entryMtd \in HelperVulsOf(Visited, vulSet) <=> called # NoMethod
  BY <1>3, <1>4 DEF HelpersInv, HelperVulsOf
<1> QED
  BY <1>1, <1>4, <1>5, <1>6 DEF HelpersInv

(* Neither the start nor the steps of a search add or take anything. *)
LEMMA LeaveVerdicts ==
    ASSUME UNCHANGED program, UNCHANGED <<pending, vulSet, helperVulSet>>, Left' = Left, HelpersInv
    PROVE  HelpersInv'
<1>1. HelpersOf(Visited)' = HelpersOf(Visited)
      /\ HelperVulsOf(Visited, vulSet)' = HelperVulsOf(Visited, vulSet)
  BY DEF program, HelpersOf, HelperVulsOf, Impls, Visited
<1> QED
  BY <1>1 DEF HelpersInv

(* Each step keeps what the sets hold of the visited services. *)
LEMMA NextReportInv ==
    ASSUME TypeInv, ReportInv, [Next]_vars
    PROVE  ReportInv'
<1> USE DEF ReportInv, Judged, Finished
<1>0. UNCHANGED program
  BY NextKeepsProgram
<1>1. allApi' = allApi /\ VulsOf(allApi)' = VulsOf(allApi)
  BY <1>0, SetsKept DEF program
<1>2. txt' = txt /\ IsSummary => IsSummary'
  <2>1. HelperVulsOf(allApi, VulsOf(allApi))' = HelperVulsOf(allApi, VulsOf(allApi))
    BY <1>0, SetsKept
  <2> QED
    BY <1>1, <2>1 DEF IsSummary
<1>3. pending \subseteq allApi
  BY DEF TypeInv, TypeOK
<1>4. ASSUME NEW api \in allApi, AnalysisImplClass(api) PROVE ReportInv'
  <2>1. phase = "impl" /\ phase' = "impl" /\ api \in pending /\ pending' = pending \ {api}
        /\ UNCHANGED <<helperVulSet, txt, json>> /\ Left' = Left
    BY <1>4 DEF AnalysisImplClass, search, files, Left
  <2>2. Visited' = Visited \cup {api}
    BY <1>1, <1>3, <2>1 DEF Visited
  <2>3. vulSet' = VulsOf(Visited \cup {api})
    BY <1>4, <2>1, OneMoreImpl DEF AnalysisImplClass
  <2>4. VulsOf(Visited)' = VulsOf(Visited')
    BY <1>0, SetsKept DEF program, VulsOf, Impls
  <2> QED
    BY <2>1, <2>2, <2>3, <2>4
<1>5. ASSUME phase = "helper", phase' = "helper", UNCHANGED <<vulSet, txt, json>>, HelpersInv'
      PROVE  ReportInv'
  BY <1>1, <1>5
<1>5a. ASSUME NEW api \in allApi, AnalysisHelperClass(api) PROVE ReportInv'
  <2>1. phase = "helper" /\ phase' = "helper" /\ UNCHANGED <<vulSet, txt, json>>
    BY <1>5a DEF AnalysisHelperClass, BetweenClasses, files
  <2> QED
    BY <1>0, <1>3, <1>5, <1>5a, <2>1, VisitHelpers
<1>5b. ASSUME NEW m \in helperMtds, BeginSearch(m) PROVE ReportInv'
  <2>1. /\ phase = "helper" /\ phase' = "helper" /\ UNCHANGED <<pending, vulSet, helperVulSet, txt, json>>
        /\ entryMtd = NoMethod /\ entryMtd' = m /\ helperMtds' = helperMtds \ {m}
    BY <1>5b DEF BeginSearch, files
  <2>2. m # NoMethod
    BY NoMethodAssumption DEF TypeInv, TypeOK
  <2>3. Left' = Left
    BY <2>1, <2>2 DEF Left
  <2> QED
    BY <1>0, <1>5, <2>1, <2>3, LeaveVerdicts
<1>5c. ASSUME FindVulIPCCall PROVE ReportInv'
  <2>1. /\ phase = "helper" /\ phase' = "helper"
        /\ UNCHANGED <<pending, vulSet, helperMtds, entryMtd, helperVulSet, txt, json>>
    BY <1>5c, SearchKeepsGiven DEF FindVulIPCCall, Searching, files
  <2>2. Left' = Left
    BY <2>1 DEF Left
  <2> QED
    BY <1>0, <1>5, <2>1, <2>2, LeaveVerdicts
<1>5d. ASSUME EndSearch PROVE ReportInv'
  <2>1. phase = "helper" /\ phase' = "helper" /\ UNCHANGED <<vulSet, txt, json>>
    BY <1>5d DEF EndSearch, Searching, files
  <2> QED
    BY <1>0, <1>5, <1>5d, <2>1, AddVerdict
<1>6. ASSUME StartHelpers PROVE ReportInv'
  <2>1. phase = "impl" /\ phase' = "helper" /\ pending = {} /\ pending' = allApi
        /\ UNCHANGED <<vulSet, helperVulSet, txt, json>> /\ Left' = Left
    BY <1>6 DEF StartHelpers, search, files, Left
  <2>2. Visited = allApi /\ Visited' = {}
    BY <1>1, <2>1 DEF Visited
  <2>3. HelperVulsOf(Visited, vulSet)' = {} /\ Left' = {} /\ helperVulSet' = {}
    BY <2>1, <2>2 DEF HelperVulsOf, HelpersOf, Impls
  <2>4. HelpersInv'
    BY <2>3 DEF HelpersInv
  <2> QED
    BY <1>1, <2>1, <2>2, <2>4
<1>7. ASSUME DumpVul PROVE ReportInv'
  <2>1. phase = "helper" /\ phase' = "summary" /\ pending = {}
        /\ UNCHANGED <<vulSet, helperVulSet, txt, json>> /\ Left = {}
    BY <1>7 DEF DumpVul, BetweenClasses, files, Left
  <2>2. Visited = allApi /\ helperVulSet = HelperVulsOf(Visited, vulSet)
    BY <2>1 DEF Visited, HelpersInv
  <2>3. HelperVulsOf(allApi, vulSet)' = HelperVulsOf(allApi, vulSet)
    BY <1>0, <2>1 DEF program, HelperVulsOf, HelpersOf, Impls
  <2> QED
    BY <1>1, <2>1, <2>2, <2>3
<1>8. ASSUME SaveSummary PROVE ReportInv'
  <2>1. phase = "summary" /\ phase' = "detail" /\ txt' = [services |-> vulSet, helpers |-> helperVulSet]
        /\ UNCHANGED <<vulSet, helperVulSet, json>>
    BY <1>8 DEF SaveSummary
  <2>2. HelperVulsOf(allApi, vulSet)' = HelperVulsOf(allApi, vulSet)
    BY <1>0, <2>1 DEF program, HelperVulsOf, HelpersOf, Impls
  <2>3. IsSummary'
    BY <1>1, <2>1, <2>2 DEF IsSummary
  <2> QED
    BY <1>1, <2>1, <2>2, <2>3
<1>9. ASSUME SaveDetail PROVE ReportInv'
  <2>1. phase = "detail" /\ phase' = "done" /\ UNCHANGED <<vulSet, helperVulSet, txt>>
    BY <1>9 DEF SaveDetail
  <2>2. HelperVulsOf(allApi, vulSet)' = HelperVulsOf(allApi, vulSet)
    BY <1>0, <2>1 DEF program, HelperVulsOf, HelpersOf, Impls
  <2>3. WithService' = WithService
    BY <1>1 DEF WithService, ServicesFor
  <2>4. IsDetail'
    BY <1>1, <1>9, <2>1, <2>3 DEF SaveDetail, IsDetail
  <2> QED
    BY <1>1, <1>2, <2>1, <2>2, <2>4
<1>10. ASSUME Panic \/ SummaryFails \/ DetailFails PROVE ReportInv'
  <2>1. CASE Panic \/ SummaryFails
    <3>1. /\ phase \in {"impl", "helper", "summary"} /\ phase' = "panicked"
          /\ txt' \in {txt, Torn} /\ json' = json
      BY <2>1 DEF Panic, SummaryFails, files
    <3> QED
      BY <3>1
  <2>2. CASE DetailFails
    <3>1. /\ phase = "detail" /\ phase' = "panicked" /\ txt' = txt /\ json' \in {json, Torn}
      BY <2>2 DEF DetailFails
    <3> QED
      BY <1>2, <3>1
  <2> QED
    BY <1>10, <2>1, <2>2
<1>11. CASE UNCHANGED vars
  <2>1. HelperVulsOf(allApi, vulSet)' = HelperVulsOf(allApi, vulSet)
        /\ HelperVulsOf(Visited, vulSet)' = HelperVulsOf(Visited, vulSet)
        /\ VulsOf(Visited)' = VulsOf(Visited) /\ Left' = Left
    BY <1>11 DEF vars, program, search, HelperVulsOf, HelpersOf, VulsOf, Impls, Visited, Left
  <2>2. IsDetail' = IsDetail
    BY <1>11 DEF vars, program, files, IsDetail, WithService, ServicesFor
  <2>3. phase = "helper" => HelpersInv'
    BY <1>0, <1>11, <2>1, LeaveVerdicts DEF vars
  <2>4. UNCHANGED <<phase, vulSet, helperVulSet, txt, json>>
    BY <1>11 DEF vars, files
  <2> QED
    BY <1>1, <1>2, <2>1, <2>2, <2>3, <2>4
<1> QED
  BY <1>4, <1>5a, <1>5b, <1>5c, <1>5d, <1>6, <1>7, <1>8, <1>9, <1>10, <1>11 DEF Next

(***************************************************************************)
(* In every reachable state vulSet, vulMap and helperVulSet hold just what *)
(* the services visited so far give.                                       *)
(***************************************************************************)
THEOREM DetectingInvariance == Spec => []DetectingInv
<1>1. Init => DetectingInv
  BY InitTypeInv, InitReportInv DEF DetectingInv
<1>2. DetectingInv /\ [Next]_vars => DetectingInv'
  BY NextTypeInv, NextReportInv DEF DetectingInv
<1> QED
  BY <1>1, <1>2, PTL DEF Spec

(***************************************************************************)
(* Every verdict analysisHelperClass takes from a search is exact for the  *)
(* service methods that were reported.                                     *)
(***************************************************************************)
THEOREM DetectedVerdicts == Spec => [](entryMtd # NoMethod => VerdictIsExact)
<1>1. DetectingInv => (entryMtd # NoMethod => VerdictIsExact)
  BY DEF DetectingInv, TypeInv, SearchInv, IInv, OutcomeOK, VerdictIsExact
<1> QED
  BY <1>1, DetectingInvariance, PTL

-----------------------------------------------------------------------------
(***************************************************************************)
(* Whatever the order of the list, results.txt holds the exposed methods   *)
(* that leak and the helper methods that reach one of them, all of them    *)
(* and no other.                                                           *)
(***************************************************************************)
THEOREM SummaryCorrect == Spec => []SummaryIsComplete
<1>1. DetectingInv => SummaryIsComplete
  <2> SUFFICES ASSUME DetectingInv, txt \notin {Old, Torn} PROVE SummaryIsComplete
    BY DEF SummaryIsComplete
  <2>1. IsSummary
    BY DEF DetectingInv, TypeInv, TypeOK, ReportInv
  <2>2. txt.services = VulsOf(allApi) /\ txt.helpers = HelperVulsOf(allApi, VulsOf(allApi))
    BY <2>1 DEF IsSummary
  <2> QED
    BY <2>2 DEF SummaryIsComplete, VulsOf, Impls, HelperVulsOf, HelpersOf
<1> QED
  BY <1>1, DetectingInvariance, PTL

(* Every method that is reported is declared by a class the list has a     *)
(* service for: the one it was found in.                                   *)
LEMMA ReportedHasService ==
    ASSUME allApi \in ServiceLists, NEW m \in VulsOf(allApi)
    PROVE  \E c \in WithService : m \in declared[c]
<1>1. PICK api \in allApi : ~IsHelperClass(api) /\ m \in Exposed(api)
  BY DEF VulsOf, Impls
<1>2. api.implClass \in Class /\ m \in declared[api.implClass]
  BY <1>1, ApiFacts DEF Exposed
<1>3. api.implClass \in WithService
  BY <1>2 DEF WithService, ServicesFor
<1> QED
  BY <1>2, <1>3

(***************************************************************************)
(* results.json names the same service methods as results.txt.             *)
(***************************************************************************)
THEOREM DetailCorrect == Spec => []DetailDropsNothing
<1>1. DetectingInv => DetailDropsNothing
  <2> SUFFICES ASSUME DetectingInv, json \notin {Old, Torn} PROVE {d.mtd : d \in json} = txt.services
    BY DEF DetailDropsNothing
  <2>1. phase = "done" /\ vulSet = VulsOf(allApi) /\ IsSummary /\ IsDetail
    BY DEF DetectingInv, TypeInv, TypeOK, ReportInv, Judged
  <2>2. txt.services = vulSet
    BY <2>1 DEF IsSummary
  <2>3. PICK serviceFor :
           json = UNION {{[mtd |-> m, serviceName |-> serviceFor[c].serviceName] :
                            m \in vulSet \cap declared[c]} : c \in WithService}
    BY <2>1 DEF IsDetail
  <2>4. ASSUME NEW d \in json PROVE d.mtd \in vulSet
    <3>1. PICK c \in WithService, m \in vulSet : d = [mtd |-> m, serviceName |-> serviceFor[c].serviceName]
      BY <2>3
    <3> QED
      BY <3>1
  <2>5. ASSUME NEW m \in vulSet PROVE \E d \in json : d.mtd = m
    <3>1. PICK c \in WithService : m \in declared[c]
      BY <2>1, ReportedHasService DEF DetectingInv, TypeInv
    <3>2. [mtd |-> m, serviceName |-> serviceFor[c].serviceName] \in json
      BY <2>3, <3>1
    <3> QED
      BY <3>2
  <2> QED
    BY <2>2, <2>4, <2>5
<1> QED
  BY <1>1, DetectingInvariance, PTL

(* A summary and a detail are neither what was there before nor torn. *)
LEMMA SummaryIsWhole ==
    ASSUME DetectingInv, IsSummary
    PROVE  txt \notin {Old, Torn}
<1>1. VulsOf(allApi) \subseteq Method
  BY DEF DetectingInv, TypeInv, TypeOK, VulsOf
<1>2. HelperVulsOf(allApi, VulsOf(allApi)) \subseteq Method
  <2>1. \A api \in allApi : IsHelperClass(api) => HelperApis(api.helperClass) \subseteq Method
    BY ApiFacts, DeclaredAssumption DEF DetectingInv, TypeInv, HelperApis
  <2> QED
    BY <2>1 DEF HelperVulsOf, HelpersOf, Impls
<1>3. txt \in Summary
  BY <1>1, <1>2 DEF IsSummary, Summary
<1> QED
  BY <1>3, ResultsAssumption

LEMMA DetailIsWhole ==
    ASSUME DetectingInv, IsDetail
    PROVE  json \notin {Old, Torn}
<1>1. PICK serviceFor \in [WithService -> allApi] :
        json = UNION {{[mtd |-> m, serviceName |-> serviceFor[c].serviceName] :
                          m \in vulSet \cap declared[c]} : c \in WithService}
  BY DEF IsDetail
<1>2. \A c \in WithService : serviceFor[c].serviceName \in ServiceName
  BY DEF DetectingInv, TypeInv, TypeOK, ServiceApiClass
<1>3. vulSet \subseteq Method
  BY DEF DetectingInv, TypeInv, TypeOK
<1>4. \A d \in json : d \in [mtd : Method, serviceName : ServiceName]
  <2> SUFFICES ASSUME NEW d \in json PROVE d \in [mtd : Method, serviceName : ServiceName]
    OBVIOUS
  <2>1. PICK c \in WithService, m \in vulSet : d = [mtd |-> m, serviceName |-> serviceFor[c].serviceName]
    BY <1>1
  <2> QED
    BY <1>2, <1>3, <2>1
<1>5. json \in Detail
  BY <1>4 DEF Detail
<1> QED
  BY <1>5, ResultsAssumption

(***************************************************************************)
(* Whichever write fails, results.json of this run is never beside another *)
(* results.txt than that of this run, and both are whole when it is done.  *)
(***************************************************************************)
THEOREM FilesCorrect == Spec => []FilesOfOneRun
<1>1. DetectingInv => FilesOfOneRun
  <2> SUFFICES ASSUME DetectingInv PROVE FilesOfOneRun
    OBVIOUS
  <2>1. phase \in {"impl", "helper", "summary", "detail", "done", "panicked"}
    BY DEF DetectingInv, TypeInv, TypeOK
  <2>2. json # Old => IsSummary
    BY <2>1 DEF DetectingInv, ReportInv
  <2>3. phase = "done" => IsDetail
    BY DEF DetectingInv, ReportInv
  <2>4. phase # "done" => json \in {Old, Torn}
    BY <2>1 DEF DetectingInv, ReportInv
  <2> QED
    BY <2>2, <2>3, <2>4, SummaryIsWhole, DetailIsWhole DEF FilesOfOneRun
<1> QED
  BY <1>1, DetectingInvariance, PTL

=============================================================================
