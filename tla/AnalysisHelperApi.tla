-------------------------- MODULE AnalysisHelperApi --------------------------
(***************************************************************************)
(* The search of services/AnalysisHelperApi.kt: does a helper method reach *)
(* a call of a vulnerable service method?  Unlike CallGraphAnalysis it     *)
(* keeps no visited set: only the level ends the recursion.                *)
(***************************************************************************)
EXTENDS HelperCalls, Integers

CONSTANTS
    Program,    \* the programs considered
    helperLev,  \* the level the search starts with
    NoMethod    \* null

ASSUME ProgramAssumption == Program \subseteq [Method -> HelperBody]
ASSUME NoMethodAssumption == NoMethod \notin Method
ASSUME LevAssumption == helperLev \in Nat \ {0}

VARIABLES
    body,           \* the program under analysis
    vulSet,         \* exitPoints: the vulnerable methods found before
    entryMtd,       \* the helper method the search is about
    stack,          \* activation records of callGraphAnalysis, the running one last
    called,         \* the vulnerable method found, or null
    done            \* findVulIPCCall has returned

searchVars == <<body, vulSet, entryMtd, stack, called, done>>

(* What no step of the search changes. *)
given == <<body, vulSet, entryMtd>>

Frame == [mtd : Method, lev : Int, pc : Nat]

(* The records when callGraphAnalysis(m) is called.                        *)
Entered(m) == <<[mtd |-> m, lev |-> helperLev, pc |-> 0]>>

SearchInit ==
    /\ body \in Program
    /\ vulSet \in SUBSET Method
    /\ entryMtd \in Method
    /\ stack = Entered(entryMtd)
    /\ called = NoMethod
    /\ done = FALSE

Top == stack[Len(stack)]

AtStmt == stack # <<>> /\ Top.pc < Len(body[Top.mtd])

CurStmt == body[Top.mtd][Top.pc + 1]

Advanced == [stack EXCEPT ![Len(stack)] = [Top EXCEPT !.pc = Top.pc + 1]]

(***************************************************************************)
(* A call is followed with one level less; the invocation returns at once  *)
(* when that leaves none.                                                  *)
(***************************************************************************)
(* seeded fault: the same call is next again when it returns *)
CallDeeperFault ==
    /\ AtStmt /\ CurStmt.kind = "call"
    /\ Top.lev - 1 > 0
    /\ stack' = Append(stack, [mtd |-> CurStmt.callee, lev |-> Top.lev - 1, pc |-> 0])
    /\ UNCHANGED <<given, called, done>>

CallDeeper ==
    /\ AtStmt /\ CurStmt.kind = "call"
    /\ Top.lev - 1 > 0
    /\ stack' = Append(Advanced, [mtd |-> CurStmt.callee, lev |-> Top.lev - 1, pc |-> 0])
    /\ UNCHANGED <<given, called, done>>

CallAtLimit ==
    /\ AtStmt /\ CurStmt.kind = "call"
    /\ Top.lev - 1 <= 0
    /\ stack' = Advanced
    /\ UNCHANGED <<given, called, done>>

(***************************************************************************)
(* The first match in the HashSet's order is kept, and every invocation on *)
(* the stack returns because `called' is set.                              *)
(***************************************************************************)
FindVul(v) ==
    /\ AtStmt /\ CurStmt.kind = "ipc"
    /\ v \in vulSet /\ subSignature[v] = CurStmt.sub
    /\ called' = v
    /\ stack' = <<>>
    /\ UNCHANGED <<given, done>>

IgnoreInterface ==
    /\ AtStmt /\ CurStmt.kind # "call"
    /\ ~Matches(CurStmt, vulSet)
    /\ stack' = Advanced
    /\ UNCHANGED <<given, called, done>>

(* seeded fault: a method that made a call is left after it *)
ReturnFault ==
    /\ stack # <<>> /\ Top.pc > 0
    /\ body[Top.mtd][Top.pc].kind = "call"
    /\ stack' = SubSeq(stack, 1, Len(stack) - 1)
    /\ UNCHANGED <<given, called, done>>

Return ==
    /\ stack # <<>> /\ Top.pc = Len(body[Top.mtd])
    /\ stack' = SubSeq(stack, 1, Len(stack) - 1)
    /\ UNCHANGED <<given, called, done>>

Finish ==
    /\ stack = <<>> /\ ~done
    /\ done' = TRUE
    /\ UNCHANGED <<given, stack, called>>

SearchNext ==
    \/ CallDeeper
    \/ CallAtLimit
    \/ \E v \in Method : FindVul(v)
    \/ IgnoreInterface
    \/ Return
    \/ Finish

(* One thread that nothing else blocks. *)
SearchSpec == SearchInit /\ [][SearchNext]_searchVars /\ WF_searchVars(SearchNext)

-----------------------------------------------------------------------------
(***************************************************************************)
(* Type invariant.                                                         *)
(***************************************************************************)
SearchTypeOK ==
    /\ body \in [Method -> HelperBody]
    /\ vulSet \subseteq Method
    /\ entryMtd \in Method
    /\ stack \in Seq(Frame)
    /\ called \in Method \cup {NoMethod}
    /\ done \in BOOLEAN

(***************************************************************************)
(* The verdict is exact: non-null just when a call path within the level   *)
(* ends in a call of a vulnerable method, whatever the search tried first. *)
(* Without a visited set no path is cut short by an earlier, longer one.   *)
(***************************************************************************)
VerdictIsExact ==
    done => (called # NoMethod <=> FindsIpc(body, vulSet, entryMtd, helperLev))

(***************************************************************************)
(* Recursive programs do not make the search run forever.                  *)
(***************************************************************************)
Termination == <>done

-----------------------------------------------------------------------------
(***************************************************************************)
(* THE INDUCTIVE INVARIANT                                                 *)
(***************************************************************************)

(***************************************************************************)
(* While nothing was found, no statement before pc of any record hides a   *)
(* vulnerable call, but for the callee that is being searched right now.   *)
(***************************************************************************)
Fruitless(m, lev, s) ==
    /\ ~Matches(s, vulSet)
    /\ s.kind = "call" => ~FindsIpc(body, vulSet, s.callee, lev - 1)

Pending(i, k) ==
    i < Len(stack) /\ k = stack[i].pc

SearchedOK ==
    called = NoMethod =>
        \A i \in 1 .. Len(stack) : \A k \in 1 .. stack[i].pc :
            Pending(i, k) \/ Fruitless(stack[i].mtd, stack[i].lev, body[stack[i].mtd][k])

(***************************************************************************)
(* The records are a call path from the entry, one level less each.        *)
(***************************************************************************)
PathOK ==
    \A i \in 1 .. Len(stack) :
        /\ stack[i].lev = helperLev + 1 - i /\ stack[i].lev > 0
        /\ stack[i].pc <= Len(body[stack[i].mtd])
        /\ i = 1 => stack[i].mtd = entryMtd
        /\ i < Len(stack) =>
              /\ stack[i].pc > 0
              /\ body[stack[i].mtd][stack[i].pc].kind = "call"
              /\ body[stack[i].mtd][stack[i].pc].callee = stack[i + 1].mtd

OutcomeOK ==
    /\ called # NoMethod => stack = <<>> /\ FindsIpc(body, vulSet, entryMtd, helperLev)
    /\ called = NoMethod /\ stack = <<>> => ~FindsIpc(body, vulSet, entryMtd, helperLev)
    /\ done => stack = <<>>

IInv == SearchTypeOK /\ SearchedOK /\ PathOK /\ OutcomeOK

=============================================================================
