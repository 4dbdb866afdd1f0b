--------------------------- MODULE PointToAnalysis ---------------------------
(***************************************************************************)
(* services/PointToAnalysis.kt: which class a local of one method body     *)
(* holds, and whether its value is created in the body.  run() collects    *)
(* the parameters, then walks the assignments once, in order; after it     *)
(* ExitPointChecker asks about receivers and arguments.                    *)
(*                                                                         *)
(* A statement gives `left' a value:                                       *)
(*   "param"   a parameter of class cls                                    *)
(*   "field"   an instance field whose type is the class cls               *)
(*   "copy"    the local `right'                                           *)
(*   "new"     a new object of class cls                                   *)
(*   "invoke"  the result of an interface invocation: cls is its declared  *)
(*             class, or for asBinder() the class declaring the method     *)
(*   "other"   anything else (a primitive, a virtual call, a static field) *)
(***************************************************************************)
EXTENDS ClassHierarchy, Sequences

CONSTANTS
    Local,
    Bodies          \* the method bodies considered

(* Null stands for what is absent from a map. *)
ASSUME NullAssumption == Null \notin Local
ASSUME ClassesAssumption == HierarchyAssumption

Assign ==
    [kind : {"param", "field", "copy", "new", "invoke", "other"},
     left : Local, right : Local, cls : Class]

ASSUME BodiesAssumption == Bodies \subseteq Seq(Assign)

VARIABLES
    units,          \* the body
    pass,           \* "params" and "assigns" of run(), "asking", "following"
    pc,             \* statements of this pass already seen
    valueDefines,   \* the class of each local
    pointToSet,     \* the local each local was last copied from
    localValues,    \* locals that held a new object
    loc,            \* the local getLocalPointTo is asked about
    cur,            \* where its loop is
    visitSet,       \* the locals its loop was at
    answer          \* the local it returned

vars == <<units, pass, pc, valueDefines, pointToSet, localValues, loc, cur, visitSet, answer>>

maps == <<valueDefines, pointToSet, localValues>>

query == <<loc, cur, visitSet, answer>>

Init ==
    /\ units \in Bodies
    /\ pass = "params" /\ pc = 0
    /\ valueDefines = [l \in Local |-> Null]
    /\ pointToSet = [l \in Local |-> Null]
    /\ localValues = {}
    /\ loc = Null /\ cur = Null /\ visitSet = {} /\ answer = Null

-----------------------------------------------------------------------------
(***************************************************************************)
(* run(): parameters of a binder class first, whatever their position,     *)
(* then the assignments.  A later class replaces an earlier one; a copy    *)
(* sets no class, and leaves the one the local has.                        *)
(***************************************************************************)
Unit == units[pc + 1]

BinderParameter ==
    /\ pass = "params" /\ pc < Len(units)
    /\ pc' = pc + 1
    /\ valueDefines' = IF Unit.kind = "param" /\ IsBinderClass(Unit.cls)
                       THEN [valueDefines EXCEPT ![Unit.left] = Unit.cls]
                       ELSE valueDefines
    /\ UNCHANGED <<units, pass, pointToSet, localValues, query>>

StartAssigns ==
    /\ pass = "params" /\ pc = Len(units)
    /\ pass' = "assigns" /\ pc' = 0
    /\ UNCHANGED <<units, maps, query>>

DefinesClass(u) == u.kind \in {"field", "new", "invoke"}

(* seeded fault: the first class found is kept *)
FindValueDefinesFault ==
    /\ pass = "assigns" /\ pc < Len(units)
    /\ pc' = pc + 1
    /\ valueDefines' = IF DefinesClass(Unit) /\ valueDefines[Unit.left] = Null
                       THEN [valueDefines EXCEPT ![Unit.left] = Unit.cls]
                       ELSE valueDefines
    /\ pointToSet' = IF Unit.kind = "copy"
                     THEN [pointToSet EXCEPT ![Unit.left] = Unit.right]
                     ELSE pointToSet
    /\ localValues' = IF Unit.kind = "new" THEN localValues \cup {Unit.left} ELSE localValues
    /\ UNCHANGED <<units, pass, query>>

FindValueDefines ==
    /\ pass = "assigns" /\ pc < Len(units)
    /\ pc' = pc + 1
    /\ valueDefines' = IF DefinesClass(Unit)
                       THEN [valueDefines EXCEPT ![Unit.left] = Unit.cls]
                       ELSE valueDefines
    /\ pointToSet' = IF Unit.kind = "copy"
                     THEN [pointToSet EXCEPT ![Unit.left] = Unit.right]
                     ELSE pointToSet
    /\ localValues' = IF Unit.kind = "new" THEN localValues \cup {Unit.left} ELSE localValues
    /\ UNCHANGED <<units, pass, query>>

RunReturns ==
    /\ pass = "assigns" /\ pc = Len(units)
    /\ pass' = "asking"
    /\ UNCHANGED <<units, pc, maps, query>>

-----------------------------------------------------------------------------
(***************************************************************************)
(* getLocalPointTo: the loop walks the copies until a local that was not   *)
(* copied, or one it was at before.  What it returns is the local it was   *)
(* asked about: the only other return is behind a test for a null value,   *)
(* which pointToSet never holds.                                           *)
(***************************************************************************)
Ask(l) ==
    /\ pass = "asking"
    /\ pass' = "following"
    /\ loc' = l /\ cur' = l
    /\ visitSet' = {} /\ answer' = Null
    /\ UNCHANGED <<units, pc, maps>>

KeepsWalking == pointToSet[cur] # Null /\ cur \notin visitSet

(* seeded fault: the loop does not remember where it was *)
FollowCopyFault ==
    /\ pass = "following" /\ KeepsWalking
    /\ cur' = pointToSet[cur]
    /\ UNCHANGED <<units, pass, pc, maps, loc, visitSet, answer>>

FollowCopy ==
    /\ pass = "following" /\ KeepsWalking
    /\ visitSet' = visitSet \cup {cur}
    /\ cur' = pointToSet[cur]
    /\ UNCHANGED <<units, pass, pc, maps, loc, answer>>

ReturnLocal ==
    /\ pass = "following" /\ ~KeepsWalking
    /\ answer' = loc
    /\ pass' = "asking"
    /\ UNCHANGED <<units, pc, maps, loc, cur, visitSet>>

Next ==
    \/ BinderParameter
    \/ StartAssigns
    \/ FindValueDefines
    \/ RunReturns
    \/ \E l \in Local : Ask(l)
    \/ FollowCopy
    \/ ReturnLocal

(* The callers decide when to ask; a call that has begun runs on. *)
Spec ==
    /\ Init /\ [][Next]_vars
    /\ WF_vars(BinderParameter) /\ WF_vars(StartAssigns) /\ WF_vars(FindValueDefines)
    /\ WF_vars(RunReturns) /\ WF_vars(FollowCopy) /\ WF_vars(ReturnLocal)

-----------------------------------------------------------------------------
(***************************************************************************)
(* What the callers get.                                                   *)
(***************************************************************************)
Answered == pass = "asking" /\ answer # Null

GetLocalDefine == valueDefines[answer]

IsLocalValue == answer \in localValues

(***************************************************************************)
(* Type invariant.                                                         *)
(***************************************************************************)
TypeOK ==
    /\ units \in Seq(Assign)
    /\ pass \in {"params", "assigns", "asking", "following"}
    /\ pc \in 0 .. Len(units)
    /\ valueDefines \in [Local -> Class \cup {Null}]
    /\ pointToSet \in [Local -> Local \cup {Null}]
    /\ localValues \subseteq Local
    /\ {loc, cur, answer} \subseteq Local \cup {Null}
    /\ visitSet \subseteq Local

(***************************************************************************)
(* The answer for a local is the class of the last statement that gives it *)
(* one itself, or else of its last binder parameter statement; and it is a *)
(* local value just when some statement creates an object for it.          *)
(***************************************************************************)
LastOf(S) == CHOOSE i \in S : \A j \in S : j <= i

AnswerIsOwnLastDefine ==
    Answered =>
        LET own == {i \in DOMAIN units : units[i].left = loc}
            gives == {i \in own : DefinesClass(units[i])}
            params == {i \in own : units[i].kind = "param" /\ IsBinderClass(units[i].cls)}
        IN  /\ GetLocalDefine = IF gives # {} THEN units[LastOf(gives)].cls
                                ELSE IF params # {} THEN units[LastOf(params)].cls
                                ELSE Null
            /\ IsLocalValue <=> \E i \in own : units[i].kind = "new"

(***************************************************************************)
(* Locals copied in a circle do not keep the walk going forever.           *)
(***************************************************************************)
EveryQuestionIsAnswered == (pass = "following") ~> Answered

(***************************************************************************)
(* "left = right, left value is point to right" (PointToAnalysis.kt:74):   *)
(* a local that was only ever copied from another one has that one's class.*)
(***************************************************************************)
CopiesAreFollowed ==
    Answered =>
        LET own == {i \in DOMAIN units : units[i].left = loc}
        IN  own # {} /\ (\A i \in own : units[i].kind = "copy")
                => GetLocalDefine = valueDefines[units[LastOf(own)].right]

=============================================================================
