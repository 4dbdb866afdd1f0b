-------------------------- MODULE JimpleValueSolver --------------------------
(***************************************************************************)
(* services/JimpleValueSolver.kt, with the test resolveServiceImplInMethod *)
(* gives it: the class of a value in one method body, looked for backwards *)
(* along the definitions until one says more than IBinder.                 *)
(*                                                                         *)
(* A value is named by what getExprValue makes of it: the operand of a     *)
(* cast, the base object of a field, a local itself; Null is any value     *)
(* that is never defined, the result of an invocation or a constant.       *)
(***************************************************************************)
EXTENDS ClassHierarchy, Sequences, FiniteSetsExt

CONSTANTS
    IBinder,    \* android.os.IBinder
    Value,      \* locals and parameters
    Throws      \* the search ends with an exception of Soot

(***************************************************************************)
(* A definition gives `left' a value of class type (Null for a primitive   *)
(* one); invoke tells an invocation of asBinder and one whose method Soot  *)
(* cannot resolve from other invocations and from other values.            *)
(***************************************************************************)
Define ==
    [kind : {"define"}, left : Value, right : Value \cup {Null}, type : Class \cup {Null},
     isNull : BOOLEAN, invoke : {"none", "asBinder", "other", "unknown"}]

Deep == 3

(***************************************************************************)
(* resolveValueFromDefinitionStmt.  The class of asBinder() is the one the *)
(* method belongs to.                                                      *)
(***************************************************************************)
ClassOf(u, curCls) ==
    CASE u.invoke = "unknown" -> Throws
      [] u.invoke = "asBinder" -> curCls
      [] OTHER -> u.type

(* The statements that are not ignored; the first of them counts. *)
Defining(body, v, curCls) ==
    {i \in DOMAIN body : /\ body[i].kind = "define" /\ body[i].left = v /\ ~body[i].isNull
                         /\ ClassOf(body[i], curCls) # Null}

(***************************************************************************)
(* startToSearchValue: the work list holds one value at a time, the budget *)
(* is spent value by value.                                                *)
(***************************************************************************)
(* seeded fault: the budget is tested after the value is resolved *)
SolvedFault(body, curCls, arg) ==
    LET search[lev \in 0 .. Deep] ==
            [v \in Value \cup {Null} |->
                LET D == Defining(body, v, curCls)
                    first == body[Min(D)]
                IN  IF D = {} THEN Null
                    ELSE IF ClassOf(first, curCls) # IBinder THEN ClassOf(first, curCls)
                    ELSE IF lev = 0 THEN Null
                    ELSE search[lev - 1][first.right]]
    IN  search[Deep][arg]

Solved(body, curCls, arg) ==
    LET search[lev \in 0 .. Deep] ==
            [v \in Value \cup {Null} |->
                LET D == Defining(body, v, curCls)
                    first == body[Min(D)]
                IN  IF lev = 0 \/ D = {} THEN Null
                    ELSE IF ClassOf(first, curCls) # IBinder THEN ClassOf(first, curCls)
                    ELSE search[lev - 1][first.right]]
    IN  search[Deep][arg]

-----------------------------------------------------------------------------
(***************************************************************************)
(* Without a search: statements that define a value first, and of them     *)
(* those that say no more than IBinder and lead to the one that defines    *)
(* their own value.  The class is that of the first definition of the      *)
(* argument, or of one that is at most two of these steps away.            *)
(***************************************************************************)
FirstDefines(body, curCls) ==
    LET D == {i \in DOMAIN body : body[i].kind = "define" /\ ~body[i].isNull /\ ClassOf(body[i], curCls) # Null}
    IN  {i \in D : \A j \in D : body[j].left = body[i].left => i <= j}

Leads(body, curCls, F) ==
    {e \in F \X F : ClassOf(body[e[1]], curCls) = IBinder /\ body[e[1]].right = body[e[2]].left}

SolvedByChain(body, curCls, arg) ==
    LET F == FirstDefines(body, curCls)
        E == Leads(body, curCls, F)
        start == {i \in F : body[i].left = arg}
        next == {e[2] : e \in {x \in E : x[1] \in start}}
        third == {e[2] : e \in {x \in E : x[1] \in next}}
        saying == {i \in start \cup next \cup third : ClassOf(body[i], curCls) # IBinder}
    IN  IF saying = {} THEN Null ELSE ClassOf(body[CHOOSE i \in saying : TRUE], curCls)

=============================================================================
