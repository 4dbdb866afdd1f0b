---------------------------- MODULE ClangBinding ----------------------------
(***************************************************************************)
(* A program that uses clang/cindex.py: it imports the module, sets the    *)
(* library and loads it with the first call; then it makes, passes on and  *)
(* drops objects, and may walk a translation unit, while it does nothing   *)
(* else.                                                                   *)
(***************************************************************************)
EXTENDS ClangObjects, CursorWalk

vars == <<enumVars, libVars, objectVars, walkVars>>

Init == EnumInit /\ LibInit /\ ObjectInit /\ WalkInit

ImportModule ==
    /\ RegisterKind \/ NextClass
    /\ UNCHANGED <<libVars, objectVars, walkVars>>

(* conf.lib is asked for by every function, so it is loaded first. *)
UseLibrary ==
    /\ Imported
    /\ LibNext
    /\ UNCHANGED <<enumVars, objectVars, walkVars>>

UseObjects ==
    /\ loaded /\ walkState = "none"
    /\ ObjectNext
    /\ UNCHANGED <<enumVars, libVars, walkVars>>

(* From a fresh index: parse, ask for the cursor of the unit, walk. *)
Walk ==
    /\ loaded /\ heap = <<>> /\ "visitChildren" \notin lib.without
    /\ WalkNext
    /\ UNCHANGED <<enumVars, libVars, objectVars>>

Next ==
    \/ ImportModule
    \/ UseLibrary
    \/ UseObjects
    \/ Walk

Spec == Init /\ [][Next]_vars

-----------------------------------------------------------------------------
(***************************************************************************)
(* Type invariant of the four parts; the lists of kinds do not change any  *)
(* more when the library is loaded.                                        *)
(***************************************************************************)
TypeOK == (~loaded => EnumTypeOK) /\ LibTypeOK /\ ObjectTypeOK /\ WalkTypeOK

(* FromIdIsExact, from the end of the import until the library is loaded. *)
KindsAreExact == ~loaded => FromIdIsExact

=============================================================================
