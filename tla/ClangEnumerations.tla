-------------------------- MODULE ClangEnumerations --------------------------
(***************************************************************************)
(* The enumerations of clang/cindex.py.  While the module is imported each *)
(* statement Class.NAME = Class(value) puts a kind at its place in the     *)
(* list _kinds of its class; from_id looks a value of libclang up in it.   *)
(*                                                                         *)
(* A kind is its value; Gap is the None of a place no kind was put at.     *)
(* TokenKind keeps a dictionary, the other classes a list.                 *)
(***************************************************************************)
EXTENDS Integers, Sequences, FiniteSets, FiniteSetsExt

CONSTANTS
    Gap,        \* None
    Unknown     \* the ValueError of from_id and from_value

ASSUME GapAssumption == Gap \notin Int /\ Unknown \notin Int /\ Gap # Unknown

-----------------------------------------------------------------------------
(***************************************************************************)
(* The values of CursorKind, in the sections of the source.                *)
(***************************************************************************)
DeclarationKinds == 1 .. 39

ReferenceKinds == 40 .. 50

InvalidKinds == 70 .. 73

ExpressionKinds == 100 .. 131

ObjectiveExpressionKinds == 132 .. 148

StatementKinds == 200 .. 231

DirectiveKinds == 232 .. 271

OtherKinds == {300} \cup (400 .. 419) \cup (500 .. 503) \cup (600 .. 603) \cup {700}

CursorKinds ==
    DeclarationKinds \cup ReferenceKinds \cup InvalidKinds \cup ExpressionKinds
    \cup ObjectiveExpressionKinds \cup StatementKinds \cup DirectiveKinds \cup OtherKinds

TemplateArgumentKinds == 0 .. 4

ExceptionSpecificationKinds == 0 .. 8

StorageClasses == 0 .. 7

AvailabilityKinds == 0 .. 3

AccessSpecifiers == 0 .. 4

TypeKinds == (0 .. 31) \cup (100 .. 160)

RefQualifierKinds == 0 .. 2

LinkageKinds == 0 .. 4

TLSKinds == 0 .. 2

TokenKinds == 0 .. 4

(* The classes, in the order of the source. *)
Classes ==
    <<"CursorKind", "TemplateArgumentKind", "ExceptionSpecificationKind", "StorageClass",
      "AvailabilityKind", "AccessSpecifier", "TypeKind", "RefQualifierKind", "LinkageKind",
      "TLSKind", "TokenKind">>

Values ==
    [CursorKind |-> CursorKinds, TemplateArgumentKind |-> TemplateArgumentKinds,
     ExceptionSpecificationKind |-> ExceptionSpecificationKinds, StorageClass |-> StorageClasses,
     AvailabilityKind |-> AvailabilityKinds, AccessSpecifier |-> AccessSpecifiers,
     TypeKind |-> TypeKinds, RefQualifierKind |-> RefQualifierKinds, LinkageKind |-> LinkageKinds,
     TLSKind |-> TLSKinds, TokenKind |-> TokenKinds]

VARIABLES
    class,      \* the class being filled, a place of Classes, or one behind
    registered, \* the values of it that are registered
    kinds       \* _kinds of every class, _value_map of TokenKind

enumVars == <<class, registered, kinds>>

EnumInit ==
    /\ class = 1 /\ registered = {}
    /\ kinds = [c \in DOMAIN Values |-> <<>>]

Imported == class > Len(Classes)

-----------------------------------------------------------------------------
(* BaseEnumeration.__init__: fill up with None, then put the kind. *)
WithRoomFor(list, value) ==
    IF value < Len(list) THEN list
    ELSE list \o [i \in 1 .. value - Len(list) + 1 |-> Gap]

(* seeded fault: the places in between are taken by the new kind *)
LoadedFault(list, value) ==
    [i \in 1 .. Len(WithRoomFor(list, value)) |-> IF i <= Len(list) THEN list[i] ELSE value]

Loaded(list, value) == [WithRoomFor(list, value) EXCEPT ![value + 1] = value]

(* "already loaded": the constructor raises, and the import with it. *)
IsLoaded(list, value) == value < Len(list) /\ list[value + 1] # Gap

RegisterKind ==
    /\ ~Imported
    /\ LET c == Classes[class]
           left == Values[c] \ registered
       IN  /\ left # {}
           /\ ~IsLoaded(kinds[c], Min(left))
           /\ registered' = registered \cup {Min(left)}
           /\ kinds' = [kinds EXCEPT ![c] = Loaded(@, Min(left))]
    /\ class' = class

NextClass ==
    /\ ~Imported
    /\ registered = Values[Classes[class]]
    /\ class' = class + 1 /\ registered' = {}
    /\ UNCHANGED kinds

-----------------------------------------------------------------------------
(***************************************************************************)
(* from_id.  A negative value is not refused: Python counts it from the    *)
(* end of the list.                                                        *)
(***************************************************************************)
FromId(c, id) ==
    LET list == kinds[c]
        place == IF id < 0 /\ c # "TokenKind" THEN Len(list) + id + 1 ELSE id + 1
    IN  IF place \notin DOMAIN list \/ list[place] = Gap THEN Unknown ELSE list[place]

EnumTypeOK ==
    /\ class \in 1 .. Len(Classes) + 1
    /\ registered \subseteq 0 .. 700
    /\ \A c \in DOMAIN Values : kinds[c] \in Seq((0 .. 700) \cup {Gap})

(***************************************************************************)
(* Once the module is imported, from_id knows the values of the table and  *)
(* no others, and answers with the kind of that value; but -1, with which  *)
(* libclang reports an error, is taken for the last kind of a list, one of *)
(* a function that does not exist for example.                             *)
(***************************************************************************)
FromIdIsExact ==
    Imported =>
        \A c \in DOMAIN Values :
            /\ \A id \in 0 .. 701 : FromId(c, id) = IF id \in Values[c] THEN id ELSE Unknown
            /\ FromId(c, -1) = IF c = "TokenKind" THEN Unknown ELSE Max(Values[c])

=============================================================================
