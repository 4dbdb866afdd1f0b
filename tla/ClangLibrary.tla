---------------------------- MODULE ClangLibrary ----------------------------
(***************************************************************************)
(* How clang/cindex.py finds and loads libclang: Config, its setters, the  *)
(* cached property conf.lib and the table functionList, which gives every  *)
(* function of libclang its result type and the conversion of its result.  *)
(***************************************************************************)
EXTENDS FiniteSets

CONSTANTS
    Directory, LibraryFile,     \* the values of set_library_path and set_library_file
    Installed,                  \* file names under which there is a library
    Lacks,                      \* for each of them, functions of the table it does not have
    None

(***************************************************************************)
(* functionList.  A row is a function of libclang: what it is called on,   *)
(* what kind of Python object comes of its result, and by which conversion *)
(* that object is given references:                                        *)
(*    "from_result", "from_cursor_result"   the errcheck of the row        *)
(*    "stored"   the caller sets _tu (visitor, from_location, cursor)      *)
(*    "self"     the caller passes itself to the constructor               *)
(*    "nothing"  the object holds no reference                             *)
(* The rows whose result is a number, a text or a flag are left out, those *)
(* about completion strings, which only codeComplete gives, too; so is     *)
(* clang_getIncludedFile, whose result type File raises in its constructor *)
(* since it is called with a number.                                       *)
(***************************************************************************)
Row(name, on, gives, by) == [name |-> name, on |-> on, gives |-> gives, by |-> by]

RowsToDisposeTokens ==
    {Row("annotateTokens", "token", "cursor", "stored"),
     Row("CompilationDatabase_fromDirectory", "none", "database", "nothing"),
     Row("CompilationDatabase_getAllCompileCommands", "database", "commands", "nothing"),
     Row("CompilationDatabase_getCompileCommands", "database", "commands", "nothing"),
     Row("CompileCommands_getCommand", "commands", "command", "self"),
     Row("codeCompleteAt", "tu", "results", "nothing"),
     Row("codeCompleteGetDiagnostic", "results", "diagnostic", "nothing"),
     Row("createIndex", "none", "index", "nothing"),
     Row("createTranslationUnit", "index", "tu", "self")}

RowsToGetCursorType ==
    {Row("getArgType", "type", "type", "from_result"),
     Row("getArrayElementType", "type", "type", "from_result"),
     Row("getCanonicalCursor", "cursor", "cursor", "from_cursor_result"),
     Row("getCanonicalType", "type", "type", "from_result"),
     Row("getCursor", "tu", "cursor", "stored"),
     Row("getCursorDefinition", "cursor", "cursor", "from_result"),
     Row("getCursorExtent", "cursor", "location", "nothing"),
     Row("getCursorLexicalParent", "cursor", "cursor", "from_cursor_result"),
     Row("getCursorLocation", "cursor", "location", "nothing"),
     Row("getCursorReferenced", "cursor", "cursor", "from_result"),
     Row("getCursorReferenceNameRange", "cursor", "location", "nothing"),
     Row("getCursorSemanticParent", "cursor", "cursor", "from_cursor_result"),
     Row("getCursorType", "cursor", "type", "from_result")}

RowsToGetNumDiagnosticsInSet ==
    {Row("getDiagnostic", "tu", "diagnostic", "nothing"),
     Row("getDiagnosticInSet", "diagnostic", "diagnostic", "nothing"),
     Row("getDiagnosticFixIt", "diagnostic", "location", "nothing"),
     Row("getDiagnosticLocation", "diagnostic", "location", "nothing"),
     Row("getDiagnosticRange", "diagnostic", "location", "nothing"),
     Row("getElementType", "type", "type", "from_result"),
     Row("getEnumDeclIntegerType", "cursor", "type", "from_result"),
     Row("getFile", "tu", "file", "nothing"),
     Row("getIBOutletCollectionType", "cursor", "type", "from_result"),
     Row("getInclusions", "tu", "file", "nothing"),
     Row("getInstantiationLocation", "location", "file", "nothing"),
     Row("getLocation", "tu", "location", "nothing"),
     Row("getLocationForOffset", "tu", "location", "nothing")}

RowsToIsRestrictQualifiedType ==
    {Row("getOverloadedDecl", "cursor", "cursor", "from_cursor_result"),
     Row("getPointeeType", "type", "type", "from_result"),
     Row("getRange", "location", "location", "nothing"),
     Row("getRangeEnd", "location", "location", "nothing"),
     Row("getRangeStart", "location", "location", "nothing"),
     Row("getResultType", "type", "type", "from_result"),
     Row("getSpecializedCursorTemplate", "cursor", "cursor", "from_cursor_result"),
     Row("getTokenExtent", "token", "location", "nothing"),
     Row("getTokenLocation", "token", "location", "nothing"),
     Row("getTranslationUnitCursor", "tu", "cursor", "from_result"),
     Row("getTypeDeclaration", "type", "cursor", "from_result"),
     Row("getTypedefDeclUnderlyingType", "cursor", "type", "from_result")}

RowsToVisitFields ==
    {Row("parseTranslationUnit", "index", "tu", "self"),
     Row("visitChildren", "cursor", "cursor", "stored"),
     Row("Cursor_getArgument", "cursor", "cursor", "from_result"),
     Row("Cursor_getTemplateArgumentType", "cursor", "type", "from_result"),
     Row("Type_getClassType", "type", "type", "from_result"),
     Row("Type_getNamedType", "type", "type", "from_result"),
     Row("Type_visitFields", "type", "cursor", "stored")}

FunctionList ==
    RowsToDisposeTokens \cup RowsToGetCursorType \cup RowsToGetNumDiagnosticsInSet
    \cup RowsToIsRestrictQualifiedType \cup RowsToVisitFields

FunctionNames == {r.name : r \in FunctionList}

FileName == Directory \cup LibraryFile \cup {None}

ASSUME InstalledAssumption ==
    /\ Directory \cap LibraryFile = {} /\ None \notin Directory \cup LibraryFile
    /\ Installed \subseteq FileName
    /\ Lacks \in [Installed -> SUBSET FunctionNames]

VARIABLES
    libraryPath, libraryFile, compatibilityCheck, loaded,   \* class attributes of Config
    lib     \* conf.lib once it is cached: the file, and the functions passed over

libVars == <<libraryPath, libraryFile, compatibilityCheck, loaded, lib>>

NotCached == [from |-> None, without |-> FunctionNames]

LibInit ==
    /\ libraryPath = None /\ libraryFile = None
    /\ compatibilityCheck = TRUE /\ loaded = FALSE
    /\ lib = NotCached

-----------------------------------------------------------------------------
(* The setters raise once the library is loaded. *)
SetLibraryPath(d) ==
    /\ ~loaded
    /\ libraryPath' = d
    /\ UNCHANGED <<libraryFile, compatibilityCheck, loaded, lib>>

SetLibraryFile(f) ==
    /\ ~loaded
    /\ libraryFile' = f
    /\ UNCHANGED <<libraryPath, compatibilityCheck, loaded, lib>>

SetCompatibilityCheck(b) ==
    /\ ~loaded
    /\ compatibilityCheck' = b
    /\ UNCHANGED <<libraryPath, libraryFile, loaded, lib>>

(* get_filename: the file, or libclang.so in the path, or wherever the     *)
(* system finds it (None).                                                 *)
GetFilename == IF libraryFile # None THEN libraryFile ELSE libraryPath

(* register_functions passes a missing function over, or raises for it. *)
CanLoad(f) == f \in Installed /\ (compatibilityCheck => Lacks[f] = {})

(* The first use of conf.lib; the value is kept by the cached property. *)
LoadLib ==
    /\ ~loaded
    /\ CanLoad(GetFilename)
    /\ lib' = [from |-> GetFilename, without |-> Lacks[GetFilename]]
    /\ loaded' = TRUE
    /\ UNCHANGED <<libraryPath, libraryFile, compatibilityCheck>>

LibNext ==
    \/ \E d \in Directory : SetLibraryPath(d)
    \/ \E f \in LibraryFile : SetLibraryFile(f)
    \/ \E b \in BOOLEAN : SetCompatibilityCheck(b)
    \/ LoadLib

LibTypeOK ==
    /\ libraryPath \in Directory \cup {None} /\ libraryFile \in LibraryFile \cup {None}
    /\ compatibilityCheck \in BOOLEAN /\ loaded \in BOOLEAN
    /\ lib \in [from : FileName, without : SUBSET FunctionNames]

=============================================================================
