---------------------------- MODULE NativeAnalysis ----------------------------
(***************************************************************************)
(* main() and process_jni_dir of the native analyser: start-up, then every *)
(* C++ file of the directory is added to the call graph, the entry points  *)
(* are collected from a second parse of the files, the test file is added, *)
(* and the chains of the entry points are searched and saved.              *)
(*                                                                         *)
(* It composes NativeStartup, NativeCallGraph and NativeChainSearch: the   *)
(* graph is the one the files give, the entry points the names found in    *)
(* them.  The last file is the test file, the others are the directory.    *)
(***************************************************************************)
EXTENDS NativeStartup, NativeNames

CONSTANTS
    NewGlobalRef,   \* the cursor of _JNIEnv::NewGlobalRef
    maxDepth, Old, Torn,
    AndroidFunctions,   \* the cursors whose spelling starts with "android_"
    Worlds          \* what runs are given: arguments, databases, files

VARIABLES
    files, fi, di, ci, methodCalls, failed,
    entryPoints, pending, start, stack, callChains, outcome, file,
    scanned,        \* files of the directory the entry points were taken from
    entries,        \* entry_points of process_jni_dir
    parsedWith      \* history: the arguments each file was added with

graphVars == <<files, fi, di, ci, failed>>

searchVars == <<entryPoints, pending, start, stack, callChains, outcome, file>>

dirVars == <<scanned, entries, parsedWith>>

vars == <<startupVars, graphVars, methodCalls, searchVars, dirVars>>

Graph == INSTANCE NativeCallGraph WITH Inputs <- {w.files : w \in Worlds}

exitPoints == {MethodSimpleName(NewGlobalRef)}

Search == INSTANCE NativeChainSearch WITH Name <- Names, FullName <- FullNames

ASSUME CursorAssumption == NewGlobalRef \in Cursors /\ AndroidFunctions \subseteq Cursors
(* A run is given arguments, two databases and at least the test file. *)
ASSUME WorldsAssumption ==
    \A w \in Worlds : /\ w.argv \in Argv
                      /\ w.databases \in [Database \cup {None} -> Seq(Item)]
                      /\ w.files # <<>>
ASSUME PartsAssumption ==
    /\ Graph!InputsAssumption
    /\ Search!NameAssumption /\ Search!DepthAssumption /\ Search!NoneAssumption

Init ==
    /\ StartupInit
    /\ \E w \in Worlds : argv = w.argv /\ databases = w.databases /\ files = w.files
    /\ fi = 1 /\ di = 1 /\ ci = 0 /\ failed = {}
    /\ methodCalls = [n \in Names |-> {}]
    /\ Search!SearchInit
    /\ scanned = 0 /\ entries = {} /\ parsedWith = <<>>

-----------------------------------------------------------------------------
DirLength == Len(files) - 1

Building == step = "main" /\ outcome = "building"

Startup ==
    /\ outcome = "building"
    /\ StartupNext
    /\ outcome' = IF step' = "exited" THEN "crashed" ELSE outcome
    /\ UNCHANGED <<graphVars, methodCalls, entryPoints, pending, start, stack, callChains,
                   file, dirVars>>

(* os.listdir raises: there is no such directory. *)
ListFails ==
    /\ Building /\ parsedWith = <<>> /\ fi = 1
    /\ outcome' = "crashed"
    /\ UNCHANGED <<startupVars, graphVars, methodCalls, entryPoints, pending, start, stack,
                   callChains, file, dirVars>>

(* add_file asks for the arguments of the file before it is parsed. *)
Ask(i) ==
    /\ i \notin DOMAIN parsedWith
    /\ parsedWith' = [f \in DOMAIN parsedWith \cup {i} |->
                        IF f = i THEN ArgumentsFor(i) ELSE parsedWith[f]]
    /\ UNCHANGED <<startupVars, graphVars, methodCalls, searchVars, scanned, entries>>

(***************************************************************************)
(* The files of the directory, and the test file when all entry points are *)
(* known.                                                                  *)
(***************************************************************************)
AddFile ==
    /\ Building
    /\ fi <= DirLength \/ (fi = Len(files) /\ scanned = DirLength)
    /\ \/ Ask(fi)
       \/ /\ fi \in DOMAIN parsedWith
          /\ Graph!Next
          /\ UNCHANGED <<startupVars, searchVars, dirVars>>

(***************************************************************************)
(* extract_method_defines_in_file: every FUNCTION_DECL, wherever it stands,*)
(* by its spelling.  This parse is not guarded.                            *)
(***************************************************************************)
AllAdded == Building /\ fi > DirLength

EntryNames(f) ==
    {EntryName(d.cursor) : d \in {e \in ToSet(f) : Graph!IsFunction(e) /\ e.cursor \in AndroidFunctions}}

(* seeded fault: the entry points of the last file are kept *)
ExtractMethodsFault ==
    /\ AllAdded /\ scanned < DirLength
    /\ scanned' = scanned + 1
    /\ entries' = EntryNames(files[scanned + 1])
    /\ UNCHANGED <<startupVars, graphVars, methodCalls, searchVars, parsedWith>>

ExtractMethods ==
    /\ AllAdded /\ scanned < DirLength
    /\ scanned' = scanned + 1
    /\ entries' = entries \cup EntryNames(files[scanned + 1])
    /\ UNCHANGED <<startupVars, graphVars, methodCalls, searchVars, parsedWith>>

ExtractFails ==
    /\ AllAdded /\ scanned < DirLength
    /\ outcome' = "crashed"
    /\ UNCHANGED <<startupVars, graphVars, methodCalls, entryPoints, pending, start, stack,
                   callChains, file, dirVars>>

RunAnalysis ==
    /\ Building /\ fi > Len(files)
    /\ Search!RunAnalysis(entries)
    /\ UNCHANGED <<startupVars, graphVars, dirVars>>

SearchStep ==
    /\ Search!Next
    /\ UNCHANGED <<startupVars, graphVars, dirVars>>

Next ==
    \/ Startup
    \/ ListFails
    \/ AddFile
    \/ ExtractMethods
    \/ ExtractFails
    \/ RunAnalysis
    \/ SearchStep

(* One thread that nothing else blocks. *)
Spec == Init /\ [][Next]_vars /\ WF_vars(Next)

-----------------------------------------------------------------------------
(***************************************************************************)
(* Type invariant of the three parts.                                      *)
(***************************************************************************)
TypeOK ==
    /\ StartupTypeOK
    /\ Graph!TypeOK
    /\ Search!TypeOK
    /\ scanned \in 0 .. DirLength /\ entries \subseteq Names
    /\ \A i \in DOMAIN parsedWith : i \in DOMAIN files /\ parsedWith[i] \in Arguments

LostOnlyToEqualFullName == Graph!LostOnlyToEqualFullName

EdgesComeFromDefinitions == Graph!EdgesComeFromDefinitions

ChainLeadsToExit == Search!ChainLeadsToExit

SavedIsComplete == Search!SavedIsComplete

LimitMeansCircle == Search!LimitMeansCircle

Termination == Search!Termination

(***************************************************************************)
(* End to end: a saved result names every function of the directory called *)
(* android_... from which the graph leads to an exit, but for those of a   *)
(* namespace, which the graph keeps under another name; and it names       *)
(* nothing but functions the directory defines.                            *)
(***************************************************************************)
InDirectory == UNION {ToSet(files[i]) : i \in 1 .. DirLength}

EntryFunctions == {d \in InDirectory : d.kind = "function" /\ d.cursor \in AndroidFunctions}

SavedNamesEntryFunctions ==
    file \notin {Old, Torn} =>
        /\ \A d \in EntryFunctions :
              LET n == MethodSimpleName(d.cursor)
              IN  d.cursor.scope = <<>> /\ Search!ReachesExit(n) => n \in DOMAIN file
        /\ \A n \in DOMAIN file : \E d \in InDirectory :
              Graph!IsFunction(d) /\ d.cursor \in AndroidFunctions /\ EntryName(d.cursor) = n

(***************************************************************************)
(* A chain that comes to an sp<> variable goes on in the constructor of    *)
(* the class only when no namespace and no class is around it: for         *)
(* android::Foo the edge leads to android::Foo::android::Foo, the          *)
(* constructor is android::Foo::Foo.  (Unless there is a function with the *)
(* doubled name, which then takes the place of the constructor.)           *)
(***************************************************************************)
SpStopsAtNamespace ==
    file \notin {Old, Torn} =>
        \A n \in DOMAIN file : \A i \in 1 .. Len(file[n]) - 1 : \A c \in Cursors :
            c.kind = "class" /\ file[n][i].simple = MethodSimpleName(c) =>
                \/ c.scope = <<>>
                \/ \E d \in Cursors :
                      FullyQualifiedSpelling(d) = FullyQualifiedSpelling(c) \o FullyQualifiedSpelling(c)

(***************************************************************************)
(* What every file is parsed with depends on the working directory and on  *)
(* the built-in path alone: the command of the last item for it before the *)
(* first broken item, else includes below the built-in path; and never     *)
(* before the path of the library is set and -p is known.                  *)
(***************************************************************************)
UpToBroken(db) == {k \in DOMAIN db : \A j \in 1 .. k : IsWhole(db[j])}

ItemsFor(db, f) == {k \in UpToBroken(db) : db[k].file = f}

ArgumentsAreAmbient ==
    \A f \in DOMAIN parsedWith :
        /\ libraryPathSet /\ argv.source # None
        /\ LET its == ItemsFor(databases[None], f)
           IN  IF its = {} THEN parsedWith[f] = Includes(BuiltInPath)
               ELSE \E k \in its : /\ \A j \in its : j <= k
                                   /\ parsedWith[f].characters = databases[None][k].command

(***************************************************************************)
(* "Native code analysis need to use compile_command.json to get the       *)
(* compile commands for each file" (Readme.md): a file that has a command  *)
(* in the database given with -c is parsed with the words of the command.  *)
(***************************************************************************)
DatabaseIsUsed ==
    \A f \in DOMAIN parsedWith :
        argv.db # None /\ ItemsFor(databases[argv.db], f) # {} =>
            \E k \in ItemsFor(databases[argv.db], f) :
                parsedWith[f].words = databases[argv.db][k].command

=============================================================================
