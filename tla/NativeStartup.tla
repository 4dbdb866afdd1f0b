---------------------------- MODULE NativeStartup ----------------------------
(***************************************************************************)
(* Start-up of the native analyser: the imports of main.py and             *)
(* call_graph_analysis.py, CompileInfo, utils.init, init_arg_parser.       *)
(*                                                                         *)
(* The object compile_commands is built while call_graph_analysis.py is    *)
(* imported, from the Conf of that moment; main() parses the arguments     *)
(* afterwards and only then changes Conf.                                  *)
(*                                                                         *)
(* A compile_commands.json is a sequence of items [file, command]; a key   *)
(* an item lacks is None, and reading it raises.  A missing or unreadable  *)
(* file is the same as an empty one: opening it raises as well.            *)
(***************************************************************************)
EXTENDS Naturals, Sequences

CONSTANTS
    Path,           \* directories of Android sources
    BuiltInPath,    \* Conf.DEFAULT_AOSP_PATH as written in conf.py
    Database,       \* the values of -c, directories with a compile_commands.json
    Command,        \* compile commands
    None

ASSUME PathAssumption == BuiltInPath \in Path
ASSUME NoneAssumption == None \notin Path \cup Database \cup Command

Item == [file : Nat \cup {None}, command : Command \cup {None}]

(* argv: the values of -p and -c.  databases[None] is the file in the      *)
(* working directory.                                                      *)
Argv == [source : Path \cup {None}, db : Database \cup {None}]

VARIABLES
    argv, databases,    \* what the run is given
    step,               \* "import", "load", "init", "arguments", "main", "exited"
    aospPath,           \* Conf.DEFAULT_AOSP_PATH
    compileDbFile,      \* Conf.COMPILE_DB_FILE
    includesOf,         \* the path default_conf was computed from, or None
    item,               \* the next item of the database
    headerMap,          \* header_map
    libraryPathSet      \* cindex.Config.library_path is set

startupVars == <<argv, databases, step, aospPath, compileDbFile, includesOf, item,
                 headerMap, libraryPathSet>>

StartupInit ==
    /\ step = "import"
    /\ aospPath = BuiltInPath /\ compileDbFile = None
    /\ includesOf = None /\ item = 1 /\ headerMap = <<>>
    /\ libraryPathSet = FALSE

-----------------------------------------------------------------------------
(***************************************************************************)
(* CompileInfo(config.COMPILE_DB_FILE), reached by the import of           *)
(* call_graph_analysis: default_conf, then the database item by item.      *)
(***************************************************************************)
(* seeded fault: the arguments are parsed before the import *)
ImportCompileInfoFault ==
    /\ step = "import"
    /\ step' = "load"
    /\ includesOf' = IF argv.source = None THEN aospPath ELSE argv.source
    /\ UNCHANGED <<argv, databases, aospPath, compileDbFile, item, headerMap, libraryPathSet>>

ImportCompileInfo ==
    /\ step = "import"
    /\ step' = "load"
    /\ includesOf' = aospPath
    /\ UNCHANGED <<argv, databases, aospPath, compileDbFile, item, headerMap, libraryPathSet>>

Items == databases[compileDbFile]

Loading == step = "load" /\ item <= Len(Items)

IsWhole(it) == it.file # None /\ it.command # None

LoadItem ==
    /\ Loading /\ IsWhole(Items[item])
    /\ headerMap' = [f \in DOMAIN headerMap \cup {Items[item].file} |->
                        IF f = Items[item].file THEN Items[item].command ELSE headerMap[f]]
    /\ item' = item + 1
    /\ UNCHANGED <<argv, databases, step, aospPath, compileDbFile, includesOf, libraryPathSet>>

(* The items before the broken one stay: the exception leaves the loop, *)
(* not the object.                                                      *)
LoadEnds ==
    /\ step = "load"
    /\ Loading => ~IsWhole(Items[item])
    /\ step' = "init"
    /\ UNCHANGED <<argv, databases, aospPath, compileDbFile, includesOf, item, headerMap,
                   libraryPathSet>>

(* utils.init: logging, then Config.set_library_path. *)
InitUtils ==
    /\ step = "init"
    /\ step' = "arguments"
    /\ libraryPathSet' = TRUE
    /\ UNCHANGED <<argv, databases, aospPath, compileDbFile, includesOf, item, headerMap>>

InitArgParser ==
    /\ step = "arguments" /\ argv.source # None
    /\ step' = "main"
    /\ aospPath' = argv.source /\ compileDbFile' = argv.db
    /\ UNCHANGED <<argv, databases, includesOf, item, headerMap, libraryPathSet>>

(* No -p: print the help and exit. *)
PrintHelp ==
    /\ step = "arguments" /\ argv.source = None
    /\ step' = "exited"
    /\ UNCHANGED <<argv, databases, aospPath, compileDbFile, includesOf, item, headerMap,
                   libraryPathSet>>

StartupNext ==
    \/ ImportCompileInfo
    \/ LoadItem
    \/ LoadEnds
    \/ InitUtils
    \/ InitArgParser
    \/ PrintHelp

(***************************************************************************)
(* get_commands_for_file, and what from_source makes of the result: it     *)
(* takes the elements of args one by one.  The default is a list of        *)
(* arguments, a command of the database is one string, whose elements are  *)
(* its characters.                                                         *)
(***************************************************************************)
Includes(p) == [words |-> p, characters |-> None]

ArgumentsFor(f) ==
    IF f \in DOMAIN headerMap
    THEN [words |-> None, characters |-> headerMap[f]]
    ELSE Includes(includesOf)

Arguments == [words : Path \cup Command \cup {None}, characters : Command \cup {None}]

StartupTypeOK ==
    /\ argv \in Argv
    /\ step \in {"import", "load", "init", "arguments", "main", "exited"}
    /\ aospPath \in Path /\ compileDbFile \in Database \cup {None}
    /\ includesOf \in Path \cup {None} /\ item \in Nat
    /\ \A f \in DOMAIN headerMap : f \in Nat /\ headerMap[f] \in Command
    /\ libraryPathSet \in BOOLEAN

=============================================================================
