# A verification model of JGREAnalysis

JGREAnalysis looks for JNI global reference exhaustion in Android: system service
methods that let any app store binder objects in a list (each costs the system
server a global reference), and native functions that reach `NewGlobalRef`.
It consists of a Java analyser written in Kotlin (`src/JavaAnalysis`, on top of
Soot) and a native analyser written in Python (`src/NativeAnalysis`, on top of
libclang). This directory holds TLA+ modules of both, the TLC runs that check
them, and TLAPS proofs of their safety for all values of the constants.

Both analysers are single-threaded batch programs. What is hard about them is
not concurrency but *search*: depth-bounded recursions with state that outlives
a branch, sets visited in no fixed order, results that must agree with each
other, loops in the analysed code, and failures half-way through. The reader of
a report has to know what a reported chain means and what silence means; that
is what the properties here are about. Two more things are hard to test in the
native half: what is fixed at import time and what arguments still change, and
the lifetime of the Python objects that point into memory of libclang.

Paths below are relative to
`src/JavaAnalysis/src/main/kotlin/com/alienware/snk/` and `src/NativeAnalysis/`.

## Inventory

| Component | State | Operations | What makes it correct |
|---|---|---|---|
| Service extraction (`services/IPCExtractor.kt`, `ServiceHelperExtractor.kt`, `ServiceImplExtractor.kt`, `ServiceApi.kt`) | `helperApiList`, `implList`, `allApi`, `service_api.json` | resolve the registry's helpers, the `addService` calls, the published services; save | the list is exactly what the code registers, in any visiting order; every entry can be analysed |
| Value solver (`services/JimpleValueSolver.kt`) | `workList`, the budget | search the class of a value along its definitions | bounded; the class is that of a definition the value comes from |
| Class hierarchy (`utils/SootTool.kt`, `ServiceImplExtractor.kt`) | none | `getInfForClass`, `getInfForImpl`, `isBinderClass` | the interface is a binder interface above the class whenever there is one |
| Call graph search (`services/CallGraphAnalysis.kt`, `ExitPointChecker.kt`) | `visitSet`, `vul`, `containExitPoint`, the recursion and its paths | check one method, follow its calls | reports are justified and their chains real; null means exhausted; it ends on recursion |
| Local point-to analysis (`services/PointToAnalysis.kt`) | `valueDefines`, `pointToSet`, `localValues` | collect over a body; answer about a local | the answer is the class the local has; circles of copies end |
| Implicit calls (`services/ImplicitCallResolver.kt`) | `callbacks` | resolve the targets of a callback | every target is a method the framework can call |
| Helper search (`services/AnalysisHelperApi.kt`) | `called`, the recursion | follow calls, compare IPC calls with the vulnerable methods | exact within its level |
| Detection and reports (`services/VulnerabilitiesDetecting.kt`) | `vulSet`, `vulMap`, `helperVulSet`, two result files | loop over services, loop over helpers, save summary and detail | complete in any order; the files agree |
| Native start-up and compile database (`main.py`, `conf.py`, `compile_info.py`, `utils.init`) | `Conf`, `header_map`, `default_conf`, `Config.library_path` | import, load the database, set the library, parse arguments; the arguments of one file | each file is parsed with the arguments meant for it |
| Native call graph (`call_graph_analysis.py`, `CallGraph`) | `method_calls` | add a file | one bad file harms no other; edges are real |
| Native chain search (`call_graph_analysis.py`, `CallGraphAnalysis`) | `call_chains`, the recursion, `data/results.txt` | walk from each entry point, save | chains are real; a saved file is complete |
| Native program (`main.py`, `process_jni_dir`) | entry points, the files of the directory | the two parses of the directory, the search | every entry function that reaches `NewGlobalRef` is in the result |
| Outline of one file (`main.py`, `traverse`) | the lists of functions, enums, classes, structs and namespaces | walk over the cursors | complete up to a kind the binding does not know |
| JNI map (`jni_map.py`, `cxx_parser.py`) | `file_list`, the block being read, `jni_map`, `data/jni.json` | list files, read tables off the tokens, write the map | the map is that of the tables |
| libclang binding (`clang/cindex.py`, `clang/enumerations.py`) | the lists of kinds, `Config`, the objects and the memory they point into | import, load the library, make and drop objects, walk | kinds are right; no object outlives its memory |
| `Main.kt`, `Conf.kt`, `utils/DebugTool.kt`, `LogNow.kt`, `Statistics.kt` | configuration, console | start, log, exit | pure I/O; a panic is an action where it ends the modelled code |

How they interact: `Main.kt` runs extraction, which fills `ServiceApiList.allApi`,
then detection, which hands every exposed method to `CallGraphAnalysis` and,
after the last one, every helper method to `AnalysisHelperApi` together with the
methods found. `CallGraphAnalysis` asks `ExitPointChecker` about each method
body, which asks `PointToAnalysis` about locals; implicit calls go through
`ImplicitCallResolver`, which asks `PointToAnalysis` as well. Extraction asks
`JimpleValueSolver` for the class of each registered service and the hierarchy
for its interface. A Kotlin `panic` ends the process.

`main.py` imports `call_graph_analysis`, which builds `compile_commands` on the
way, then sets the library, parses the arguments and calls `process_jni_dir`.
That adds every C++ file of the directory to the `CallGraph`, parses each of
them a second time for the names of entry points, adds the test file, and runs
the chain search. Exceptions are swallowed per file by `add_file`, and by nobody
in the second parse and during the search. `jni_map.py` runs as a program of its
own (its call in `process_jni_dir` is commented out). Everything native goes
through the binding.

## Modules

### Kotlin

**`ClassHierarchy`** — the questions about classes as operators: the work list
of `getInfForClass`, the choice of `getInfForImpl`, `isBinderClass`.
`IsAncestor` and `IsExtendedBy` (superclasses only) are the reference
definitions, by closed sets and without a work list.

**`JimpleValueSolver`** (extends it) — `startToSearchValue` on a body given as a
sequence of definitions. A value is named by what `getExprValue` makes of it, so
a field counts as its base object. `SolvedByChain` is the reference: the first
definitions of values, which of them lead to which, at most three of them.

**`ServiceExtraction`** (extends it) — helpers from the registry, `addService`
calls method by method, the first publication of each SystemService, the filter
and the interface of what remains, `service_api.json`. Services are compared by
identity, so each carries the place that created it. An invocation of kind
"unknown" is one whose method Soot cannot resolve: tolerated by the first look
at a body, fatal in the second, or in the solver where it defines the argument.

**`ExitPointChecker`** — operators on one method body: which statement is
detected as adding a binder to a list, which sets the exit point, and that the
scan returns at the first detection. The name tests and the classes of the
arguments are fields of the statement; the order of the tests (an interface
invocation is never an addition, but may be an exit point; a `register` is both)
is kept.

**`CallGraphAnalysis`** — the search itself. The Kotlin recursion is a `stack`
of activation records (`mtd`, `path`, level, position in the body, remaining
targets) plus the invocation about to begin (`call`). `RefuseLevel`,
`RefuseVisited`, `Report` and `Enter` are the four ways an invocation begins,
`NextStmt`, `CallTarget` and `ReturnNull` the loop over the body, `Finish` the
null result of `analysisEntryPoint`. `Report` empties the stack at once because
every caller returns a non-null result without another effect. `cutOff` is a
history variable: the methods the level refused.

**`BinderLeakSearch`** — what the search promises, without recursion, order,
path or level: enter known methods, give some up, say "leak" exactly when the
entered methods hold both kinds of evidence, say "none" only when nothing is
left. `CallGraphAnalysis` implements it (`ImplementsSearch`).

**`HelperCalls`, `AnalysisHelperApi`** — the statements the helper search tells
apart, the reference definition `FindsIpc` (a call path within the level ends in
a matching IPC call), and the recursion as a stack with one level less per
record. It has no visited set. `entryMtd` and `vulSet` (the parameter
`exitPoints`) are variables, so that the caller's loop can run one search after
the other; `given` says that no step of a search changes them. Its own
specification is `SearchSpec`: one search, of any method.

**`VulnerabilitiesDetecting`** (extends it) — the loop over services, the loop
over helper classes, then `results.txt`, then `results.json`.
`AnalysisHelperClass` takes a class and puts its methods into `helperMtds`; each
is searched step by step on the variables of `AnalysisHelperApi` (`BeginSearch`,
`FindVulIPCCall`, `EndSearch`), which read the same `vulSet` the first loop
filled. The other search enters through what it is shown to compute: the methods
`CallGraphAnalysis` reports are the frozen set `leaks`. Any step may panic. A
write fails before or after the file is emptied (`SummaryFails`, `DetailFails`);
a file that is neither the old one nor whole is `Torn`, here and in the other
modules that write one (`ServiceExtraction`, `NativeChainSearch`, `JniMap`).

**`PointToAnalysis`** (extends `ClassHierarchy`) — the two passes of `run()`
statement by statement, and `getLocalPointTo` as the loop it is.

**`ImplicitCallResolver`** (extends it) — `resolve` as operators on the state in
which the question about an argument is answered: the test of the real type, and
the methods of it that override one of the parameter type.

### Native

**`NativeNames`** — how functions and classes are named, as in `utils.py` and
`get_method_simple_name`: simple names (nodes of the graph), full names (what
edges are compared by), and the bare spelling of an entry point. A name is the
sequence of words that `::` joins.

**`NativeCallGraph`** (extends it) — `add_file` over a sequence of files, one
edge at a time. Python's set semantics are in `AddTo`: an edge whose full name
is there already is not added. Exceptions leave the graph as it is and the file
half done. Which definitions the walk enters (functions in namespaces, members
inside a class, but not `extern "C"` blocks or members defined outside their
class) is the `kind` of a definition.

**`NativeChainSearch`** — the walk of `__walk_call_graph` as a stack, tested
after the recursion as in the code, the recursion limit, and the file written
once at the end. It has no specification of its own; it runs within
`NativeAnalysis`.

**`NativeStartup`** — imports, `CompileInfo` item by item, `utils.init`, the
arguments; `ArgumentsFor` is `get_commands_for_file` with what `from_source`
makes of its result.

**`NativeAnalysis`** — the program: extends `NativeStartup` and `NativeNames`,
and instantiates `NativeCallGraph` and `NativeChainSearch` on shared variables.
`methodCalls`, built by the one, is what the other walks; the entry points are
the spellings of the second parse.

**`CursorWalk`** — `traverse`, `extract_method_in_node` and `walk_preorder` over
a tree in preorder, with the children collected before the first is entered and
an unknown kind raising where it is asked for. `IsTree` says which sequences of
nodes are trees.

**`JniMap`** — `SourceFileScanner`, `CxxJniParser` and `JNIBridgeMap`: the list
in the order `os.listdir` gives, the loop over the tokens, the items of a block
in threes, the map of a file merged into the map of all.

**`ClangEnumerations`, `ClangLibrary`, `ClangObjects`, `ClangBinding`** — the
binding. The first registers the kinds one statement at a time and looks values
up; the second chooses and loads the library and holds the table `functionList`,
with the conversion that gives each result its references; the third makes,
caches, drops and frees objects by reference counts, and records which of them
point into memory given back; the last composes them with `CursorWalk`.

`MC*` modules hold the small programs, graphs, files and lists TLC is run on.
Theorems and their proofs are in modules of their own, named `*_proofs` after
the last module of the component: `CallGraphAnalysis_proofs`,
`VulnerabilitiesDetecting_proofs` (helper search included),
`ImplicitCallResolver_proofs` (point-to analysis included),
`ServiceExtraction_proofs` (value solver and hierarchy included),
`NativeAnalysis_proofs` (start-up, graph and chain search included),
`JniMap_proofs` and `ClangBinding_proofs`. **`RoundsLemmas`** holds what several
of them need: least naturals, and what is reached along the edges of a finite
graph, computed in rounds.

In each module a definition marked *seeded fault* stands before the definition
it is a faulty variant of: a plausible mistake in that code, under which the
named properties must fail. They are not part of any specification.

## Runs

All bounds are in the `.cfg` files and `MC*` modules. `CHECK_DEADLOCK FALSE` is
set where the modelled program ends; `PointTo.cfg` checks deadlock, because
callers may always ask again.

| Run | Shows | Bounds, and why they are enough |
|---|---|---|
| `call_graph_search` | types, justified reports, real chains, exhaustive null, bounded stack, termination, refinement, the inductive invariant | every program of three methods with up to 2, 2 and 1 statements of each kind, level 3: recursion, implicit calls with two targets, both orders of detection and exit point, and a level that is and is not used up |
| `call_graph_level` (violation) | a method within the level is missed | four methods: the shortest case needs two paths of different length to one method and a callee behind it |
| `helper_search` | the verdict is exact, the search ends | three methods calling each other and back, two subsignatures, every set of vulnerable methods, each method as the one searched, level 3. 471,171 states |
| `detecting` | both files complete and equal, in any order, with the searches of the helpers in between; a failing write never leaves files of two runs but a new summary beside an old detail | three service lists (one class under two names, one without binder interface, one resolved to an interface only, a helper listed twice), every set of leaking methods; eight helper programs, searched step by step, in which helpers call themselves and each other, directly or by way of a third method. 1,380,384 states |
| `point_to` | an answer is the local's own last definition; targets of a callback are real, and none is missed of an object created in the body; queries end | bodies of up to four statements over three locals, with circles of copies; a proxy that has its interface by way of a stub, a class that names an interface, a method that is not visible |
| `point_to_copies` (violation) | copies are not followed | the same |
| `extraction` | the saved list is exact and fit for detection | two classes with up to two methods of two invocations, all kinds; every method begins with definitions one longer than the budget, a null before the real one, a circle and an `asBinder`; a service whose superclass has two binder interfaces, one by way of a third; registries of up to two registrations |
| `native_main` | the whole native program: failing files harm no other, edges are real, a saved result is complete and real for the functions of the directory, only circles meet the recursion limit, arguments come from where the code takes them, the run ends | directories of two files and the test file, which is the second file's first definition again: four entry functions, nine shapes of the second definition, four of the third; namespaces, `sp<>` of a class in and outside a namespace, a destructor, text that is unreadable; recursion limit 11, above every path without a circle; 36 combinations of arguments and databases on a small directory. 154,018 states |
| `compile_db` (violation) | the database given with `-c` is not used | the same |
| `native_fallback` (violation) | the textual search is lost on recursive functions | pairs of files of one and two definitions, the first one added again at the end |
| `jni_map` | a saved map is exact; one block without a name ends the run with no map saved; a map that is not torn is whole; it ends | one file of every sequence of up to four of six pieces (the beginning of a table, with and without a name, entries, a stray word, a semicolon); directories of two and three files of four extensions in every order of listing, with tables that name the same functions |
| `clang_binding` | kinds exact, objects never outlive memory they promise to keep, everything is freed without circles, walks exact | all kinds of the binding; four objects alive at a time, which is a unit, its index, an object and one derived from it; every tree of three nodes below the unit with seven labels, among them kind 149, which libclang 8 has and the binding does not; a whole library, one that lacks a function, none |

### Findings

* `call_graph_level`: the visited set is per search, the level per path. A
  method met late on a long path is marked, its callees are refused, and a
  shorter path to it is cut. The comment "exceed max level"
  (`VulnerabilitiesDetecting.kt:240`) blames the level alone.
* `point_to_copies`: `getLocalPointTo` returns its argument
  (`PointToAnalysis.kt:105`), against "left value is point to right" (line 74).
* `native_fallback`: the exit edge of a recursive function equals its recursive
  call, against the docstring of `call_graph_analysis.py:200`.
* `compile_db`: `compile_commands` is built during an import, before `-c` is
  parsed, against `Readme.md:8` of the native analyser. A database of the
  working directory is read, but its command is one string and is handed to
  libclang character by character.

* `clang_binding` (`HandlesStayValid`, which holds): the TODO of
  `clang/cindex.py:55-56`, "fix memory management issues (currently client must
  hold on to index and translation unit, or risk crashes)", is out of date for
  units, cursors, types, tokens, token groups and compile commands: each refers
  to what it needs. It is still true of locations, ranges, files and
  diagnostics. They keep no reference and do dangle when the unit is dropped; the
  property leaves them out (`KeepsItsMemory`).
* `native_main` (`SpStopsAtNamespace`, which holds): the docstring of
  `call_graph_analysis.py:20-21`, "For class ref, we don't use fully qualified
  name. constructor: class::class", is not what line 27 does. The spelling of the
  type is qualified, so an `sp<>` of a class inside a namespace is named
  `ns::C::ns::C` and leads to no constructor.

### Limits the properties describe

Apart from the findings, the properties state what holds and name the limit:

* The chain reported with a detection may lead to the method that has the exit
  point rather than to the one that has the list; `ReportIsJustified` says which
  methods stand behind a report.
* Only the first `publishBinderService` of a class is listed
  (`SavedListIsExact`).
* The class of a service comes from the first definition of the value anywhere
  in the body, from at most three steps; a field gives its holder, `asBinder()`
  the class of the method (`SavedListIsExact`).
* Callbacks are missed when a superclass names the interface rather than the
  class itself, and methods a class inherits are not among the targets; the
  premises of `CallbacksAreReal` say so (the second half is about a class that
  names the interface, or is below a class that is the parameter).
* Entry points inside a namespace are not found (`SavedNamesEntryFunctions`).
* At the doubled name of an `sp<>` (see above) only a function that really has
  that name could be met, which `SpStopsAtNamespace` excepts; the proof needed it.
* The recursion limit may be met although an exit is reachable
  (`LimitMeansCircle`), and then nothing is saved.
* A write that fails may leave a torn file, which the next program that reads it
  finds; a file that is not torn is whole (`FilesOfOneRun`, `SavedMapIsExact`,
  `SavedIsComplete`, `SavedListIsExact`).
* The scan of a body returns at the first detected addition, so an exit point
  behind it is not seen (`Scanned`); no property forbids what is lost by it.
* One table block without a name loses the JNI map of all files
  (`NamelessBlockLosesAll`).
* Kind -1 counts as the last kind of a list (`KindsAreExact`); a walk stops at
  the first kind the binding does not know, with what it had (`WalkIsExact`).

### Fairness

`CallGraphAnalysis`, `AnalysisHelperApi`, `NativeAnalysis` and `JniMap` assume
weak fairness of the whole next-state relation: each is one thread that waits
for nobody, so it takes a step while it has one. `PointToAnalysis` assumes it of
each step of `run()` and of a query that has begun, and not of `Ask`: callers
decide when to ask. The other modules state no liveness and no fairness;
`ClangBinding` in particular is driven by whatever program uses it.

## Proofs

Every safety invariant of a passing run is a theorem here, for all values of the
constants. The type invariants of the point-to analysis and of the extraction are
proved and not run: the Kotlin compiler already excludes what would break them. All follow one scheme: an inductive
invariant that implies the property, proved with one lemma per action, and a
last step by temporal logic. The assumptions are the named ones of the modules,
which TLC evaluates in every run: they say of which sets the programs, bodies,
trees, lists and names are, that the null values are none of them, and what a
class hierarchy is. None bounds a size, except that the class hierarchy and the
set of names are finite and that Python's recursion limit is not zero.

Library theorems that take an operator cannot be used here, induction among
them. `RoundsLemmas` replaces it: a set of natural numbers has a least element
(`LeastNatural`), so there is no first exception to what is handed on from k to
k + 1 (`NoFirstException`). The functions the modules define by recursion are
shown to exist by such an argument, before anything is said of their values.
`RoundsAreLeastClosed` says that as many rounds as there are nodes give the
least closed set; the work list of `getInfForClass`, what reaches an exit in the
native graph and what a program of the binding still refers to are of this kind.

### Call graph search

`CallGraphAnalysis_proofs` proves, for every set of methods, every program over
it (bodies of any length), every entry and every level:

* `TypeCorrect` — the type invariant;
* `Invariance` — the inductive invariant `IInv`;
* `ReportedChainCorrect`, `ReportCorrect`, `NullCorrect`, `StackCorrect` — the
  four safety properties of the run;
* `SearchIsImplemented` — the refinement of `BinderLeakSearch`.

Assumptions are those named in the modules: programs are functions from methods
to bodies, the entry is a method, the level a natural number, and the two null
values are no descriptor and no invocation. TLC evaluates them in every run of
these modules.

Why a strengthening is needed: that a reported chain is a call path depends on
paths still in the recursion, so `FrameOK` says that each record holds a call
path of entered methods that ends in its own method, as long as its depth, and
`CallOK` says the same of the invocation about to begin. Path length and level
add up, which bounds the stack; methods of a path are visited and a method is
entered only when it is not, so no path repeats one. `EvidenceOK` relates `vul`
and `containExitPoint` to the entered methods; it is the step that ties a
report to two methods. `ClosureOK` says where a callee can be while the search
runs (entered, refused, about to begin, or waiting in `todo`), so that at the
end only the first two are left. The proof of preservation has one lemma per
action. For the refinement, `Report` and `Enter` are a `Visit`, `RefuseLevel` a
`GiveUp`, `Finish` an `Exhaust`, all else stutters; `CallOK` gives that an
entered method is known, `EvidenceOK` that the verdict is right.

### Helper search

`VulnerabilitiesDetecting_proofs` proves first, of `SearchSpec` alone, for every
program, level and set of vulnerable methods:

* `HelperTypeCorrect` — the type invariant;
* `HelperInvariance` — the inductive invariant `IInv`;
* `VerdictCorrect` — the verdict is exact in both directions.

The argument: `FindsUnfold` says that a search at a level finds something just
when the body matches or a callee does at one level less, and `FindsAtZero` that
no level finds nothing. `SearchedOK` says that every statement a record is past
was in vain (`Fruitless`), but for the pending call, the one whose callee is the
next record. Returning from a record makes all its statements fruitless, hence
the search of that method, hence the pending call of its caller. A finding is
right because the records are a call path (`PathOK`).

### Detection

Then, of the whole detection: `DetectingTypeCorrect`, `DetectingInvariance`,
`DetectedVerdicts`, `SummaryCorrect`, `DetailCorrect`, `FilesCorrect`, for every
list of services (of any length), every declaration of methods, every helper
program and every set of leaking methods.

The two halves meet in `SearchInv`: while a helper method is searched, `IInv`
holds of the variables of the search. A search that begins satisfies it
(`EnteredIInv`), each of its steps keeps it (the lemmas of the helper search,
used as they are), and nothing else touches it: `vulSet`, which it reads, no
longer grows, because no helper is met before the last service, whatever the
order. `DetectedVerdicts` follows: the verdicts the loop takes are exact.

`SummaryIsComplete` speaks of the end; `DetectingInv` says at each point of the
loops that `vulSet` holds the leaking methods of just the services visited, that
`helperVulSet` is right for the helpers of the classes visited but for those
still `Left` to be searched (`HelpersInv`), and which file is written when.
`DetailDropsNothing` needs `DeclaredAssumption`, that a method is declared in one
class: with it each method of the detail is counted under one service.
`FilesOfOneRun` needs of the invariant which file is written when, and
`ResultsAssumption`, that old and torn files are no results.

### Point-to analysis and implicit calls

`ImplicitCallResolver_proofs`: `PointToTypeCorrect`, `PointToInvariance`,
`AnswerCorrect`, `CallbacksCorrect`, for bodies of any length and any hierarchy.

`MapsInv` says that after n statements of a pass `valueDefines` has, of each
local, the class given last by the statements seen (or bound first, by the
second pass), and `localValues` the locals that were created. Copies never reach
these maps, which is why the answer is the local's own last definition. That
each target can receive the callback follows with the facts about
`getInfForClass`.

### Service extraction

`ServiceExtraction_proofs`: `ExtractionInvariance`, `ExtractionTypeCorrect`,
`SavedListCorrect`, `ListCorrect`, for every jar file (`WorldsAssumption`), every
hierarchy and any order of visits.

`ExtractionInv` has four parts: types; `helpers` is what the registry gives up to
`pc`; `implList` is what the methods visited so far add and publish, where of the
publications of one class only the first counts; and after the filter the list
is the helpers and what is left, for some pick of an interface where there are
several. Two lemmas carry it. `SolvedIsByChain` unrolls the bounded search of the
solver and shows it equal to `SolvedByChain`, which has no work list. And
`BinderInterfacesFound` shows that the work list of `getInfForClass` misses no
binder interface above a class: leaving `Object` out loses nothing because it
has no interfaces, and a superclass is never an interface.

### Native program

`NativeAnalysis_proofs`: `TypeCorrect`, `AmbientArguments`, `NoEdgeIsMadeUp`,
`NothingElseIsLost`, `ChainsLeadToExits`, `SavedFileIsComplete`,
`LimitHasItsCircle`, `EntryFunctionsAreSaved`, `SpStops`, for any directory,
definitions, arguments and databases.

The invariant is built in layers. `TypeInv` has the types of the four parts, with
`StartupInv`: what is known of the arguments and the database at each step of the
start-up, so that what a file is parsed with never depends on `-c`. `GraphInv`
adds that each edge comes from a definition that was entered and, the other way
round, `KeptInv`: each call passed so far has an edge of its full name. Edges
stay, so a failure in one file costs only what that file has not added yet.

`ChainInv` adds the search. Each record of the recursion holds a walk of the
graph from the entry point, as long as the recursion is deep (`FrameOK`), and
every edge it is past was tried in vain (`Hopeless`: no exit, and leading to
none) or is the edge the next record follows. An entry point that is done has a
chain just when it reaches an exit. An exit is reached through a name just when
one of its edges is an exit or leads to a name that reaches one
(`RoundsLemmas` gives the least closed set of the names reached), so a record
with no edge left makes the edge that led to it hopeless. The walk remembers no
names, so on a circle of calls it goes on to the recursion limit; there the
path is as long as the limit, and when that is above the number of names one of
them is on it twice, which is the circle of `LimitHasItsCircle`.

### JNI map

`JniMap_proofs`: `JniInvariance`, `JniTypeCorrect`, `SavedMapCorrect`,
`NamelessBlockCorrect`, for every directory, every order of listing, files of any
number of tokens, and any of them unreadable.

`MapInv` follows the three loops, one in the other.

* Files (`IsProgress`): those still to come are in the order of the generator,
  all of them later than those done (`LaterIn`), and the map of all has of each
  name the last entry in the files read (`MapIs`, `Decides`). `FilesInOrder`
  derives the order from the three filters, one per extension, that the
  generator joins. `LaterIsStrict` makes the last entry unique, so the invariant
  determines the map without a history of how it was built.
* Tokens (`IsScanning`): `extract_jni` is set just when a table was begun and not
  ended, and what was collected since is what `ItemsIn` says of the table;
  `BlocksApart` shows that tables never overlap.
* Blocks (`IsWaiting`): the tables read so far are those waiting in `jni_tokens`,
  in their order, and those taken off it, whose entries the map of the file has.
  So none is taken twice.

`TableFacts` is about one table: after the first item, the name of the table, the
entries come in threes, and the entry whose last item is at rank 3k leads to the
item two before it. `RankFacts` ties the rank of an item to its place in the list
the code builds. A table without items
raises on its first access; the invariant says that no table taken was empty,
which gives `NamelessBlockLosesAll`. What the module defines by recursion (the
items in ascending order, a filter, the updates of a dictionary) is shown to
exist by `RecursionExists` before its values are used.

### libclang binding

`ClangBinding_proofs`: `BindingInvariance`, `BindingTypeCorrect`, `KindsCorrect`,
`HandlesCorrect`, `FreedCorrect`, `WalkCorrect`, for any library, any number of
objects and all trees.

* Kinds: `Lists(list, R)` says a list holds just the values of R and ends with
  one. Filling up with `None` and putting a kind keeps it in whatever order the
  kinds come, so the order of the source does not matter.
* Objects: `SafeRows` checks the table `functionList` once, row by row. From it
  follows `OwnersInv`, that an object which promises to keep its memory refers to
  every owner it lies in: with `References` and `LiesIn` of a row, for an object
  that may itself come from any other row. A released object is referred to by
  none, so nothing that promises lies in it.
* No circles: references lead to kinds of lower rank (`RanksInv`), but cursors
  keep cursors in cached properties. Those were made one after the other, which
  the invariant says without time: of any set of live objects one is kept by
  none of the set (`CachedInv`). Unreachable objects that are all referred to
  would contradict it among those of highest rank.
* Walks: the stack has just the nodes ahead whose parent is seen (`StackInv`),
  what is found are the seen nodes looked for. `VisitStack` is the step: between
  the node visited and the new head there is no node the walk comes to, since
  the least such would have its parent seen and be on the stack.
  `TreesAssumption` says that the trees are in preorder.

### What is only model-checked

* Termination and every other liveness property: the prover treats neither
  fairness nor `ENABLED`.
* The violations, which are single behaviours.
* That a module's reference definition says what its comment says: TLC compares
  `FindsIpc`, `SolvedByChain`, `IsAncestor` and `ComesTo` with the code on the
  small instances, the proofs for all, but neither can judge the definitions.

## Not modelled

* Soot and libclang themselves; console output, logging and the layout of the
  result files.
* `quickAnalysis` and `analysisOneCls` of `VulnerabilitiesDetecting`, which
  `Main` does not call; the counters of `Statistics.simpleReport`, which are
  only logged.
* `analyze_one_file` of `main.py`, which lists fixed directories; the commented
  and unreachable processors of `cxx_parser.py`; unused file helpers and debug
  output of `utils.py`.
* Of `SootTool`, what hands on the answers of Soot or prints them.
* Of the binding: accessors that hand on a number, a text or a flag, completion
  strings, comparison and printing; the collector of circles, since
  `EverythingIsFreed` shows there are none among the modelled objects.
* How `ImplicitCallResolver` reads the file of callback names, and the link from
  its targets to `CallGraphAnalysis`, which takes the set of targets of a call
  as data.

Data that the properties do not tell apart stays abstract: signatures, bodies
beyond the statements listed, source text (where it says `NewGlobalRef` is one
of four cases), tokens (items, marks and the two spellings that matter).

## Plan

Done: everything above, in this order: the Kotlin search, its abstract
specification and proofs; the helper search and its proof; detection; point-to
analysis; native graph and search; extraction; then the native program with its
start-up, the JNI map, the binding, the class hierarchy, the value solver and
the implicit calls.

Then the proofs of all of these. With the last of them, that of the JNI map, the
helper search moved into the detection: the loop runs its steps instead of
asking for its verdict, and the proofs were composed the same way.

Left: an abstract specification of detection ("report what is exposed and
leaks") that `VulnerabilitiesDetecting` implements; the targets of
`ImplicitCallResolver` as those of `CallGraphAnalysis`, and that search inside
the detection as the helper search now is.
