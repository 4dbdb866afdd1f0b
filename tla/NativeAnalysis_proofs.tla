------------------------ MODULE NativeAnalysis_proofs ------------------------
(***************************************************************************)
(* The native analyser, for all files, databases, arguments and orders of  *)
(* edges: its types, what every file is parsed with, what the call graph   *)
(* holds, and which chains are saved.                                      *)
(***************************************************************************)
EXTENDS NativeAnalysis, RoundsLemmas, SequenceTheorems

-----------------------------------------------------------------------------
(***************************************************************************)
(* LEMMAS ABOUT NAMES, EDGES AND SEQUENCES                                 *)
(***************************************************************************)

(***************************************************************************)
(* The graph takes the names of NativeNames, as this module does.          *)
(***************************************************************************)
LEMMA SameNames ==
    /\ \A c : Graph!MethodSimpleName(c) = MethodSimpleName(c)
    /\ \A c : Graph!FullNameOf(c) = FullNameOf(c)
    /\ Graph!Names = Names
    /\ Graph!FullNames = FullNames
<1>1. \A c : Graph!FullyQualified(c) = FullyQualified(c) /\ Graph!DisplayName(c) = DisplayName(c)
  BY DEF Graph!FullyQualified, FullyQualified, Graph!DisplayName, DisplayName
<1>2. \A c : Graph!FullNameOf(c) = FullNameOf(c)
  BY <1>1 DEF Graph!FullNameOf, FullNameOf
<1>3. \A c : Graph!FullyQualifiedSpelling(c) = FullyQualifiedSpelling(c)
  BY DEF Graph!FullyQualifiedSpelling, FullyQualifiedSpelling
<1>4. \A c : Graph!MethodSimpleName(c) = MethodSimpleName(c)
  BY <1>3 DEF Graph!MethodSimpleName, MethodSimpleName, Graph!Last, Last
<1>5. \A c : Graph!EntryName(c) = EntryName(c)
  BY DEF Graph!EntryName, EntryName
<1>6. Graph!Names = Names
  BY <1>4, <1>5 DEF Graph!Names, Names
<1>7. Graph!FullNames = FullNames
  BY <1>2 DEF Graph!FullNames, FullNames
<1> QED
  BY <1>2, <1>4, <1>6, <1>7

(* Every cursor is named by a node and a full name. *)
LEMMA NamesOfCursors ==
    ASSUME NEW c \in Cursors
    PROVE  /\ MethodSimpleName(c) \in Names
           /\ FullNameOf(c) \in FullNames
           /\ c.kind = "function" => EntryName(c) \in Names
  BY DEF Names, FullNames

(* The edges of a definition are well-formed. *)
LEMMA DefinitionFacts ==
    ASSUME NEW d \in Graph!Definition
    PROVE  /\ d.cursor \in Cursors
           /\ d.calls \in Seq(Cursors)
           /\ Graph!Key(d) \in Names
           /\ Graph!ExitEdge(d) \in Graph!Edge
           /\ \A k \in 1 .. Len(d.calls) : d.calls[k] \in Cursors /\ Graph!CallEdge(d.calls[k]) \in Graph!Edge
           /\ Graph!IsFunction(d) => d.cursor.kind = "function" /\ EntryName(d.cursor) \in Names
<1>1. d.cursor \in Cursors /\ d.calls \in Seq(Cursors)
      /\ (Graph!IsFunction(d) => d.cursor.kind = "function")
  BY DEF Graph!Definition
<1>2. Graph!Key(d) \in Names
  BY <1>1, SameNames, NamesOfCursors DEF Graph!Key
<1>3. Graph!ExitEdge(d) \in Graph!Edge
  BY <1>1, <1>2, SameNames, NamesOfCursors DEF Graph!Edge, Graph!ExitEdge
<1>4. ASSUME NEW k \in 1 .. Len(d.calls)
      PROVE  d.calls[k] \in Cursors /\ Graph!CallEdge(d.calls[k]) \in Graph!Edge
  <2>1. d.calls[k] \in Cursors
    BY <1>1
  <2> QED
    BY <2>1, SameNames, NamesOfCursors DEF Graph!Edge, Graph!CallEdge
<1> QED
  BY <1>1, <1>2, <1>3, <1>4, NamesOfCursors

(***************************************************************************)
(* The edges of the graph and of the search are the same.                  *)
(***************************************************************************)
LEMMA SameEdges == Graph!Edge = Search!Edge
  BY SameNames DEF Graph!Edge, Search!Edge

(* A file is a sequence of definitions. *)
LEMMA FileFacts ==
    ASSUME Graph!TypeOK, NEW i \in DOMAIN files
    PROVE  /\ files[i] \in Seq(Graph!Definition)
           /\ \A j \in DOMAIN files[i] : files[i][j] \in Graph!Definition
<1>1. files \in Seq(Seq(Graph!Definition))
  BY DEF Graph!TypeOK
<1>2. files[i] \in Seq(Graph!Definition)
  BY <1>1
<1> QED
  BY <1>2

(***************************************************************************)
(* The definition the walk is at.                                          *)
(***************************************************************************)
LEMMA DefFacts ==
    ASSUME Graph!TypeOK, Graph!AtDefinition
    PROVE  /\ fi \in DOMAIN files /\ di \in DOMAIN files[fi]
           /\ Graph!Def \in Graph!Definition
           /\ Graph!Def = files[fi][di]
<1>1. files \in Seq(Seq(Graph!Definition)) /\ fi \in Nat \ {0} /\ di \in Nat \ {0}
  BY DEF Graph!TypeOK
<1>2. fi \in DOMAIN files
  BY <1>1 DEF Graph!AtDefinition, Graph!InFile
<1>3. files[fi] \in Seq(Graph!Definition)
  BY <1>2, FileFacts
<1>4. di \in DOMAIN files[fi]
  BY <1>1, <1>3 DEF Graph!AtDefinition
<1> QED
  BY <1>2, <1>4, FileFacts DEF Graph!Def

(***************************************************************************)
(* Adding an edge to the calls of a node.                                  *)
(***************************************************************************)
LEMMA AddToFacts ==
    ASSUME NEW S \in SUBSET Graph!Edge, NEW e \in Graph!Edge
    PROVE  /\ Graph!AddTo(S, e) \in SUBSET Graph!Edge
           /\ S \subseteq Graph!AddTo(S, e)
           /\ \E x \in Graph!AddTo(S, e) : x.full = e.full
           /\ Graph!AddTo(S, e) \subseteq S \cup {e}
           /\ (\A x \in S : \A y \in S : x.full = y.full => x = y) =>
                 \A x \in Graph!AddTo(S, e) : \A y \in Graph!AddTo(S, e) : x.full = y.full => x = y
  BY DEF Graph!AddTo

(* Adding a file keeps the types of the graph and goes through the files in order. *)
LEMMA GraphTypeStep ==
    ASSUME Graph!TypeOK, Graph!Next
    PROVE  Graph!TypeOK' /\ files' = files /\ fi' \in {fi, fi + 1}
<1>1. /\ files \in Seq(Seq(Graph!Definition)) /\ fi \in Nat \ {0} /\ di \in Nat \ {0} /\ ci \in Nat
      /\ methodCalls \in [Names -> SUBSET Graph!Edge] /\ failed \subseteq 1 .. Len(files)
  BY SameNames DEF Graph!TypeOK
<1>2. ASSUME Graph!AtDefinition
      PROVE  fi \in 1 .. Len(files) /\ Graph!Key(Graph!Def) \in Names
  BY <1>2, DefFacts, DefinitionFacts
<1>3. SUFFICES /\ files' = files /\ fi' \in {fi, fi + 1} /\ di' \in Nat \ {0} /\ ci' \in Nat
               /\ methodCalls' \in [Names -> SUBSET Graph!Edge] /\ failed' \subseteq 1 .. Len(files)
  BY <1>1, SameNames DEF Graph!TypeOK
<1>4. ASSUME Graph!AtDefinition, failed' = failed \cup {fi}, Graph!NextFile,
             UNCHANGED <<files, methodCalls>>
      PROVE  /\ files' = files /\ fi' \in {fi, fi + 1} /\ di' \in Nat \ {0} /\ ci' \in Nat
             /\ methodCalls' \in [Names -> SUBSET Graph!Edge] /\ failed' \subseteq 1 .. Len(files)
  BY <1>1, <1>2, <1>4 DEF Graph!NextFile
<1>4a. CASE Graph!AddFileFails \/ Graph!ReadFails
  BY <1>4, <1>4a DEF Graph!AddFileFails, Graph!ReadFails, Graph!CallsDone
<1>5. CASE Graph!SkipDefinition \/ Graph!FindNothing
  <2>1. Graph!NextDefinition /\ UNCHANGED <<files, methodCalls, failed>>
    BY <1>5 DEF Graph!SkipDefinition, Graph!FindNothing
  <2> QED
    BY <1>1, <2>1 DEF Graph!NextDefinition
<1>6. CASE Graph!FinishFile
  BY <1>1, <1>6 DEF Graph!FinishFile, Graph!NextFile
<1>7. CASE Graph!AddEdge
  <2>1. Graph!AtDefinition /\ ci < Len(Graph!Def.calls)
    BY <1>7 DEF Graph!AddEdge
  <2>2. Graph!CallEdge(Graph!Def.calls[ci + 1]) \in Graph!Edge
    <3>1. Graph!Def \in Graph!Definition /\ Graph!Def.calls \in Seq(Cursors)
      BY <2>1, DefFacts, DefinitionFacts
    <3>2. ci + 1 \in 1 .. Len(Graph!Def.calls)
      BY <1>1, <2>1, <3>1
    <3> QED
      BY <3>1, <3>2, DefinitionFacts
  <2>3. Graph!AddTo(methodCalls[Graph!Key(Graph!Def)], Graph!CallEdge(Graph!Def.calls[ci + 1])) \in SUBSET Graph!Edge
    BY <1>1, <1>2, <2>1, <2>2, AddToFacts
  <2> QED
    BY <1>1, <1>2, <1>7, <2>1, <2>3 DEF Graph!AddEdge
<1>8. CASE Graph!FindNewGlobalRef
  <2>1. Graph!AtDefinition
    BY <1>8 DEF Graph!FindNewGlobalRef, Graph!CallsDone
  <2>2. Graph!ExitEdge(Graph!Def) \in Graph!Edge
    BY <2>1, DefFacts, DefinitionFacts
  <2>3. Graph!AddTo(methodCalls[Graph!Key(Graph!Def)], Graph!ExitEdge(Graph!Def)) \in SUBSET Graph!Edge
    BY <1>1, <1>2, <2>1, <2>2, AddToFacts
  <2> QED
    BY <1>1, <1>2, <1>8, <2>1, <2>3 DEF Graph!FindNewGlobalRef, Graph!NextDefinition
<1> QED
  BY <1>4a, <1>5, <1>6, <1>7, <1>8 DEF Graph!Next

-----------------------------------------------------------------------------
(***************************************************************************)
(* START-UP                                                                *)
(***************************************************************************)

db == databases[None]

(***************************************************************************)
(* What has been read of the database in the working directory: the items  *)
(* before item, all whole, and for each file the last command among them.  *)
(***************************************************************************)
LoadedOK ==
    /\ item \in Nat \ {0}
    /\ \A j \in 1 .. item - 1 : j \in DOMAIN db /\ IsWhole(db[j]) /\ db[j].file \in DOMAIN headerMap
    /\ \A f \in DOMAIN headerMap : \E k \in 1 .. item - 1 :
          /\ db[k].file = f /\ headerMap[f] = db[k].command
          /\ \A j \in 1 .. item - 1 : db[j].file = f => j <= k

(***************************************************************************)
(* What each step of the start-up leaves to the ones after it.             *)
(***************************************************************************)
StartupInv ==
    /\ StartupTypeOK
    /\ databases \in [Database \cup {None} -> Seq(Item)]
    /\ LoadedOK
    /\ step # "main" => compileDbFile = None
    /\ step = "import" => aospPath = BuiltInPath
    /\ step # "import" => includesOf = BuiltInPath
    /\ step \notin {"import", "load"} => item \notin DOMAIN db \/ ~IsWhole(db[item])
    /\ step \in {"arguments", "main"} => libraryPathSet
    /\ step = "main" => argv.source # None

(* The items of the database, read one by one. *)
LEMMA DatabaseFacts ==
    ASSUME StartupInv
    PROVE  /\ db \in Seq(Item) /\ Len(db) \in Nat /\ DOMAIN db = 1 .. Len(db)
           /\ \A j \in DOMAIN db : /\ db[j] \in Item
                                   /\ IsWhole(db[j]) => db[j].file \in Nat /\ db[j].command \in Command
<1>1. db \in Seq(Item)
  BY DEF StartupInv, db
<1>2. \A j \in DOMAIN db : db[j] \in Item
  BY <1>1
<1> QED
  BY <1>1, <1>2 DEF Item, IsWhole

(* An item adds a command, or is broken and ends the loading. *)
LEMMA LoadItemStep ==
    ASSUME StartupInv, LoadItem
    PROVE  StartupInv'
<1>1. /\ step = "load" /\ step' = "load" /\ compileDbFile = None
      /\ item \in Nat \ {0} /\ item \in DOMAIN db /\ IsWhole(db[item])
      /\ item' = item + 1
      /\ headerMap' = [f \in DOMAIN headerMap \cup {db[item].file} |->
                          IF f = db[item].file THEN db[item].command ELSE headerMap[f]]
      /\ UNCHANGED <<argv, databases, aospPath, compileDbFile, includesOf, libraryPathSet>>
  BY DatabaseFacts DEF LoadItem, Loading, Items, StartupInv, LoadedOK, db
<1>2. db' = db
  BY <1>1 DEF db
<1>3. \A j \in 1 .. item : j \in DOMAIN db /\ IsWhole(db[j]) /\ db[j].file \in DOMAIN headerMap'
  BY <1>1 DEF StartupInv, LoadedOK
<1>4. ASSUME NEW f \in DOMAIN headerMap'
      PROVE  \E k \in 1 .. item : /\ db[k].file = f /\ headerMap'[f] = db[k].command
                                  /\ \A j \in 1 .. item : db[j].file = f => j <= k
  <2>1. CASE f = db[item].file
    BY <1>1, <2>1
  <2>2. CASE f # db[item].file
    <3>1. PICK k \in 1 .. item - 1 : /\ db[k].file = f /\ headerMap[f] = db[k].command
                                     /\ \A j \in 1 .. item - 1 : db[j].file = f => j <= k
      BY <1>1, <2>2 DEF StartupInv, LoadedOK
    <3>2. \A j \in 1 .. item : db[j].file = f => j <= k
      BY <1>1, <2>2, <3>1
    <3> QED
      BY <1>1, <2>2, <3>1, <3>2
  <2> QED
    BY <2>1, <2>2
<1>5. LoadedOK'
  <2>1. item' - 1 = item /\ item' \in Nat \ {0}
    BY <1>1
  <2>2. \A j \in 1 .. item' - 1 : j \in DOMAIN db' /\ IsWhole(db'[j]) /\ db'[j].file \in DOMAIN headerMap'
    BY <1>2, <1>3, <2>1
  <2>3. \A f \in DOMAIN headerMap' : \E k \in 1 .. item' - 1 :
           /\ db'[k].file = f /\ headerMap'[f] = db'[k].command
           /\ \A j \in 1 .. item' - 1 : db'[j].file = f => j <= k
    BY <1>2, <1>4, <2>1
  <2> QED
    BY <2>1, <2>2, <2>3 DEF LoadedOK, IsWhole
<1>6. \A f \in DOMAIN headerMap' : f \in Nat /\ headerMap'[f] \in Command
  BY <1>1, DatabaseFacts DEF StartupInv, StartupTypeOK
<1>7. StartupTypeOK /\ item' \in Nat
  BY <1>1 DEF StartupInv
<1>8. StartupTypeOK'
  BY <1>1, <1>6, <1>7 DEF StartupTypeOK
<1> QED
  BY <1>1, <1>2, <1>5, <1>8 DEF StartupInv

(* Imports, database, library and arguments keep what start-up promises. *)
LEMMA StartupStep ==
    ASSUME StartupInv, StartupNext
    PROVE  StartupInv'
<1>1. CASE LoadItem
  BY <1>1, LoadItemStep
<1> SUFFICES ASSUME UNCHANGED <<argv, databases, item, headerMap>>,
                    ImportCompileInfo \/ LoadEnds \/ InitUtils \/ InitArgParser \/ PrintHelp
             PROVE  StartupInv'
  BY <1>1 DEF StartupNext, ImportCompileInfo, LoadEnds, InitUtils, InitArgParser, PrintHelp
<1>2. db' = db /\ (LoadedOK => LoadedOK')
  BY DEF LoadedOK, db, IsWhole
<1>3. CASE ImportCompileInfo
  BY <1>2, <1>3, PathAssumption DEF ImportCompileInfo, StartupInv, StartupTypeOK
<1>4. CASE LoadEnds
  BY <1>2, <1>4, DatabaseFacts DEF LoadEnds, Loading, Items, StartupInv, StartupTypeOK, db, LoadedOK, IsWhole
<1>5. CASE InitUtils
  BY <1>2, <1>5 DEF InitUtils, StartupInv, StartupTypeOK, IsWhole
<1>6. CASE InitArgParser
  BY <1>2, <1>6 DEF InitArgParser, StartupInv, StartupTypeOK, IsWhole, Argv
<1>7. CASE PrintHelp
  BY <1>2, <1>7 DEF PrintHelp, StartupInv, StartupTypeOK, IsWhole
<1> QED
  BY <1>3, <1>4, <1>5, <1>6, <1>7

-----------------------------------------------------------------------------
(***************************************************************************)
(* THE TYPES OF THE SEARCH                                                 *)
(***************************************************************************)

(* A sequence without its last element. *)
LEMMA FrontFacts ==
    ASSUME NEW S, NEW s \in Seq(S), s # <<>>
    PROVE  /\ SubSeq(s, 1, Len(s) - 1) \in Seq(S)
           /\ Len(SubSeq(s, 1, Len(s) - 1)) = Len(s) - 1
           /\ \A i \in 1 .. Len(s) - 1 : SubSeq(s, 1, Len(s) - 1)[i] = s[i]
<1> PICK n \in Nat : n = Len(s) - 1
  OBVIOUS
<1>1. Len(s) = n + 1 /\ \A i \in 1 .. n : s[i] \in S
  OBVIOUS
<1>2. /\ SubSeq(s, 1, n) \in Seq(S)
      /\ Len(SubSeq(s, 1, n)) = IF 1 <= n THEN n - 1 + 1 ELSE 0
      /\ \A i \in 1 .. n - 1 + 1 : SubSeq(s, 1, n)[i] = s[1 + i - 1]
  BY <1>1, SubSeqProperties
<1>3. \A i \in 1 .. n : i \in 1 .. n - 1 + 1 /\ 1 + i - 1 = i
  OBVIOUS
<1>4. \A i \in 1 .. n : SubSeq(s, 1, n)[i] = s[i]
  BY <1>2, <1>3
<1> QED
  BY <1>1, <1>2, <1>4

(***************************************************************************)
(* The graph, the search, and what one assumes of the other: an invocation *)
(* runs for an entry point only.                                           *)
(***************************************************************************)
SearchInv ==
    /\ Search!TypeOK
    /\ methodCalls \in [Names -> SUBSET Search!Edge]
    /\ stack # <<>> => start \in entryPoints \ pending
    /\ DOMAIN callChains \subseteq entryPoints \ pending
    /\ file # Old => outcome \in {"saved", "crashed"} /\ pending = {} /\ stack = <<>>
    /\ file \notin {Old, Torn} => outcome = "saved" /\ file = callChains

(* The running invocation of the walk. *)
LEMMA TopFacts ==
    ASSUME Search!TypeOK, stack # <<>>
    PROVE  /\ Len(stack) \in Nat \ {0}
           /\ Search!Top = stack[Len(stack)]
           /\ \A i \in 1 .. Len(stack) : /\ stack[i] \in Search!Frame
                                         /\ stack[i].path \in Seq(Search!Edge)
                                         /\ stack[i].todo \in SUBSET Search!Edge
<1>1. stack \in Seq(Search!Frame)
  BY DEF Search!TypeOK
<1>2. \A i \in 1 .. Len(stack) : stack[i] \in Search!Frame
  BY <1>1
<1> QED
  BY <1>1, <1>2 DEF Search!Top, Search!Frame

(* The edges the walk goes on with. *)
LEMMA CallSetFacts ==
    ASSUME methodCalls \in [Names -> SUBSET Search!Edge], NEW e \in Search!Edge
    PROVE  /\ Search!CallSet(e) \in SUBSET Search!Edge
           /\ e.simple \in Names
  BY DEF Search!CallSet, Search!Edge

(***************************************************************************)
(* Following an edge: the invocations but the running one stay, that one   *)
(* loses the edge, and a new one starts with the path that ends in it.     *)
(***************************************************************************)
LEMMA FollowFacts ==
    ASSUME SearchInv, stack # <<>>, NEW e \in Search!Top.todo, Search!Follow(e)
    PROVE  /\ e \in Search!Edge
           /\ stack' \in Seq(Search!Frame) /\ Len(stack') = Len(stack) + 1
           /\ \A i \in 1 .. Len(stack) :
                 /\ stack'[i].path = stack[i].path
                 /\ stack'[i].todo = IF i = Len(stack) THEN stack[i].todo \ {e} ELSE stack[i].todo
           /\ stack'[Len(stack) + 1].path = Append(stack[Len(stack)].path, e)
           /\ stack'[Len(stack) + 1].todo = Search!CallSet(e)
<1> PICK n \in Nat \ {0} : n = Len(stack)
  BY TopFacts DEF SearchInv
<1>1. /\ stack \in Seq(Search!Frame) /\ n \in 1 .. Len(stack) /\ Search!Top = stack[n]
      /\ stack[n].path \in Seq(Search!Edge) /\ stack[n].todo \in SUBSET Search!Edge
  BY TopFacts DEF SearchInv, Search!TypeOK
<1>2. e \in Search!Edge /\ Search!CallSet(e) \in SUBSET Search!Edge
  BY <1>1, CallSetFacts DEF SearchInv
<1> DEFINE old == [path |-> stack[n].path, todo |-> stack[n].todo \ {e}]
           new == [path |-> Append(stack[n].path, e), todo |-> Search!CallSet(e)]
           kept == [stack EXCEPT ![n] = old]
<1>3. old \in Search!Frame
  BY <1>1 DEF Search!Frame
<1>4. new \in Search!Frame
  BY <1>1, <1>2, AppendProperties DEF Search!Frame
<1>5. /\ old.path = stack[n].path /\ old.todo = stack[n].todo \ {e}
      /\ new.path = Append(stack[n].path, e) /\ new.todo = Search!CallSet(e)
  OBVIOUS
<1>6. stack' = Append(kept, new)
  BY <1>1 DEF Search!Follow
<1> HIDE DEF old, new
<1>7. /\ kept \in Seq(Search!Frame) /\ Len(kept) = n
      /\ \A i \in 1 .. n : kept[i] = IF i = n THEN old ELSE stack[i]
  BY <1>1, <1>3
<1> HIDE DEF kept
<1>8. /\ stack' \in Seq(Search!Frame) /\ Len(stack') = n + 1
      /\ stack'[n + 1] = new /\ \A i \in 1 .. n : stack'[i] = kept[i]
  BY <1>4, <1>6, <1>7, AppendProperties
<1> QED
  BY <1>2, <1>5, <1>7, <1>8

(* The walk keeps its types and leaves the graph alone. *)
LEMMA SearchTypeStep ==
    ASSUME SearchInv, Search!Next
    PROVE  SearchInv' /\ UNCHANGED <<methodCalls, entryPoints>> /\ outcome' # "building"
<1> USE DEF SearchInv, Search!TypeOK, Search!AreChains
<1>1. CASE \E n \in pending : Search!StartSearch(n)
  <2> PICK n \in pending : Search!StartSearch(n)
    BY <1>1
  <2> DEFINE f == [path |-> <<>>, todo |-> methodCalls[n]]
  <2>1. n \in Names /\ methodCalls[n] \in SUBSET Search!Edge
    OBVIOUS
  <2>2. f \in Search!Frame
    BY <2>1 DEF Search!Frame
  <2>3. stack' = <<f>>
    BY DEF Search!StartSearch
  <2> HIDE DEF f
  <2>4. stack' \in Seq(Search!Frame)
    BY <2>2, <2>3
  <2> QED
    BY <2>4 DEF Search!StartSearch
<1>2. CASE stack # <<>> /\ \E e \in Search!Top.todo : Search!Follow(e)
  BY <1>2, FollowFacts DEF Search!Follow
<1>3. CASE Search!RecursionError
  BY <1>3 DEF Search!RecursionError
<1>4. CASE Search!NotFound
  BY <1>4, FrontFacts DEF Search!NotFound, Search!Exhausted
<1>5. CASE Search!Found
  <2>1. Search!Top.path \in Seq(Search!Edge)
    BY <1>5, TopFacts DEF Search!Found, Search!Exhausted
  <2>2. start \in entryPoints \ pending /\ stack' = <<>>
    BY <1>5 DEF Search!Found, Search!Exhausted
  <2>3. /\ DOMAIN callChains' = DOMAIN callChains \cup {start}
        /\ \A m \in DOMAIN callChains' : callChains'[m] \in Seq(Search!Edge)
    BY <1>5, <2>1 DEF Search!Found
  <2>4. stack' \in Seq(Search!Frame) /\ outcome' = outcome /\ outcome = "running" /\ file' = file
        /\ UNCHANGED <<methodCalls, entryPoints, pending, start>>
    BY <1>5, <2>2 DEF Search!Found, Search!Exhausted
  <2> QED
    BY <2>2, <2>3, <2>4
<1>6. CASE Search!NoChain
  BY <1>6 DEF Search!NoChain, Search!Exhausted
<1>7. CASE Search!SaveResults \/ Search!SaveFails
  BY <1>7 DEF Search!SaveResults, Search!SaveFails
<1> QED
  BY <1>1, <1>2, <1>3, <1>4, <1>5, <1>6, <1>7 DEF Search!Next

-----------------------------------------------------------------------------
(***************************************************************************)
(* THE PHASES OF A RUN, AND THE TYPE INVARIANT                             *)
(***************************************************************************)

(***************************************************************************)
(* How far the parts are: the search has not begun while the graph is      *)
(* built, it begins with the entry points of all files of the directory,   *)
(* and files are parsed in main only.                                      *)
(***************************************************************************)
PhaseInv ==
    /\ files # <<>>
    /\ scanned \in 0 .. DirLength
    /\ entries = UNION {EntryNames(files[i]) : i \in 1 .. scanned}
    /\ fi > Len(files) => scanned = DirLength
    /\ outcome = "building" => Search!SearchInit
    /\ outcome \in {"running", "saved"} => entryPoints = entries /\ scanned = DirLength
    /\ \A f \in DOMAIN parsedWith :
          step = "main" /\ f \in DOMAIN files /\ parsedWith[f] = ArgumentsFor(f)

TypeInv == StartupInv /\ Graph!TypeOK /\ SearchInv /\ PhaseInv

(* The second parse finds names of functions. *)
LEMMA EntryNamesFacts ==
    ASSUME Graph!TypeOK, NEW i \in DOMAIN files
    PROVE  EntryNames(files[i]) \subseteq Names
<1>1. \A d \in ToSet(files[i]) : d \in Graph!Definition
  BY FileFacts DEF ToSet
<1> QED
  BY <1>1, DefinitionFacts DEF EntryNames

(* A file has a command or is below an include path. *)
LEMMA ArgumentsType ==
    ASSUME StartupInv, NEW f
    PROVE  ArgumentsFor(f) \in Arguments
<1>1. /\ includesOf \in Path \cup {None}
      /\ f \in DOMAIN headerMap => headerMap[f] \in Command
  BY DEF StartupInv, StartupTypeOK
<1>2. CASE f \in DOMAIN headerMap
  BY <1>1, <1>2 DEF ArgumentsFor, Arguments
<1>3. CASE f \notin DOMAIN headerMap
  BY <1>1, <1>3 DEF ArgumentsFor, Arguments, Includes
<1> QED
  BY <1>2, <1>3

(***************************************************************************)
(* The invariant gives the types.                                          *)
(***************************************************************************)
LEMMA TypeInvGivesTypes == TypeInv => TypeOK
<1> SUFFICES ASSUME TypeInv PROVE TypeOK
  OBVIOUS
<1>1. files \in Seq(Seq(Graph!Definition)) /\ Len(files) \in Nat /\ scanned \in 0 .. Len(files) - 1
  BY DEF TypeInv, Graph!TypeOK, PhaseInv, DirLength
<1>2. \A i \in 1 .. scanned : EntryNames(files[i]) \subseteq Names
  BY <1>1, EntryNamesFacts DEF TypeInv
<1>3. entries \subseteq Names
  BY <1>2 DEF TypeInv, PhaseInv
<1> QED
  BY <1>3, ArgumentsType DEF TypeInv, TypeOK, PhaseInv, StartupInv, SearchInv

(* At the start all parts have their types. *)
LEMMA InitTypeInv == Init => TypeInv
<1> SUFFICES ASSUME Init PROVE TypeInv
  OBVIOUS
<1>1. PICK w \in Worlds : argv = w.argv /\ databases = w.databases /\ files = w.files
  BY DEF Init
<1>2. /\ argv \in Argv /\ databases \in [Database \cup {None} -> Seq(Item)] /\ files # <<>>
      /\ files \in Seq(Seq(Graph!Definition))
  BY <1>1, WorldsAssumption, PartsAssumption DEF Graph!InputsAssumption
<1>2a. 1 .. 1 - 1 = {} /\ DOMAIN <<>> = {}
  OBVIOUS
<1>2b. LoadedOK
  BY <1>2a DEF Init, StartupInit, LoadedOK
<1>3. StartupInv
  BY <1>2, <1>2a, <1>2b, PathAssumption DEF Init, StartupInit, StartupInv, StartupTypeOK
<1>4. methodCalls \in [Names -> SUBSET Graph!Edge] /\ methodCalls \in [Names -> SUBSET Search!Edge]
  BY DEF Init
<1>5. Graph!TypeOK
  BY <1>2, <1>4, SameNames DEF Init, Graph!TypeOK
<1>6. SearchInv
  BY <1>4 DEF Init, Search!SearchInit, SearchInv, Search!TypeOK, Search!AreChains
<1>7. PhaseInv
  <2>1. Len(files) \in Nat \ {0} /\ fi = 1 /\ scanned = 0 /\ entries = {} /\ DOMAIN parsedWith = {}
        /\ outcome = "building" /\ Search!SearchInit
    BY <1>2, <1>2a DEF Init, Search!SearchInit
  <2>2. 1 .. scanned = {}
    BY <2>1
  <2> QED
    BY <1>2, <2>1, <2>2 DEF PhaseInv, DirLength
<1> QED
  BY <1>3, <1>5, <1>6, <1>7 DEF TypeInv

(* And each step of the program keeps them. *)
LEMMA TypeInvStep == TypeInv /\ [Next]_vars => TypeInv'
<1> SUFFICES ASSUME TypeInv, [Next]_vars PROVE TypeInv'
  OBVIOUS
<1> USE DEF TypeInv
<1>0. Len(files) \in Nat /\ DirLength = Len(files) - 1 /\ files # <<>> /\ Len(files) # 0
  BY DEF Graph!TypeOK, PhaseInv, DirLength
<1>1. CASE Startup
  <2>1. /\ StartupNext /\ outcome = "building" /\ step # "main"
        /\ UNCHANGED <<files, fi, di, ci, failed, methodCalls, entryPoints, pending, start, stack,
                       callChains, file, scanned, entries, parsedWith>>
        /\ outcome' \in {"crashed", "building"}
    BY <1>1 DEF Startup, StartupNext, graphVars, dirVars, ImportCompileInfo, LoadItem, Loading,
                LoadEnds, InitUtils, InitArgParser, PrintHelp
  <2>2. StartupInv'
    BY <2>1, StartupStep
  <2>3. Graph!TypeOK'
    BY <2>1 DEF Graph!TypeOK
  <2>4. SearchInv'
    BY <2>1 DEF SearchInv, Search!TypeOK, PhaseInv, Search!SearchInit
  <2>5. PhaseInv'
    BY <2>1 DEF PhaseInv, Search!SearchInit, DirLength
  <2> QED
    BY <2>2, <2>3, <2>4, <2>5
<1>2. CASE ListFails \/ ExtractFails
  <2>1. /\ outcome' = "crashed" /\ file = Old
        /\ UNCHANGED <<startupVars, files, fi, di, ci, failed, methodCalls, entryPoints, pending,
                       start, stack, callChains, file, scanned, entries, parsedWith>>
    BY <1>2 DEF ListFails, ExtractFails, AllAdded, Building, graphVars, dirVars, PhaseInv, Search!SearchInit
  <2>2. StartupInv'
    BY <2>1 DEF startupVars, StartupInv, StartupTypeOK, LoadedOK, db
  <2>3. Graph!TypeOK'
    BY <2>1 DEF Graph!TypeOK
  <2>4. SearchInv'
    BY <2>1 DEF SearchInv, Search!TypeOK
  <2>5. PhaseInv'
    BY <2>1 DEF PhaseInv, DirLength, startupVars, ArgumentsFor
  <2> QED
    BY <2>2, <2>3, <2>4, <2>5
<1>3. CASE AddFile
  <2>1. /\ Building /\ UNCHANGED startupVars /\ UNCHANGED searchVars
        /\ UNCHANGED <<scanned, entries, files>>
        /\ fi <= DirLength \/ (fi = Len(files) /\ scanned = DirLength)
    BY <1>3, GraphTypeStep DEF AddFile, Ask, graphVars, dirVars, Graph!TypeOK
  <2>2. StartupInv'
    BY <2>1 DEF startupVars, StartupInv, StartupTypeOK, LoadedOK, db
  <2>3. /\ Graph!TypeOK' /\ methodCalls' \in [Names -> SUBSET Graph!Edge]
        /\ fi' \in {fi, fi + 1}
    BY <1>3, <2>1, GraphTypeStep, SameNames DEF AddFile, Ask, graphVars, Graph!TypeOK
  <2>4. SearchInv'
    BY <2>1, <2>3, SameEdges DEF SearchInv, Search!TypeOK, searchVars
  <2>5. fi' > Len(files') => scanned' = DirLength'
    BY <2>1, <2>3, <1>0 DEF DirLength, Graph!TypeOK
  <2>6. \A f \in DOMAIN parsedWith' :
          step' = "main" /\ f \in DOMAIN files' /\ parsedWith'[f] = ArgumentsFor(f)'
    <3>1. \A f : ArgumentsFor(f)' = ArgumentsFor(f)
      BY <2>1 DEF startupVars, ArgumentsFor
    <3>2. fi \in DOMAIN files
      BY <2>1, <1>0 DEF Graph!TypeOK
    <3>3. CASE Ask(fi)
      BY <2>1, <3>1, <3>2, <3>3 DEF PhaseInv, Ask, Building, startupVars
    <3>4. CASE UNCHANGED parsedWith
      BY <2>1, <3>1, <3>4 DEF PhaseInv, startupVars
    <3> QED
      BY <1>3, <3>3, <3>4 DEF AddFile, dirVars
  <2>7. PhaseInv'
    BY <2>1, <2>5, <2>6 DEF PhaseInv, DirLength, searchVars, Search!SearchInit
  <2> QED
    BY <2>2, <2>3, <2>4, <2>7
<1>4. CASE ExtractMethods
  <2>1. /\ scanned' = scanned + 1 /\ scanned' \in 0 .. DirLength
        /\ entries' = entries \cup EntryNames(files[scanned + 1])
        /\ outcome = "building" /\ fi > DirLength
        /\ UNCHANGED <<startupVars, files, fi, di, ci, failed, methodCalls, searchVars, parsedWith>>
    BY <1>4, <1>0 DEF ExtractMethods, AllAdded, Building, graphVars, PhaseInv
  <2>2. StartupInv'
    BY <2>1 DEF startupVars, StartupInv, StartupTypeOK, LoadedOK, db
  <2>3. Graph!TypeOK'
    BY <2>1 DEF Graph!TypeOK
  <2>4. SearchInv'
    BY <2>1 DEF SearchInv, Search!TypeOK, searchVars
  <2>5. entries' = UNION {EntryNames(files[i]) : i \in 1 .. scanned'}
    <3>1. 1 .. scanned' = (1 .. scanned) \cup {scanned + 1}
      BY <2>1, <1>0 DEF PhaseInv
    <3> QED
      BY <2>1, <3>1 DEF PhaseInv
  <2>6. PhaseInv'
    BY <1>0, <2>1, <2>5 DEF PhaseInv, DirLength, startupVars, searchVars, ArgumentsFor, Search!SearchInit
  <2> QED
    BY <2>2, <2>3, <2>4, <2>6
<1>5. CASE RunAnalysis
  <2>1. /\ outcome = "building" /\ outcome' = "running" /\ fi > Len(files)
        /\ entryPoints' = entries /\ pending' = entries
        /\ UNCHANGED <<startupVars, files, fi, di, ci, failed, methodCalls, start, stack, callChains,
                       file, scanned, entries, parsedWith>>
    BY <1>5 DEF RunAnalysis, Search!RunAnalysis, graphVars, dirVars
  <2>2. StartupInv'
    BY <2>1 DEF startupVars, StartupInv, StartupTypeOK, LoadedOK, db
  <2>3. Graph!TypeOK'
    BY <2>1 DEF Graph!TypeOK
  <2>4. Search!SearchInit /\ entries \subseteq Names
    BY <2>1, TypeInvGivesTypes DEF PhaseInv, TypeOK
  <2>5. SearchInv'
    BY <2>1, <2>4 DEF SearchInv, Search!TypeOK, Search!SearchInit, Search!AreChains
  <2>6. PhaseInv'
    BY <2>1 DEF PhaseInv, DirLength, startupVars, ArgumentsFor
  <2> QED
    BY <2>2, <2>3, <2>5, <2>6
<1>6. CASE SearchStep
  <2>1. Search!Next /\ UNCHANGED <<startupVars, files, fi, di, ci, failed, scanned, entries, parsedWith>>
    BY <1>6 DEF SearchStep, graphVars, dirVars
  <2>2. StartupInv'
    BY <2>1 DEF startupVars, StartupInv, StartupTypeOK, LoadedOK, db
  <2>3. SearchInv' /\ UNCHANGED <<methodCalls, entryPoints>> /\ outcome' # "building"
    BY <2>1, SearchTypeStep
  <2>4. Graph!TypeOK'
    BY <2>1, <2>3 DEF Graph!TypeOK
  <2>5. outcome \in {"running"}
    BY <2>1 DEF Search!Next, Search!StartSearch, Search!Follow, Search!RecursionError, Search!NotFound,
                Search!Found, Search!NoChain, Search!Exhausted, Search!SaveResults, Search!SaveFails
  <2>6. PhaseInv'
    BY <2>1, <2>3, <2>5 DEF PhaseInv, DirLength, startupVars, ArgumentsFor
  <2> QED
    BY <2>2, <2>3, <2>4, <2>6
<1>7. CASE UNCHANGED vars
  <2>1. UNCHANGED <<startupVars, files, fi, di, ci, failed, methodCalls, entryPoints, pending, start,
                    stack, callChains, outcome, file, scanned, entries, parsedWith>>
    BY <1>7 DEF vars, graphVars, searchVars, dirVars
  <2>2. StartupInv'
    BY <2>1 DEF startupVars, StartupInv, StartupTypeOK, LoadedOK, db
  <2>3. Graph!TypeOK'
    BY <2>1 DEF Graph!TypeOK
  <2>4. SearchInv'
    BY <2>1 DEF SearchInv, Search!TypeOK
  <2>5. PhaseInv'
    BY <2>1 DEF PhaseInv, DirLength, startupVars, ArgumentsFor, Search!SearchInit
  <2> QED
    BY <2>2, <2>3, <2>4, <2>5
<1> QED
  BY <1>1, <1>2, <1>3, <1>4, <1>5, <1>6, <1>7 DEF Next

(***************************************************************************)
(* The types of all parts hold in every run: what every file is parsed     *)
(* with is a command or an include path, and no chain has a foreign edge.  *)
(***************************************************************************)
THEOREM TypeCorrect == Spec => []TypeOK
<1>1. Init => TypeInv
  BY InitTypeInv
<1>2. TypeInv /\ [Next]_vars => TypeInv'
  BY TypeInvStep
<1>3. TypeInv => TypeOK
  BY TypeInvGivesTypes
<1> QED
  BY <1>1, <1>2, <1>3, PTL DEF Spec

-----------------------------------------------------------------------------
(***************************************************************************)
(* WHAT FILES ARE PARSED WITH                                              *)
(***************************************************************************)

(***************************************************************************)
(* When the database was read, the items read are the ones before the      *)
(* first broken item.                                                      *)
(***************************************************************************)
LEMMA ReadUpToBroken ==
    ASSUME StartupInv, step = "main"
    PROVE  UpToBroken(db) = 1 .. item - 1
<1>1. /\ Len(db) \in Nat /\ DOMAIN db = 1 .. Len(db) /\ item \in Nat \ {0}
      /\ \A j \in 1 .. item - 1 : j \in DOMAIN db /\ IsWhole(db[j])
      /\ item \notin DOMAIN db \/ ~IsWhole(db[item])
  BY DatabaseFacts DEF StartupInv, LoadedOK
<1>2. \A k \in 1 .. item - 1 : k \in UpToBroken(db)
  BY <1>1 DEF UpToBroken
<1>3. ASSUME NEW k \in UpToBroken(db)
      PROVE  k < item
  <2>1. k \in 1 .. Len(db) /\ \A j \in 1 .. k : IsWhole(db[j])
    BY <1>1 DEF UpToBroken
  <2> QED
    BY <1>1, <2>1
<1>4. \A k \in UpToBroken(db) : k \in 1 .. Len(db)
  BY <1>1 DEF UpToBroken
<1>5. \A k \in UpToBroken(db) : k \in 1 .. item - 1
  BY <1>1, <1>3, <1>4
<1> QED
  BY <1>2, <1>5

(* The arguments follow from the types and from what start-up promises. *)
LEMMA TypeInvGivesAmbient == TypeInv => ArgumentsAreAmbient
<1> SUFFICES ASSUME TypeInv, NEW f \in DOMAIN parsedWith
             PROVE  /\ libraryPathSet /\ argv.source # None
                    /\ LET its == ItemsFor(databases[None], f)
                       IN  IF its = {} THEN parsedWith[f] = Includes(BuiltInPath)
                           ELSE \E k \in its : /\ \A j \in its : j <= k
                                               /\ parsedWith[f].characters = databases[None][k].command
  BY DEF ArgumentsAreAmbient
<1>1. step = "main" /\ parsedWith[f] = ArgumentsFor(f) /\ libraryPathSet /\ argv.source # None
      /\ includesOf = BuiltInPath
  BY DEF TypeInv, PhaseInv, StartupInv
<1> DEFINE its == ItemsFor(db, f)
<1>2. its = {k \in 1 .. item - 1 : db[k].file = f}
  BY <1>1, ReadUpToBroken DEF ItemsFor, TypeInv
<1>3. CASE f \in DOMAIN headerMap
  <2>1. PICK k \in 1 .. item - 1 : /\ db[k].file = f /\ headerMap[f] = db[k].command
                                   /\ \A j \in 1 .. item - 1 : db[j].file = f => j <= k
    BY <1>3 DEF TypeInv, StartupInv, LoadedOK
  <2>2. k \in its /\ \A j \in its : j <= k
    BY <1>2, <2>1
  <2>3. parsedWith[f].characters = db[k].command
    BY <1>1, <1>3, <2>1 DEF ArgumentsFor
  <2> HIDE DEF its
  <2> QED
    BY <1>1, <2>2, <2>3 DEF its, db
<1>4. CASE f \notin DOMAIN headerMap
  <2>1. its = {}
    BY <1>2, <1>4 DEF TypeInv, StartupInv, LoadedOK
  <2>2. parsedWith[f] = Includes(BuiltInPath)
    BY <1>1, <1>4 DEF ArgumentsFor
  <2> HIDE DEF its
  <2> QED
    BY <1>1, <2>1, <2>2 DEF its, db
<1> QED
  BY <1>3, <1>4

(***************************************************************************)
(* Whatever -p and -c say and whatever the databases hold, a file is       *)
(* parsed with the last command before the first broken item of the        *)
(* database in the working directory, or below the built-in path; and      *)
(* only once the path of the library is set and -p is known.               *)
(***************************************************************************)
THEOREM AmbientArguments == Spec => []ArgumentsAreAmbient
<1>1. Init => TypeInv
  BY InitTypeInv
<1>2. TypeInv /\ [Next]_vars => TypeInv'
  BY TypeInvStep
<1>3. TypeInv => ArgumentsAreAmbient
  BY TypeInvGivesAmbient
<1> QED
  BY <1>1, <1>2, <1>3, PTL DEF Spec

-----------------------------------------------------------------------------
(***************************************************************************)
(* THE CALL GRAPH                                                          *)
(***************************************************************************)

(***************************************************************************)
(* Where the edge e of a definition d comes from.                          *)
(***************************************************************************)
IsEdgeOf(d, e) ==
    \/ ~e.exit /\ \E k \in DOMAIN d.calls : Graph!CallEdge(d.calls[k]) = e
    \/ Graph!SaysNewGlobalRef(d) /\ e = Graph!ExitEdge(d)

(***************************************************************************)
(* A step of the walk leaves the edges alone or adds one, of the           *)
(* definition it is at, to the node of that definition.                    *)
(***************************************************************************)
LEMMA OneEdgeStep ==
    ASSUME Graph!TypeOK, Graph!Next
    PROVE  \/ UNCHANGED methodCalls
           \/ /\ Graph!AtDefinition /\ Graph!IsEntered(Graph!Def)
              /\ \E e \in Graph!Edge :
                    /\ IsEdgeOf(Graph!Def, e)
                    /\ methodCalls' = [methodCalls EXCEPT ![Graph!Key(Graph!Def)] = Graph!AddTo(@, e)]
<1>1. CASE Graph!AddEdge
  <2>1. Graph!AtDefinition /\ Graph!IsEntered(Graph!Def) /\ ci < Len(Graph!Def.calls) /\ ci \in Nat
    BY <1>1 DEF Graph!AddEdge, Graph!TypeOK
  <2>2. Graph!Def \in Graph!Definition /\ Graph!Def.calls \in Seq(Cursors)
    BY <2>1, DefFacts, DefinitionFacts
  <2>3. ci + 1 \in 1 .. Len(Graph!Def.calls) /\ ci + 1 \in DOMAIN Graph!Def.calls
    BY <2>1, <2>2
  <2>4. Graph!CallEdge(Graph!Def.calls[ci + 1]) \in Graph!Edge
    BY <2>2, <2>3, DefinitionFacts
  <2>5. ~Graph!CallEdge(Graph!Def.calls[ci + 1]).exit
    BY DEF Graph!CallEdge
  <2>6. IsEdgeOf(Graph!Def, Graph!CallEdge(Graph!Def.calls[ci + 1]))
    BY <2>3, <2>5 DEF IsEdgeOf
  <2> QED
    BY <1>1, <2>1, <2>4, <2>6 DEF Graph!AddEdge
<1>2. CASE Graph!FindNewGlobalRef
  <2>1. Graph!AtDefinition /\ Graph!IsEntered(Graph!Def) /\ Graph!SaysNewGlobalRef(Graph!Def)
    BY <1>2 DEF Graph!FindNewGlobalRef, Graph!CallsDone
  <2>2. Graph!ExitEdge(Graph!Def) \in Graph!Edge
    BY <2>1, DefFacts, DefinitionFacts
  <2>3. IsEdgeOf(Graph!Def, Graph!ExitEdge(Graph!Def))
    BY <2>1 DEF IsEdgeOf
  <2> QED
    BY <1>2, <2>1, <2>2, <2>3 DEF Graph!FindNewGlobalRef
<1> QED
  BY <1>1, <1>2 DEF Graph!Next, Graph!AddFileFails, Graph!SkipDefinition, Graph!FindNothing,
                    Graph!ReadFails, Graph!FinishFile

(***************************************************************************)
(* Edges of the graph come from definitions: preserved by a step.          *)
(***************************************************************************)
LEMMA EdgesStep ==
    ASSUME Graph!TypeOK, Graph!EdgesComeFromDefinitions, Graph!Next
    PROVE  Graph!EdgesComeFromDefinitions'
<1>0. files' = files /\ \A i \in DOMAIN files : Graph!Walked(i)' = Graph!Walked(i)
  BY GraphTypeStep DEF Graph!Walked
<1>1. CASE UNCHANGED methodCalls
  BY <1>0, <1>1 DEF Graph!EdgesComeFromDefinitions
<1>2. ASSUME Graph!AtDefinition, Graph!IsEntered(Graph!Def), NEW e \in Graph!Edge, IsEdgeOf(Graph!Def, e),
             methodCalls' = [methodCalls EXCEPT ![Graph!Key(Graph!Def)] = Graph!AddTo(@, e)]
      PROVE  Graph!EdgesComeFromDefinitions'
  <2> DEFINE key == Graph!Key(Graph!Def)
  <2>1. /\ fi \in DOMAIN files /\ Graph!Def \in Graph!Walked(fi) /\ key \in Names
        /\ methodCalls \in [Names -> SUBSET Graph!Edge]
    BY <1>2, DefFacts, DefinitionFacts, SameNames DEF Graph!Walked, Graph!TypeOK
  <2>2. /\ \A n \in Names : n # key => methodCalls'[n] = methodCalls[n]
        /\ methodCalls'[key] = Graph!AddTo(methodCalls[key], e)
    BY <1>2, <2>1
  <2>3. \A n \in Names : \A x \in methodCalls[n] :
            /\ \E i \in DOMAIN files : \E d \in Graph!Walked(i) : Graph!Key(d) = n /\ IsEdgeOf(d, x)
            /\ \A y \in methodCalls[n] : x.full = y.full => x = y
    BY SameNames DEF Graph!EdgesComeFromDefinitions, IsEdgeOf
  <2>4. /\ methodCalls'[key] \subseteq methodCalls[key] \cup {e}
        /\ \A x \in methodCalls'[key] : \A y \in methodCalls'[key] : x.full = y.full => x = y
    BY <2>1, <2>2, <2>3, AddToFacts
  <2>5. \A n \in Names : \A x \in methodCalls'[n] :
            /\ \E i \in DOMAIN files : \E d \in Graph!Walked(i) : Graph!Key(d) = n /\ IsEdgeOf(d, x)
            /\ \A y \in methodCalls'[n] : x.full = y.full => x = y
    <3> TAKE n \in Names
    <3>1. CASE n = key
      BY <1>2, <2>1, <2>3, <2>4, <3>1
    <3>2. CASE n # key
      BY <2>2, <2>3, <3>2
    <3> QED
      BY <3>1, <3>2
  <2> HIDE DEF key
  <2> QED
    BY <1>0, <2>5, SameNames DEF Graph!EdgesComeFromDefinitions, IsEdgeOf
<1> QED
  BY <1>1, <1>2, OneEdgeStep

(***************************************************************************)
(* What a definition that was walked to its end has left in the graph.     *)
(***************************************************************************)
Has(g, n, full) == \E e \in g[n] : e.full = full

IsKept(g, d) ==
    /\ \A k \in DOMAIN d.calls : Has(g, Graph!Key(d), Graph!FullNameOf(d.calls[k]))
    /\ Graph!SaysNewGlobalRef(d) => Has(g, Graph!Key(d), Graph!FullNameOf(d.cursor))

(***************************************************************************)
(* Only files behind the walk have failed; of the others all is kept, and  *)
(* of the file at hand the definitions before di and the first ci calls.   *)
(***************************************************************************)
KeptInv ==
    /\ failed \subseteq 1 .. fi - 1
    /\ \A i \in DOMAIN files : i < fi /\ i \notin failed => \A d \in Graph!Walked(i) : IsKept(methodCalls, d)
    /\ fi \in DOMAIN files =>
          \A j \in DOMAIN files[fi] : j < di /\ Graph!IsEntered(files[fi][j]) => IsKept(methodCalls, files[fi][j])
    /\ Graph!AtDefinition /\ Graph!IsEntered(Graph!Def) =>
          \A k \in DOMAIN Graph!Def.calls :
              k <= ci => Has(methodCalls, Graph!Key(Graph!Def), Graph!FullNameOf(Graph!Def.calls[k]))

(***************************************************************************)
(* Edges are never lost again.                                             *)
(***************************************************************************)
LEMMA EdgesStay ==
    ASSUME Graph!TypeOK, Graph!Next
    PROVE  /\ \A n \in Names, full \in FullNames : Has(methodCalls, n, full) => Has(methodCalls', n, full)
           /\ \A d \in Graph!Definition : IsKept(methodCalls, d) => IsKept(methodCalls', d)
<1>1. methodCalls \in [Names -> SUBSET Graph!Edge]
  BY SameNames DEF Graph!TypeOK
<1>2. \A n \in Names : methodCalls[n] \subseteq methodCalls'[n]
  <2>1. CASE UNCHANGED methodCalls
    BY <2>1
  <2>2. ASSUME Graph!AtDefinition, NEW e \in Graph!Edge,
               methodCalls' = [methodCalls EXCEPT ![Graph!Key(Graph!Def)] = Graph!AddTo(@, e)]
        PROVE  \A n \in Names : methodCalls[n] \subseteq methodCalls'[n]
    <3>1. Graph!Key(Graph!Def) \in Names
      BY <2>2, DefFacts, DefinitionFacts
    <3> QED
      BY <1>1, <2>2, <3>1, AddToFacts
  <2> QED
    BY <2>1, <2>2, OneEdgeStep
<1>3. \A n \in Names, full \in FullNames : Has(methodCalls, n, full) => Has(methodCalls', n, full)
  BY <1>2 DEF Has
<1>4. ASSUME NEW d \in Graph!Definition, IsKept(methodCalls, d)
      PROVE  IsKept(methodCalls', d)
  <2>1. /\ Graph!Key(d) \in Names /\ Graph!FullNameOf(d.cursor) \in FullNames
        /\ \A k \in DOMAIN d.calls : Graph!FullNameOf(d.calls[k]) \in FullNames
    BY DefinitionFacts, NamesOfCursors, SameNames
  <2> QED
    BY <1>3, <1>4, <2>1 DEF IsKept
<1> QED
  BY <1>3, <1>4

(***************************************************************************)
(* The walk goes on to the next definition, all of this one being kept.    *)
(***************************************************************************)
LEMMA KeptNextDefinition ==
    ASSUME Graph!TypeOK, KeptInv, Graph!Next, Graph!AtDefinition, Graph!NextDefinition,
           UNCHANGED failed, Graph!IsEntered(Graph!Def) => IsKept(methodCalls', Graph!Def)
    PROVE  KeptInv'
<1>1. /\ files' = files /\ fi' = fi /\ di' = di + 1 /\ ci' = 0 /\ di \in Nat \ {0} /\ fi \in Nat \ {0}
      /\ fi \in DOMAIN files /\ di \in DOMAIN files[fi] /\ Graph!Def = files[fi][di]
      /\ \A i \in DOMAIN files : Graph!Walked(i)' = Graph!Walked(i)
      /\ \A j \in DOMAIN files[fi] : files[fi][j] \in Graph!Definition /\ j \in Nat
  BY GraphTypeStep, DefFacts, FileFacts DEF Graph!NextDefinition, Graph!TypeOK, Graph!Walked
<1>2. \A i \in DOMAIN files : \A d \in Graph!Walked(i) : d \in Graph!Definition
  BY FileFacts DEF Graph!Walked
<1>3. \A i \in DOMAIN files : i < fi /\ i \notin failed => \A d \in Graph!Walked(i) : IsKept(methodCalls', d)
  BY <1>2, EdgesStay DEF KeptInv
<1>4. \A j \in DOMAIN files[fi] : j < di + 1 /\ Graph!IsEntered(files[fi][j]) => IsKept(methodCalls', files[fi][j])
  <2> TAKE j \in DOMAIN files[fi]
  <2>1. CASE j = di
    BY <1>1, <2>1
  <2>2. CASE j # di
    BY <1>1, <2>2, EdgesStay DEF KeptInv
  <2> QED
    BY <2>1, <2>2
<1>5. \A k \in DOMAIN (Graph!Def)'.calls : Graph!AtDefinition' => ~(k <= ci')
  <2> SUFFICES ASSUME Graph!AtDefinition', NEW k \in DOMAIN (Graph!Def)'.calls PROVE ~(k <= ci')
    OBVIOUS
  <2>1. di + 1 \in DOMAIN files[fi] /\ (Graph!Def)' = files[fi][di + 1]
    BY <1>1, FileFacts DEF Graph!AtDefinition, Graph!InFile, Graph!Def
  <2>2. (Graph!Def)'.calls \in Seq(Cursors)
    BY <1>1, <2>1, DefinitionFacts
  <2> QED
    BY <1>1, <2>2
<1> QED
  BY <1>1, <1>3, <1>4, <1>5 DEF KeptInv

(***************************************************************************)
(* The walk goes on to the next file: this one failed or all of it is kept.*)
(***************************************************************************)
LEMMA KeptNextFile ==
    ASSUME Graph!TypeOK, KeptInv, Graph!Next, Graph!NextFile, UNCHANGED methodCalls,
           fi \in DOMAIN files, failed' = failed \cup {fi} \/ (failed' = failed /\ di > Len(files[fi]))
    PROVE  KeptInv'
<1>1. /\ files' = files /\ fi' = fi + 1 /\ di' = 1 /\ ci' = 0 /\ fi \in Nat \ {0}
      /\ \A i \in DOMAIN files : Graph!Walked(i)' = Graph!Walked(i)
      /\ \A d : IsKept(methodCalls', d) <=> IsKept(methodCalls, d)
  BY GraphTypeStep DEF Graph!NextFile, Graph!TypeOK, Graph!Walked
<1>2. failed' \subseteq 1 .. fi
  <2>1. failed \subseteq 1 .. fi - 1 /\ fi \in 1 .. fi /\ 1 .. fi - 1 \subseteq 1 .. fi
    BY <1>1 DEF KeptInv
  <2> QED
    BY <2>1
<1>3. ASSUME NEW i \in DOMAIN files, i < fi + 1, i \notin failed', NEW d \in Graph!Walked(i)
      PROVE  IsKept(methodCalls, d)
  <2>1. CASE i = fi
    <3>1. fi \notin failed' /\ di > Len(files[fi])
      BY <1>3, <2>1
    <3>2. PICK j \in DOMAIN files[fi] : Graph!IsEntered(files[fi][j]) /\ d = files[fi][j]
      BY <2>1 DEF Graph!Walked
    <3>3. files[fi] \in Seq(Graph!Definition) /\ di \in Nat
      BY FileFacts DEF Graph!TypeOK
    <3>4. j < di
      BY <3>1, <3>2, <3>3
    <3> QED
      BY <3>2, <3>4 DEF KeptInv
  <2>2. CASE i # fi
    <3>1. i < fi /\ i \notin failed
      BY <1>1, <1>3, <2>2 DEF Graph!TypeOK
    <3> QED
      BY <3>1 DEF KeptInv
  <2> QED
    BY <2>1, <2>2
<1>4. ASSUME Graph!AtDefinition', NEW k \in DOMAIN (Graph!Def)'.calls
      PROVE  ~(k <= ci')
  <2>1. fi + 1 \in DOMAIN files /\ 1 \in DOMAIN files[fi + 1] /\ (Graph!Def)' = files[fi + 1][1]
    BY <1>1, <1>4, FileFacts DEF Graph!AtDefinition, Graph!InFile, Graph!Def, Graph!TypeOK
  <2>2. (Graph!Def)'.calls \in Seq(Cursors)
    BY <2>1, FileFacts, DefinitionFacts
  <2> QED
    BY <1>1, <2>2
<1>5. fi' \in DOMAIN files => \A j \in DOMAIN files[fi'] : ~(j < 1)
  BY FileFacts
<1> QED
  BY <1>1, <1>2, <1>3, <1>4, <1>5 DEF KeptInv

(* A step of add_file keeps what is said of the files before it. *)
LEMMA KeptStep ==
    ASSUME Graph!TypeOK, KeptInv, Graph!Next
    PROVE  KeptInv'
<1>1. fi \in Nat \ {0} /\ di \in Nat \ {0} /\ ci \in Nat /\ files' = files
      /\ methodCalls \in [Names -> SUBSET Graph!Edge] /\ files \in Seq(Seq(Graph!Definition))
  BY GraphTypeStep, SameNames DEF Graph!TypeOK
<1>2. CASE Graph!AddFileFails \/ Graph!ReadFails
  <2>1. Graph!AtDefinition /\ Graph!NextFile /\ UNCHANGED methodCalls /\ failed' = failed \cup {fi}
    BY <1>2 DEF Graph!AddFileFails, Graph!ReadFails, Graph!CallsDone
  <2> QED
    BY <2>1, DefFacts, KeptNextFile
<1>3. CASE Graph!FinishFile
  <2>1. fi \in DOMAIN files
    BY <1>1, <1>3 DEF Graph!FinishFile, Graph!InFile
  <2> QED
    BY <1>3, <2>1, KeptNextFile DEF Graph!FinishFile
<1>4. CASE Graph!SkipDefinition
  BY <1>4, KeptNextDefinition DEF Graph!SkipDefinition
<1>5. ASSUME Graph!CallsDone, NEW k \in DOMAIN Graph!Def.calls
      PROVE  Has(methodCalls, Graph!Key(Graph!Def), Graph!FullNameOf(Graph!Def.calls[k]))
  <2>1. Graph!AtDefinition /\ Graph!IsEntered(Graph!Def) /\ ci = Len(Graph!Def.calls)
    BY <1>5 DEF Graph!CallsDone
  <2>2. k <= ci
    BY <2>1, DefFacts, DefinitionFacts
  <2> QED
    BY <2>1, <2>2 DEF KeptInv
<1>6. CASE Graph!FindNothing
  <2>1. Graph!CallsDone /\ Graph!AtDefinition /\ Graph!NextDefinition /\ UNCHANGED <<failed, methodCalls>>
        /\ ~Graph!SaysNewGlobalRef(Graph!Def)
    BY <1>6 DEF Graph!FindNothing, Graph!CallsDone, Graph!SaysNewGlobalRef
  <2>2. IsKept(methodCalls', Graph!Def)
    BY <1>5, <2>1 DEF IsKept
  <2> QED
    BY <2>1, <2>2, KeptNextDefinition
<1>7. CASE Graph!FindNewGlobalRef
  <2> DEFINE d == Graph!Def
             n == Graph!Key(d)
  <2>1. Graph!CallsDone /\ Graph!AtDefinition /\ Graph!NextDefinition /\ UNCHANGED failed
        /\ methodCalls' = [methodCalls EXCEPT ![n] = Graph!AddTo(@, Graph!ExitEdge(d))]
    BY <1>7 DEF Graph!FindNewGlobalRef, Graph!CallsDone
  <2>2. n \in Names /\ d \in Graph!Definition /\ Graph!ExitEdge(d) \in Graph!Edge
        /\ Graph!ExitEdge(d).full = Graph!FullNameOf(d.cursor)
    BY <2>1, DefFacts, DefinitionFacts DEF Graph!ExitEdge
  <2>3. Has(methodCalls', n, Graph!FullNameOf(d.cursor))
    <3>1. methodCalls'[n] = Graph!AddTo(methodCalls[n], Graph!ExitEdge(d)) /\ methodCalls[n] \in SUBSET Graph!Edge
      BY <1>1, <2>1, <2>2
    <3> QED
      BY <2>2, <3>1, AddToFacts DEF Has
  <2>4. \A k \in DOMAIN d.calls : Graph!FullNameOf(d.calls[k]) \in FullNames
    BY <2>2, DefinitionFacts, NamesOfCursors, SameNames
  <2>5. \A k \in DOMAIN d.calls : Has(methodCalls', n, Graph!FullNameOf(d.calls[k]))
    BY <1>5, <2>1, <2>2, <2>4, EdgesStay
  <2>6. IsKept(methodCalls', d)
    BY <2>3, <2>5 DEF IsKept
  <2> HIDE DEF d, n
  <2> QED
    BY <2>1, <2>6, KeptNextDefinition DEF d
<1>8. CASE Graph!AddEdge
  <2> DEFINE d == Graph!Def
             n == Graph!Key(d)
  <2>1. /\ Graph!AtDefinition /\ Graph!IsEntered(d) /\ ci < Len(d.calls)
        /\ ci' = ci + 1 /\ UNCHANGED <<files, fi, di, failed>>
        /\ methodCalls' = [methodCalls EXCEPT ![n] = Graph!AddTo(@, Graph!CallEdge(d.calls[ci + 1]))]
    BY <1>8 DEF Graph!AddEdge
  <2>2. /\ n \in Names /\ d \in Graph!Definition /\ d.calls \in Seq(Cursors) /\ ci + 1 \in 1 .. Len(d.calls)
        /\ \A k \in 1 .. Len(d.calls) : Graph!FullNameOf(d.calls[k]) \in FullNames
    BY <1>1, <2>1, DefFacts, DefinitionFacts, NamesOfCursors, SameNames
  <2>3. Graph!CallEdge(d.calls[ci + 1]) \in Graph!Edge
        /\ Graph!CallEdge(d.calls[ci + 1]).full = Graph!FullNameOf(d.calls[ci + 1])
    BY <2>2, DefinitionFacts DEF Graph!CallEdge
  <2>4. Has(methodCalls', n, Graph!FullNameOf(d.calls[ci + 1]))
    <3>1. /\ methodCalls'[n] = Graph!AddTo(methodCalls[n], Graph!CallEdge(d.calls[ci + 1]))
          /\ methodCalls[n] \in SUBSET Graph!Edge
      BY <1>1, <2>1, <2>2
    <3> QED
      BY <2>3, <3>1, AddToFacts DEF Has
  <2>5. \A k \in 1 .. Len(d.calls) : k <= ci + 1 => Has(methodCalls', n, Graph!FullNameOf(d.calls[k]))
    <3> SUFFICES ASSUME NEW k \in 1 .. Len(d.calls), k <= ci + 1
                 PROVE  Has(methodCalls', n, Graph!FullNameOf(d.calls[k]))
      OBVIOUS
    <3>1. CASE k = ci + 1
      BY <2>4, <3>1
    <3>2. CASE k <= ci
      <4>1. k \in DOMAIN d.calls
        BY <2>2
      <4>2. Has(methodCalls, n, Graph!FullNameOf(d.calls[k]))
        BY <2>1, <3>2, <4>1 DEF KeptInv
      <4> QED
        BY <2>2, <4>2, EdgesStay
    <3>3. k \in Nat /\ ci \in Nat
      BY <1>1, <2>2
    <3>4. k = ci + 1 \/ k <= ci
      BY <3>3
    <3> QED
      BY <3>1, <3>2, <3>4
  <2>6. /\ (Graph!Def)' = d /\ \A i \in DOMAIN files : Graph!Walked(i)' = Graph!Walked(i)
        /\ \A i \in DOMAIN files : \A x \in Graph!Walked(i) : x \in Graph!Definition
        /\ \A i \in DOMAIN files : \A j \in DOMAIN files[i] : files[i][j] \in Graph!Definition
    BY <2>1, FileFacts DEF Graph!Def, Graph!Walked
  <2>7. /\ \A i \in DOMAIN files : i < fi /\ i \notin failed => \A x \in Graph!Walked(i) : IsKept(methodCalls', x)
        /\ fi \in DOMAIN files =>
              \A j \in DOMAIN files[fi] : j < di /\ Graph!IsEntered(files[fi][j]) => IsKept(methodCalls', files[fi][j])
    BY <2>6, EdgesStay DEF KeptInv
  <2>8. \A k \in DOMAIN d.calls : k <= ci + 1 => Has(methodCalls', n, Graph!FullNameOf(d.calls[k]))
    BY <2>2, <2>5
  <2> HIDE DEF d, n
  <2> QED
    BY <2>1, <2>6, <2>7, <2>8 DEF KeptInv, n
<1> QED
  BY <1>2, <1>3, <1>4, <1>6, <1>7, <1>8 DEF Graph!Next

(***************************************************************************)
(* The edges and what is kept of the files, with the types they rest on.   *)
(***************************************************************************)
GraphInv == TypeInv /\ Graph!EdgesComeFromDefinitions /\ KeptInv

(* An empty graph has no edge. *)
LEMMA InitGraphInv == Init => GraphInv
<1> SUFFICES ASSUME Init PROVE GraphInv
  OBVIOUS
<1>1. TypeInv
  BY InitTypeInv
<1>2. fi = 1 /\ di = 1 /\ ci = 0 /\ failed = {} /\ methodCalls = [n \in Names |-> {}]
      /\ files \in Seq(Seq(Graph!Definition))
  BY <1>1 DEF Init, TypeInv, Graph!TypeOK
<1>3. Graph!EdgesComeFromDefinitions
  BY <1>2, SameNames DEF Graph!EdgesComeFromDefinitions
<1>4. ASSUME Graph!AtDefinition, NEW k \in DOMAIN Graph!Def.calls
      PROVE  ~(k <= ci)
  BY <1>1, <1>2, <1>4, DefFacts, DefinitionFacts DEF TypeInv
<1>5. /\ \A i \in DOMAIN files : ~(i < fi)
      /\ fi \in DOMAIN files => \A j \in DOMAIN files[fi] : ~(j < di)
  BY <1>1, <1>2, FileFacts DEF TypeInv
<1>6. KeptInv
  BY <1>2, <1>4, <1>5 DEF KeptInv
<1> QED
  BY <1>1, <1>3, <1>6 DEF GraphInv

(* What is said of the graph holds in every step of the program. *)
LEMMA GraphInvStep == GraphInv /\ [Next]_vars => GraphInv'
<1> SUFFICES ASSUME GraphInv, [Next]_vars PROVE GraphInv'
  OBVIOUS
<1>1. TypeInv /\ TypeInv'
  BY TypeInvStep DEF GraphInv
<1>2. CASE AddFile /\ Graph!Next
  BY <1>1, <1>2, EdgesStep, KeptStep DEF GraphInv, TypeInv
<1>3. CASE UNCHANGED <<files, fi, di, ci, failed, methodCalls>>
  BY <1>1, <1>3 DEF GraphInv, Graph!EdgesComeFromDefinitions, KeptInv, Graph!Walked,
                    Graph!AtDefinition, Graph!InFile, Graph!Def
<1>4. CASE SearchStep
  BY <1>1, <1>3, <1>4, SearchTypeStep DEF SearchStep, graphVars, TypeInv
<1> QED
  BY <1>2, <1>3, <1>4 DEF Next, vars, graphVars, Startup, ListFails, AddFile, Ask, ExtractMethods, ExtractFails,
                          RunAnalysis, Search!RunAnalysis

(***************************************************************************)
(* For all files, however often one is processed and wherever a walk       *)
(* fails: no edge of the graph is made up, and no node has two edges that  *)
(* compare equal.                                                          *)
(***************************************************************************)
THEOREM NoEdgeIsMadeUp == Spec => []EdgesComeFromDefinitions
<1>1. GraphInv => EdgesComeFromDefinitions
  BY DEF GraphInv, EdgesComeFromDefinitions
<1> QED
  BY <1>1, InitGraphInv, GraphInvStep, PTL DEF Spec

(***************************************************************************)
(* A file that fails takes nothing away from the others: each call and     *)
(* each NewGlobalRef of a file that did not fail is an edge, or lost to an *)
(* edge of the same full name.                                             *)
(***************************************************************************)
THEOREM NothingElseIsLost == Spec => []LostOnlyToEqualFullName
<1>1. GraphInv => LostOnlyToEqualFullName
  BY DEF GraphInv, KeptInv, IsKept, Has, LostOnlyToEqualFullName, Graph!LostOnlyToEqualFullName, Graph!HasEdge
<1> QED
  BY <1>1, InitGraphInv, GraphInvStep, PTL DEF Spec

-----------------------------------------------------------------------------
(***************************************************************************)
(* WHAT A NODE REACHES                                                     *)
(***************************************************************************)

Graphs == [Names -> SUBSET Search!Edge]

(***************************************************************************)
(* A set of nodes no call leads out of, and the nodes reached from n: the  *)
(* ones in every such set that has n.  g is a call graph.                  *)
(***************************************************************************)
IsClosed(g, S) == \A x \in S : \A e \in g[x] : ~e.exit => e.simple \in S

Reached(g, n) == {m \in Names : \A S \in SUBSET Names : n \in S /\ IsClosed(g, S) => m \in S}

(* An edge of a graph leads to a name. *)
LEMMA EdgeFacts ==
    ASSUME NEW g \in Graphs, NEW x \in Names, NEW e \in g[x]
    PROVE  e \in Search!Edge /\ e.simple \in Names /\ e.exit \in BOOLEAN
<1>1. e \in Search!Edge
  BY DEF Graphs
<1> QED
  BY <1>1 DEF Search!Edge

(* Reached(g, n) is the least closed set with n. *)
LEMMA ReachedFacts ==
    ASSUME NEW g \in Graphs, NEW n \in Names
    PROVE  /\ Reached(g, n) \in SUBSET Names
           /\ n \in Reached(g, n)
           /\ IsClosed(g, Reached(g, n))
           /\ \A S \in SUBSET Names : n \in S /\ IsClosed(g, S) => Reached(g, n) \subseteq S
           /\ \A m \in Reached(g, n) : Reached(g, m) \subseteq Reached(g, n)
<1>1. /\ Reached(g, n) \in SUBSET Names /\ n \in Reached(g, n)
      /\ \A S \in SUBSET Names : n \in S /\ IsClosed(g, S) => Reached(g, n) \subseteq S
  BY DEF Reached
<1>2. IsClosed(g, Reached(g, n))
  <2> SUFFICES ASSUME NEW x \in Reached(g, n), NEW e \in g[x], ~e.exit
               PROVE  e.simple \in Reached(g, n)
    BY DEF IsClosed
  <2>1. x \in Names /\ e.simple \in Names
    BY <1>1, EdgeFacts
  <2>2. \A S \in SUBSET Names : n \in S /\ IsClosed(g, S) => e.simple \in S
    BY <1>1 DEF IsClosed
  <2> QED
    BY <2>1, <2>2 DEF Reached
<1>3. \A m \in Reached(g, n) : Reached(g, m) \subseteq Reached(g, n)
  BY <1>1, <1>2 DEF Reached
<1> QED
  BY <1>1, <1>2, <1>3

(***************************************************************************)
(* What is reached from n is n, and what is reached from what it calls.    *)
(***************************************************************************)
LEMMA ReachedUnfold ==
    ASSUME NEW g \in Graphs, NEW n \in Names
    PROVE  \A m \in Reached(g, n) : \/ m = n
                                    \/ \E e \in g[n] : ~e.exit /\ m \in Reached(g, e.simple)
<1> DEFINE S == {m \in Names : m = n \/ \E e \in g[n] : ~e.exit /\ m \in Reached(g, e.simple)}
<1>1. IsClosed(g, S)
  <2> SUFFICES ASSUME NEW x \in S, NEW d \in g[x], ~d.exit
               PROVE  d.simple \in S
    BY DEF IsClosed
  <2>1. x \in Names /\ d.simple \in Names
    BY EdgeFacts
  <2>2. CASE x = n
    <3>1. d.simple \in Reached(g, d.simple)
      BY <2>1, ReachedFacts
    <3> QED
      BY <2>1, <2>2, <3>1
  <2>3. ASSUME NEW e \in g[n], ~e.exit, x \in Reached(g, e.simple)
        PROVE  d.simple \in S
    <3>1. e.simple \in Names
      BY EdgeFacts
    <3>2. d.simple \in Reached(g, e.simple)
      BY <2>3, <3>1, ReachedFacts DEF IsClosed
    <3> QED
      BY <2>1, <2>3, <3>2
  <2> QED
    BY <2>2, <2>3
<1>2. S \in SUBSET Names /\ n \in S
  OBVIOUS
<1>3. Reached(g, n) \subseteq S
  <2> HIDE DEF S
  <2> QED
    BY <1>1, <1>2, ReachedFacts
<1> QED
  BY <1>3

ReachesExitIn(g, n) == \E m \in Reached(g, n) : \E e \in g[m] : Search!IsExit(e)

(***************************************************************************)
(* An exit is reached from n when an edge of n is one, or leads to a node  *)
(* from which one is reached.                                              *)
(***************************************************************************)
LEMMA ReachesUnfold ==
    ASSUME NEW g \in Graphs, NEW n \in Names
    PROVE  ReachesExitIn(g, n) <=>
               \E e \in g[n] : Search!IsExit(e) \/ (~e.exit /\ ReachesExitIn(g, e.simple))
<1>1. ASSUME ReachesExitIn(g, n)
      PROVE  \E e \in g[n] : Search!IsExit(e) \/ (~e.exit /\ ReachesExitIn(g, e.simple))
  BY <1>1, ReachedUnfold DEF ReachesExitIn
<1>2. ASSUME NEW e \in g[n], Search!IsExit(e)
      PROVE  ReachesExitIn(g, n)
  BY <1>2, ReachedFacts DEF ReachesExitIn
<1>3. ASSUME NEW e \in g[n], ~e.exit, ReachesExitIn(g, e.simple)
      PROVE  ReachesExitIn(g, n)
  <2>1. n \in Reached(g, n) /\ IsClosed(g, Reached(g, n))
    BY ReachedFacts
  <2>2. e.simple \in Reached(g, n)
    BY <1>3, <2>1 DEF IsClosed
  <2>3. Reached(g, e.simple) \subseteq Reached(g, n)
    BY <2>2, ReachedFacts
  <2> QED
    BY <1>3, <2>3 DEF ReachesExitIn
<1> QED
  BY <1>1, <1>2, <1>3

(* The instances share the meaning of Cardinality. *)
LEMMA SameCardinality == Search!Cardinality(Names) = Cardinality(Names)
  BY DEF Search!Cardinality, Cardinality

(* There are as many names as cursors at most. *)
LEMMA NamesAreFinite == IsFiniteSet(Names) /\ Cardinality(Names) \in Nat
<1>1. Search!IsFiniteSet(Names) <=> IsFiniteSet(Names)
  BY DEF Search!IsFiniteSet, IsFiniteSet
<1>2. IsFiniteSet(Names)
  BY <1>1, PartsAssumption DEF Search!NameAssumption
<1> QED
  BY <1>2, FS_CardinalityType

(***************************************************************************)
(* The module counts rounds to compute what is reached; the nodes a node   *)
(* calls are the successors of RoundsLemmas.                               *)
(***************************************************************************)
Calls(g) == [x \in Names |-> {e.simple : e \in {d \in g[x] : ~d.exit}}]

(* The graph in the form of RoundsLemmas. *)
LEMMA CallsFacts ==
    ASSUME NEW g \in Graphs
    PROVE  /\ Calls(g) \in [Names -> SUBSET Names]
           /\ \A S \in SUBSET Names : IsClosedIn(Calls(g), S) <=> IsClosed(g, S)
           /\ \A S \in SUBSET Names :
                 SuccessorsIn(Calls(g), S) = {e.simple : e \in {d \in UNION {g[x] : x \in S} : ~d.exit}}
<1>1. ASSUME NEW x \in Names
      PROVE  {e.simple : e \in {d \in g[x] : ~d.exit}} \in SUBSET Names
  BY EdgeFacts
<1>2. Calls(g) \in [Names -> SUBSET Names]
  BY <1>1 DEF Calls
<1>3. \A S \in SUBSET Names :
         SuccessorsIn(Calls(g), S) = {e.simple : e \in {d \in UNION {g[x] : x \in S} : ~d.exit}}
  <2> SUFFICES ASSUME NEW S \in SUBSET Names, NEW y
               PROVE  y \in SuccessorsIn(Calls(g), S)
                        <=> \E x \in S : \E d \in g[x] : ~d.exit /\ y = d.simple
    OBVIOUS
  <2>1. \A x \in S : y \in Calls(g)[x] <=> \E d \in g[x] : ~d.exit /\ y = d.simple
    BY DEF Calls
  <2> QED
    BY <2>1 DEF SuccessorsIn
<1>4. \A S \in SUBSET Names : IsClosedIn(Calls(g), S) <=> IsClosed(g, S)
  BY <1>3 DEF IsClosedIn, IsClosed
<1> QED
  BY <1>2, <1>3, <1>4

(* The rounds of ReachedFrom find the least closed set. *)
LEMMA ReachedFromIsReached ==
    ASSUME methodCalls \in Graphs, NEW n \in Names
    PROVE  Search!ReachedFrom(n) = Reached(methodCalls, n)
<1> DEFINE G == Calls(methodCalls)
           N == Cardinality(Names)
           reach[k \in 0 .. N] == IF k = 0 THEN {n} ELSE reach[k - 1] \cup Search!Successors(reach[k - 1])
<1>0. N \in Nat /\ IsFiniteSet(Names) /\ G \in [Names -> SUBSET Names] /\ {n} \in SUBSET Names
  BY NamesAreFinite, CallsFacts
<1>1. PICK f : IsRounds(f, G, {n}, N)
  BY <1>0, RoundsExist
<1>2. \A k \in 0 .. N : f[k] \in SUBSET Names
  <2> HIDE DEF G, N
  <2> QED
    BY <1>0, <1>1, RoundsStayInside
<1>3. f = [k \in 0 .. N |-> IF k = 0 THEN {n} ELSE f[k - 1] \cup Search!Successors(f[k - 1])]
  <2> HIDE DEF N
  <2>1. \A S \in SUBSET Names : SuccessorsIn(G, S) = Search!Successors(S)
    BY CallsFacts DEF Search!Successors
  <2>2. \A k \in 0 .. N : k # 0 => SuccessorsIn(G, f[k - 1]) = Search!Successors(f[k - 1])
    <3> SUFFICES ASSUME NEW k \in 0 .. N, k # 0
                 PROVE  SuccessorsIn(G, f[k - 1]) = Search!Successors(f[k - 1])
      OBVIOUS
    <3>1. k - 1 \in 0 .. N
      BY <1>0
    <3> QED
      BY <1>2, <2>1, <3>1
  <2> HIDE DEF G
  <2> QED
    BY <1>1, <2>2 DEF IsRounds
<1>4. reach = [k \in 0 .. N |-> IF k = 0 THEN {n} ELSE reach[k - 1] \cup Search!Successors(reach[k - 1])]
  BY <1>3
<1>5. Search!ReachedFrom(n) = reach[N]
  BY SameCardinality DEF Search!ReachedFrom
<1>6. IsRounds(reach, G, {n}, N)
  <2> DEFINE t == [k \in 0 .. N |-> reach[k] \cup Search!Successors(reach[k])]
  <2> HIDE DEF reach, N
  <2>1. \A k \in 0 .. N - 1 : reach[k] \in SUBSET Names => t[k] = reach[k] \cup SuccessorsIn(G, reach[k])
    BY <1>0, CallsFacts DEF Search!Successors
  <2>2. IsSteps(reach, {n}, t, N)
    <3>1. \A k \in 0 .. N : k # 0 => t[k - 1] = reach[k - 1] \cup Search!Successors(reach[k - 1])
      BY <1>0
    <3> HIDE DEF t
    <3> QED
      BY <1>4, <3>1 DEF IsSteps
  <2> HIDE DEF t, G
  <2> QED
    BY <1>0, <2>1, <2>2, RoundsRecognised
<1>7. /\ reach[N] \in SUBSET Names /\ n \in reach[N] /\ IsClosedIn(G, reach[N])
      /\ \A Y \in SUBSET Names : n \in Y /\ IsClosedIn(G, Y) => reach[N] \subseteq Y
  <2> HIDE DEF reach, G
  <2> QED
    BY <1>0, <1>6, RoundsAreLeastClosed
<1>8. IsClosed(methodCalls, reach[N])
  BY <1>7, CallsFacts
<1>9. Reached(methodCalls, n) \in SUBSET Names /\ n \in Reached(methodCalls, n)
      /\ IsClosedIn(G, Reached(methodCalls, n))
  BY ReachedFacts, CallsFacts
<1> HIDE DEF reach, G, N
<1> QED
  BY <1>5, <1>7, <1>8, <1>9, ReachedFacts

(* So an exit is reached just when that set has a node with one. *)
LEMMA ReachesExitIsReached ==
    ASSUME methodCalls \in Graphs, NEW n \in Names
    PROVE  Search!ReachesExit(n) <=> ReachesExitIn(methodCalls, n)
  BY ReachedFromIsReached DEF Search!ReachesExit, ReachesExitIn

-----------------------------------------------------------------------------
(***************************************************************************)
(* THE SEARCH                                                              *)
(***************************************************************************)

(***************************************************************************)
(* The edges a path from n can go on with, the paths of the graph g, and   *)
(* the node a path is at before its edge i.                                *)
(***************************************************************************)
EdgesOf(g, e) == IF e.exit THEN {} ELSE g[e.simple]

EdgesFrom(g, n, p) == IF p = <<>> THEN g[n] ELSE EdgesOf(g, p[Len(p)])

WalkIn(g, n, p) == \A i \in 1 .. Len(p) : p[i] \in IF i = 1 THEN g[n] ELSE EdgesOf(g, p[i - 1])

Node(n, p, i) == IF i = 1 THEN n ELSE p[i - 1].simple

(* A walk consists of edges of the nodes it comes to. *)
LEMMA WalkFacts ==
    ASSUME NEW g \in Graphs, NEW n \in Names, NEW p \in Seq(Search!Edge), WalkIn(g, n, p)
    PROVE  /\ \A i \in 1 .. Len(p) : p[i] \in g[Node(n, p, i)]
           /\ \A i \in 1 .. Len(p) - 1 : ~p[i].exit
           /\ \A i \in 1 .. Len(p) + 1 : Node(n, p, i) \in Names
<1>1. \A i \in 1 .. Len(p) : p[i] \in g[Node(n, p, i)]
  BY DEF WalkIn, Node, EdgesOf
<1>2. ASSUME NEW i \in 1 .. Len(p) - 1
      PROVE  ~p[i].exit
  <2>1. i + 1 \in 1 .. Len(p) /\ i + 1 # 1 /\ (i + 1) - 1 = i
    OBVIOUS
  <2>2. p[i + 1] \in EdgesOf(g, p[i])
    BY <2>1 DEF WalkIn
  <2> QED
    BY <2>2 DEF EdgesOf
<1>3. ASSUME NEW i \in 1 .. Len(p) + 1
      PROVE  Node(n, p, i) \in Names
  <2>1. i # 1 => p[i - 1] \in Search!Edge
    OBVIOUS
  <2> QED
    BY <2>1 DEF Node, Search!Edge
<1> QED
  BY <1>1, <1>2, <1>3

(***************************************************************************)
(* A path only leads to nodes that are reached.                            *)
(***************************************************************************)
LEMMA WalkReaches ==
    ASSUME NEW g \in Graphs, NEW n \in Names, NEW p \in Seq(Search!Edge), WalkIn(g, n, p),
           NEW m \in Nat, m <= Len(p), \A k \in 1 .. m : ~p[k].exit,
           NEW i \in 1 .. m + 1
    PROVE  \A j \in i .. m + 1 : Node(n, p, j) \in Reached(g, Node(n, p, i))
<1> DEFINE T == {j \in i .. m + 1 : Node(n, p, j) \notin Reached(g, Node(n, p, i))}
<1>1. SUFFICES ASSUME T # {} PROVE FALSE
  OBVIOUS
<1>2. T \in SUBSET Nat
  OBVIOUS
<1>3. PICK j \in T : \A k \in T : j <= k
  <2> HIDE DEF T
  <2> QED
    BY <1>1, <1>2, LeastNatural
<1>4. Node(n, p, i) \in Names
  BY WalkFacts
<1>5. j # i
  BY <1>3, <1>4, ReachedFacts
<1>6. j - 1 \in i .. m + 1 /\ j - 1 \in 1 .. m /\ j - 1 \notin T /\ j # 1
  BY <1>3, <1>5
<1>7. Node(n, p, j - 1) \in Reached(g, Node(n, p, i))
  BY <1>6
<1>8. p[j - 1] \in g[Node(n, p, j - 1)] /\ ~p[j - 1].exit
  BY <1>6, WalkFacts
<1>9. p[j - 1].simple \in Reached(g, Node(n, p, i))
  BY <1>4, <1>7, <1>8, ReachedFacts DEF IsClosed
<1>10. Node(n, p, j) = p[j - 1].simple
  BY <1>6 DEF Node
<1> QED
  BY <1>3, <1>9, <1>10

(* A walk that ends in an exit shows that one is reached. *)
LEMMA WalkToExit ==
    ASSUME NEW g \in Graphs, NEW n \in Names, NEW p \in Seq(Search!Edge), WalkIn(g, n, p),
           p # <<>>, Search!IsExit(p[Len(p)])
    PROVE  ReachesExitIn(g, n)
<1> PICK m \in Nat : m = Len(p) - 1
  OBVIOUS
<1>1. Len(p) = m + 1 /\ \A k \in 1 .. m : ~p[k].exit
  BY WalkFacts
<1>2. m + 1 \in 1 .. m + 1 /\ 1 \in 1 .. m + 1 /\ m <= Len(p)
  BY <1>1
<1>3. Node(n, p, m + 1) \in Reached(g, Node(n, p, 1))
  BY <1>1, <1>2, WalkReaches
<1>4. p[m + 1] \in g[Node(n, p, m + 1)] /\ Node(n, p, 1) = n
  BY <1>1, <1>2, WalkFacts DEF Node
<1> QED
  BY <1>1, <1>3, <1>4 DEF ReachesExitIn

(***************************************************************************)
(* An edge that was tried in vain: it is no exit and leads to none.        *)
(***************************************************************************)
Hopeless(g, e) == ~Search!IsExit(e) /\ ~ReachesExitIn(g, e.simple)

(***************************************************************************)
(* The paths of the invocations are paths of the graph, each one edge      *)
(* longer than the path before; what an invocation no longer has to look   *)
(* at was hopeless, or is the edge the next invocation follows.            *)
(***************************************************************************)
FrameOK(i) ==
    /\ Len(stack[i].path) = i - 1
    /\ WalkIn(methodCalls, start, stack[i].path)
    /\ stack[i].todo \subseteq EdgesFrom(methodCalls, start, stack[i].path)
    /\ \A e \in EdgesFrom(methodCalls, start, stack[i].path) \ stack[i].todo :
          Hopeless(methodCalls, e) \/ (i < Len(stack) /\ e = stack[i + 1].path[i])

IsChain(g, n, p) == p # <<>> /\ WalkIn(g, n, p) /\ Search!IsExit(p[Len(p)])

(***************************************************************************)
(* An entry point that was searched has a chain just when an exit is       *)
(* reached from it; the limit is hit with an edge left to follow.          *)
(***************************************************************************)
ChainsInv ==
    /\ \A i \in 1 .. Len(stack) : FrameOK(i)
    /\ \A n \in DOMAIN callChains : IsChain(methodCalls, n, callChains[n])
    /\ stack # <<>> => start \notin DOMAIN callChains
    /\ \A n \in entryPoints \ pending :
          \/ n = start /\ stack # <<>>
          \/ n \in DOMAIN callChains <=> ReachesExitIn(methodCalls, n)
    /\ outcome = "crashed" /\ stack # <<>> => Len(stack) = maxDepth /\ Search!Top.todo # {}

(* A search begins at an entry point, with an empty path. *)
LEMMA StartSearchStep ==
    ASSUME SearchInv, ChainsInv, NEW n \in pending, Search!StartSearch(n)
    PROVE  ChainsInv'
<1>1. /\ outcome = "running" /\ stack = <<>> /\ pending' = pending \ {n} /\ start' = n
      /\ stack' = <<[path |-> <<>>, todo |-> methodCalls[n]]>>
      /\ UNCHANGED <<methodCalls, entryPoints, callChains, outcome, file>>
  BY DEF Search!StartSearch
<1>2. /\ stack' # <<>> /\ Len(stack') = 1 /\ stack'[1].path = <<>> /\ stack'[1].todo = methodCalls[n]
  BY <1>1
<1>3. FrameOK(1)'
  BY <1>1, <1>2 DEF FrameOK, WalkIn, EdgesFrom
<1>4. n \notin DOMAIN callChains
  BY DEF SearchInv
<1>5. \A i \in 1 .. Len(stack') : i = 1
  BY <1>2
<1> QED
  BY <1>1, <1>2, <1>3, <1>4, <1>5 DEF ChainsInv

(* One edge deeper: the path grows by that edge. *)
LEMMA FollowStep ==
    ASSUME SearchInv, ChainsInv, stack # <<>>, NEW e \in Search!Top.todo, Search!Follow(e)
    PROVE  ChainsInv'
<1> PICK m \in Nat \ {0} : m = Len(stack)
  BY TopFacts DEF SearchInv
<1>1. /\ outcome = "running"
      /\ UNCHANGED <<methodCalls, entryPoints, pending, start, callChains, outcome, file>>
  BY DEF Search!Follow
<1>2. /\ e \in Search!Edge /\ e \in stack[m].todo
      /\ Len(stack') = m + 1 /\ stack' # <<>>
      /\ \A i \in 1 .. m : stack'[i].path = stack[i].path
      /\ \A i \in 1 .. m - 1 : stack'[i].todo = stack[i].todo
      /\ stack'[m].todo = stack[m].todo \ {e}
      /\ stack'[m + 1].path = Append(stack[m].path, e)
      /\ stack'[m + 1].todo = Search!CallSet(e)
  <2>1. /\ e \in Search!Edge
        /\ stack' \in Seq(Search!Frame) /\ Len(stack') = m + 1
        /\ \A i \in 1 .. m :
              /\ stack'[i].path = stack[i].path
              /\ stack'[i].todo = IF i = m THEN stack[i].todo \ {e} ELSE stack[i].todo
        /\ stack'[m + 1].path = Append(stack[m].path, e)
        /\ stack'[m + 1].todo = Search!CallSet(e)
    BY FollowFacts
  <2>2. e \in stack[m].todo
    BY TopFacts DEF SearchInv
  <2>3. m \in 1 .. m /\ \A i \in 1 .. m - 1 : i \in 1 .. m /\ i # m
    OBVIOUS
  <2>4. stack' # <<>>
    BY <2>1
  <2> QED
    BY <2>1, <2>2, <2>3, <2>4
<1>3. /\ stack[m].path \in Seq(Search!Edge) /\ Len(stack[m].path) = m - 1 /\ FrameOK(m)
      /\ stack[m].todo \subseteq EdgesFrom(methodCalls, start, stack[m].path)
      /\ WalkIn(methodCalls, start, stack[m].path)
  BY TopFacts DEF SearchInv, ChainsInv, FrameOK
<1> DEFINE p == stack[m].path
           q == Append(p, e)
<1>4. /\ Len(q) = m /\ q[m] = e /\ \A i \in 1 .. m - 1 : q[i] = p[i]
      /\ q # <<>>
  BY <1>2, <1>3, AppendProperties
<1>4a. q \in Seq(Search!Edge)
  BY <1>2, <1>3, AppendProperties
<1> HIDE DEF q
<1>5. WalkIn(methodCalls, start, q)
  <2> SUFFICES ASSUME NEW i \in 1 .. m
               PROVE  q[i] \in IF i = 1 THEN methodCalls[start] ELSE EdgesOf(methodCalls, q[i - 1])
    BY <1>4 DEF WalkIn
  <2>1. CASE i < m
    <3>1. i \in 1 .. Len(p) /\ q[i] = p[i] /\ (i # 1 => q[i - 1] = p[i - 1])
      BY <1>3, <1>4, <2>1
    <3> HIDE DEF p
    <3> QED
      BY <1>3, <3>1 DEF WalkIn, p
  <2>2. CASE i = m
    <3>1. e \in EdgesFrom(methodCalls, start, p)
      BY <1>2, <1>3
    <3>2. CASE i = 1
      <4>1. p = <<>>
        BY <1>3, <2>2, <3>2
      <4> QED
        BY <1>4, <2>2, <3>1, <3>2, <4>1 DEF EdgesFrom
    <3>3. CASE i # 1
      <4>1. p # <<>> /\ Len(p) = i - 1 /\ q[i - 1] = p[i - 1]
        BY <1>3, <1>4, <2>2, <3>3
      <4> HIDE DEF p
      <4> QED
        BY <1>4, <2>2, <3>1, <3>3, <4>1 DEF EdgesFrom
    <3> QED
      BY <3>2, <3>3
  <2> QED
    BY <2>1, <2>2
<1>6. ASSUME NEW i \in 1 .. m
      PROVE  FrameOK(i)'
  <2>1. FrameOK(i) /\ stack'[i].path = stack[i].path
    BY <1>2 DEF ChainsInv
  <2>2. CASE i < m
    <3>0. i \in 1 .. m - 1 /\ i + 1 \in 1 .. m /\ i < m + 1
      BY <2>2
    <3>1. i < Len(stack') /\ stack'[i].todo = stack[i].todo
      BY <1>2, <3>0
    <3>2. stack'[i + 1].path = stack[i + 1].path
      BY <1>2, <3>0
    <3> QED
      BY <1>1, <2>1, <3>1, <3>2 DEF FrameOK
  <2>3. CASE i = m
    <3>1. stack'[i].todo = stack[i].todo \ {e} /\ i < Len(stack') /\ e = stack'[i + 1].path[i]
      <4>1. m < m + 1
        OBVIOUS
      <4> QED
        BY <1>2, <1>4, <2>3, <4>1 DEF q
    <3> QED
      BY <1>1, <1>3, <2>1, <2>3, <3>1 DEF FrameOK
  <2> QED
    BY <2>2, <2>3
<1>7. FrameOK(m + 1)'
  <2>1. EdgesFrom(methodCalls, start, q) = Search!CallSet(e)
    BY <1>4 DEF EdgesFrom, EdgesOf, Search!CallSet
  <2>2. stack'[m + 1].path = q
    BY <1>2 DEF q
  <2> QED
    BY <1>1, <1>2, <1>4, <1>5, <2>1, <2>2 DEF FrameOK
<1>8. \A i \in 1 .. m + 1 : i \in 1 .. m \/ i = m + 1
  OBVIOUS
<1>9. \A i \in 1 .. Len(stack') : FrameOK(i)'
  BY <1>2, <1>6, <1>7, <1>8
<1> HIDE DEF p
<1> QED
  BY <1>1, <1>2, <1>9 DEF ChainsInv

(***************************************************************************)
(* An invocation that has looked at all its edges in vain: no exit is      *)
(* reached from where it stands.                                           *)
(***************************************************************************)
LEMMA ExhaustedFacts ==
    ASSUME SearchInv, ChainsInv, Search!Exhausted
    PROVE  /\ Len(stack) \in Nat \ {0} /\ FrameOK(Len(stack))
           /\ Search!Top = stack[Len(stack)]
           /\ Search!Top.path \in Seq(Search!Edge) /\ Len(Search!Top.path) = Len(stack) - 1
           /\ \A e \in EdgesFrom(methodCalls, start, Search!Top.path) : Hopeless(methodCalls, e)
           /\ start \in Names /\ start \in entryPoints \ pending /\ outcome = "running"
           /\ methodCalls \in Graphs
           /\ Len(stack) > 1 => /\ Search!LastEdge = Search!Top.path[Len(stack) - 1]
                                /\ Search!LastEdge \in Search!Edge
                                /\ Search!Top.path # <<>>
<1>1. /\ stack # <<>> /\ Search!Top.todo = {} /\ outcome = "running"
  BY DEF Search!Exhausted
<1>2. /\ Len(stack) \in Nat \ {0} /\ Search!Top = stack[Len(stack)]
      /\ Search!Top.path \in Seq(Search!Edge)
  BY <1>1, TopFacts DEF SearchInv
<1>3. FrameOK(Len(stack))
  BY <1>2 DEF ChainsInv
<1>4. /\ Len(Search!Top.path) = Len(stack) - 1
      /\ \A e \in EdgesFrom(methodCalls, start, Search!Top.path) : Hopeless(methodCalls, e)
  BY <1>1, <1>2, <1>3 DEF FrameOK
<1>5. start \in Names /\ start \in entryPoints \ pending /\ methodCalls \in Graphs
  BY <1>1 DEF SearchInv, Search!TypeOK, Graphs
<1>6. ASSUME Len(stack) > 1
      PROVE  /\ Search!LastEdge = Search!Top.path[Len(stack) - 1]
             /\ Search!LastEdge \in Search!Edge
             /\ Search!Top.path # <<>>
  BY <1>2, <1>4, <1>6 DEF Search!LastEdge
<1> QED
  BY <1>1, <1>2, <1>3, <1>4, <1>5, <1>6

(* An invocation without a result was in vain, and so was the edge to it. *)
LEMMA NotFoundStep ==
    ASSUME SearchInv, ChainsInv, Search!NotFound
    PROVE  ChainsInv'
<1> PICK m \in Nat : m = Len(stack) - 1
  BY ExhaustedFacts DEF Search!NotFound
<1>1. /\ Search!Exhausted /\ Len(stack) = m + 1 /\ m # 0 /\ Len(stack) > 1 /\ ~Search!IsExit(Search!LastEdge)
      /\ outcome = "running" /\ stack # <<>>
      /\ UNCHANGED <<methodCalls, entryPoints, pending, start, callChains, outcome, file>>
  BY ExhaustedFacts DEF Search!NotFound, Search!Exhausted
<1>2. stack' # <<>> /\ Len(stack') = m /\ \A i \in 1 .. m : stack'[i] = stack[i]
  BY <1>1, FrontFacts DEF Search!NotFound, SearchInv, Search!TypeOK
<1>3. Hopeless(methodCalls, Search!LastEdge)
  <2> DEFINE e == Search!LastEdge
  <2>1. /\ e \in Search!Edge /\ ~e.exit /\ e.simple \in Names
        /\ \A d \in EdgesFrom(methodCalls, start, Search!Top.path) : Hopeless(methodCalls, d)
        /\ EdgesFrom(methodCalls, start, Search!Top.path) = methodCalls[e.simple]
    BY <1>1, ExhaustedFacts DEF Search!IsExit, Search!Edge, EdgesFrom, EdgesOf
  <2>2. ~ReachesExitIn(methodCalls, e.simple)
    BY <1>1, <2>1, ExhaustedFacts, ReachesUnfold DEF Hopeless
  <2> QED
    BY <1>1, <2>2 DEF Hopeless
<1>4. Search!LastEdge = stack[m + 1].path[m]
  BY <1>1, ExhaustedFacts
<1>5. ASSUME NEW i \in 1 .. m
      PROVE  FrameOK(i)'
  <2>1. FrameOK(i) /\ stack'[i] = stack[i] /\ i < Len(stack)
    BY <1>1, <1>2 DEF ChainsInv
  <2>2. i < m => stack'[i + 1] = stack[i + 1]
    BY <1>2
  <2>3. ASSUME NEW e \in EdgesFrom(methodCalls, start, stack[i].path) \ stack[i].todo
        PROVE  Hopeless(methodCalls, e) \/ (i < m /\ e = stack[i + 1].path[i])
    BY <1>3, <1>4, <2>1, <2>3 DEF FrameOK
  <2> QED
    BY <1>1, <1>2, <2>1, <2>2, <2>3 DEF FrameOK
<1>6. \A i \in 1 .. Len(stack') : FrameOK(i)'
  BY <1>2, <1>5
<1> QED
  BY <1>1, <1>2, <1>6 DEF ChainsInv

(* An exit was found: its path is the chain of the entry point. *)
LEMMA FoundStep ==
    ASSUME SearchInv, ChainsInv, Search!Found
    PROVE  ChainsInv'
<1>1. /\ Search!Exhausted /\ Len(stack) > 1 /\ Search!IsExit(Search!LastEdge) /\ stack' = <<>>
      /\ callChains' = [n \in DOMAIN callChains \cup {start} |->
                           IF n = start THEN Search!Top.path ELSE callChains[n]]
      /\ UNCHANGED <<methodCalls, entryPoints, pending, start, outcome, file>>
  BY DEF Search!Found
<1>2. IsChain(methodCalls, start, Search!Top.path)
  BY <1>1, ExhaustedFacts DEF FrameOK, IsChain
<1>3. ReachesExitIn(methodCalls, start)
  BY <1>1, <1>2, ExhaustedFacts, WalkToExit DEF IsChain
<1>4. \A n \in DOMAIN callChains' : IsChain(methodCalls', n, callChains'[n])
  BY <1>1, <1>2 DEF ChainsInv
<1>5. ASSUME NEW n \in entryPoints \ pending
      PROVE  n \in DOMAIN callChains' <=> ReachesExitIn(methodCalls, n)
  BY <1>1, <1>3 DEF ChainsInv
<1>6. 1 .. Len(stack') = {}
  BY <1>1
<1> QED
  BY <1>1, <1>4, <1>5, <1>6 DEF ChainsInv

(* The outermost invocation was in vain: no exit is reached. *)
LEMMA NoChainStep ==
    ASSUME SearchInv, ChainsInv, Search!NoChain
    PROVE  ChainsInv'
<1>1. /\ Search!Exhausted /\ Len(stack) = 1 /\ stack' = <<>> /\ stack # <<>>
      /\ UNCHANGED <<methodCalls, entryPoints, pending, start, callChains, outcome, file>>
  BY DEF Search!NoChain, Search!Exhausted
<1>2. EdgesFrom(methodCalls, start, Search!Top.path) = methodCalls[start]
  BY <1>1, ExhaustedFacts DEF EdgesFrom
<1>3. ~ReachesExitIn(methodCalls, start)
  BY <1>1, <1>2, ExhaustedFacts, ReachesUnfold DEF Hopeless
<1>4. start \notin DOMAIN callChains
  BY <1>1 DEF ChainsInv
<1>5. ASSUME NEW n \in entryPoints \ pending
      PROVE  n \in DOMAIN callChains <=> ReachesExitIn(methodCalls, n)
  BY <1>1, <1>3, <1>4 DEF ChainsInv
<1>6. 1 .. Len(stack') = {}
  BY <1>1
<1> QED
  BY <1>1, <1>4, <1>5, <1>6 DEF ChainsInv

(* All steps of the walk together. *)
LEMMA ChainsStep ==
    ASSUME SearchInv, ChainsInv, Search!Next
    PROVE  ChainsInv'
<1>1. CASE Search!RecursionError \/ Search!SaveResults \/ Search!SaveFails
  <2>1. UNCHANGED <<methodCalls, entryPoints, pending, start, stack, callChains>>
    BY <1>1 DEF Search!RecursionError, Search!SaveResults, Search!SaveFails
  <2>2. outcome' = "crashed" /\ stack # <<>> => Len(stack) = maxDepth /\ Search!Top.todo # {}
    BY <1>1 DEF Search!RecursionError, Search!SaveResults, Search!SaveFails
  <2> QED
    BY <2>1, <2>2 DEF ChainsInv, FrameOK, Search!Top
<1> QED
  BY <1>1, StartSearchStep, FollowStep, NotFoundStep, FoundStep, NoChainStep DEF Search!Next

-----------------------------------------------------------------------------
(***************************************************************************)
(* THE CHAINS OF A RUN                                                     *)
(***************************************************************************)

ChainInv == GraphInv /\ ChainsInv

(***************************************************************************)
(* Before the search there is nothing to say of it, whatever the graph is. *)
(***************************************************************************)
LEMMA BeforeSearch == Search!SearchInit => ChainsInv
<1> SUFFICES ASSUME Search!SearchInit PROVE ChainsInv
  OBVIOUS
<1>1. stack = <<>> /\ 1 .. Len(stack) = {} /\ DOMAIN callChains = {} /\ entryPoints = {}
  BY DEF Search!SearchInit
<1> QED
  BY <1>1 DEF ChainsInv

(* The same of a state to come. *)
LEMMA BeforeSearchNext == Search!SearchInit' => ChainsInv'
<1> SUFFICES ASSUME Search!SearchInit' PROVE ChainsInv'
  OBVIOUS
<1>1. stack' = <<>> /\ 1 .. Len(stack') = {} /\ DOMAIN callChains' = {} /\ entryPoints' = {}
  BY DEF Search!SearchInit
<1> QED
  BY <1>1 DEF ChainsInv

(* At the start nothing is searched. *)
LEMMA InitChainInv == Init => ChainInv
  BY InitGraphInv, BeforeSearch DEF Init, ChainInv

(* What is said of graph and chains holds in every step of the program. *)
LEMMA ChainInvStep == ChainInv /\ [Next]_vars => ChainInv'
<1> SUFFICES ASSUME ChainInv, [Next]_vars PROVE ChainInv'
  OBVIOUS
<1>1. GraphInv /\ GraphInv' /\ TypeInv /\ SearchInv
  BY GraphInvStep DEF ChainInv, GraphInv, TypeInv
<1>2. CASE SearchStep
  BY <1>1, <1>2, ChainsStep DEF ChainInv, SearchStep
<1>3. CASE RunAnalysis
  <2>1. /\ Search!SearchInit /\ entryPoints' = pending' /\ stack' = stack /\ callChains' = callChains
    BY <1>1, <1>3 DEF RunAnalysis, Search!RunAnalysis, TypeInv, PhaseInv
  <2>2. stack' = <<>> /\ 1 .. Len(stack') = {} /\ DOMAIN callChains' = {}
    BY <2>1 DEF Search!SearchInit
  <2>3. ChainsInv'
    BY <2>1, <2>2 DEF ChainsInv
  <2> QED
    BY <1>1, <2>3 DEF ChainInv
<1>4. CASE Startup \/ ListFails \/ AddFile \/ ExtractMethods \/ ExtractFails
  <2>1. /\ outcome = "building"
        /\ UNCHANGED <<entryPoints, pending, start, stack, callChains, file>>
    BY <1>4 DEF Startup, ListFails, AddFile, Ask, ExtractMethods, ExtractFails, AllAdded, Building, searchVars
  <2>2. Search!SearchInit
    BY <1>1, <2>1 DEF TypeInv, PhaseInv
  <2>3. stack' = <<>> /\ 1 .. Len(stack') = {} /\ DOMAIN callChains' = {} /\ entryPoints' = {}
    BY <2>1, <2>2 DEF Search!SearchInit
  <2>4. ChainsInv'
    BY <2>3 DEF ChainsInv
  <2> QED
    BY <1>1, <2>4 DEF ChainInv
<1>5. CASE UNCHANGED vars
  <2>1. UNCHANGED <<methodCalls, entryPoints, pending, start, stack, callChains, outcome>>
    BY <1>5 DEF vars, searchVars
  <2>2. ChainsInv'
    BY <2>1 DEF ChainInv, ChainsInv, FrameOK, Search!Top
  <2> QED
    BY <1>1, <2>2 DEF ChainInv
<1> QED
  BY <1>2, <1>3, <1>4, <1>5 DEF Next

(* IsWalk of the search, on its own graph. *)
LEMMA SameWalks ==
    ASSUME NEW n, NEW p
    PROVE  Search!IsWalk(n, p) <=> WalkIn(methodCalls, n, p)
  BY DEF Search!IsWalk, Search!CallSet, WalkIn, EdgesOf

(* A chain is a walk to an exit. *)
LEMMA ChainInvGivesChains == ChainInv => ChainLeadsToExit
  BY SameWalks DEF ChainInv, ChainsInv, IsChain, ChainLeadsToExit, Search!ChainLeadsToExit

(* A file is written when every entry point is through. *)
LEMMA ChainInvGivesComplete == ChainInv => SavedIsComplete
<1>0. file # Old /\ ChainInv => pending = {} /\ stack = <<>>
  BY DEF ChainInv, GraphInv, TypeInv, SearchInv
<1> SUFFICES ASSUME ChainInv, file \notin {Old, Torn}
             PROVE  DOMAIN file = {n \in entryPoints : Search!ReachesExit(n)}
  BY <1>0 DEF SavedIsComplete, Search!SavedIsComplete
<1>1. /\ file = callChains /\ pending = {} /\ stack = <<>> /\ methodCalls \in Graphs
      /\ DOMAIN callChains \subseteq entryPoints /\ entryPoints \subseteq Names
  BY DEF ChainInv, GraphInv, TypeInv, SearchInv, Search!TypeOK, Graphs
<1>2. \A n \in entryPoints : n \in DOMAIN callChains <=> ReachesExitIn(methodCalls, n)
  BY <1>1 DEF ChainInv, ChainsInv
<1>3. \A n \in entryPoints : n \in DOMAIN callChains <=> Search!ReachesExit(n)
  BY <1>1, <1>2, ReachesExitIsReached
<1> QED
  BY <1>1, <1>3

(* A path longer than there are names comes to one of them twice. *)
LEMMA ChainInvGivesCircle == ChainInv => LimitMeansCircle
<1> SUFFICES ASSUME ChainInv, outcome = "crashed", stack # <<>>,
                    maxDepth > Search!Cardinality(Names)
             PROVE  \E m \in Search!ReachedFrom(start) : \E x \in Search!Successors({m}) :
                        m \in Search!ReachedFrom(x)
  BY DEF LimitMeansCircle, Search!LimitMeansCircle
<1> DEFINE p == Search!Top.path
           g == methodCalls
<1>1. /\ g \in Graphs /\ start \in Names /\ Len(stack) = maxDepth /\ maxDepth \in Nat \ {0}
      /\ p \in Seq(Search!Edge) /\ Search!Top.todo # {} /\ Search!Top = stack[maxDepth]
  BY TopFacts DEF ChainInv, ChainsInv, GraphInv, TypeInv, SearchInv, Search!TypeOK, Graphs
<1>2. FrameOK(maxDepth)
  BY <1>1 DEF ChainInv, ChainsInv
<1>3. Len(p) = maxDepth - 1 /\ WalkIn(g, start, p) /\ EdgesFrom(g, start, p) # {}
  BY <1>1, <1>2 DEF FrameOK
<1> HIDE DEF p, g
<1>4. PICK l \in Nat : l = Len(p) /\ maxDepth = l + 1
  BY <1>1, <1>3
<1>5. \A k \in 1 .. l : ~p[k].exit
  <2> TAKE k \in 1 .. l
  <2>1. CASE k = l
    <3>1. p # <<>>
      BY <1>4, <2>1
    <3> QED
      BY <1>3, <1>4, <2>1, <3>1 DEF EdgesFrom, EdgesOf
  <2>2. CASE k # l
    <3>1. k \in 1 .. Len(p) - 1
      BY <1>4, <2>2
    <3> QED
      BY <1>1, <1>3, <3>1, WalkFacts
  <2> QED
    BY <2>1, <2>2
<1>6. \E i, j \in 1 .. l + 1 : i # j /\ Node(start, p, i) = Node(start, p, j)
  <2> DEFINE f == [i \in 1 .. l + 1 |-> Node(start, p, i)]
  <2>1. f \in [1 .. l + 1 -> Names]
    BY <1>1, <1>3, <1>4, WalkFacts
  <2>2. IsFiniteSet(1 .. l + 1) /\ Cardinality(1 .. l + 1) = l + 1
    BY FS_Interval
  <2>3. IsFiniteSet(Names) /\ Cardinality(Names) < l + 1
    BY <1>4, NamesAreFinite, SameCardinality
  <2>4. \E i, j \in 1 .. l + 1 : i # j /\ f[i] = f[j]
    <3> HIDE DEF f
    <3> QED
      BY <2>1, <2>2, <2>3, FS_PigeonHole
  <2> QED
    BY <2>4
<1>7. PICK i \in 1 .. l + 1, j \in 1 .. l + 1 : i < j /\ Node(start, p, i) = Node(start, p, j)
  BY <1>6
<1>8. \A h \in 1 .. l + 1 : \A k \in h .. l + 1 : Node(start, p, k) \in Reached(g, Node(start, p, h))
  <2> TAKE h \in 1 .. l + 1
  <2> QED
    BY <1>1, <1>3, <1>4, <1>5, WalkReaches
<1> DEFINE m == Node(start, p, i)
           x == p[i].simple
<1>9. i \in 1 .. l /\ i + 1 \in 1 .. l + 1 /\ j \in i + 1 .. l + 1 /\ 1 \in 1 .. l + 1 /\ i \in 1 .. l + 1
  BY <1>7
<1>10. m \in Reached(g, start) /\ m \in Names
  <2>1. Node(start, p, 1) = start
    BY DEF Node
  <2> QED
    BY <1>1, <1>8, <1>9, <2>1, ReachedFacts
<1>11. p[i] \in g[m] /\ ~p[i].exit
  BY <1>1, <1>3, <1>4, <1>5, <1>9, WalkFacts
<1>12. x \in Names /\ x = Node(start, p, i + 1)
  <2>1. i + 1 # 1 /\ (i + 1) - 1 = i
    BY <1>9
  <2>2. x = Node(start, p, i + 1)
    BY <2>1 DEF Node
  <2> QED
    BY <1>1, <1>10, <1>11, <2>2, EdgeFacts
<1>13. m \in Reached(g, x)
  BY <1>7, <1>8, <1>9, <1>12
<1>14. x \in Search!Successors({m})
  BY <1>11 DEF Search!Successors, g
<1>15. methodCalls \in Graphs
  BY <1>1 DEF g
<1> HIDE DEF m, x
<1>16. Search!ReachedFrom(start) = Reached(g, start) /\ Search!ReachedFrom(x) = Reached(g, x)
  BY <1>1, <1>12, <1>15, ReachedFromIsReached DEF g
<1> QED
  BY <1>10, <1>13, <1>14, <1>16

(* Entry points are functions of the directory, by their spelling. *)
LEMMA ChainInvGivesEntries == ChainInv => SavedNamesEntryFunctions
<1> SUFFICES ASSUME ChainInv, file \notin {Old, Torn} PROVE SavedNamesEntryFunctions
  BY DEF SavedNamesEntryFunctions
<1>1. /\ outcome = "saved" /\ entryPoints = entries /\ scanned = DirLength
      /\ entries = UNION {EntryNames(files[i]) : i \in 1 .. DirLength}
      /\ DOMAIN file = {n \in entryPoints : Search!ReachesExit(n)}
      /\ Graph!TypeOK /\ files \in Seq(Seq(Graph!Definition)) /\ DirLength \in Nat
      /\ 1 .. DirLength \subseteq DOMAIN files
  <2>1. outcome = "saved" /\ DOMAIN file = {n \in entryPoints : Search!ReachesExit(n)}
    BY ChainInvGivesComplete DEF ChainInv, GraphInv, TypeInv, SearchInv, SavedIsComplete, Search!SavedIsComplete
  <2>2. entryPoints = entries /\ scanned = DirLength
        /\ entries = UNION {EntryNames(files[i]) : i \in 1 .. scanned}
    BY <2>1 DEF ChainInv, GraphInv, TypeInv, PhaseInv
  <2>3. Graph!TypeOK /\ files \in Seq(Seq(Graph!Definition)) /\ files # <<>>
    BY DEF ChainInv, GraphInv, TypeInv, Graph!TypeOK, PhaseInv
  <2>4. DirLength \in Nat /\ 1 .. DirLength \subseteq DOMAIN files
    BY <2>3 DEF DirLength
  <2> QED
    BY <2>1, <2>2, <2>3, <2>4
<1>2. \A i \in 1 .. DirLength : \A d \in ToSet(files[i]) : d \in Graph!Definition
  BY <1>1, FileFacts DEF ToSet
<1>3. ASSUME NEW d \in EntryFunctions, d.cursor.scope = <<>>, Search!ReachesExit(MethodSimpleName(d.cursor))
      PROVE  MethodSimpleName(d.cursor) \in DOMAIN file
  <2>1. PICK i \in 1 .. DirLength : d \in ToSet(files[i])
    BY DEF EntryFunctions, InDirectory
  <2>2. d \in Graph!Definition /\ Graph!IsFunction(d) /\ d.cursor.kind = "function"
        /\ d.cursor \in AndroidFunctions
    BY <1>2, <2>1, DefinitionFacts DEF EntryFunctions, Graph!IsFunction
  <2>3. MethodSimpleName(d.cursor) = EntryName(d.cursor)
    BY <1>3, <2>2 DEF MethodSimpleName, EntryName, FullyQualifiedSpelling
  <2>4. EntryName(d.cursor) \in EntryNames(files[i])
    BY <2>1, <2>2 DEF EntryNames
  <2> QED
    BY <1>1, <1>3, <2>3, <2>4
<1>4. ASSUME NEW n \in DOMAIN file
      PROVE  \E d \in InDirectory :
                 Graph!IsFunction(d) /\ d.cursor \in AndroidFunctions /\ EntryName(d.cursor) = n
  BY <1>1 DEF InDirectory, EntryNames
<1> QED
  BY <1>3, <1>4 DEF SavedNamesEntryFunctions

(***************************************************************************)
(* Each chain leads from its entry point along calls of the graph to an    *)
(* exit point, whatever the graph and the order its edges are tried in.    *)
(***************************************************************************)
THEOREM ChainsLeadToExits == Spec => []ChainLeadsToExit
  BY InitChainInv, ChainInvStep, ChainInvGivesChains, PTL DEF Spec

(***************************************************************************)
(* A saved file has a chain for just the entry points from which an exit   *)
(* point is reached: the search, which remembers no node, misses none.     *)
(***************************************************************************)
THEOREM SavedFileIsComplete == Spec => []SavedIsComplete
  BY InitChainInv, ChainInvStep, ChainInvGivesComplete, PTL DEF Spec

(***************************************************************************)
(* With a recursion limit above the number of names, the search only hits  *)
(* it when its entry point reaches a circle of calls.                      *)
(***************************************************************************)
THEOREM LimitHasItsCircle == Spec => []LimitMeansCircle
  BY InitChainInv, ChainInvStep, ChainInvGivesCircle, PTL DEF Spec

(***************************************************************************)
(* End to end: a saved file names each android_... function without a      *)
(* namespace that leads to an exit, and names functions of the directory   *)
(* only.                                                                   *)
(***************************************************************************)
THEOREM EntryFunctionsAreSaved == Spec => []SavedNamesEntryFunctions
  BY InitChainInv, ChainInvStep, ChainInvGivesEntries, PTL DEF Spec

-----------------------------------------------------------------------------
(***************************************************************************)
(* WHERE CHAINS STOP                                                       *)
(***************************************************************************)

(* A doubled name is twice as long. *)
LEMMA DoubledIsLong ==
    ASSUME NEW c \in Cursors
    PROVE  Len(FullyQualifiedSpelling(c) \o FullyQualifiedSpelling(c)) = 2 * (Len(c.scope) + 1)
           /\ Len(c.scope) \in Nat /\ (Len(c.scope) = 0 => c.scope = <<>>)
<1> DEFINE s == c.scope
           S == {s[i] : i \in 1 .. Len(s)} \cup {c.spelling}
<1>1. Len(s) \in Nat /\ s = [i \in 1 .. Len(s) |-> s[i]]
  BY CursorsAssumption DEF IsSequence
<1>2. s \in Seq(S)
  <2>1. \A i \in 1 .. Len(s) : s[i] \in S
    OBVIOUS
  <2> HIDE DEF s, S
  <2>2. s \in [1 .. Len(s) -> S]
    BY <1>1, <2>1
  <2> QED
    BY <1>1, <2>2
<1>3. c.spelling \in S
  OBVIOUS
<1> HIDE DEF s, S
<1>4. Append(s, c.spelling) \in Seq(S) /\ Len(Append(s, c.spelling)) = Len(s) + 1
  BY <1>2, <1>3, AppendProperties
<1>5. Len(Append(s, c.spelling) \o Append(s, c.spelling)) = (Len(s) + 1) + (Len(s) + 1)
  BY <1>4, ConcatProperties
<1>6. Len(s) = 0 => s = <<>>
  BY <1>2
<1> QED
  BY <1>1, <1>5, <1>6 DEF FullyQualifiedSpelling, s

(***************************************************************************)
(* A definition that the walk enters has the name of a class only if its   *)
(* own qualified name is the doubled one, or no scope is around the class. *)
(***************************************************************************)
LEMMA NamedLikeClass ==
    ASSUME NEW d \in Graph!Definition, Graph!IsEntered(d), NEW c \in Cursors, c.kind = "class",
           MethodSimpleName(d.cursor) = MethodSimpleName(c)
    PROVE  \/ c.scope = <<>>
           \/ \E x \in Cursors :
                 FullyQualifiedSpelling(x) = FullyQualifiedSpelling(c) \o FullyQualifiedSpelling(c)
<1>1. d.cursor \in Cursors /\ d.cursor.kind \in {"function", "method", "constructor", "destructor"}
  BY DEF Graph!Definition, Graph!IsEntered, Graph!IsFunction, Graph!IsMember
<1>2. MethodSimpleName(c) = FullyQualifiedSpelling(c) \o FullyQualifiedSpelling(c)
  BY DEF MethodSimpleName
<1>3. CASE d.cursor.kind = "destructor"
  <2>1. MethodSimpleName(d.cursor) = <<Last(d.cursor.scope), <<Last(d.cursor.scope), "~">>>>
    BY <1>3 DEF MethodSimpleName
  <2>2. Len(MethodSimpleName(d.cursor)) = 2
    BY <2>1
  <2>3. 2 * (Len(c.scope) + 1) = 2
    BY <1>2, <2>2, DoubledIsLong
  <2> QED
    BY <2>3, DoubledIsLong
<1>4. CASE d.cursor.kind # "destructor"
  <2>1. MethodSimpleName(d.cursor) = FullyQualifiedSpelling(d.cursor)
    BY <1>1, <1>4 DEF MethodSimpleName
  <2> QED
    BY <1>1, <1>2, <2>1
<1> QED
  BY <1>3, <1>4

(* Behind a doubled name there is no edge, unless a function has it. *)
LEMMA ChainInvGivesStops == ChainInv => SpStopsAtNamespace
<1> SUFFICES ASSUME ChainInv, file \notin {Old, Torn},
                    NEW n \in DOMAIN file, NEW i \in 1 .. Len(file[n]) - 1,
                    NEW c \in Cursors, c.kind = "class", file[n][i].simple = MethodSimpleName(c)
             PROVE  \/ c.scope = <<>>
                    \/ \E x \in Cursors :
                          FullyQualifiedSpelling(x) = FullyQualifiedSpelling(c) \o FullyQualifiedSpelling(c)
  BY DEF SpStopsAtNamespace
<1> DEFINE p == file[n]
<1>1. /\ p \in Seq(Search!Edge) /\ WalkIn(methodCalls, n, p) /\ n \in Names /\ methodCalls \in Graphs
      /\ Graph!EdgesComeFromDefinitions /\ Graph!TypeOK
  BY DEF ChainInv, GraphInv, TypeInv, SearchInv, Search!TypeOK, Search!AreChains, ChainsInv, IsChain, Graphs
<1> HIDE DEF p
<1>2. i + 1 \in 1 .. Len(p) /\ i + 1 # 1 /\ (i + 1) - 1 = i /\ i \in 1 .. Len(p)
  BY <1>1 DEF p
<1>3. p[i + 1] \in EdgesOf(methodCalls, p[i])
  BY <1>1, <1>2 DEF WalkIn
<1>4. p[i + 1] \in methodCalls[p[i].simple] /\ p[i].simple \in Names /\ p[i].simple = MethodSimpleName(c)
  <2>1. p[i] \in Search!Edge
    BY <1>1, <1>2
  <2>2. p[i].simple \in Names
    BY <2>1 DEF Search!Edge
  <2>3. p[i].simple = MethodSimpleName(c)
    BY DEF p
  <2> QED
    BY <1>3, <2>2, <2>3 DEF EdgesOf
<1>5. PICK k \in DOMAIN files : \E d \in Graph!Walked(k) : Graph!Key(d) = p[i].simple
  BY <1>1, <1>4, SameNames DEF Graph!EdgesComeFromDefinitions
<1>6. PICK d \in Graph!Walked(k) : Graph!Key(d) = p[i].simple
  BY <1>5
<1>7. d \in Graph!Definition /\ Graph!IsEntered(d)
  BY <1>1, FileFacts DEF Graph!Walked
<1>8. MethodSimpleName(d.cursor) = MethodSimpleName(c)
  BY <1>4, <1>6, SameNames DEF Graph!Key
<1> QED
  BY <1>7, <1>8, NamedLikeClass

(***************************************************************************)
(* A chain that comes to an sp<> variable goes on only where no namespace  *)
(* and no class is around its class, or a function has the doubled name.   *)
(***************************************************************************)
THEOREM SpStops == Spec => []SpStopsAtNamespace
  BY InitChainInv, ChainInvStep, ChainInvGivesStops, PTL DEF Spec

=============================================================================
