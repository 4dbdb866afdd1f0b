-------------------------------- MODULE JniMap --------------------------------
(***************************************************************************)
(* parse_jni_in_framework: SourceFileScanner lists the source files below  *)
(* a directory, JNIBridgeMap hands the C and C++ files one by one to       *)
(* CxxJniParser, which reads tables of JNI methods off the tokens, and the *)
(* collected map from C++ to Java names is written to data/jni.json.       *)
(*                                                                         *)
(* A file is a record: its extension; check, whether __fast_check finds    *)
(* the word JNINativeMethod in its text (not in a missing file, nor behind *)
(* bytes that are no UTF-8); and its tokens, as clang gives them.          *)
(***************************************************************************)
EXTENDS Naturals, Sequences, FiniteSets

CONSTANTS
    JNINativeMethod,    \* the name of the type of a table
    Semicolon,          \* the spelling ";"
    Spelling,           \* all spellings of tokens
    Trees,              \* the directories considered: sequences of files
    Old,                \* what data/jni.json holds before this run
    Torn                \* what is left of it when writing fails half-way

TARGET_EXT == {".java", ".h", ".cc", ".c", ".cpp", ".aidl"}

CPP_EXT == <<".h", ".cc", ".cpp", ".c">>

(* kind "item" is IDENTIFIER or LITERAL, "mark" any other TokenKind. *)
Token == [kind : {"item", "mark"}, spelling : Spelling]

SourceFile == [ext : TARGET_EXT \cup {"other"}, check : BOOLEAN, tokens : Seq(Token)]

ASSUME SpellingAssumption == {JNINativeMethod, Semicolon} \subseteq Spelling
ASSUME DistinctAssumption == JNINativeMethod # Semicolon
ASSUME TreesAssumption == Trees \subseteq Seq(SourceFile)

VARIABLES
    tree,           \* the files of the directory; a file is its index
    fileList,       \* file_list, in the order os.listdir gives
    todo,           \* C and C++ files not parsed yet, in the order of the generator
    parsing,        \* the file of the running CxxJniParser, or 0
    tk,             \* tokens of it read
    extractJni, jniBlock, jniTokens,    \* locals of __process
    jniMap,         \* jni_map of the running parser
    jniBridgeMap,   \* jni_bridge_map
    outcome,        \* "scanning", "running", "saved" or "crashed"
    file,           \* data/jni.json
    unparsed        \* history: files that were checked but could not be parsed

vars == <<tree, fileList, todo, parsing, tk, extractJni, jniBlock, jniTokens, jniMap,
          jniBridgeMap, outcome, file, unparsed>>

parserVars == <<tk, extractJni, jniBlock, jniTokens, jniMap>>

Init ==
    /\ tree \in Trees
    /\ fileList = <<>> /\ todo = <<>> /\ parsing = 0
    /\ tk = 0 /\ extractJni = FALSE /\ jniBlock = <<>> /\ jniTokens = <<>> /\ jniMap = <<>>
    /\ jniBridgeMap = <<>>
    /\ outcome = "scanning" /\ file = Old /\ unparsed = {}

-----------------------------------------------------------------------------
(* The positions of a sequence that are in T, in order, and what is there. *)
Ascending(n, T) ==
    LET upTo[k \in 0 .. n] ==
            IF k = 0 THEN <<>>
            ELSE IF k \in T THEN Append(upTo[k - 1], k)
            ELSE upTo[k - 1]
    IN  upTo[n]

Filtered(s, T) == LET at == Ascending(Len(s), T) IN [i \in 1 .. Len(at) |-> s[at[i]]]

(* dict.update *)
Updated(m, n) == [c \in DOMAIN m \cup DOMAIN n |-> IF c \in DOMAIN n THEN n[c] ELSE m[c]]

-----------------------------------------------------------------------------
(***************************************************************************)
(* SourceFileScanner.  get_files(ext) filters the list, get_cpp_files runs *)
(* through CPP_EXT and asks for each extension once.                       *)
(***************************************************************************)
Orders(S) == {q \in [1 .. Cardinality(S) -> S] : \A i, j \in DOMAIN q : q[i] = q[j] => i = j}

TargetFiles == {i \in DOMAIN tree : tree[i].ext \in TARGET_EXT}

GetFiles(list, ext) == Filtered(list, {i \in DOMAIN list : tree[list[i]].ext = ext})

GetCppFiles(list) ==
    GetFiles(list, CPP_EXT[1]) \o GetFiles(list, CPP_EXT[2]) \o GetFiles(list, CPP_EXT[3])
        \o GetFiles(list, CPP_EXT[4])

ScanFiles ==
    /\ outcome = "scanning"
    /\ \E list \in Orders(TargetFiles) :
          /\ fileList' = list
          /\ todo' = GetCppFiles(list)
    /\ outcome' = "running"
    /\ UNCHANGED <<tree, parsing, parserVars, jniBridgeMap, file, unparsed>>

(* A directory that cannot be listed, or no directory data. *)
ScanFails ==
    /\ outcome = "scanning"
    /\ outcome' = "crashed"
    /\ UNCHANGED <<tree, fileList, todo, parsing, parserVars, jniBridgeMap, file, unparsed>>

-----------------------------------------------------------------------------
Running == outcome = "running"

Idle == Running /\ parsing = 0

(* CxxJniParser(file) of a file that __fast_check rejects: no results. *)
SkipFile ==
    /\ Idle /\ todo # <<>> /\ ~tree[Head(todo)].check
    /\ todo' = Tail(todo)
    /\ UNCHANGED <<tree, fileList, parsing, parserVars, jniBridgeMap, outcome, file, unparsed>>

(* __parse_one swallows the exception of the parse and returns None. *)
ParseFails ==
    /\ Idle /\ todo # <<>> /\ tree[Head(todo)].check
    /\ unparsed' = unparsed \cup {Head(todo)}
    /\ todo' = Tail(todo)
    /\ UNCHANGED <<tree, fileList, parsing, parserVars, jniBridgeMap, outcome, file>>

ParseOne ==
    /\ Idle /\ todo # <<>> /\ tree[Head(todo)].check
    /\ parsing' = Head(todo)
    /\ todo' = Tail(todo)
    /\ tk' = 0 /\ extractJni' = FALSE /\ jniBlock' = <<>> /\ jniTokens' = <<>> /\ jniMap' = <<>>
    /\ UNCHANGED <<tree, fileList, jniBridgeMap, outcome, file, unparsed>>

(* Index.create is outside the try: no libclang, or one without a function *)
(* of the binding.                                                         *)
CreateFails ==
    /\ Idle /\ todo # <<>> /\ tree[Head(todo)].check
    /\ outcome' = "crashed"
    /\ UNCHANGED <<tree, fileList, todo, parsing, parserVars, jniBridgeMap, file, unparsed>>

(***************************************************************************)
(* The loop over the tokens: JNINativeMethod begins a block, and begins it *)
(* again when it comes a second time; a semicolon ends it.                 *)
(***************************************************************************)
Tokens == tree[parsing].tokens

Reading == Running /\ parsing # 0 /\ tk < Len(Tokens)

(* seeded fault: a second JNINativeMethod does not begin the block again *)
ReadTokenFault ==
    /\ Reading
    /\ LET t == Tokens[tk + 1]
           starts == t.spelling = JNINativeMethod
           block  == jniBlock
           inside == extractJni \/ starts
       IN  /\ extractJni' = (inside /\ t.spelling # Semicolon)
           /\ jniTokens' = IF inside /\ t.spelling = Semicolon THEN Append(jniTokens, block) ELSE jniTokens
           /\ jniBlock' = IF inside /\ t.spelling # Semicolon THEN Append(block, t)
                          ELSE IF inside THEN <<>> ELSE block
    /\ tk' = tk + 1
    /\ UNCHANGED <<tree, fileList, todo, parsing, jniMap, jniBridgeMap, outcome, file, unparsed>>

ReadToken ==
    /\ Reading
    /\ LET t == Tokens[tk + 1]
           starts == t.spelling = JNINativeMethod
           block  == IF starts THEN <<>> ELSE jniBlock
           inside == extractJni \/ starts
       IN  /\ extractJni' = (inside /\ t.spelling # Semicolon)
           /\ jniTokens' = IF inside /\ t.spelling = Semicolon THEN Append(jniTokens, block) ELSE jniTokens
           /\ jniBlock' = IF inside /\ t.spelling # Semicolon THEN Append(block, t) ELSE block
    /\ tk' = tk + 1
    /\ UNCHANGED <<tree, fileList, todo, parsing, jniMap, jniBridgeMap, outcome, file, unparsed>>

(***************************************************************************)
(* __extract_jni_block.  The first item is the name of the table; popping  *)
(* it from an empty list raises, and nobody catches that.                  *)
(***************************************************************************)
IsItem(t) == t.kind = "item" /\ t.spelling # JNINativeMethod

Items(block) == Filtered(block, {k \in DOMAIN block : IsItem(block[k])})

IsTable(its) == Len(its) % 3 = 1

(* seeded fault: the token of the Java name is kept, not its spelling *)
EntryFault(its, k, f) == [c \in {its[3 * k + 1].spelling} |-> [cpp |-> f, java |-> its[3 * k - 1]]]

(* The k-th entry: Java name, parameters, C++ name. *)
Entry(its, k, f) ==
    [c \in {its[3 * k + 1].spelling} |-> [cpp |-> f, java |-> its[3 * k - 1].spelling]]

WithEntries(m, its, f) ==
    LET with[k \in 0 .. Len(its) \div 3] ==
            IF k = 0 THEN m ELSE Updated(with[k - 1], Entry(its, k, f))
    IN  with[Len(its) \div 3]

Extracting == Running /\ parsing # 0 /\ tk = Len(Tokens) /\ jniTokens # <<>>

(* seeded fault: a block that is no table is not taken off the list *)
ExtractJniBlockFault ==
    /\ Extracting
    /\ LET its == Items(Head(jniTokens))
       IN  /\ its # <<>>
           /\ jniMap' = IF IsTable(its) THEN WithEntries(jniMap, its, parsing) ELSE jniMap
           /\ jniTokens' = IF IsTable(its) THEN Tail(jniTokens) ELSE jniTokens
    /\ UNCHANGED <<tree, fileList, todo, parsing, tk, extractJni, jniBlock, jniBridgeMap, outcome, file, unparsed>>

ExtractJniBlock ==
    /\ Extracting
    /\ LET its == Items(Head(jniTokens))
       IN  /\ its # <<>>
           /\ jniMap' = IF IsTable(its) THEN WithEntries(jniMap, its, parsing) ELSE jniMap
    /\ jniTokens' = Tail(jniTokens)
    /\ UNCHANGED <<tree, fileList, todo, parsing, tk, extractJni, jniBlock, jniBridgeMap, outcome, file, unparsed>>

(* seeded fault: a block without items is passed over *)
PopFailsFault ==
    /\ Extracting
    /\ Items(Head(jniTokens)) = <<>>
    /\ jniTokens' = Tail(jniTokens)
    /\ UNCHANGED <<tree, fileList, todo, parsing, tk, extractJni, jniBlock, jniMap, jniBridgeMap,
                   outcome, file, unparsed>>

PopFails ==
    /\ Extracting
    /\ Items(Head(jniTokens)) = <<>>
    /\ outcome' = "crashed"
    /\ UNCHANGED <<tree, fileList, todo, parsing, parserVars, jniBridgeMap, file, unparsed>>

(* seeded fault: entries that are there are kept *)
UpdateFault ==
    /\ Running /\ parsing # 0 /\ tk = Len(Tokens) /\ jniTokens = <<>>
    /\ jniBridgeMap' = Updated(jniMap, jniBridgeMap)
    /\ parsing' = 0
    /\ UNCHANGED <<tree, fileList, todo, parserVars, outcome, file, unparsed>>

(* jni_bridge_map.update(results): the file's entries replace older ones. *)
Update ==
    /\ Running /\ parsing # 0 /\ tk = Len(Tokens) /\ jniTokens = <<>>
    /\ jniBridgeMap' = Updated(jniBridgeMap, jniMap)
    /\ parsing' = 0
    /\ UNCHANGED <<tree, fileList, todo, parserVars, outcome, file, unparsed>>

WriteJson ==
    /\ Idle /\ todo = <<>>
    /\ file' = jniBridgeMap
    /\ outcome' = "saved"
    /\ UNCHANGED <<tree, fileList, todo, parsing, parserVars, jniBridgeMap, unparsed>>

(* The file cannot be opened, or, open and already emptied, not be written. *)
WriteFails ==
    /\ Idle /\ todo = <<>>
    /\ file' \in {file, Torn}
    /\ outcome' = "crashed"
    /\ UNCHANGED <<tree, fileList, todo, parsing, parserVars, jniBridgeMap, unparsed>>

Next ==
    \/ ScanFiles
    \/ ScanFails
    \/ SkipFile
    \/ ParseFails
    \/ CreateFails
    \/ ParseOne
    \/ ReadToken
    \/ ExtractJniBlock
    \/ PopFails
    \/ Update
    \/ WriteJson
    \/ WriteFails

(* One thread that nothing else blocks. *)
Spec == Init /\ [][Next]_vars /\ WF_vars(Next)

-----------------------------------------------------------------------------
IsMap(m) ==
    \A c \in DOMAIN m : c \in Spelling /\ m[c] \in [cpp : DOMAIN tree, java : Spelling]

(* Type invariant: the maps lead from spellings to a file and a spelling. *)
TypeOK ==
    /\ tree \in Seq(SourceFile)
    /\ fileList \in Seq(DOMAIN tree) /\ todo \in Seq(DOMAIN tree)
    /\ parsing \in DOMAIN tree \cup {0} /\ tk \in Nat
    /\ extractJni \in BOOLEAN /\ jniBlock \in Seq(Token) /\ jniTokens \in Seq(Seq(Token))
    /\ IsMap(jniMap) /\ IsMap(jniBridgeMap) /\ (file \in {Old, Torn} \/ IsMap(file))
    /\ outcome \in {"scanning", "running", "saved", "crashed"}
    /\ unparsed \subseteq DOMAIN tree

(***************************************************************************)
(* The blocks of the tokens T, without a loop: from a JNINativeMethod to   *)
(* the first semicolon behind it, with no other JNINativeMethod between.   *)
(* A block is a table when it has an item for its name and three for each  *)
(* entry.                                                                  *)
(***************************************************************************)
IsBound(t) == t.spelling = JNINativeMethod \/ t.spelling = Semicolon

BlocksIn(T) ==
    {b \in (DOMAIN T) \X (DOMAIN T) :
        /\ b[1] < b[2] /\ T[b[1]].spelling = JNINativeMethod /\ T[b[2]].spelling = Semicolon
        /\ \A k \in b[1] + 1 .. b[2] - 1 : ~IsBound(T[k])}

ItemsIn(T, b) == {k \in b[1] .. b[2] - 1 : IsItem(T[k])}

Rank(S, k) == Cardinality({j \in S : j < k})

(* Positions of C++ names that stand in an entry of a table. *)
NamesOf(T, b) ==
    {k \in ItemsIn(T, b) : /\ Cardinality(ItemsIn(T, b)) % 3 = 1
                           /\ Rank(ItemsIn(T, b), k) % 3 = 0 /\ Rank(ItemsIn(T, b), k) > 0}

EntriesOf(f) == {f} \X UNION {NamesOf(tree[f].tokens, b) : b \in BlocksIn(tree[f].tokens)}

JavaIn(T, k) ==
    LET b == CHOOSE x \in BlocksIn(T) : x[1] < k /\ k < x[2]
        I == ItemsIn(T, b)
    IN  T[CHOOSE j \in I : Rank(I, j) + 2 = Rank(I, k)].spelling

(***************************************************************************)
(* A saved map is exact: a name is in it when some table of a parsed file  *)
(* has an entry for it, and it leads to the Java name of the last such     *)
(* entry of the last such file, in the order .h, .cc, .cpp, .c and the     *)
(* order of the directory within.                                          *)
(***************************************************************************)
ExtRank(f) == CHOOSE i \in DOMAIN CPP_EXT : CPP_EXT[i] = tree[f].ext

PlaceOf(f) == CHOOSE i \in DOMAIN fileList : fileList[i] = f

Later(f, g) == ExtRank(f) > ExtRank(g) \/ (ExtRank(f) = ExtRank(g) /\ PlaceOf(f) > PlaceOf(g))

Parsed == {f \in DOMAIN tree : /\ \E i \in DOMAIN CPP_EXT : CPP_EXT[i] = tree[f].ext
                               /\ tree[f].check /\ f \notin unparsed}

Naming(c) == {e \in UNION {EntriesOf(f) : f \in Parsed} : tree[e[1]].tokens[e[2]].spelling = c}

Last(E) == CHOOSE e \in E : \A d \in E : (d[1] = e[1] /\ d[2] <= e[2]) \/ Later(e[1], d[1])

SavedMapIsExact ==
    file \notin {Old, Torn} =>
        /\ DOMAIN file = {c \in Spelling : Naming(c) # {}}
        /\ \A c \in DOMAIN file :
              LET e == Last(Naming(c))
              IN  file[c] = [cpp |-> e[1], java |-> JavaIn(tree[e[1]].tokens, e[2])]

(***************************************************************************)
(* One block without a name, in whichever file, keeps the whole map from   *)
(* being written: the old one stays, not even torn.  A run that does not   *)
(* end well leaves the old map or, when the write failed, a torn one.      *)
(***************************************************************************)
NamelessBlockLosesAll ==
    /\ file # Old => \A f \in Parsed : \A b \in BlocksIn(tree[f].tokens) : ItemsIn(tree[f].tokens, b) # {}
    /\ outcome # "saved" => file \in {Old, Torn}

(***************************************************************************)
(* The run ends, with a map or with an exception.                          *)
(***************************************************************************)
Termination == <>(outcome \in {"saved", "crashed"})

=============================================================================
