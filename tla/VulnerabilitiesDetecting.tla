---------------------- MODULE VulnerabilitiesDetecting ----------------------
(***************************************************************************)
(* services/VulnerabilitiesDetecting.kt: run the call graph search on the  *)
(* interface methods of every service, then the helper search on every     *)
(* helper class, then write results.txt and results.json.                  *)
(*                                                                         *)
(* CallGraphAnalysis decides which methods leak; here that is the frozen   *)
(* set `leaks', of methods that have a body.  The search of a helper       *)
(* method is that of AnalysisHelperApi, step by step, on the variables of  *)
(* that module: vulSet, the service methods reported so far (and the keys  *)
(* of vulMap), and entryMtd, which is null between two searches.  The      *)
(* service list is a HashSet: its order is a nondeterministic choice.      *)
(***************************************************************************)
EXTENDS AnalysisHelperApi, FiniteSets

CONSTANTS
    Class,
    NoClass,            \* null
    declared,           \* the methods each class declares
    publicMtd,          \* the methods that are public
    concreteMtd,        \* the methods that have a body
    ServiceLists,       \* the service lists considered, as sets of ServiceApiClass
    ServiceName,
    Old,                \* what a result file holds before this run
    Torn                \* what is left of one when writing it fails half-way

(***************************************************************************)
(* A service: helperClass is null for one found through its registration,  *)
(* and then implClass is not.  equals() is the identity, so two services   *)
(* may agree in everything but their id.                                   *)
(***************************************************************************)
ServiceApiClass ==
    [id : Nat, helperClass : Class \cup {NoClass}, inf : Class \cup {NoClass},
     implClass : Class \cup {NoClass}, serviceName : ServiceName]

IsHelperClass(api) == api.helperClass # NoClass

ASSUME ServiceListsAssumption ==
    \A l \in ServiceLists : l \subseteq ServiceApiClass /\ IsFiniteSet(l)
                            /\ \A api \in l : ~IsHelperClass(api) => api.implClass # NoClass
ASSUME DeclaredAssumption ==
    /\ declared \in [Class -> SUBSET Method]
    /\ publicMtd \cup concreteMtd \subseteq Method
    /\ \A c, d \in Class : c # d => declared[c] \cap declared[d] = {}

Summary == [services : SUBSET Method, helpers : SUBSET Method]

Detail == SUBSET [mtd : Method, serviceName : ServiceName]

ASSUME ResultsAssumption ==
    \A file \in {Old, Torn} : file \notin Summary /\ \A d \in Detail : file # d

VARIABLES
    leaks,          \* the methods CallGraphAnalysis reports
    allApi,         \* the service list
    phase,          \* the loop or the step of dumpVul that is running
    pending,        \* services the running loop has not visited
    helperMtds,     \* methods of the running analysisHelperClass still to be searched
    helperVulSet,   \* helper methods reported
    txt,            \* results.txt
    json            \* results.json

program == <<body, leaks, allApi>>

search == <<entryMtd, stack, called, done>>

files == <<txt, json>>

vars == <<program, phase, pending, vulSet, helperMtds, search, helperVulSet, files>>

Init ==
    /\ body \in Program
    /\ leaks \in SUBSET concreteMtd
    /\ allApi \in ServiceLists
    /\ phase = "impl"
    /\ pending = allApi
    /\ vulSet = {}
    /\ helperMtds = {}
    /\ entryMtd = NoMethod /\ stack = <<>> /\ called = NoMethod /\ done = FALSE
    /\ helperVulSet = {}
    /\ txt = Old
    /\ json = Old

-----------------------------------------------------------------------------
PublicApis(c) == {subSignature[m] : m \in declared[c] \cap publicMtd}

(***************************************************************************)
(* analysisImplClass: the methods the class itself declares whose          *)
(* subsignature is public in the interface, or in the class when the       *)
(* service has no interface.                                               *)
(***************************************************************************)
(* seeded fault: whichever class declares the method *)
ExposedFault(api) ==
    {m \in Method : subSignature[m] \in PublicApis(IF api.inf # NoClass THEN api.inf ELSE api.implClass)}

Exposed(api) ==
    {m \in declared[api.implClass] :
        subSignature[m] \in PublicApis(IF api.inf # NoClass THEN api.inf ELSE api.implClass)}

AnalysisImplClass(api) ==
    /\ phase = "impl" /\ api \in pending
    /\ pending' = pending \ {api}
    /\ vulSet' = IF IsHelperClass(api) THEN vulSet ELSE vulSet \cup (Exposed(api) \cap leaks)
    /\ UNCHANGED <<program, phase, helperMtds, search, helperVulSet, files>>

(* seeded fault: a helper is judged before every service was *)
StartHelpersFault ==
    /\ phase = "impl"
    /\ phase' = "helper"
    /\ pending' = allApi
    /\ UNCHANGED <<program, vulSet, helperMtds, search, helperVulSet, files>>

StartHelpers ==
    /\ phase = "impl" /\ pending = {}
    /\ phase' = "helper"
    /\ pending' = allApi
    /\ UNCHANGED <<program, vulSet, helperMtds, search, helperVulSet, files>>

HelperApis(c) == declared[c] \cap publicMtd \cap concreteMtd

(***************************************************************************)
(* analysisHelperClass goes through the methods one after the other, and   *)
(* each gets a new AnalysisHelperApi.                                      *)
(***************************************************************************)
BetweenClasses == phase = "helper" /\ helperMtds = {} /\ entryMtd = NoMethod

AnalysisHelperClass(api) ==
    /\ BetweenClasses /\ api \in pending
    /\ pending' = pending \ {api}
    /\ helperMtds' = IF IsHelperClass(api) THEN HelperApis(api.helperClass) ELSE {}
    /\ UNCHANGED <<program, phase, vulSet, search, helperVulSet, files>>

BeginSearch(m) ==
    /\ phase = "helper" /\ entryMtd = NoMethod /\ m \in helperMtds
    /\ helperMtds' = helperMtds \ {m}
    /\ entryMtd' = m /\ stack' = Entered(m) /\ called' = NoMethod /\ done' = FALSE
    /\ UNCHANGED <<program, phase, pending, vulSet, helperVulSet, files>>

Searching == phase = "helper" /\ entryMtd # NoMethod

FindVulIPCCall ==
    /\ Searching /\ ~done
    /\ SearchNext
    /\ UNCHANGED <<leaks, allApi, phase, pending, helperMtds, helperVulSet, files>>

EndSearch ==
    /\ Searching /\ done
    /\ helperVulSet' = IF called # NoMethod THEN helperVulSet \cup {entryMtd} ELSE helperVulSet
    /\ entryMtd' = NoMethod
    /\ UNCHANGED <<program, phase, pending, vulSet, helperMtds, stack, called, done, files>>

DumpVul ==
    /\ BetweenClasses /\ pending = {}
    /\ phase' = "summary"
    /\ UNCHANGED <<program, pending, vulSet, helperMtds, search, helperVulSet, files>>

-----------------------------------------------------------------------------
(***************************************************************************)
(* saveSummary and saveDetail.  The detail groups the methods by declaring *)
(* class and looks up one service implemented by that class; the methods   *)
(* of a class without a service are left out.                              *)
(***************************************************************************)
(* seeded fault: the subsignatures are saved *)
SaveSummaryFault ==
    /\ phase = "summary"
    /\ txt' = [services |-> {subSignature[m] : m \in vulSet}, helpers |-> helperVulSet]
    /\ phase' = "detail"
    /\ UNCHANGED <<program, pending, vulSet, helperMtds, search, helperVulSet, json>>

SaveSummary ==
    /\ phase = "summary"
    /\ txt' = [services |-> vulSet, helpers |-> helperVulSet]
    /\ phase' = "detail"
    /\ UNCHANGED <<program, pending, vulSet, helperMtds, search, helperVulSet, json>>

ServicesFor(c) == {api \in allApi : api.implClass = c}

WithService == {c \in Class : ServicesFor(c) # {}}

SaveDetail ==
    /\ phase = "detail"
    /\ \E serviceFor \in [WithService -> allApi] :
          /\ \A c \in WithService : serviceFor[c] \in ServicesFor(c)
          /\ json' = UNION {{[mtd |-> m, serviceName |-> serviceFor[c].serviceName] :
                                m \in vulSet \cap declared[c]} : c \in WithService}
    /\ phase' = "done"
    /\ UNCHANGED <<program, pending, vulSet, helperMtds, search, helperVulSet, txt>>

(***************************************************************************)
(* saveResult opens a file, which empties it, and then writes; whatever    *)
(* fails of that is a panic, and the program ends at once.                 *)
(***************************************************************************)
(* seeded fault: the exception of the write is not passed on *)
SummaryFailsFault ==
    /\ phase = "summary"
    /\ txt' \in {txt, Torn}
    /\ phase' = "detail"
    /\ UNCHANGED <<program, pending, vulSet, helperMtds, search, helperVulSet, json>>

SummaryFails ==
    /\ phase = "summary"
    /\ txt' \in {txt, Torn}
    /\ phase' = "panicked"
    /\ UNCHANGED <<program, pending, vulSet, helperMtds, search, helperVulSet, json>>

DetailFails ==
    /\ phase = "detail"
    /\ json' \in {json, Torn}
    /\ phase' = "panicked"
    /\ UNCHANGED <<program, pending, vulSet, helperMtds, search, helperVulSet, txt>>

(* Anything the analysis of a class stumbles over ends the program, too. *)
Panic ==
    /\ phase \in {"impl", "helper"}
    /\ phase = "impl" => pending # {}
    /\ BetweenClasses => pending # {}
    /\ phase' = "panicked"
    /\ UNCHANGED <<program, pending, vulSet, helperMtds, search, helperVulSet, files>>

Next ==
    \/ \E api \in allApi : AnalysisImplClass(api) \/ AnalysisHelperClass(api)
    \/ StartHelpers
    \/ \E m \in helperMtds : BeginSearch(m)
    \/ FindVulIPCCall
    \/ EndSearch
    \/ DumpVul
    \/ SaveSummary
    \/ SummaryFails
    \/ SaveDetail
    \/ DetailFails
    \/ Panic

Spec == Init /\ [][Next]_vars

-----------------------------------------------------------------------------
(***************************************************************************)
(* Type invariant.                                                         *)
(***************************************************************************)
TypeOK ==
    /\ body \in [Method -> HelperBody]
    /\ leaks \subseteq Method
    /\ allApi \subseteq ServiceApiClass
    /\ phase \in {"impl", "helper", "summary", "detail", "done", "panicked"}
    /\ pending \subseteq allApi
    /\ vulSet \subseteq Method
    /\ helperMtds \subseteq Method
    /\ entryMtd \in Method \cup {NoMethod}
    /\ stack \in Seq(Frame) /\ called \in Method \cup {NoMethod} /\ done \in BOOLEAN
    /\ helperVulSet \subseteq Method
    /\ txt \in {Old, Torn} \/ txt \in Summary
    /\ json \in {Old, Torn} \/ json \in Detail

(***************************************************************************)
(* Whatever the order of the service list, and however often one class is  *)
(* listed, results.txt holds every exposed method that leaks, no other,    *)
(* and every helper method from which one of them is reached.  So the      *)
(* verdicts on helpers may not be taken before the last service is done.   *)
(***************************************************************************)
SummaryIsComplete ==
    txt \notin {Old, Torn} =>
        LET impls == {api \in allApi : ~IsHelperClass(api)}
            vuls == leaks \cap UNION {Exposed(api) : api \in impls}
            helpers == UNION {HelperApis(api.helperClass) : api \in allApi \ impls}
        IN  /\ txt.services = vuls
            /\ txt.helpers = {m \in helpers : FindsIpc(body, vuls, m, helperLev)}

(***************************************************************************)
(* The two result files of one run agree: saveDetail drops the methods of  *)
(* a class it finds no service for, and that must not happen to a method   *)
(* of results.txt.                                                         *)
(***************************************************************************)
DetailDropsNothing == json \notin {Old, Torn} => {d.mtd : d \in json} = txt.services

(***************************************************************************)
(* results.json is not touched unless results.txt is there and whole, and  *)
(* it is whole itself just when the run says that it is done: a failure of *)
(* either write never leaves a result of this run beside one of another,   *)
(* but for a new results.txt beside the old results.json of a run that     *)
(* panicked.                                                               *)
(***************************************************************************)
FilesOfOneRun ==
    /\ json # Old => txt \notin {Old, Torn}
    /\ phase = "done" <=> json \notin {Old, Torn}

=============================================================================
