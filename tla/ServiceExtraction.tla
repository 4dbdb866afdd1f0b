-------------------------- MODULE ServiceExtraction --------------------------
(***************************************************************************)
(* services/IPCExtractor.kt with ServiceHelperExtractor.kt and             *)
(* ServiceImplExtractor.kt: build the list of services, helpers first, and *)
(* write service_api.json.                                                 *)
(*                                                                         *)
(* Services are compared by identity, so a service carries the place that  *)
(* created it: the registration of a helper, or one invocation in one      *)
(* method of one class.  HashSets are visited in any order.                *)
(***************************************************************************)
EXTENDS JimpleValueSolver

CONSTANTS
    RegistryClass,      \* android.app.SystemServiceRegistry
    ServiceName,
    Worlds,             \* the jar files considered
    Torn                \* what is left of the file when writing it fails half-way

(***************************************************************************)
(* A registerService call of the registry: managed when its second         *)
(* argument is a class constant; complete when createService of its block  *)
(* exists and returns a value of a class.  tag is the name the block asks  *)
(* the ServiceManager for.                                                 *)
(***************************************************************************)
Registration ==
    [managed : BOOLEAN, complete : BOOLEAN, helper : Class, tag : ServiceName \cup {Null}]

(***************************************************************************)
(* A body is a sequence of definitions and invocations.  arg is the second *)
(* argument of an invocation, whose class JimpleValueSolver looks for; for *)
(* kind "unknown", asking Soot for the method throws.                      *)
(***************************************************************************)
Invocation ==
    [kind : {"addService", "publish", "other", "unknown"}, name : ServiceName,
     arg : Value \cup {Null}]

Body == Seq(Invocation \cup Define)

(***************************************************************************)
(* A jar file: the registry's static initialiser (hasInit) and its calls,  *)
(* the methods of each class in order, the concrete classes of com.android *)
(* and the subclasses of SystemService.  The registry is in android.app,   *)
(* and extends Object.                                                     *)
(***************************************************************************)
World ==
    [hasInit : BOOLEAN, registry : Seq(Registration), methods : [Class -> Seq(Body)],
     android : SUBSET (Class \ {RegistryClass}), systemServices : SUBSET (Class \ {RegistryClass})]

Site == Class \X Nat \X Nat

ServiceApi ==
    [site : Site, helperClass : Class \cup {Null}, inf : Class \cup {Null},
     implClass : Class \cup {Null}, serviceName : ServiceName \cup {Null}]

ASSUME WorldsAssumption == Worlds \subseteq World
ASSUME ClassesAssumption == HierarchyAssumption
ASSUME NamesAssumption ==
    /\ {IBinder, RegistryClass} \subseteq Class
    /\ Null \notin ServiceName \cup Value /\ Throws \notin Class \cup {Null}

VARIABLES
    world,      \* the jar file
    phase,      \* what runs: "helpers", "register", "publish", "save"; then "saved" or "panicked"
    pc,         \* registrations already resolved
    todo,       \* methods ("register") or classes ("publish") not yet visited
    helpers,    \* helperApiList
    implList,   \* ServiceImplExtractor.implList
    allApi,     \* ServiceApiList.allApi
    file        \* service_api.json

vars == <<world, phase, pc, todo, helpers, implList, allApi, file>>

Init ==
    /\ world \in Worlds
    /\ phase = "helpers" /\ pc = 0 /\ todo = {}
    /\ helpers = {} /\ implList = {} /\ allApi = {}
    /\ file = Null

-----------------------------------------------------------------------------
(***************************************************************************)
(* ServiceHelperExtractor.  A registry without initialiser, or a block     *)
(* whose createService cannot be read, ends the program.                   *)
(***************************************************************************)
Registered == world.registry[pc + 1]

AtRegistration == phase = "helpers" /\ world.hasInit /\ pc < Len(world.registry)

NewHelper ==
    [site |-> <<RegistryClass, 1, pc + 1>>, helperClass |-> Registered.helper, inf |-> Null,
     implClass |-> Null, serviceName |-> Registered.tag]

ResolveServiceHelperRegister ==
    /\ AtRegistration
    /\ Registered.managed => Registered.complete
    /\ pc' = pc + 1
    /\ helpers' = IF Registered.managed THEN helpers \cup {NewHelper} ELSE helpers
    /\ UNCHANGED <<world, phase, todo, implList, allApi, file>>

HelperPanics ==
    /\ phase = "helpers"
    /\ ~world.hasInit \/ (AtRegistration /\ Registered.managed /\ ~Registered.complete)
    /\ phase' = "panicked"
    /\ UNCHANGED <<world, pc, todo, helpers, implList, allApi, file>>

(***************************************************************************)
(* findAddServiceList and filterMethodContainCalls: an invocation whose    *)
(* method is unknown is skipped here, the others of its body are not.      *)
(***************************************************************************)
Method(c, m) == world.methods[c][m]

CallsIn(b, kind) == {i \in DOMAIN b : b[i].kind = kind}

UnknownIn(b) ==
    CallsIn(b, "unknown") \cup {i \in CallsIn(b, "define") : b[i].invoke = "unknown"}

RegisteringMethods ==
    {cm \in Class \X UNION {DOMAIN world.methods[c] : c \in Class} :
        /\ cm[1] \in world.android
        /\ cm[2] \in DOMAIN world.methods[cm[1]]
        /\ CallsIn(Method(cm[1], cm[2]), "addService") # {}}

AddHelpers ==
    /\ phase = "helpers" /\ world.hasInit /\ pc = Len(world.registry)
    /\ allApi' = allApi \cup helpers
    /\ implList' = {}
    /\ phase' = "register"
    /\ todo' = RegisteringMethods
    /\ UNCHANGED <<world, pc, helpers, file>>

-----------------------------------------------------------------------------
(***************************************************************************)
(* resolveServiceImplRegister, one method of it.  This second look at the  *)
(* body is not guarded: an unknown invocation ends the program.            *)
(***************************************************************************)
ImplAt(s) == Solved(Method(s[1], s[2]), s[1], Method(s[1], s[2])[s[3]].arg)

NewImpl(s) ==
    LET inv == Method(s[1], s[2])[s[3]]
    IN  [site |-> s, implClass |-> ImplAt(s), inf |-> Null, serviceName |-> inv.name,
         helperClass |-> IF ImplAt(s) = Null /\ inv.kind = "addService" THEN ObjectClass ELSE Null]

ResolveServiceImplRegister(c, m) ==
    /\ phase = "register" /\ <<c, m>> \in todo
    /\ todo' = todo \ {<<c, m>>}
    /\ UnknownIn(Method(c, m)) = {}
    /\ implList' = implList \cup {NewImpl(<<c, m, i>>) : i \in CallsIn(Method(c, m), "addService")}
    /\ UNCHANGED <<world, phase, pc, helpers, allApi, file>>

RegisterPanics(c, m) ==
    /\ phase = "register" /\ <<c, m>> \in todo
    /\ UnknownIn(Method(c, m)) # {}
    /\ phase' = "panicked"
    /\ UNCHANGED <<world, pc, todo, helpers, implList, allApi, file>>

StartPublish ==
    /\ phase = "register" /\ todo = {}
    /\ phase' = "publish"
    /\ todo' = world.systemServices
    /\ UNCHANGED <<world, pc, helpers, implList, allApi, file>>

(***************************************************************************)
(* extractServicePublic: the methods in order, up to the first             *)
(* publishBinderService; unknown invocations before it, or behind it where *)
(* they define the argument, end the program.                              *)
(***************************************************************************)
SitesIn(c) ==
    UNION {{<<c, m, i>> : i \in DOMAIN Method(c, m)} : m \in DOMAIN world.methods[c]}

SitesOf(c, kind) == {s \in SitesIn(c) : Method(c, s[2])[s[3]].kind = kind}

Precedes(s, t) == s[2] < t[2] \/ (s[2] = t[2] /\ s[3] < t[3])

(* seeded fault: every publishBinderService of the class *)
FirstPublishFault(c) == SitesOf(c, "publish")

FirstPublish(c) ==
    {s \in SitesOf(c, "publish") : ~\E t \in SitesOf(c, "publish") : Precedes(t, s)}

Stumbles(c) ==
    \/ \E u \in SitesIn(c) :
          /\ u[3] \in UnknownIn(Method(c, u[2]))
          /\ \A s \in SitesOf(c, "publish") : Precedes(u, s)
    \/ \E s \in FirstPublish(c) : ImplAt(s) = Throws

ExtractServicePublic(c) ==
    /\ phase = "publish" /\ c \in todo
    /\ todo' = todo \ {c}
    /\ c \notin interfaces => ~Stumbles(c)
    /\ implList' = IF c \in interfaces THEN implList
                   ELSE implList \cup {NewImpl(s) : s \in FirstPublish(c)}
    /\ UNCHANGED <<world, phase, pc, helpers, allApi, file>>

PublishPanics(c) ==
    /\ phase = "publish" /\ c \in todo
    /\ c \notin interfaces /\ Stumbles(c)
    /\ phase' = "panicked"
    /\ UNCHANGED <<world, pc, todo, helpers, implList, allApi, file>>

-----------------------------------------------------------------------------
(***************************************************************************)
(* extractServiceImpl keeps the services whose class was resolved, and     *)
(* sets their interface: for a class with several binder interfaces any of *)
(* them, but the same one throughout a run.                                *)
(***************************************************************************)
HasChoice == {c \in Class \ interfaces : Cardinality(InfForImpl(c)) > 1}

Picks == {p \in [HasChoice -> Class] : \A c \in HasChoice : p[c] \in InfForImpl(c)}

InfOf(c, p) ==
    IF c \in interfaces THEN Null
    ELSE IF c \in HasChoice THEN p[c]
    ELSE CHOOSE i \in InfForImpl(c) : TRUE

WithInterface(api, p) == [api EXCEPT !.inf = InfOf(api.implClass, p)]

(* seeded fault: what could not be resolved stays in the list *)
RemainListFault(p) ==
    {IF api.implClass # Null THEN WithInterface(api, p) ELSE api : api \in implList}

RemainList(p) == {WithInterface(api, p) : api \in {a \in implList : a.implClass # Null}}

AddRemaining ==
    /\ phase = "publish" /\ todo = {}
    /\ \E p \in Picks : allApi' = allApi \cup RemainList(p)
    /\ phase' = "save"
    /\ UNCHANGED <<world, pc, todo, helpers, implList, file>>

SaveResults ==
    /\ phase = "save"
    /\ file' = allApi
    /\ phase' = "saved"
    /\ UNCHANGED <<world, pc, todo, helpers, implList, allApi>>

(* saveResult: opening the file empties it, and then the write may fail. *)
SavePanics ==
    /\ phase = "save"
    /\ file' \in {file, Torn}
    /\ phase' = "panicked"
    /\ UNCHANGED <<world, pc, todo, helpers, implList, allApi>>

Next ==
    \/ ResolveServiceHelperRegister
    \/ HelperPanics
    \/ AddHelpers
    \/ \E cm \in todo : phase = "register" /\ (ResolveServiceImplRegister(cm[1], cm[2])
                                               \/ RegisterPanics(cm[1], cm[2]))
    \/ StartPublish
    \/ \E c \in Class : ExtractServicePublic(c) \/ PublishPanics(c)
    \/ AddRemaining
    \/ SaveResults
    \/ SavePanics

Spec == Init /\ [][Next]_vars

-----------------------------------------------------------------------------
(***************************************************************************)
(* Type invariant.                                                         *)
(***************************************************************************)
TypeOK ==
    /\ phase \in {"helpers", "register", "publish", "save", "saved", "panicked"}
    /\ pc \in 0 .. Len(world.registry)
    /\ helpers \cup implList \cup allApi \subseteq ServiceApi
    /\ file \in {Null, Torn} \/ file \subseteq ServiceApi

(***************************************************************************)
(* A saved list holds, whatever the order of the visits: one helper for    *)
(* each managed registration, and one service for each addService call of  *)
(* a concrete com.android class and for the first publish call of each     *)
(* SystemService, provided a chain of at most three definitions leads from *)
(* its argument to its class.                                              *)
(***************************************************************************)
RegisterSites ==
    UNION {SitesOf(c, "addService") : c \in world.android}

PublishSites ==
    {s \in UNION {SitesOf(c, "publish") : c \in world.systemServices \ interfaces} :
        ~\E t \in SitesOf(s[1], "publish") : Precedes(t, s)}

ClassAt(s) == SolvedByChain(Method(s[1], s[2]), s[1], Method(s[1], s[2])[s[3]].arg)

SavedListIsExact ==
    file \notin {Null, Torn} =>
        /\ {a.site : a \in {x \in file : x.helperClass # Null}}
              = {<<RegistryClass, 1, i>> : i \in {k \in DOMAIN world.registry : world.registry[k].managed}}
        /\ {<<a.site, a.implClass>> : a \in {x \in file : x.helperClass = Null}}
              = {<<s, ClassAt(s)>> : s \in {t \in RegisterSites \cup PublishSites : ClassAt(t) # Null}}
        /\ \A a, b \in file : a.site = b.site => a = b

(***************************************************************************)
(* Detection takes a service with a helper class for a helper and asserts  *)
(* that any other has an implementation (VulnerabilitiesDetecting.kt:42):  *)
(* no placeholder of an unresolved service is left in the list it gets.    *)
(* And the interface it takes the exposed methods from is a binder         *)
(* interface above the class whenever there is one.                        *)
(***************************************************************************)
ListIsFitForDetection ==
    phase = "saved" =>
        \A a \in allApi :
            IF a.helperClass # Null THEN a.site[1] = RegistryClass
            ELSE /\ a.implClass # Null
                 /\ a.implClass \notin interfaces =>
                       \/ a.inf \in BinderInterfacesOf(a.implClass)
                       \/ a.inf = a.implClass /\ BinderInterfacesOf(a.implClass) = {}

=============================================================================
