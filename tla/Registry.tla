------------------------------ MODULE Registry ------------------------------
(***************************************************************************)
(* The Pluggers of one process: Load, NewPlugin, FreePlugin, Unload and    *)
(* Free (plugger/plugger.go), over the tables of plugger/manager.go and    *)
(* the instance table each library keeps (plugin/manager.go).              *)
(*                                                                         *)
(* Every table has a lock of its own, held for one lookup, one update or   *)
(* one pass over the table, and no operation holds a lock from its check   *)
(* to its act: an action below is what happens under one lock, or one call *)
(* into a library.  What becomes of calls and listeners of an instance     *)
(* that is freed is the matter of RequestCall and EventLoop.               *)
(***************************************************************************)
EXTENDS IdGenerator, FiniteSets

CONSTANTS
  Pluggers,      \* the Pluggers the application made
  Users,         \* its goroutines
  Files,         \* the shared libraries under the plugin directories
  Names,         \* the names plugins give themselves
  Directories,   \* what the libraries may be: sets of functions from Files
  MaxInstances,  \* bound: instance ids a Plugger takes
  Exclusive,     \* whether the application lets nothing overlap its Unload and Free
  SharedValue,   \* whether all plugin values of a library are equal
  None           \* an absent entry; the empty name

\* Whether dlopen and dlsym find what they look for, the name and the version
\* the library reports, and whether it has called SetNewPluginFunc.
Libraries == [opens : BOOLEAN, symbols : BOOLEAN, name : Names \cup {None},
              sameVersion : BOOLEAN, makes : BOOLEAN]

ASSUME RegistryAssumption ==
  /\ IsFiniteSet(Pluggers) /\ IsFiniteSet(Users)
  /\ Directories \subseteq [Files -> Libraries]
  /\ MaxInstances \in Nat /\ MaxInstances < IdSpan
  /\ Exclusive \in BOOLEAN /\ SharedValue \in BOOLEAN
  /\ None \notin Names \cup Files \cup Pluggers

VARIABLES
  files,         \* what each library is
  opens,         \* how often the process has each library open (libdl)
  stray,         \* a library was called or closed while it was not open (history)
  halted,        \* the process died of a panic
  versionSafe,   \* p.versionSafe
  libs,          \* p.dynLoadLibMgr.dynLoadLibs: the file behind each name
  handles,       \* p.pluginHandleMgr.pluginHandles
  given,         \* the name of each handle NewPlugin gave the application
  instanceId,    \* p.instanceIdGen.currentId
  instMap,       \* each library's instMgr.instMap
  instMapByPlugin,  \* each library's instMgr.instMapByPlugin
  pc,            \* where each goroutine is
  call           \* the locals of its call

hostVars == <<versionSafe, libs, handles, given, instanceId>>
instVars == <<instMap, instMapByPlugin>>
vars == <<files, opens, stray, halted, hostVars, instVars, pc, call>>

-----------------------------------------------------------------------------
(* Values.                                                                 *)

\* An instance is known by the Plugger that made it and its id there.
Instances == Pluggers \X Ids

\* The value newPluginFunc returned for an instance: pointers to structs
\* without fields are all equal.
Values == IF SharedValue THEN {None} ELSE Instances
ValueOf(k) == IF SharedValue THEN None ELSE k

Handles == [name : Names, lib : Files]

\* No library is called what Lifecycle calls a slot without an instance.
ASSUME EntriesAssumption ==
  /\ None \notin Instances \cup Handles
  /\ "unused" \notin Files /\ "over" \notin Files

Calls == [plugger : Pluggers \cup {None}, todo : SUBSET Files, lib : Files \cup {None},
          name : Names \cup {None}, id : Ids \cup {0}, ids : SUBSET Ids,
          skipped : BOOLEAN, warn : BOOLEAN]

NoCall == [plugger |-> None, todo |-> {}, lib |-> None, name |-> None, id |-> 0,
           ids |-> {}, skipped |-> FALSE, warn |-> FALSE]

Empty(S) == [x \in S |-> None]
Present(table) == {x \in DOMAIN table : table[x] # None}

-----------------------------------------------------------------------------
(* Moves of one goroutine.                                                 *)

LoadSteps == {"open", "register"}
TearDown == {"unloadEach", "unloadDelete", "unloadClose", "unloadForget",
             "freeEach", "freeClear", "freeClose", "freeForget"}

\* With Exclusive an Unload or Free of a Plugger overlaps no other call on it.
MayBegin(p, teardown) ==
  Exclusive => \A v \in Users : call[v].plugger = p => ~teardown /\ pc[v] \notin TearDown

Notes(u, c) == call' = [call EXCEPT ![u] = c]

Begins(u, to, c) ==
  /\ ~halted
  /\ pc[u] = "idle"
  /\ MayBegin(c.plugger, to \in TearDown)
  /\ pc' = [pc EXCEPT ![u] = to]
  /\ Notes(u, c)
  /\ UNCHANGED <<files, opens, stray, halted, versionSafe, libs, handles, given, instVars>>

Goes(u, from, to) ==
  /\ ~halted
  /\ pc[u] = from
  /\ pc' = [pc EXCEPT ![u] = to]
  /\ UNCHANGED <<files, halted, versionSafe, instanceId>>

Stays(u) == call' = call
Returns(u) == Notes(u, NoCall)

\* dlclose and the entry points take the library's handle on trust.
Close(closed) ==
  /\ opens' = [f \in Files |-> IF f \in closed /\ opens[f] > 0 THEN opens[f] - 1 ELSE opens[f]]
  /\ stray' = (stray \/ \E f \in closed : opens[f] = 0)
Enters(entered) ==
  /\ stray' = (stray \/ \E f \in entered : opens[f] = 0)
  /\ UNCHANGED opens

-----------------------------------------------------------------------------
(* Load.                                                                   *)

SetVersionSafe(p) ==
  /\ ~halted
  /\ versionSafe' = [versionSafe EXCEPT ![p] = ~@]
  /\ UNCHANGED <<files, opens, stray, halted, libs, handles, given, instanceId, instVars, pc, call>>

\* gatherPluginFiles: the libraries under the directory.
Load(u, p, dir) ==
  /\ Begins(u, "open", [NoCall EXCEPT !.plugger = p, !.todo = dir])
  /\ UNCHANGED instanceId

\* After a failed dlopen Load closes the nil handle it got: a nil dereference.
OpenFile(u) ==
  \E f \in call[u].todo :
    \/ /\ files[f].opens
       /\ Goes(u, "open", "register")
       /\ opens' = [opens EXCEPT ![f] = @ + 1]
       /\ Notes(u, [call[u] EXCEPT !.lib = f, !.todo = @ \ {f}])
       /\ UNCHANGED <<stray, libs, handles, given, instVars>>
    \/ /\ ~files[f].opens
       /\ ~halted /\ pc[u] = "open"
       /\ halted' = TRUE
       /\ UNCHANGED <<files, opens, stray, hostVars, instVars, pc, call>>

\* The library has every entry point, a name and the version asked for.
Usable(p, f) ==
  /\ files[f].symbols
  /\ files[f].name # None
  /\ files[f].sameVersion \/ ~versionSafe[p]

\* The warning that is to be added to is nil, and what errors.Wrap makes of
\* a nil warning is dropped.
AddWarning(warn) == warn

\* Mutant of Absent: setIfAbsent that always sets.
AlwaysAbsent(p, n) == TRUE
Absent(p, n) == libs[p][n] = None

\* Mutant of Register: the library of a name already taken is left open.
RegisterLeaks(u) ==
  LET p == call[u].plugger
      f == call[u].lib
      n == files[f].name
  IN  /\ Goes(u, "register", "open")
      /\ IF Usable(p, f) /\ Absent(p, n)
           THEN libs' = [libs EXCEPT ![p][n] = f]
           ELSE UNCHANGED libs
      /\ Notes(u, [call[u] EXCEPT !.lib = None])
      /\ UNCHANGED <<opens, stray, handles, given, instVars>>

\* The checks and setIfAbsent: what is not registered is closed, with a
\* warning when it was not usable.
Register(u) ==
  LET p == call[u].plugger
      f == call[u].lib
      n == files[f].name
  IN  /\ Goes(u, "register", "open")
      /\ \/ /\ Usable(p, f) /\ Absent(p, n)
            /\ libs' = [libs EXCEPT ![p][n] = f]
            /\ Notes(u, [call[u] EXCEPT !.lib = None])
            /\ UNCHANGED <<opens, stray>>
         \/ /\ Usable(p, f) /\ ~Absent(p, n)
            /\ Close({f})
            /\ Notes(u, [call[u] EXCEPT !.lib = None])
            /\ UNCHANGED libs
         \/ /\ ~Usable(p, f)
            /\ Close({f})
            /\ Notes(u, [call[u] EXCEPT !.lib = None, !.skipped = TRUE,
                                         !.warn = AddWarning(@)])
            /\ UNCHANGED libs
      /\ UNCHANGED <<handles, given, instVars>>

LoadReturns(u) ==
  /\ call[u].todo = {}
  /\ Goes(u, "open", "idle")
  /\ Returns(u)
  /\ UNCHANGED <<opens, stray, libs, handles, given, instVars>>

-----------------------------------------------------------------------------
(* NewPlugin.  Names without a library are refused without any effect.      *)

\* Mutant of NewPlugin: the generator without its mutex, two instances with
\* one id.
NewPluginRacyId(u, p, n) ==
  /\ libs[p][n] # None
  /\ instanceId[p] < MaxInstances
  /\ \E i \in {NextId(instanceId[p])} \cup ({instanceId[p]} \ {0}) :
       /\ instanceId' = [instanceId EXCEPT ![p] = i]
       /\ Begins(u, "callNew", [NoCall EXCEPT !.plugger = p, !.name = n,
                                              !.lib = libs[p][n], !.id = i])

\* The library of the name, and an id: the generator's lock is its own.
NewPlugin(u, p, n) ==
  /\ libs[p][n] # None
  /\ instanceId[p] < MaxInstances
  /\ instanceId' = [instanceId EXCEPT ![p] = NextId(@)]
  /\ Begins(u, "callNew", [NoCall EXCEPT !.plugger = p, !.name = n,
                                         !.lib = libs[p][n], !.id = instanceId'[p]])

\* instManager.setInstance.
SetInstance(f, k) ==
  /\ instMap' = [instMap EXCEPT ![f][k[2]] = k]
  /\ instMapByPlugin' = [instMapByPlugin EXCEPT ![f][ValueOf(k)] = k]

\* The host looks for -1; without a newPluginFunc the plugin returns 1.
CallNewPlugin(u) ==
  LET f == call[u].lib
  IN  /\ Goes(u, "callNew", "setHandle")
      /\ Enters({f})
      /\ IF files[f].makes
           THEN SetInstance(f, <<call[u].plugger, call[u].id>>)
           ELSE UNCHANGED instVars
      /\ Stays(u)
      /\ UNCHANGED <<libs, handles, given>>

SetHandle(u) ==
  LET c == call[u]
  IN  /\ Goes(u, "setHandle", "idle")
      /\ handles' = [handles EXCEPT ![c.plugger][c.id] = [name |-> c.name, lib |-> c.lib]]
      /\ given' = [given EXCEPT ![c.plugger][c.id] = c.name]
      /\ Returns(u)
      /\ UNCHANGED <<opens, stray, libs, instVars>>

-----------------------------------------------------------------------------
(* FreePlugin, of a handle that may have been freed before.                *)

\* Mutant of DeleteInstances: an entry of instMapByPlugin stays.
DeleteByIdOnly(D) ==
  /\ instMap' = [f \in Files |-> [i \in Ids |->
       IF <<f, i>> \in D THEN None ELSE instMap[f][i]]]
  /\ UNCHANGED instMapByPlugin

\* instManager.deleteInstance, for each library and id of D.
DeleteInstances(D) ==
  /\ instMap' = [f \in Files |-> [i \in Ids |->
       IF <<f, i>> \in D THEN None ELSE instMap[f][i]]]
  /\ instMapByPlugin' = [f \in Files |-> [v \in Values |->
       IF \E i \in Present(instMap[f]) : <<f, i>> \in D /\ ValueOf(instMap[f][i]) = v
         THEN None ELSE instMapByPlugin[f][v]]]

\* The library is the one that has the name of the handle now.
FreePlugin(u, p, i) ==
  /\ given[p][i] # None
  /\ libs[p][given[p][i]] # None
  /\ Begins(u, "findHandle", [NoCall EXCEPT !.plugger = p, !.lib = libs[p][given[p][i]],
                                            !.id = i])
  /\ UNCHANGED instanceId

FindHandle(u) ==
  /\ \/ /\ Goes(u, "findHandle", "callFree")
        /\ handles[call[u].plugger][call[u].id] # None
        /\ Stays(u)
     \/ /\ Goes(u, "findHandle", "idle")
        /\ handles[call[u].plugger][call[u].id] = None
        /\ Returns(u)
  /\ UNCHANGED <<opens, stray, libs, handles, given, instVars>>

CallFreePlugin(u) ==
  /\ Goes(u, "callFree", "deleteHandle")
  /\ Enters({call[u].lib})
  /\ DeleteInstances({<<call[u].lib, call[u].id>>})
  /\ Stays(u)
  /\ UNCHANGED <<libs, handles, given>>

\* Mutant of DeleteHandle: the handle stays registered.
KeepHandle(u) ==
  /\ Goes(u, "deleteHandle", "idle")
  /\ Returns(u)
  /\ UNCHANGED <<opens, stray, libs, handles, given, instVars>>

DeleteHandle(u) ==
  /\ Goes(u, "deleteHandle", "idle")
  /\ handles' = [handles EXCEPT ![call[u].plugger][call[u].id] = None]
  /\ Returns(u)
  /\ UNCHANGED <<opens, stray, given, libs, instVars>>

-----------------------------------------------------------------------------
(* Unload.                                                                 *)

Unload(u, p, n) ==
  /\ libs[p][n] # None
  /\ Begins(u, "unloadEach", [NoCall EXCEPT !.plugger = p, !.name = n, !.lib = libs[p][n]])
  /\ UNCHANGED instanceId

\* Mutant of UnloadEach: the pass ends with the first handle it frees.
UnloadEachOnce(u) ==
  LET c   == call[u]
      ids == {i \in Present(handles[c.plugger]) : handles[c.plugger][i].name = c.name}
  IN  /\ Goes(u, "unloadEach", "unloadDelete")
      /\ \E D \in SUBSET ids :
           /\ Cardinality(D) = IF ids = {} THEN 0 ELSE 1
           /\ Enters({c.lib : i \in D})
           /\ DeleteInstances({<<c.lib, i>> : i \in D})
           /\ Notes(u, [c EXCEPT !.ids = D])
      /\ UNCHANGED <<libs, handles, given>>

\* One pass over the handles, under their lock.
UnloadEach(u) ==
  LET c   == call[u]
      ids == {i \in Present(handles[c.plugger]) : handles[c.plugger][i].name = c.name}
  IN  /\ Goes(u, "unloadEach", "unloadDelete")
      /\ Enters({c.lib : i \in ids})
      /\ DeleteInstances({<<c.lib, i>> : i \in ids})
      /\ Notes(u, [c EXCEPT !.ids = ids])
      /\ UNCHANGED <<libs, handles, given>>

UnloadDelete(u) ==
  /\ \/ \E i \in call[u].ids :
          /\ Goes(u, "unloadDelete", "unloadDelete")
          /\ handles' = [handles EXCEPT ![call[u].plugger][i] = None]
          /\ Notes(u, [call[u] EXCEPT !.ids = @ \ {i}])
     \/ /\ call[u].ids = {}
        /\ Goes(u, "unloadDelete", "unloadClose")
        /\ Stays(u)
        /\ UNCHANGED handles
  /\ UNCHANGED <<opens, stray, given, libs, instVars>>

UnloadClose(u) ==
  /\ Goes(u, "unloadClose", "unloadForget")
  /\ Close({call[u].lib})
  /\ Stays(u)
  /\ UNCHANGED <<libs, handles, given, instVars>>

\* Mutant of UnloadForget: the library stays registered.
UnloadKeep(u) ==
  /\ Goes(u, "unloadForget", "idle")
  /\ Returns(u)
  /\ UNCHANGED <<opens, stray, libs, handles, given, instVars>>

UnloadForget(u) ==
  /\ Goes(u, "unloadForget", "idle")
  /\ libs' = [libs EXCEPT ![call[u].plugger][call[u].name] = None]
  /\ Returns(u)
  /\ UNCHANGED <<opens, stray, handles, given, instVars>>

-----------------------------------------------------------------------------
(* Free.                                                                   *)

Free(u, p) ==
  /\ Begins(u, "freeEach", [NoCall EXCEPT !.plugger = p])
  /\ UNCHANGED instanceId

FreeEach(u) ==
  LET p == call[u].plugger
      D == {<<handles[p][i].lib, i>> : i \in Present(handles[p])}
  IN  /\ Goes(u, "freeEach", "freeClear")
      /\ Enters({d[1] : d \in D})
      /\ DeleteInstances(D)
      /\ Stays(u)
      /\ UNCHANGED <<libs, handles, given>>

FreeClear(u) ==
  /\ Goes(u, "freeClear", "freeClose")
  /\ handles' = [handles EXCEPT ![call[u].plugger] = Empty(Ids)]
  /\ Stays(u)
  /\ UNCHANGED <<opens, stray, given, libs, instVars>>

FreeClose(u) ==
  LET p == call[u].plugger
  IN  /\ Goes(u, "freeClose", "freeForget")
      /\ Close({libs[p][n] : n \in Present(libs[p])})
      /\ Stays(u)
      /\ UNCHANGED <<libs, handles, given, instVars>>

FreeForget(u) ==
  /\ Goes(u, "freeForget", "idle")
  /\ libs' = [libs EXCEPT ![call[u].plugger] = Empty(Names)]
  /\ Returns(u)
  /\ UNCHANGED <<opens, stray, handles, given, instVars>>

-----------------------------------------------------------------------------
Init ==
  /\ files \in Directories
  /\ opens = [f \in Files |-> 0]
  /\ stray = FALSE
  /\ halted = FALSE
  /\ versionSafe = [p \in Pluggers |-> FALSE]
  /\ libs = [p \in Pluggers |-> Empty(Names)]
  /\ handles = [p \in Pluggers |-> Empty(Ids)]
  /\ given = [p \in Pluggers |-> Empty(Ids)]
  /\ instanceId = [p \in Pluggers |-> 0]
  /\ instMap = [f \in Files |-> Empty(Ids)]
  /\ instMapByPlugin = [f \in Files |-> Empty(Values)]
  /\ pc = [u \in Users |-> "idle"]
  /\ call = [u \in Users |-> NoCall]

Invoke(u, p) ==
  \/ \E dir \in SUBSET Files : Load(u, p, dir)
  \/ \E n \in Names : NewPlugin(u, p, n) \/ Unload(u, p, n)
  \/ \E i \in Ids : FreePlugin(u, p, i)
  \/ Free(u, p)

Advance(u) ==
  \/ OpenFile(u) \/ Register(u) \/ LoadReturns(u)
  \/ CallNewPlugin(u) \/ SetHandle(u)
  \/ FindHandle(u) \/ CallFreePlugin(u) \/ DeleteHandle(u)
  \/ UnloadEach(u) \/ UnloadDelete(u) \/ UnloadClose(u) \/ UnloadForget(u)
  \/ FreeEach(u) \/ FreeClear(u) \/ FreeClose(u) \/ FreeForget(u)

Next ==
  \/ \E u \in Users : Advance(u) \/ \E p \in Pluggers : Invoke(u, p)
  \/ \E p \in Pluggers : SetVersionSafe(p)

Spec == Init /\ [][Next]_vars
-----------------------------------------------------------------------------
(* Properties.                                                             *)

PcValues == {"idle", "callNew", "setHandle", "findHandle", "callFree",
             "deleteHandle"} \cup LoadSteps \cup TearDown

\* Every variable has its type; a library is open at most once for each
\* Plugger and once for each goroutine that is loading it.
TypeOK ==
  /\ files \in Directories
  /\ opens \in [Files -> 0 .. Cardinality(Pluggers) + Cardinality(Users)]
  /\ stray \in BOOLEAN /\ halted \in BOOLEAN
  /\ versionSafe \in [Pluggers -> BOOLEAN]
  /\ libs \in [Pluggers -> [Names -> Files \cup {None}]]
  /\ handles \in [Pluggers -> [Ids -> Handles \cup {None}]]
  /\ given \in [Pluggers -> [Ids -> Names \cup {None}]]
  /\ instanceId \in [Pluggers -> 0 .. MaxInstances]
  /\ instMap \in [Files -> [Ids -> Instances \cup {None}]]
  /\ instMapByPlugin \in [Files -> [Values -> Instances \cup {None}]]
  /\ pc \in [Users -> PcValues]
  /\ call \in [Users -> Calls]

\* No entry point of a library is called, and no library is closed, while
\* the process does not have it open.
NoStrayCall == ~stray

\* A Plugger whose table names the library has it open, unless it is about to
\* forget it.
Forgetting(u, p, f) ==
  /\ call[u].plugger = p
  /\ pc[u] = "freeForget" \/ (pc[u] = "unloadForget" /\ call[u].lib = f)

Holds(p, f) ==
  /\ \E n \in Names : libs[p][n] = f
  /\ ~\E u \in Users : Forgetting(u, p, f)

Holders(f) == {p \in Pluggers : Holds(p, f)}
Loaders(f) == {u \in Users : pc[u] = "register" /\ call[u].lib = f}

\* A library is open exactly as often as Pluggers and Loads under way use it:
\* none stays open that nobody can close, and none in use is closed.
OpensMatch ==
  \A f \in Files : opens[f] = Cardinality(Holders(f)) + Cardinality(Loaders(f))

\* The instance of the handle is being freed.
Releasing(p, i) ==
  \E u \in Users : /\ call[u].plugger = p
                   /\ \/ pc[u] = "deleteHandle" /\ call[u].id = i
                      \/ pc[u] = "unloadDelete" /\ i \in call[u].ids
                      \/ pc[u] = "freeClear"

\* A registered handle stands for the instance that was made for it, whatever
\* was loaded, unloaded and freed before and is being freed meanwhile.
OwnInstance ==
  \A p \in Pluggers : \A i \in Present(handles[p]) :
    LET f == handles[p][i].lib
    IN  files[f].makes /\ ~Releasing(p, i) => instMap[f][i] = <<p, i>>

\* An instance can be freed: its handle is registered, or about to be.
NoOrphans ==
  \A f \in Files, p \in Pluggers, i \in Ids :
    instMap[f][i] = <<p, i>> =>
      \/ handles[p][i] # None /\ handles[p][i].lib = f
      \/ \E u \in Users : /\ pc[u] = "setHandle"
                          /\ call[u].plugger = p /\ call[u].id = i /\ call[u].lib = f

\* EventEmit, which looks its instance up by the plugin value, finds the
\* instance of that value while it lives, and none afterwards: it would send
\* on a closed channel.
EmitterFindsOwn ==
  \A f \in Files, k \in Instances :
    instMapByPlugin[f][ValueOf(k)] = k <=> instMap[f][k[2]] = k

\* A plugin that makes no instances has no handles: NewPlugin says "not
\* implemented".
NotImplementedRefused ==
  \A p \in Pluggers : \A i \in Present(handles[p]) : files[handles[p][i].lib].makes

\* Load warns of the libraries it skips.
WarnsOfSkipped ==
  \A u \in Users : pc[u] = "open" /\ call[u].skipped => call[u].warn

\* A file that does not open ends nothing: Load skips it.
SkipsUnopened == ~halted

-----------------------------------------------------------------------------
(* The inductive invariants.  LibraryInv needs Exclusive, InstanceInv and   *)
(* TablesInv besides that one Plugger uses a library.                      *)

OnePlugger == \A p, q \in Pluggers : p = q

TypeInv ==
  /\ files \in Directories
  /\ opens \in [Files -> Nat]
  /\ stray \in BOOLEAN /\ halted \in BOOLEAN
  /\ versionSafe \in [Pluggers -> BOOLEAN]
  /\ libs \in [Pluggers -> [Names -> Files \cup {None}]]
  /\ handles \in [Pluggers -> [Ids -> Handles \cup {None}]]
  /\ given \in [Pluggers -> [Ids -> Names \cup {None}]]
  /\ instanceId \in [Pluggers -> 0 .. MaxInstances]
  /\ instMap \in [Files -> [Ids -> Instances \cup {None}]]
  /\ instMapByPlugin \in [Files -> [Values -> Instances \cup {None}]]
  /\ pc \in [Users -> PcValues]
  /\ call \in [Users -> Calls]

MakeSteps == {"callNew", "setHandle"}
FreeSteps == {"findHandle", "callFree", "deleteHandle"}
UnloadSteps == {"unloadEach", "unloadDelete", "unloadClose", "unloadForget"}

\* What a goroutine in an operation has in hand: the library it found is
\* registered still.
InHand(u) ==
  LET c == call[u]
  IN  /\ pc[u] = "idle" => c.plugger = None
      /\ pc[u] # "idle" => c.plugger \in Pluggers
      /\ pc[u] = "register" => c.lib \in Files
      /\ pc[u] \in MakeSteps \cup FreeSteps => c.id \in Ids
      /\ pc[u] \in MakeSteps \cup UnloadSteps =>
           c.name \in Names /\ c.lib \in Files /\ libs[c.plugger][c.name] = c.lib
      /\ pc[u] \in FreeSteps =>
           c.lib \in Files /\ \E n \in Names : libs[c.plugger][n] = c.lib

CallInv == \A u \in Users : InHand(u)

\* Nothing overlaps an Unload or Free.
ExclusiveInv ==
  \A u \in Users : pc[u] \in TearDown =>
    \A v \in Users \ {u} : call[v].plugger # call[u].plugger

\* A library is registered under its own name, so under one.
LibsInv ==
  \A p \in Pluggers, n \in Names : libs[p][n] # None => files[libs[p][n]].name = n

\* The library of a handle is registered.
HandlesInv ==
  \A p \in Pluggers : \A i \in Present(handles[p]) :
    libs[p][handles[p][i].name] = handles[p][i].lib

\* No handle is left when its library goes.
Left(u) ==
  LET c == call[u]
  IN  /\ pc[u] = "unloadDelete" =>
           \A i \in Present(handles[c.plugger]) :
             handles[c.plugger][i].name = c.name => i \in c.ids
      /\ pc[u] \in {"unloadClose", "unloadForget"} =>
           \A i \in Present(handles[c.plugger]) : handles[c.plugger][i].name # c.name
      /\ pc[u] \in {"freeClose", "freeForget"} => Present(handles[c.plugger]) = {}

TearInv == \A u \in Users : Left(u)

LibraryInv ==
  /\ TypeInv /\ CallInv /\ ExclusiveInv /\ LibsInv /\ HandlesInv /\ TearInv
  /\ OpensMatch /\ NoStrayCall

\* An id is one instance's: it is being made, or was given to the application.
GivenInv ==
  /\ \A p \in Pluggers, i \in Ids : given[p][i] # None => i <= instanceId[p]
  /\ \A p \in Pluggers : \A i \in Present(handles[p]) : handles[p][i].name = given[p][i]

OwnId(u) ==
  LET c == call[u]
  IN  /\ pc[u] \in MakeSteps =>
           /\ c.id <= instanceId[c.plugger]
           /\ given[c.plugger][c.id] = None
           /\ \A v \in Users \ {u} :
                pc[v] \in MakeSteps /\ call[v].plugger = c.plugger => call[v].id # c.id
      /\ pc[u] \in FreeSteps =>
           /\ given[c.plugger][c.id] # None
           /\ libs[c.plugger][given[c.plugger][c.id]] = c.lib

IdsInv == GivenInv /\ \A u \in Users : OwnId(u)

\* An instance is made before its handle, and gone before its handle goes.
InTime(u) ==
  LET c == call[u]
  IN  /\ pc[u] = "setHandle" /\ files[c.lib].makes =>
           instMap[c.lib][c.id] = <<c.plugger, c.id>>
      /\ pc[u] = "deleteHandle" =>
           \A f \in Files : instMap[f][c.id] # <<c.plugger, c.id>>
      /\ pc[u] = "unloadDelete" =>
           \A f \in Files : \A i \in c.ids : instMap[f][i] # <<c.plugger, i>>
      /\ pc[u] = "freeClear" =>
           \A f \in Files : \A i \in Ids : instMap[f][i] # <<c.plugger, i>>

MadeInv == \A u \in Users : InTime(u)

InstanceInv == IdsInv /\ MadeInv /\ OwnInstance /\ NoOrphans

\* An instance is in both tables of its library or in neither.
TablesInv ==
  \A f \in Files, p \in Pluggers, i \in Ids :
    /\ instMap[f][i] \in {None, <<p, i>>}
    /\ ~SharedValue => instMapByPlugin[f][<<p, i>>] = instMap[f][i]

-----------------------------------------------------------------------------
(* A Plugger seen from the application.  A library is unloaded, and its     *)
(* instances end, when Unload or Free goes through the handles.            *)

Observed == CHOOSE p \in Pluggers : TRUE

TornDown(n) ==
  \E u \in Users :
    /\ call[u].plugger = Observed
    /\ \/ pc[u] \in {"freeClear", "freeClose", "freeForget"}
       \/ pc[u] \in {"unloadDelete", "unloadClose", "unloadForget"} /\ call[u].name = n

Making(i) == \E u \in Users : pc[u] = "callNew" /\ call[u].plugger = Observed /\ call[u].id = i

Loaded == [n \in Names |-> IF TornDown(n) THEN None ELSE libs[Observed][n]]

Life ==
  [i \in Ids |->
     IF \E f \in Files : instMap[f][i] = <<Observed, i>>
       THEN CHOOSE f \in Files : instMap[f][i] = <<Observed, i>>
     ELSE IF i > instanceId[Observed] \/ Making(i) THEN "unused" ELSE "over"]

Promise == INSTANCE Lifecycle WITH Slots <- Ids, loaded <- Loaded, life <- Life

\* Tables locked one at a time implement the life of libraries and instances:
\* no instance is made in a library that is not loaded, outlives its library,
\* is made twice, or comes back.
ImplementsLifecycle == Promise!Spec
=============================================================================
