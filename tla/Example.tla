------------------------------ MODULE Example -------------------------------
(***************************************************************************)
(* The example program: main of example/core/main.go, which loads          *)
(* sample1.go and sample2.go, as a client of a Plugger.  Results and       *)
(* errors of calls are only printed, so main depends on its calls by three *)
(* things: whether NewPlugin gave it a handle, whether a Command comes     *)
(* back, and whether the process lives on.  A sleep promises nothing: that *)
(* the listeners have got to their channel in the meantime least of all.   *)
(***************************************************************************)
EXTENDS IdGenerator, Sequences, FiniteSets

CONSTANTS
  Files,         \* the shared libraries that may be in the directory
  Directories,   \* what they may be
  MaxInstances,  \* the ids taken: main makes three instances at most
  None

Names == {"sample1", "sample2"}
P == "p"
Main == "main"

VARIABLES
  files, opens, stray, halted, versionSafe, libs, handles, given, instanceId,
  instMap, instMapByPlugin, pc, call,   \* as in Registry
  step,      \* where main is in its script
  plugin,    \* the ids of plugin1 and plugin2, zero for a nil handle
  handled,   \* the instances whose handle has an event handler
  parked,    \* the instances whose listeners all wait on the channel
  event      \* how far the event of the Command under way is, and whose it is

mainVars == <<step, plugin, handled, parked, event>>
regVars == <<files, opens, stray, halted, versionSafe, libs, handles, given, instanceId,
             instMap, instMapByPlugin, pc, call>>
vars == <<regVars, mainVars>>

\* The samples are structs without fields.
Reg == INSTANCE RegistryProofs WITH
  Pluggers <- {P}, Users <- {Main}, Exclusive <- TRUE, SharedValue <- TRUE

ASSUME ExampleAssumption ==
  /\ Directories \subseteq [Files -> Reg!Libraries]
  /\ MaxInstances \in Nat /\ MaxInstances < IdSpan
  /\ None \notin Names \cup Files \cup {P} \cup Reg!Instances \cup Reg!Handles
  /\ "unused" \notin Files /\ "over" \notin Files

\* What init of a sample sets.
Sample(n) == [opens |-> TRUE, symbols |-> TRUE, name |-> n, sameVersion |-> TRUE, makes |-> TRUE]

NoEvent == [at |-> "none", of |-> 0]

-----------------------------------------------------------------------------
(* The script.                                                             *)

Do(what, n) == [do |-> what, name |-> n]

\* After Load and for each plugin: NewPlugin, Init, Start, Reload,
\* SetEventHandler, Command, Stop, Fini.
Script ==
  <<Do("setVersionSafe", ""), Do("load", ""),
    Do("new", "sample1"), Do("call", "sample1"), Do("call", "sample1"), Do("call", "sample1"),
    Do("setEventHandler", "sample1"), Do("command", "sample1"),
    Do("call", "sample1"), Do("call", "sample1"), Do("free", "sample1"),
    Do("new", "sample2"), Do("call", "sample2"), Do("call", "sample2"), Do("call", "sample2"),
    Do("setEventHandler", "sample2"), Do("command", "sample2"),
    Do("call", "sample2"), Do("call", "sample2"),
    Do("new", "sample1"), Do("unload", "sample1"), Do("freeAll", "")>>

Ended == step > Len(Script)
Exited == Ended /\ pc[Main] = "idle"

At(what) ==
  /\ ~halted /\ ~Ended
  /\ pc[Main] = "idle"
  /\ event = NoEvent
  /\ Script[step].do = what

Name == Script[step].name
Handle == plugin[Name]

GoesOn == step' = step + 1
Dies ==
  /\ halted' = TRUE
  /\ UNCHANGED <<files, opens, stray, versionSafe, libs, handles, given, instanceId,
                 instMap, instMapByPlugin, pc, call, mainVars>>

-----------------------------------------------------------------------------
(* Calls on the Plugger.                                                   *)

SetVersionSafe ==
  /\ At("setVersionSafe")
  /\ Reg!SetVersionSafe(P)
  /\ GoesOn /\ UNCHANGED <<plugin, handled, parked, event>>

Load ==
  /\ At("load")
  /\ \E dir \in SUBSET Files : Reg!Load(Main, P, dir)
  /\ UNCHANGED mainVars

\* main takes the results of Load in the wrong order, the warning for the
\* error: that the directory cannot be read is printed as a warning.
LoadFails ==
  /\ At("load")
  /\ GoesOn /\ UNCHANGED <<regVars, plugin, handled, parked, event>>

\* And a warning ends main.
LoadReturns ==
  /\ Reg!LoadReturns(Main)
  /\ step' = IF call[Main].warn THEN Len(Script) + 1 ELSE step + 1
  /\ UNCHANGED <<plugin, handled, parked, event>>

NewPlugin ==
  /\ At("new")
  /\ \/ /\ Reg!NewPlugin(Main, P, Name)
        /\ plugin' = [plugin EXCEPT ![Name] = instanceId'[P]]
     \/ /\ libs[P][Name] = None
        /\ UNCHANGED <<regVars, plugin>>
  /\ GoesOn /\ UNCHANGED <<handled, parked, event>>

\* Mutant of FreePlugin: refused, which main only prints.
FreePluginRefused ==
  /\ At("free")
  /\ \/ /\ Handle = 0
        /\ Dies
     \/ /\ Handle # 0
        /\ GoesOn /\ UNCHANGED <<regVars, plugin, handled, parked, event>>

\* FreePlugin reads the name of its handle, also of a nil one.
FreePlugin ==
  /\ At("free")
  /\ \/ /\ Handle = 0
        /\ Dies
     \/ /\ Handle # 0
        /\ Reg!FreePlugin(Main, P, Handle)
        /\ GoesOn /\ UNCHANGED <<plugin, handled, parked, event>>

Unload ==
  /\ At("unload")
  /\ \/ Reg!Unload(Main, P, Name)
     \/ libs[P][Name] = None /\ UNCHANGED regVars
  /\ GoesOn /\ UNCHANGED <<plugin, handled, parked, event>>

Free ==
  /\ At("freeAll")
  /\ Reg!Free(Main, P)
  /\ GoesOn /\ UNCHANGED <<plugin, handled, parked, event>>

-----------------------------------------------------------------------------
(* Calls on a handle.                                                      *)

\* Without a handle main passes over them.
PassOver ==
  /\ \E what \in {"call", "setEventHandler", "command"} : At(what)
  /\ Handle = 0
  /\ GoesOn /\ UNCHANGED <<regVars, plugin, handled, parked, event>>

Library == handles[P][Handle].lib
InstanceGone == instMap[Library][Handle] = None

\* The library made no instance: the comment says "not reached".
CallInstanceGone ==
  /\ At("call") /\ Handle # 0
  /\ InstanceGone
  /\ Dies

\* Init, Start, Reload, Stop and Fini return, with a result or with the error
\* Reload gives.
Call ==
  /\ At("call") /\ Handle # 0
  /\ ~InstanceGone
  /\ Reg!Enters({Library})
  /\ GoesOn
  /\ UNCHANGED <<files, halted, versionSafe, libs, handles, given, instanceId, instMap,
                 instMapByPlugin, pc, call, plugin, handled, parked, event>>

\* Mutant of SetEventHandler: called without a look at the handle.
SetEventHandlerAnyway ==
  /\ At("setEventHandler")
  /\ handled' = handled \cup {Handle}
  /\ GoesOn /\ UNCHANGED <<regVars, plugin, parked, event>>

\* Mutant of SetEventHandler: the lines for plugin2 copied from plugin1.
SetEventHandlerOfFirst ==
  /\ At("setEventHandler") /\ Handle # 0
  /\ handled' = handled \cup {plugin["sample1"]}
  /\ GoesOn /\ UNCHANGED <<regVars, plugin, parked, event>>

SetEventHandler ==
  /\ At("setEventHandler") /\ Handle # 0
  /\ handled' = handled \cup {Handle}
  /\ GoesOn /\ UNCHANGED <<regVars, plugin, parked, event>>

\* The sample's Command emits an event on behalf of its own value; EventEmit
\* refuses a value it does not know.
Command ==
  /\ At("command") /\ Handle # 0
  /\ Reg!Enters({Library})
  /\ LET emitter == instMapByPlugin[Library][None]
     IN  event' = IF emitter = None THEN [at |-> "refused", of |-> 0]
                                    ELSE [at |-> "sent", of |-> emitter[2]]
  /\ UNCHANGED <<files, halted, versionSafe, libs, handles, given, instanceId, instMap,
                 instMapByPlugin, pc, call, step, plugin, handled, parked>>

-----------------------------------------------------------------------------
(* The listeners NewPlugin started.  A freed instance is in no library.    *)

Alive(i) == \E f \in Files : instMap[f][i] # None
Listening(i) == given[P][i] # None

\* Those of one instance have all got to the channel.
Park(i) ==
  /\ ~halted /\ ~Exited
  /\ Listening(i) /\ Alive(i) /\ i \notin parked
  /\ parked' = parked \cup {i}
  /\ UNCHANGED <<regVars, step, plugin, handled, event>>

\* One that enters the plugin after its instance is gone, or for a library
\* that made none, dies there; one that waits on the channel sees it closed.
ListenerLost(i) ==
  /\ ~halted /\ ~Exited
  /\ Listening(i) /\ ~Alive(i) /\ i \notin parked
  /\ Dies

\* Mutant of Listen: NewPlugin starts no listener for a second instance.
ListenToFirst ==
  /\ ~halted
  /\ event.at = "sent" /\ event.of = 1
  /\ event' = [event EXCEPT !.at = IF event.of \in handled THEN "answered" ELSE "refused"]
  /\ parked' = parked \ {event.of}
  /\ UNCHANGED <<regVars, step, plugin, handled>>

\* One of the handle's listeners brings the event to the handler and its
\* result back, and is away from the channel; without a handler it brings
\* back an error.
Listen ==
  /\ ~halted
  /\ event.at = "sent"
  /\ event' = [event EXCEPT !.at = IF event.of \in handled THEN "answered" ELSE "refused"]
  /\ parked' = parked \ {event.of}
  /\ UNCHANGED <<regVars, step, plugin, handled>>

\* Command asserts the type of the event's result, after an error too, when
\* there is none.
CommandReturns ==
  /\ ~halted
  /\ \/ /\ event.at = "answered"
        /\ event' = NoEvent
        /\ GoesOn /\ UNCHANGED <<regVars, plugin, handled, parked>>
     \/ /\ event.at = "refused"
        /\ Dies

-----------------------------------------------------------------------------
Init ==
  /\ Reg!Init
  /\ step = 1
  /\ plugin = [n \in Names |-> 0]
  /\ handled = {}
  /\ parked = {}
  /\ event = NoEvent

InPlugger ==
  /\ \/ Reg!OpenFile(Main) \/ Reg!Register(Main)
     \/ Reg!CallNewPlugin(Main) \/ Reg!SetHandle(Main)
     \/ Reg!FindHandle(Main) \/ Reg!CallFreePlugin(Main) \/ Reg!DeleteHandle(Main)
     \/ Reg!UnloadEach(Main) \/ Reg!UnloadDelete(Main) \/ Reg!UnloadClose(Main)
     \/ Reg!UnloadForget(Main)
     \/ Reg!FreeEach(Main) \/ Reg!FreeClear(Main) \/ Reg!FreeClose(Main)
     \/ Reg!FreeForget(Main)
  /\ UNCHANGED mainVars

Next ==
  \/ SetVersionSafe \/ Load \/ LoadFails \/ LoadReturns \/ NewPlugin \/ FreePlugin
  \/ Unload \/ Free \/ InPlugger
  \/ PassOver \/ Call \/ CallInstanceGone \/ SetEventHandler \/ Command \/ CommandReturns
  \/ Listen \/ \E i \in Ids : Park(i) \/ ListenerLost(i)

Spec == Init /\ [][Next]_vars

\* One goroutine or the other runs while one can.
FairSpec == Spec /\ WF_vars(Next)

-----------------------------------------------------------------------------
(* Properties.                                                             *)

\* Every variable has its type; only handles main has get an event handler.
TypeOK ==
  /\ Reg!TypeOK
  /\ step \in 1 .. Len(Script) + 1
  /\ plugin \in [Names -> 0 .. MaxInstances]
  /\ handled \subseteq 1 .. MaxInstances
  /\ parked \subseteq 1 .. MaxInstances
  /\ event \in [at : {"none", "sent", "answered", "refused"}, of : 0 .. MaxInstances]

\* The values of the samples are all equal, and EventEmit finds the right
\* instance all the same: main frees one before it makes the next in the
\* same library.
EmitterFindsOwn == Reg!EmitterFindsOwn

\* Libraries without a defect of their own that matters: they open, and make
\* instances.
Sound(f) == files[f].opens /\ files[f].makes

\* With sound libraries the process dies in two ways only, neither of them an
\* event that finds no handler or no instance: in FreePlugin of the nil
\* plugin1, when there was no sample1, and of a listener that had not got back
\* to the channel when its instance was freed.
DiesOfNilOrLateListener ==
  halted /\ (\A f \in Files : Sound(f)) =>
    \/ ~Ended /\ Script[step] = Do("free", "sample1") /\ plugin["sample1"] = 0
    \/ \E i \in Ids : Listening(i) /\ ~Alive(i) /\ i \notin parked

\* When main ends nothing is left, no library open or registered, no handle,
\* no instance, and no library was called or closed that was not open.
LeavesNothing ==
  Exited =>
    /\ ~stray
    /\ \A f \in Files : opens[f] = 0 /\ Reg!Present(instMap[f]) = {}
    /\ Reg!Present(libs[P]) = {} /\ Reg!Present(handles[P]) = {}

\* main ends, or the process dies: each Command gets the answer its event
\* waits for.
Finishes == <>(halted \/ Exited)
-----------------------------------------------------------------------------
(* The inductive invariant.                                                *)

\* Instance i is one of the plugin called n: its handle is registered, or
\* about to be.
Held(i, n) ==
  \/ handles[P][i] # None /\ handles[P][i].name = n
  \/ pc[Main] \in Reg!MakeSteps /\ call[Main].id = i /\ call[Main].name = n

\* Each operation of the Plugger is under way at its own place in the script,
\* and an event at that of a Command.
PlaceInv ==
  LET at == pc[Main]
  IN  /\ at \in Reg!LoadSteps => step = 2
      /\ at \in Reg!MakeSteps => step \in {4, 13, 21}
      /\ at \in Reg!FreeSteps => step = 12
      /\ at \in Reg!UnloadSteps => step = 22
      /\ at \in Reg!TearDown \ Reg!UnloadSteps => step = 23
      /\ event # NoEvent => at = "idle" /\ step \in {8, 17}

\* plugin1 and plugin2 are the instances there are, and the one main uses is
\* there; the first instance of sample1 is gone before the next is made.
PluginInv ==
  /\ step <= 3 => plugin["sample1"] = 0
  /\ step <= 12 => plugin["sample2"] = 0
  /\ \A i \in Ids, n \in Names : Held(i, n) => plugin[n] = i
  /\ step \in 4 .. 11 /\ plugin["sample1"] # 0 => Held(plugin["sample1"], "sample1")
  /\ step \in 13 .. 20 /\ plugin["sample2"] # 0 => Held(plugin["sample2"], "sample2")
  /\ pc[Main] \in Reg!FreeSteps => call[Main].id = plugin["sample1"]
  /\ step \in 13 .. 20 \/ (step = 12 /\ pc[Main] = "idle") =>
       \A i \in Ids : ~Held(i, "sample1")

\* The handle has its event handler when Command emits, and the event of
\* sound libraries is the one of the handle.
EventInv ==
  /\ step \in 8 .. 11 /\ plugin["sample1"] # 0 => plugin["sample1"] \in handled
  /\ step \in 17 .. 20 /\ plugin["sample2"] # 0 => plugin["sample2"] \in handled
  /\ event.at # "none" /\ (\A f \in Files : Sound(f)) =>
       event.at # "refused" /\ event.of = Handle /\ Handle # 0

\* No Load warns, so the script ends with a Free.
EndInv ==
  /\ ~call[Main].warn
  /\ Exited => Reg!Present(libs[P]) = {} /\ Reg!Present(handles[P]) = {}

MainInv == PlaceInv /\ PluginInv /\ EventInv /\ EndInv

IInv ==
  /\ Reg!LibraryInv /\ Reg!InstanceInv /\ Reg!TablesInv /\ EmitterFindsOwn
  /\ TypeOK /\ MainInv /\ DiesOfNilOrLateListener
=============================================================================
