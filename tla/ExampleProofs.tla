---------------------------- MODULE ExampleProofs ----------------------------
(***************************************************************************)
(* The example program, with any libraries in its directory: what it dies  *)
(* of and what it leaves behind.                                           *)
(*                                                                         *)
(* To the Plugger main is one user who overlaps nothing.  A step of main   *)
(* is a step of the Plugger, none, or the death of the process             *)
(* (PluggerStep), so the Plugger's own lemmas keep its invariants.  The    *)
(* rest is about the script: a step of main walks past a line, stands, or  *)
(* enters an operation of the Plugger (StepKinds).                         *)
(***************************************************************************)
EXTENDS Example, FiniteSetTheorems, TLAPS

-----------------------------------------------------------------------------
(* The Plugger, for the values it is given here.                           *)

LEMMA OneFinite == Reg!IsFiniteSet({P}) /\ Reg!IsFiniteSet({Main})
<1>1. IsFiniteSet({P}) /\ IsFiniteSet({Main})
  BY FS_Singleton
<1> QED
  BY <1>1 DEF IsFiniteSet, Reg!IsFiniteSet

LEMMA Constants ==
  /\ Reg!IsFiniteSet({P}) /\ Reg!IsFiniteSet({Main})
  /\ Directories \subseteq [Files -> Reg!Libraries]
  /\ MaxInstances \in Nat /\ MaxInstances < IdSpan
  /\ IdSpan \in Nat /\ IdSpan > 1
  /\ None \notin Names \cup Files \cup {P}
  /\ None \notin Reg!Instances \cup Reg!Handles
  /\ "unused" \notin Files /\ "over" \notin Files
BY ExampleAssumption, IdSpanAssumption, OneFinite

LEMMA IdsOf == Reg!Ids = Ids /\ 0 \notin Ids /\ Ids \subseteq Nat
BY IdSpanAssumption DEF Ids, Reg!Ids

LEMMA One == Reg!OnePlugger
BY DEF Reg!OnePlugger

LEMMA LibraryInit == Reg!Init => Reg!LibraryInv
BY Reg!LibraryInit, Constants

LEMMA LibraryStep == Reg!LibraryInv /\ [Reg!Next]_(Reg!vars) => Reg!LibraryInv'
BY Reg!LibraryStep, Constants

LEMMA InstanceInit == Reg!Init => Reg!InstanceInv /\ Reg!TablesInv /\ Reg!EmitterFindsOwn
BY Reg!InstanceInit, Reg!TablesInit, Reg!SharedInit, Constants

LEMMA InstanceStep ==
  ASSUME Reg!LibraryInv, Reg!InstanceInv, [Reg!Next]_(Reg!vars), Reg!TypeInv'
  PROVE  Reg!InstanceInv'
BY Reg!InstanceStep, One, Constants

LEMMA TablesStep ==
  ASSUME Reg!LibraryInv, Reg!TablesInv, [Reg!Next]_(Reg!vars)
  PROVE  Reg!TablesInv'
BY Reg!TablesStep, One, Constants DEF Reg!LibraryInv

LEMMA SharedStep ==
  ASSUME Reg!LibraryInv, Reg!TablesInv, Reg!OneEach, Reg!EmitterFindsOwn,
         Reg!TypeInv', Reg!TablesInv', Reg!OneEach', [Reg!Next]_(Reg!vars)
  PROVE  Reg!EmitterFindsOwn'
BY Reg!SharedStep, One, Constants DEF Reg!LibraryInv

LEMMA DeathKeeps ==
  Reg!Died => /\ Reg!LibraryInv => Reg!LibraryInv'
              /\ Reg!InstanceInv => Reg!InstanceInv'
              /\ Reg!TablesInv => Reg!TablesInv'
              /\ Reg!EmitterFindsOwn => Reg!EmitterFindsOwn'
BY Reg!DeathKeepsLibraries, Reg!DeathKeepsInstances, Constants

LEMMA TypesFollow == Reg!LibraryInv => Reg!TypeOK
BY Reg!TypesFollow, Constants

\* What a step of main inside the Plugger changes.
LEMMA AdvanceFacts ==
  ASSUME Reg!LibraryInv, Reg!Advance(Main)
  PROVE  /\ Reg!Changes(Main) /\ Reg!KeepsCall(Main) /\ Reg!Arrives(Main)
         /\ call[Main].plugger = P /\ pc[Main] # "idle"
<1>1. Reg!TypeInv /\ Reg!CallInv
  BY DEF Reg!LibraryInv
<1>2. Reg!Changes(Main) /\ Reg!KeepsCall(Main) /\ Reg!Arrives(Main)
  BY <1>1, Reg!AdvanceChanges, Reg!AdvanceKeepsCall, Reg!AdvanceArrives, Constants
<1>3. pc[Main] # "idle"
  BY <1>2 DEF Reg!KeepsCall
<1>4. call[Main].plugger = P
  BY <1>1, <1>3 DEF Reg!CallInv, Reg!InHand
<1> QED
  BY <1>2, <1>3, <1>4

LEMMA AdvanceHandles ==
  ASSUME Reg!LibraryInv, Reg!Advance(Main), NEW i \in Ids
  PROVE  \/ handles'[P][i] = handles[P][i]
         \/ /\ Reg!SetHandle(Main) /\ i = call[Main].id
            /\ handles'[P][i] = [name |-> call[Main].name, lib |-> call[Main].lib]
         \/ /\ handles'[P][i] = None
            /\ pc[Main] \in {"deleteHandle", "unloadDelete", "freeClear"}
            /\ pc[Main] = "deleteHandle" => i = call[Main].id
<1>1. Reg!TypeInv /\ Reg!CallInv /\ i \in Reg!Ids
  BY IdsOf DEF Reg!LibraryInv
<1>2. \/ handles'[P][i] = handles[P][i]
      \/ /\ Reg!SetHandle(Main) /\ P = call[Main].plugger /\ i = call[Main].id
         /\ handles'[P][i] = [name |-> call[Main].name, lib |-> call[Main].lib]
      \/ /\ P = call[Main].plugger /\ handles'[P][i] = None
         /\ \/ Reg!FreeClear(Main)
            \/ Reg!DeleteHandle(Main) /\ i = call[Main].id
            \/ Reg!UnloadDelete(Main) /\ i \in call[Main].ids
  BY <1>1, Reg!HandlesEntries, Constants
<1>3. /\ Reg!FreeClear(Main) => pc[Main] = "freeClear"
      /\ Reg!DeleteHandle(Main) => pc[Main] = "deleteHandle"
      /\ Reg!UnloadDelete(Main) => pc[Main] = "unloadDelete"
  BY DEF Reg!FreeClear, Reg!DeleteHandle, Reg!UnloadDelete, Reg!Goes
<1> QED
  BY <1>2, <1>3

-----------------------------------------------------------------------------
(* The script.                                                             *)

LEMMA ScriptIs ==
  /\ Len(Script) = 22
  /\ Script[1].do = "setVersionSafe" /\ Script[1].name = ""
  /\ Script[2].do = "load" /\ Script[2].name = ""
  /\ Script[3].do = "new" /\ Script[3].name = "sample1"
  /\ Script[4].do = "call" /\ Script[4].name = "sample1"
  /\ Script[5].do = "call" /\ Script[5].name = "sample1"
  /\ Script[6].do = "call" /\ Script[6].name = "sample1"
  /\ Script[7].do = "setEventHandler" /\ Script[7].name = "sample1"
  /\ Script[8].do = "command" /\ Script[8].name = "sample1"
  /\ Script[9].do = "call" /\ Script[9].name = "sample1"
  /\ Script[10].do = "call" /\ Script[10].name = "sample1"
  /\ Script[11].do = "free" /\ Script[11].name = "sample1"
  /\ Script[12].do = "new" /\ Script[12].name = "sample2"
  /\ Script[13].do = "call" /\ Script[13].name = "sample2"
  /\ Script[14].do = "call" /\ Script[14].name = "sample2"
  /\ Script[15].do = "call" /\ Script[15].name = "sample2"
  /\ Script[16].do = "setEventHandler" /\ Script[16].name = "sample2"
  /\ Script[17].do = "command" /\ Script[17].name = "sample2"
  /\ Script[18].do = "call" /\ Script[18].name = "sample2"
  /\ Script[19].do = "call" /\ Script[19].name = "sample2"
  /\ Script[20].do = "new" /\ Script[20].name = "sample1"
  /\ Script[21].do = "unload" /\ Script[21].name = "sample1"
  /\ Script[22].do = "freeAll" /\ Script[22].name = ""
BY DEF Script, Do

\* Where main can be when it is to do something.
LEMMA AtIs ==
  ASSUME step \in 1 .. Len(Script) + 1, ~Ended
  PROVE  /\ step \in 1 .. 22
         /\ Script[step].do = "setVersionSafe" => step = 1
         /\ Script[step].do = "load" => step = 2
         /\ Script[step].do = "new" =>
              \/ step \in {3, 20} /\ Name = "sample1"
              \/ step = 12 /\ Name = "sample2"
         /\ Script[step].do = "free" => step = 11 /\ Name = "sample1"
         /\ Script[step].do = "unload" => step = 21 /\ Name = "sample1"
         /\ Script[step].do = "freeAll" => step = 22
         /\ Script[step].do = "call" =>
              \/ step \in {4, 5, 6, 9, 10} /\ Name = "sample1"
              \/ step \in {13, 14, 15, 18, 19} /\ Name = "sample2"
         /\ Script[step].do = "setEventHandler" =>
              (step = 7 /\ Name = "sample1") \/ (step = 16 /\ Name = "sample2")
         /\ Script[step].do = "command" =>
              (step = 8 /\ Name = "sample1") \/ (step = 17 /\ Name = "sample2")
<1>1. Len(Script) = 22
  BY ScriptIs
<1>2. step \in 1 .. 22
  BY <1>1 DEF Ended
<1>3. step \in {1, 2, 3, 4, 5, 6, 7, 8, 9, 10, 11, 12, 13, 14, 15, 16, 17, 18, 19, 20, 21, 22}
  BY <1>2
<1>4. /\ Script[step].do = "setVersionSafe" => step = 1
      /\ Script[step].do = "load" => step = 2
      /\ Script[step].do = "free" => step = 11
      /\ Script[step].do = "unload" => step = 21
      /\ Script[step].do = "freeAll" => step = 22
  BY <1>3, ScriptIs
<1>5. /\ Script[step].do = "new" => step \in {3, 12, 20}
      /\ Script[step].do = "setEventHandler" => step \in {7, 16}
      /\ Script[step].do = "command" => step \in {8, 17}
      /\ Script[step].do = "call" => step \in {4, 5, 6, 9, 10, 13, 14, 15, 18, 19}
  BY <1>3, ScriptIs
<1>6. step \in {3, 4, 5, 6, 7, 8, 9, 10, 11, 20, 21} => Script[step].name = "sample1"
  BY ScriptIs
<1>7. step \in {12, 13, 14, 15, 16, 17, 18, 19} => Script[step].name = "sample2"
  BY ScriptIs
<1> QED
  BY <1>2, <1>4, <1>5, <1>6, <1>7 DEF Name

-----------------------------------------------------------------------------
(* The instances of the two plugins.                                       *)

\* An operation of the Plugger keeps to its own steps until it returns.
LEMMA AdvancePlace ==
  ASSUME Reg!LibraryInv, Reg!Advance(Main)
  PROVE  /\ pc'[Main] \in Reg!LoadSteps => pc[Main] \in Reg!LoadSteps
         /\ pc'[Main] \in Reg!MakeSteps => pc[Main] = "callNew" /\ pc'[Main] = "setHandle"
         /\ pc'[Main] \in Reg!FreeSteps => pc[Main] \in Reg!FreeSteps
         /\ pc'[Main] \in Reg!UnloadSteps => pc[Main] \in Reg!UnloadSteps
         /\ pc'[Main] \in Reg!TearDown \ Reg!UnloadSteps =>
              pc[Main] \in Reg!TearDown \ Reg!UnloadSteps
         /\ pc[Main] = "callNew" => pc'[Main] = "setHandle"
         /\ pc[Main] = "setHandle" => Reg!SetHandle(Main)
         /\ pc[Main] = "freeForget" => Reg!FreeForget(Main)
         /\ pc'[Main] = "idle" =>
              Reg!LoadReturns(Main) \/ Reg!SetHandle(Main) \/ Reg!FindHandle(Main)
              \/ Reg!DeleteHandle(Main) \/ Reg!UnloadForget(Main) \/ Reg!FreeForget(Main)
<1>1. Reg!TypeInv
  BY DEF Reg!LibraryInv
<1>2. CASE Reg!OpenFile(Main) \/ Reg!Register(Main) \/ Reg!LoadReturns(Main)
  BY <1>1, <1>2 DEF Reg!OpenFile, Reg!Register, Reg!LoadReturns, Reg!Goes, Reg!TypeInv,
     Reg!LoadSteps, Reg!MakeSteps, Reg!FreeSteps, Reg!UnloadSteps, Reg!TearDown
<1>3. CASE Reg!CallNewPlugin(Main) \/ Reg!SetHandle(Main)
  BY <1>1, <1>3 DEF Reg!CallNewPlugin, Reg!SetHandle, Reg!Goes, Reg!TypeInv,
     Reg!LoadSteps, Reg!MakeSteps, Reg!FreeSteps, Reg!UnloadSteps, Reg!TearDown
<1>4. CASE Reg!FindHandle(Main) \/ Reg!CallFreePlugin(Main) \/ Reg!DeleteHandle(Main)
  BY <1>1, <1>4 DEF Reg!FindHandle, Reg!CallFreePlugin, Reg!DeleteHandle, Reg!Goes, Reg!TypeInv,
     Reg!LoadSteps, Reg!MakeSteps, Reg!FreeSteps, Reg!UnloadSteps, Reg!TearDown
<1>5. CASE Reg!UnloadEach(Main) \/ Reg!UnloadDelete(Main) \/ Reg!UnloadClose(Main)
           \/ Reg!UnloadForget(Main)
  BY <1>1, <1>5 DEF Reg!UnloadEach, Reg!UnloadDelete, Reg!UnloadClose, Reg!UnloadForget,
     Reg!Goes, Reg!TypeInv,
     Reg!LoadSteps, Reg!MakeSteps, Reg!FreeSteps, Reg!UnloadSteps, Reg!TearDown
<1>6. CASE Reg!FreeEach(Main) \/ Reg!FreeClear(Main) \/ Reg!FreeClose(Main)
           \/ Reg!FreeForget(Main)
  BY <1>1, <1>6 DEF Reg!FreeEach, Reg!FreeClear, Reg!FreeClose, Reg!FreeForget,
     Reg!Goes, Reg!TypeInv,
     Reg!LoadSteps, Reg!MakeSteps, Reg!FreeSteps, Reg!UnloadSteps, Reg!TearDown
<1> QED
  BY <1>2, <1>3, <1>4, <1>5, <1>6 DEF Reg!Advance

\* Inside the Plugger no instance appears that was not being made already, and
\* one goes only when its handle is deleted.
LEMMA AdvanceHeld ==
  ASSUME Reg!LibraryInv, Reg!InstanceInv, Reg!Advance(Main), NEW i \in Ids, NEW n \in Names
  PROVE  /\ Held(i, n)' => Held(i, n)
         /\ Held(i, n) =>
              \/ Held(i, n)'
              \/ pc[Main] \in {"unloadDelete", "freeClear"}
              \/ pc[Main] = "deleteHandle" /\ i = call[Main].id
<1>1. /\ call[Main].plugger = P /\ Reg!KeepsCall(Main)
      /\ i \in Reg!Ids
  BY AdvanceFacts, IdsOf
<1>2. /\ Reg!SetHandle(Main) => pc[Main] = "setHandle" /\ pc'[Main] = "idle"
      /\ pc'[Main] \in Reg!MakeSteps => pc[Main] = "callNew" /\ pc'[Main] = "setHandle"
      /\ pc[Main] = "callNew" => pc'[Main] = "setHandle"
      /\ pc[Main] = "setHandle" => Reg!SetHandle(Main)
  BY AdvancePlace DEF Reg!LibraryInv, Reg!TypeInv, Reg!SetHandle, Reg!Goes
<1>3. pc'[Main] = "setHandle" =>
        call'[Main].id = call[Main].id /\ call'[Main].name = call[Main].name
  BY <1>1 DEF Reg!KeepsCall
<1>4. pc[Main] = "setHandle" =>
        given[P][call[Main].id] = None /\ call[Main].id \in Reg!Ids
  BY <1>1 DEF Reg!InstanceInv, Reg!IdsInv, Reg!OwnId, Reg!MakeSteps,
              Reg!LibraryInv, Reg!CallInv, Reg!InHand
<1>5. handles[P][i] # None =>
        handles[P][i].name = given[P][i] /\ handles[P][i].name # None
  BY <1>1, Constants DEF Reg!InstanceInv, Reg!IdsInv, Reg!GivenInv, Reg!Present,
     Reg!LibraryInv, Reg!TypeInv, Reg!Handles
<1>6. Held(i, n)' => Held(i, n)
  BY <1>2, <1>3, AdvanceHandles DEF Held, Reg!MakeSteps
<1>7. CASE handles[P][i] # None /\ handles[P][i].name = n
  <2>1. ~(pc[Main] = "setHandle" /\ i = call[Main].id)
    BY <1>4, <1>5, <1>7
  <2>2. \/ handles'[P][i] = handles[P][i]
        \/ pc[Main] \in {"unloadDelete", "freeClear"}
        \/ pc[Main] = "deleteHandle" /\ i = call[Main].id
    BY <1>2, <2>1, AdvanceHandles
  <2> QED
    BY <1>6, <1>7, <2>2 DEF Held
<1>8. CASE pc[Main] = "callNew" /\ call[Main].id = i /\ call[Main].name = n
  BY <1>2, <1>3, <1>6, <1>8 DEF Held, Reg!MakeSteps
<1>9. CASE pc[Main] = "setHandle" /\ call[Main].id = i /\ call[Main].name = n
  <2>1. handles'[P][i] = [name |-> n, lib |-> call[Main].lib]
    BY <1>1, <1>2, <1>9 DEF Reg!SetHandle, Reg!LibraryInv, Reg!TypeInv
  <2>2. handles'[P][i] # None
    BY <2>1, <1>1, <1>9, Constants
    DEF Reg!LibraryInv, Reg!CallInv, Reg!InHand, Reg!MakeSteps, Reg!Handles
  <2> QED
    BY <1>6, <2>1, <2>2 DEF Held
<1> QED
  BY <1>6, <1>7, <1>8, <1>9 DEF Held, Reg!MakeSteps

-----------------------------------------------------------------------------
(* main as a client of the Plugger.                                        *)

\* A handle main uses is registered, and its library open.
LEMMA InUse ==
  ASSUME IInv, At("call") \/ At("command"), Handle # 0
  PROVE  /\ Name \in Names /\ Handle \in Ids
         /\ handles[P][Handle] # None /\ handles[P][Handle].name = Name
         /\ Library \in Files /\ files[Library].name = Name
         /\ opens[Library] # 0
<1>1. /\ pc[Main] = "idle" /\ step \in 1 .. Len(Script) + 1 /\ ~Ended
      /\ Script[step].do \in {"call", "command"}
  BY DEF At, IInv, TypeOK
<1>2. \/ step \in {4, 5, 6, 8, 9, 10} /\ Name = "sample1"
      \/ step \in {13, 14, 15, 17, 18, 19} /\ Name = "sample2"
  BY <1>1, AtIs
<1>3. Name \in Names
  BY <1>2 DEF Names
<1>4. Handle \in 0 .. MaxInstances /\ Handle \in Ids
  BY <1>3, Constants DEF IInv, TypeOK, Handle, Ids
<1>5. Held(Handle, Name)
  BY <1>2 DEF IInv, MainInv, PluginInv, Handle
<1>6. handles[P][Handle] # None /\ handles[P][Handle].name = Name
  BY <1>1, <1>5 DEF Held, Reg!MakeSteps
<1>7. handles[P][Handle] \in [name : Names, lib : Files] /\ Handle \in Reg!Ids
  BY <1>4, <1>6, IdsOf DEF IInv, Reg!LibraryInv, Reg!TypeInv, Reg!Handles
<1>8. Library \in Files /\ libs[P][Name] = Library
  BY <1>6, <1>7 DEF Library, IInv, Reg!LibraryInv, Reg!HandlesInv, Reg!TypeInv, Reg!Present
<1>9. files[Library].name = Name
  BY <1>3, <1>8, Constants DEF IInv, Reg!LibraryInv, Reg!LibsInv
<1>10. Reg!Holders(Library) # {}
  <2>1. ~\E u \in {Main} : Reg!Forgetting(u, P, Library)
    BY <1>1 DEF Reg!Forgetting
  <2> QED
    BY <1>3, <1>8, <2>1 DEF Reg!Holders, Reg!Holds
<1>11. opens[Library] # 0
  BY <1>8, <1>10, Reg!UsedIsOpen, Constants DEF IInv, Reg!LibraryInv
<1> QED
  BY <1>3, <1>4, <1>6, <1>8, <1>9, <1>11

\* A call through such a handle is no more to the Plugger than that.
LEMMA EntersKeeps ==
  ASSUME IInv, At("call") \/ At("command"), Handle # 0, Reg!Enters({Library})
  PROVE  UNCHANGED <<opens, stray>>
<1>1. opens[Library] # 0 /\ stray \in BOOLEAN
  BY InUse DEF IInv, Reg!LibraryInv, Reg!TypeInv
<1> QED
  BY <1>1 DEF Reg!Enters

LEMMA InPluggerIs == InPlugger => Reg!Advance(Main) /\ UNCHANGED mainVars
BY DEF InPlugger, Reg!Advance

\* To the Plugger every step is one of its own, none, or the end.
LEMMA PluggerStep ==
  ASSUME IInv, [Next]_vars
  PROVE  [Reg!Next]_(Reg!vars) \/ Reg!Died
<1>1. Reg!Advance(Main) \/ Reg!Invoke(Main, P) \/ Reg!SetVersionSafe(P) => Reg!Next
  BY DEF Reg!Next
<1>2. UNCHANGED regVars => UNCHANGED Reg!vars
  BY DEF regVars, Reg!vars, Reg!hostVars, Reg!instVars
<1>3. Dies => Reg!Died
  BY DEF Dies, Reg!Died, Reg!hostVars, Reg!instVars
<1>4. CASE SetVersionSafe \/ LoadReturns \/ InPlugger
  BY <1>1, <1>4, InPluggerIs DEF SetVersionSafe, LoadReturns, Reg!Advance
<1>5. CASE Load \/ NewPlugin \/ Unload \/ Free
  <2>1. At("new") \/ At("unload") => Name \in Names
    BY AtIs DEF At, IInv, TypeOK, Names
  <2> QED
    BY <1>1, <1>2, <1>5, <2>1 DEF Load, NewPlugin, Unload, Free, Reg!Invoke
<1>6. CASE FreePlugin
  <2>1. Name \in Names
    BY <1>6, AtIs DEF FreePlugin, At, IInv, TypeOK, Names
  <2>2. Handle # 0 => Handle \in Ids
    BY <2>1, Constants DEF IInv, TypeOK, Handle, Ids
  <2> QED
    BY <1>1, <1>3, <1>6, <2>2, IdsOf DEF FreePlugin, Reg!Invoke
<1>7. CASE Call \/ Command
  <2>1. UNCHANGED <<opens, stray>>
    BY <1>7, EntersKeeps DEF Call, Command
  <2> QED
    BY <1>2, <1>7, <2>1 DEF Call, Command, regVars
<1>8. CASE LoadFails \/ PassOver \/ SetEventHandler \/ Listen
  BY <1>2, <1>8 DEF LoadFails, PassOver, SetEventHandler, Listen
<1>9. CASE CallInstanceGone \/ CommandReturns
  BY <1>2, <1>3, <1>9 DEF CallInstanceGone, CommandReturns
<1>10. ASSUME NEW i \in Ids, Park(i) \/ ListenerLost(i) PROVE UNCHANGED regVars \/ Dies
  BY <1>10 DEF Park, ListenerLost
<1>11. CASE UNCHANGED vars
  BY <1>2, <1>11 DEF vars
<1> QED
  BY <1>2, <1>3, <1>4, <1>5, <1>6, <1>7, <1>8, <1>9, <1>10, <1>11 DEF Next

LEMMA PluggerKept ==
  ASSUME IInv, [Next]_vars
  PROVE  Reg!LibraryInv' /\ Reg!InstanceInv' /\ Reg!TablesInv'
<1>1. Reg!LibraryInv /\ Reg!InstanceInv /\ Reg!TablesInv
  BY DEF IInv
<1>2. Reg!LibraryInv'
  BY <1>1, PluggerStep, LibraryStep, DeathKeeps
<1>3. Reg!TypeInv'
  BY <1>2 DEF Reg!LibraryInv
<1> QED
  BY <1>1, <1>2, <1>3, PluggerStep, InstanceStep, TablesStep, DeathKeeps

\* How main enters the Plugger.
Entered(to) ==
  /\ pc[Main] = "idle" /\ pc'[Main] = to
  /\ ~call'[Main].warn
  /\ UNCHANGED <<files, halted, libs, handles, given, instMap, instMapByPlugin>>

LEMMA EnteredIs ==
  ASSUME IInv, NEW c \in Reg!Calls, ~c.warn, NEW to, Reg!Begins(Main, to, c)
  PROVE  Entered(to) /\ call'[Main] = c
<1>1. call' = [call EXCEPT ![Main] = c] /\ pc' = [pc EXCEPT ![Main] = to] /\ pc[Main] = "idle"
      /\ UNCHANGED <<files, halted, libs, handles, given, instMap, instMapByPlugin>>
  BY DEF Reg!Begins, Reg!Notes, Reg!instVars
<1>2. DOMAIN call = {Main} /\ DOMAIN pc = {Main}
  BY DEF IInv, Reg!LibraryInv, Reg!TypeInv
<1> QED
  BY <1>1, <1>2 DEF Entered

LEMMA LoadEnters ==
  ASSUME IInv, NEW dir \in SUBSET Files, Reg!Load(Main, P, dir)
  PROVE  Entered("open")
<1> DEFINE c == [Reg!NoCall EXCEPT !.plugger = P, !.todo = dir]
<1>1. c \in Reg!Calls
  BY Reg!CallsMade, Constants
<1>2. ~c.warn
  BY DEF Reg!NoCall
<1>3. Reg!Begins(Main, "open", c)
  BY DEF Reg!Load
<1> HIDE DEF c
<1> QED
  BY <1>1, <1>2, <1>3, EnteredIs

LEMMA NewEnters ==
  ASSUME IInv, NEW n \in Names, Reg!NewPlugin(Main, P, n)
  PROVE  /\ Entered("callNew")
         /\ instanceId'[P] \in 1 .. MaxInstances /\ instanceId'[P] \in Ids
         /\ call'[Main].id = instanceId'[P] /\ call'[Main].name = n
<1> DEFINE f == libs[P][n]
           i == instanceId'[P]
           c == [Reg!NoCall EXCEPT !.plugger = P, !.name = n, !.lib = f, !.id = i]
<1>1. f \in Files
  BY DEF Reg!NewPlugin, IInv, Reg!LibraryInv, Reg!TypeInv
<1>2. /\ instanceId \in [{P} -> 0 .. MaxInstances] /\ instanceId[P] < MaxInstances
      /\ instanceId' = [instanceId EXCEPT ![P] = Reg!NextId(@)]
      /\ Reg!Begins(Main, "callNew", c)
  BY DEF Reg!NewPlugin, IInv, Reg!LibraryInv, Reg!TypeInv
<1>3. i = Reg!NextId(instanceId[P]) /\ instanceId[P] \in Nat
  BY <1>2, Constants
<1>4. i \in 1 .. MaxInstances /\ i \in Ids /\ i \in Reg!Ids
  BY <1>2, <1>3, Constants, IdsOf DEF Reg!NextId, Ids
<1>5. c \in Reg!Calls
  BY <1>1, <1>4, Reg!CallsMade, Constants
<1>6. ~c.warn /\ c.id = i /\ c.name = n
  BY DEF Reg!NoCall
<1> HIDE DEF c
<1> QED
  BY <1>2, <1>4, <1>5, <1>6, EnteredIs

LEMMA UnloadEnters ==
  ASSUME IInv, NEW n \in Names, Reg!Unload(Main, P, n)
  PROVE  Entered("unloadEach")
<1> DEFINE c == [Reg!NoCall EXCEPT !.plugger = P, !.name = n, !.lib = libs[P][n]]
<1>1. libs[P][n] \in Files
  BY DEF Reg!Unload, IInv, Reg!LibraryInv, Reg!TypeInv
<1>2. c \in Reg!Calls
  BY <1>1, Reg!CallsMade, Constants
<1>3. ~c.warn
  BY DEF Reg!NoCall
<1>4. Reg!Begins(Main, "unloadEach", c)
  BY DEF Reg!Unload
<1> HIDE DEF c
<1> QED
  BY <1>2, <1>3, <1>4, EnteredIs

LEMMA FreePluginEnters ==
  ASSUME IInv, NEW i \in Ids, Reg!FreePlugin(Main, P, i)
  PROVE  Entered("findHandle") /\ call'[Main].id = i
<1> DEFINE f == libs[P][given[P][i]]
           c == [Reg!NoCall EXCEPT !.plugger = P, !.lib = f, !.id = i]
<1>1. f \in Files /\ i \in Reg!Ids
  BY IdsOf DEF Reg!FreePlugin, IInv, Reg!LibraryInv, Reg!TypeInv
<1>2. c \in Reg!Calls
  BY <1>1, Reg!CallsMade, Constants
<1>3. ~c.warn /\ c.id = i
  BY DEF Reg!NoCall
<1>4. Reg!Begins(Main, "findHandle", c)
  BY DEF Reg!FreePlugin
<1> HIDE DEF c
<1> QED
  BY <1>2, <1>3, <1>4, EnteredIs

LEMMA FreeEnters ==
  ASSUME IInv, Reg!Free(Main, P)
  PROVE  Entered("freeEach")
<1> DEFINE c == [Reg!NoCall EXCEPT !.plugger = P]
<1>1. c \in Reg!Calls
  BY Reg!CallsMade, Constants
<1>2. ~c.warn
  BY DEF Reg!NoCall
<1>3. Reg!Begins(Main, "freeEach", c)
  BY DEF Reg!Free
<1> HIDE DEF c
<1> QED
  BY <1>1, <1>2, <1>3, EnteredIs

-----------------------------------------------------------------------------
(* The kinds of steps main takes.                                          *)

\* Past a line of the script that leaves the Plugger's handles alone.
Walks ==
  /\ pc[Main] = "idle" /\ step \in 1 .. 22 /\ step \notin {11, 22}
  /\ step' = step + 1 /\ event' = NoEvent
  /\ UNCHANGED <<files, libs, handles, pc, call, plugin>>
  /\ handled \subseteq handled'
  /\ step = 7 /\ plugin["sample1"] # 0 => plugin["sample1"] \in handled'
  /\ step = 16 /\ plugin["sample2"] # 0 => plugin["sample2"] \in handled'

\* Not on, though an event may be.
Stands ==
  /\ UNCHANGED <<files, libs, handles, pc, call, step, plugin, handled>>
  /\ event' # NoEvent => event # NoEvent \/ (pc[Main] = "idle" /\ step \in {8, 17})

\* Into an operation of the Plugger.
Loads == Entered("open") /\ step = 2 /\ event = NoEvent /\ UNCHANGED mainVars

Makes ==
  /\ Entered("callNew")
  /\ \/ step \in {3, 20} /\ Name = "sample1"
     \/ step = 12 /\ Name = "sample2"
  /\ step' = step + 1 /\ event = NoEvent /\ UNCHANGED <<handled, parked, event>>
  /\ call'[Main].id \in 1 .. MaxInstances /\ call'[Main].id \in Ids
  /\ call'[Main].name = Name
  /\ plugin' = [plugin EXCEPT ![Name] = call'[Main].id]

Frees ==
  /\ Entered("findHandle")
  /\ step = 11 /\ step' = 12
  /\ call'[Main].id = plugin["sample1"]
  /\ event = NoEvent /\ UNCHANGED <<plugin, handled, parked, event>>

Tears ==
  /\ (Entered("unloadEach") /\ step = 21) \/ (Entered("freeEach") /\ step = 22)
  /\ step' = step + 1 /\ event = NoEvent /\ UNCHANGED <<plugin, handled, parked, event>>

LEMMA AtOf ==
  ASSUME IInv, NEW what, At(what)
  PROVE  /\ pc[Main] = "idle" /\ event = NoEvent /\ step \in 1 .. 22 /\ ~halted
         /\ what = "setVersionSafe" => step = 1
         /\ what = "load" => step = 2
         /\ what = "new" =>
              (step \in {3, 20} /\ Name = "sample1") \/ (step = 12 /\ Name = "sample2")
         /\ what = "free" => step = 11 /\ Name = "sample1"
         /\ what = "unload" => step = 21 /\ Name = "sample1"
         /\ what = "freeAll" => step = 22
         /\ what = "call" => step \in {4, 5, 6, 9, 10, 13, 14, 15, 18, 19}
         /\ what = "setEventHandler" =>
              (step = 7 /\ Name = "sample1") \/ (step = 16 /\ Name = "sample2")
         /\ what = "command" =>
              (step = 8 /\ Name = "sample1") \/ (step = 17 /\ Name = "sample2")
         /\ what \in {"new", "free", "unload", "call", "setEventHandler", "command"} =>
              Name \in Names
<1>1. /\ pc[Main] = "idle" /\ event = NoEvent /\ ~halted /\ ~Ended
      /\ step \in 1 .. Len(Script) + 1 /\ Script[step].do = what
  BY DEF At, IInv, TypeOK
<1> QED
  BY <1>1, AtIs DEF Names

LEMMA EntersKinds ==
  ASSUME IInv, Load \/ NewPlugin \/ FreePlugin \/ Unload \/ Free
  PROVE  Walks \/ Stands \/ Loads \/ Makes \/ Frees \/ Tears
<1>1. CASE Load
  BY <1>1, AtOf, LoadEnters DEF Load, Loads, mainVars
<1>2. CASE NewPlugin
  <2>1. Name \in Names /\ pc[Main] = "idle" /\ event = NoEvent /\ step \in 1 .. 22
        /\ ((step \in {3, 20} /\ Name = "sample1") \/ (step = 12 /\ Name = "sample2"))
    BY <1>2, AtOf DEF NewPlugin
  <2>2. CASE Reg!NewPlugin(Main, P, Name) /\ plugin' = [plugin EXCEPT ![Name] = instanceId'[P]]
    BY <1>2, <2>1, <2>2, NewEnters DEF NewPlugin, Makes, GoesOn
  <2>3. CASE UNCHANGED <<regVars, plugin>>
    BY <1>2, <2>1, <2>3 DEF NewPlugin, Walks, GoesOn, regVars
  <2> QED
    BY <1>2, <2>2, <2>3 DEF NewPlugin
<1>3. CASE FreePlugin
  <2>1. step = 11 /\ Name = "sample1" /\ event = NoEvent
    BY <1>3, AtOf DEF FreePlugin
  <2>2. CASE Handle = 0 /\ Dies
    BY <2>2 DEF Stands, Dies, mainVars
  <2>3. CASE Handle # 0 /\ Reg!FreePlugin(Main, P, Handle)
    <3>1. Handle \in Ids
      BY <2>1, <2>3, Constants DEF IInv, TypeOK, Handle, Ids, Names
    <3> QED
      BY <1>3, <2>1, <2>3, <3>1, FreePluginEnters DEF FreePlugin, Frees, GoesOn, Handle
  <2> QED
    BY <1>3, <2>2, <2>3 DEF FreePlugin
<1>4. CASE Unload
  <2>1. step = 21 /\ Name \in Names /\ event = NoEvent /\ pc[Main] = "idle"
    BY <1>4, AtOf DEF Unload
  <2>2. CASE Reg!Unload(Main, P, Name)
    BY <1>4, <2>1, <2>2, UnloadEnters DEF Unload, Tears, GoesOn
  <2>3. CASE UNCHANGED regVars
    BY <1>4, <2>1, <2>3 DEF Unload, Walks, GoesOn, regVars
  <2> QED
    BY <1>4, <2>2, <2>3 DEF Unload
<1>5. CASE Free
  BY <1>5, AtOf, FreeEnters DEF Free, Tears, GoesOn
<1> QED
  BY <1>1, <1>2, <1>3, <1>4, <1>5

LEMMA StepKinds ==
  ASSUME IInv, [Next]_vars
  PROVE  \/ Walks \/ Stands \/ Loads \/ Makes \/ Frees \/ Tears
         \/ InPlugger \/ LoadReturns
<1>1. CASE Load \/ NewPlugin \/ FreePlugin \/ Unload \/ Free
  BY <1>1, EntersKinds
<1>2. CASE SetVersionSafe \/ LoadFails
  BY <1>2, AtOf DEF SetVersionSafe, LoadFails, Walks, GoesOn, regVars, Reg!SetVersionSafe
<1>3. CASE PassOver
  <2>1. /\ pc[Main] = "idle" /\ event = NoEvent /\ step \in 1 .. 22 /\ step \notin {11, 22}
        /\ step = 7 => Name = "sample1"
        /\ step = 16 => Name = "sample2"
    BY <1>3, AtOf DEF PassOver
  <2> QED
    BY <1>3, <2>1 DEF PassOver, Walks, GoesOn, regVars, Handle
<1>4. CASE Call
  <2>1. pc[Main] = "idle" /\ event = NoEvent
        /\ step \in {4, 5, 6, 9, 10, 13, 14, 15, 18, 19}
    BY <1>4, AtOf DEF Call
  <2> QED
    BY <1>4, <2>1 DEF Call, Walks, GoesOn
<1>5. CASE SetEventHandler
  <2>1. pc[Main] = "idle" /\ event = NoEvent
        /\ ((step = 7 /\ Name = "sample1") \/ (step = 16 /\ Name = "sample2"))
    BY <1>5, AtOf DEF SetEventHandler
  <2> QED
    BY <1>5, <2>1 DEF SetEventHandler, Walks, GoesOn, regVars, Handle
<1>6. CASE CallInstanceGone
  BY <1>6 DEF CallInstanceGone, Dies, Stands, mainVars
<1>7. CASE Command
  BY <1>7, AtOf DEF Command, Stands
<1>8. CASE CommandReturns
  <2>1. CASE event.at = "answered" /\ event' = NoEvent
    <3>1. event # NoEvent
      BY <2>1 DEF NoEvent
    <3>2. pc[Main] = "idle" /\ step \in {8, 17}
      BY <3>1 DEF IInv, MainInv, PlaceInv
    <3> QED
      BY <1>8, <2>1, <3>2 DEF CommandReturns, Walks, GoesOn, regVars, NoEvent
  <2>2. CASE Dies
    BY <2>2 DEF Dies, Stands, mainVars
  <2> QED
    BY <1>8, <2>1, <2>2 DEF CommandReturns
<1>9. CASE Listen
  <2>1. event # NoEvent
    BY <1>9 DEF Listen, NoEvent
  <2> QED
    BY <1>9, <2>1 DEF Listen, Stands, regVars
<1>10. ASSUME NEW i \in Ids, Park(i) \/ ListenerLost(i) PROVE Stands
  BY <1>10 DEF Park, ListenerLost, Dies, Stands, regVars, mainVars
<1>11. CASE UNCHANGED vars
  BY <1>11 DEF vars, Stands, regVars, mainVars
<1> QED
  BY <1>1, <1>2, <1>3, <1>4, <1>5, <1>6, <1>7, <1>8, <1>9, <1>10, <1>11 DEF Next

-----------------------------------------------------------------------------
(* Places.                                                                 *)

LEMMA PlaceStep ==
  ASSUME IInv, [Next]_vars
  PROVE  PlaceInv'
<1> USE DEF Reg!LoadSteps, Reg!MakeSteps, Reg!FreeSteps, Reg!UnloadSteps, Reg!TearDown
<1>1. PlaceInv /\ Reg!LibraryInv
  BY DEF IInv, MainInv
<1>2. CASE Walks
  BY <1>1, <1>2 DEF Walks, PlaceInv
<1>3. CASE Stands
  BY <1>1, <1>3 DEF Stands, PlaceInv
<1>4. CASE Loads \/ Makes \/ Frees \/ Tears
  BY <1>1, <1>4 DEF Loads, Makes, Frees, Tears, Entered, PlaceInv, mainVars
<1>5. CASE InPlugger \/ LoadReturns
  <2>1. Reg!Advance(Main) /\ event' = event
    BY <1>5, InPluggerIs DEF LoadReturns, Reg!Advance, mainVars
  <2>2. pc[Main] # "idle"
    BY <1>1, <2>1, AdvanceFacts
  <2>3. event' = NoEvent
    BY <1>1, <2>1, <2>2 DEF PlaceInv
  <2>4. CASE InPlugger
    <3>1. step' = step
      BY <2>4 DEF InPlugger, mainVars
    <3> QED
      BY <1>1, <2>1, <2>3, <3>1, AdvancePlace DEF PlaceInv
  <2>5. CASE LoadReturns
    <3>1. pc'[Main] = "idle"
      BY <1>1, <2>5 DEF LoadReturns, Reg!LoadReturns, Reg!Goes, Reg!LibraryInv, Reg!TypeInv
    <3> QED
      BY <2>3, <3>1 DEF PlaceInv
  <2> QED
    BY <1>5, <2>4, <2>5
<1> QED
  BY <1>2, <1>3, <1>4, <1>5, StepKinds

\* The instances there are, after each kind of step.
LEMMA HeldStep ==
  ASSUME IInv, NEW i \in Ids, NEW n \in Names
  PROVE  /\ Walks \/ Stands \/ Loads \/ Frees \/ Tears => (Held(i, n)' <=> Held(i, n))
         /\ Makes => (Held(i, n)' <=> Held(i, n) \/ (i = call'[Main].id /\ n = Name))
         /\ InPlugger \/ LoadReturns =>
              /\ Held(i, n)' => Held(i, n)
              /\ Held(i, n) =>
                   \/ Held(i, n)'
                   \/ pc[Main] \in {"unloadDelete", "freeClear"}
                   \/ pc[Main] = "deleteHandle" /\ i = call[Main].id
<1>1. Reg!LibraryInv /\ Reg!InstanceInv
  BY DEF IInv
<1>2. Walks \/ Stands => (Held(i, n)' <=> Held(i, n))
  BY DEF Walks, Stands, Held
<1>3. Loads \/ Frees \/ Tears => (Held(i, n)' <=> Held(i, n))
  BY DEF Loads, Frees, Tears, Entered, Held, Reg!MakeSteps
<1>4. Makes => (Held(i, n)' <=> Held(i, n) \/ (i = call'[Main].id /\ n = Name))
  BY DEF Makes, Entered, Held, Reg!MakeSteps
<1>5. InPlugger \/ LoadReturns => Reg!Advance(Main)
  BY InPluggerIs DEF LoadReturns, Reg!Advance
<1> QED
  BY <1>1, <1>2, <1>3, <1>4, <1>5, AdvanceHeld

LEMMA StepTyped ==
  ASSUME step \in 1 .. Len(Script) + 1
  PROVE  step \in 1 .. 23
<1>1. Len(Script) = 22
  BY ScriptIs
<1> QED
  BY <1>1

LEMMA PluginStep ==
  ASSUME IInv, [Next]_vars
  PROVE  PluginInv'
<1>1. /\ PlaceInv /\ PluginInv /\ Reg!LibraryInv
      /\ step \in 1 .. 23 /\ plugin \in [Names -> 0 .. MaxInstances]
  BY StepTyped DEF IInv, MainInv, TypeOK
<1>2. "sample1" \in Names /\ "sample2" \in Names /\ "sample1" # "sample2"
  BY DEF Names
<1>3. \A n \in Names : plugin[n] # 0 => plugin[n] \in Ids
  BY <1>1, Constants DEF Ids
<1>4. CASE Walks
  <2>1. \A i \in Ids, n \in Names : Held(i, n)' <=> Held(i, n)
    BY <1>4, HeldStep
  <2> QED
    BY <1>1, <1>2, <1>3, <1>4, <2>1 DEF Walks, PluginInv, Reg!FreeSteps
<1>5. CASE Stands \/ Loads
  <2>1. \A i \in Ids, n \in Names : Held(i, n)' <=> Held(i, n)
    BY <1>5, HeldStep
  <2>2. /\ UNCHANGED <<step, plugin>>
        /\ pc'[Main] \in Reg!FreeSteps => UNCHANGED <<pc, call>>
        /\ step = 12 => pc'[Main] = pc[Main]
    BY <1>5 DEF Stands, Loads, Entered, mainVars, Reg!FreeSteps
  <2> QED
    BY <1>1, <1>2, <1>3, <2>1, <2>2 DEF PluginInv
<1>6. CASE Makes
  <2>1. \A i \in Ids, n \in Names :
          Held(i, n)' <=> Held(i, n) \/ (i = call'[Main].id /\ n = Name)
    BY <1>6, HeldStep
  <2>2. CASE step = 3 /\ Name = "sample1"
    <3>1. /\ \A i \in Ids : ~Held(i, "sample1") /\ ~Held(i, "sample2")
          /\ \A n \in Names : n = "sample1" \/ n = "sample2"
      <4>1. plugin["sample1"] = 0 /\ plugin["sample2"] = 0
        BY <1>1, <2>2 DEF PluginInv
      <4>2. \A i \in Ids, n \in Names : Held(i, n) => plugin[n] = i
        BY <1>1 DEF PluginInv
      <4> QED
        BY <1>2, <4>1, <4>2, IdsOf DEF Names
    <3> QED
      BY <1>1, <1>2, <1>3, <1>6, <2>1, <2>2, <3>1 DEF Makes, Entered, PluginInv, Reg!FreeSteps
  <2>3. CASE step = 12 /\ Name = "sample2"
    <3>1. /\ \A i \in Ids : ~Held(i, "sample1") /\ ~Held(i, "sample2")
          /\ \A n \in Names : n = "sample1" \/ n = "sample2"
      BY <1>1, <1>2, <1>6, <2>3, IdsOf DEF PluginInv, Makes, Entered, Names
    <3> QED
      BY <1>1, <1>2, <1>3, <1>6, <2>1, <2>3, <3>1 DEF Makes, Entered, PluginInv, Reg!FreeSteps
  <2>4. CASE step = 20 /\ Name = "sample1"
    BY <1>1, <1>2, <1>3, <1>6, <2>1, <2>4 DEF Makes, Entered, PluginInv, Reg!FreeSteps
  <2> QED
    BY <1>6, <2>2, <2>3, <2>4 DEF Makes
<1>7. CASE Frees \/ Tears
  <2>1. \A i \in Ids, n \in Names : Held(i, n)' <=> Held(i, n)
    BY <1>7, HeldStep
  <2> QED
    BY <1>1, <1>2, <1>3, <1>7, <2>1 DEF Frees, Tears, Entered, PluginInv, Reg!FreeSteps
<1>8. CASE InPlugger
  <2>1. /\ Reg!Advance(Main) /\ Reg!KeepsCall(Main) /\ pc[Main] # "idle"
        /\ UNCHANGED <<step, plugin>>
    BY <1>1, <1>8, InPluggerIs, AdvanceFacts DEF mainVars
  <2>2. \A i \in Ids, n \in Names :
          /\ Held(i, n)' => Held(i, n)
          /\ Held(i, n) =>
               \/ Held(i, n)'
               \/ pc[Main] \in {"unloadDelete", "freeClear"}
               \/ pc[Main] = "deleteHandle" /\ i = call[Main].id
    BY <1>8, HeldStep
  <2>3. /\ pc[Main] \in {"unloadDelete", "freeClear"} => step \in {22, 23}
        /\ pc[Main] = "deleteHandle" => step = 12
    BY <1>1 DEF PlaceInv, Reg!UnloadSteps, Reg!FreeSteps, Reg!TearDown
  <2>4. pc'[Main] \in Reg!FreeSteps =>
          pc[Main] \in Reg!FreeSteps /\ call'[Main].id = call[Main].id
    BY <1>1, <2>1, AdvancePlace DEF Reg!KeepsCall, Reg!FreeSteps
  <2>5. step = 12 /\ pc'[Main] = "idle" => \A i \in Ids : ~Held(i, "sample1")'
    <3> SUFFICES ASSUME step = 12, pc'[Main] = "idle", NEW i \in Ids, Held(i, "sample1")'
                 PROVE  FALSE
      OBVIOUS
    <3>1. Reg!FindHandle(Main) \/ Reg!DeleteHandle(Main)
      <4>1. pc[Main] \in Reg!PcValues
        BY <1>1 DEF Reg!LibraryInv, Reg!TypeInv
      <4>2. pc[Main] \in Reg!FreeSteps
        BY <1>1, <2>1, <4>1 DEF PlaceInv, Reg!PcValues, Reg!LoadSteps, Reg!MakeSteps,
           Reg!FreeSteps, Reg!UnloadSteps, Reg!TearDown
      <4> QED
        BY <1>1, <2>1, <4>2, AdvancePlace
        DEF Reg!FreeSteps, Reg!LoadReturns, Reg!SetHandle, Reg!UnloadForget, Reg!FreeForget,
            Reg!Goes
    <3>2. i = call[Main].id
      <4>1. Held(i, "sample1") /\ pc[Main] \in Reg!FreeSteps
        BY <1>2, <2>2, <3>1 DEF Reg!FindHandle, Reg!DeleteHandle, Reg!Goes, Reg!FreeSteps
      <4> QED
        BY <1>1, <1>2, <4>1 DEF PluginInv
    <3>3. handles'[P][i] = None
      <4>1. call[Main].plugger = P /\ i \in Reg!Ids
        BY <1>1, <2>1, AdvanceFacts, IdsOf
      <4>2. CASE Reg!FindHandle(Main)
        BY <1>1, <3>2, <4>1, <4>2 DEF Reg!FindHandle, Reg!Goes, Reg!LibraryInv, Reg!TypeInv
      <4>3. CASE Reg!DeleteHandle(Main)
        BY <1>1, <3>2, <4>1, <4>3 DEF Reg!DeleteHandle, Reg!LibraryInv, Reg!TypeInv
      <4> QED
        BY <3>1, <4>2, <4>3
    <3> QED
      BY <3>3 DEF Held, Reg!MakeSteps
  <2>6. step \in 4 .. 11 \/ step \in 13 .. 20 =>
          \A i \in Ids, n \in Names : Held(i, n) => Held(i, n)'
    BY <2>2, <2>3
  <2> QED
    BY <1>1, <1>2, <1>3, <2>1, <2>2, <2>4, <2>5, <2>6 DEF PluginInv
<1>9. CASE LoadReturns
  <2>1. Reg!LoadReturns(Main) /\ UNCHANGED plugin /\ (step' = step + 1 \/ step' = 23)
    <3>1. Len(Script) = 22
      BY ScriptIs
    <3> QED
      BY <1>9, <3>1 DEF LoadReturns
  <2>2. step = 2 /\ pc'[Main] = "idle"
    BY <1>1, <2>1 DEF Reg!LoadReturns, Reg!Goes, PlaceInv, Reg!LoadSteps, Reg!LibraryInv,
       Reg!TypeInv
  <2>3. \A i \in Ids, n \in Names : Held(i, n)' => Held(i, n)
    BY <1>9, HeldStep
  <2> QED
    BY <1>1, <1>2, <2>1, <2>2, <2>3 DEF PluginInv, Reg!FreeSteps
<1> QED
  BY <1>4, <1>5, <1>6, <1>7, <1>8, <1>9, StepKinds

-----------------------------------------------------------------------------
(* The instances in the libraries.                                         *)

LEMMA InstanceHeld ==
  ASSUME Reg!LibraryInv, Reg!InstanceInv, NEW f \in Files, NEW i \in Ids,
         instMap[f][i] = <<P, i>>
  PROVE  files[f].name \in Names /\ Held(i, files[f].name)
<1>1. i \in Reg!Ids /\ None \notin Names \cup Files
  BY IdsOf, Constants
<1>2. \/ handles[P][i] # None /\ handles[P][i].lib = f
      \/ /\ pc[Main] = "setHandle" /\ call[Main].plugger = P
         /\ call[Main].id = i /\ call[Main].lib = f
  BY <1>1 DEF Reg!InstanceInv, Reg!NoOrphans
<1>3. CASE handles[P][i] # None /\ handles[P][i].lib = f
  <2>1. handles[P][i].name \in Names /\ libs[P][handles[P][i].name] = f
    BY <1>1, <1>3 DEF Reg!LibraryInv, Reg!TypeInv, Reg!HandlesInv, Reg!Present, Reg!Handles
  <2>2. files[f].name = handles[P][i].name
    BY <1>1, <2>1 DEF Reg!LibraryInv, Reg!LibsInv
  <2> QED
    BY <1>3, <2>1, <2>2 DEF Held
<1>4. CASE /\ pc[Main] = "setHandle" /\ call[Main].plugger = P
           /\ call[Main].id = i /\ call[Main].lib = f
  <2>1. call[Main].name \in Names /\ libs[P][call[Main].name] = f
    BY <1>4 DEF Reg!LibraryInv, Reg!CallInv, Reg!InHand, Reg!MakeSteps
  <2>2. files[f].name = call[Main].name
    BY <1>1, <2>1 DEF Reg!LibraryInv, Reg!LibsInv
  <2> QED
    BY <1>4, <2>1, <2>2 DEF Held, Reg!MakeSteps
<1> QED
  BY <1>2, <1>3, <1>4

\* The instance of a library is the one main's plugin of that name stands for.
LEMMA OneInstance ==
  Reg!LibraryInv /\ Reg!InstanceInv /\ Reg!TablesInv /\ PluginInv => Reg!OneEach
<1> SUFFICES ASSUME Reg!LibraryInv, Reg!InstanceInv, Reg!TablesInv, PluginInv,
                    NEW f \in Files, NEW i \in Reg!Present(instMap[f])
             PROVE  i = plugin[files[f].name]
  BY DEF Reg!OneEach
<1>1. i \in Ids /\ i \in Reg!Ids /\ instMap[f][i] # None
  BY IdsOf DEF Reg!Present, Reg!LibraryInv, Reg!TypeInv
<1>2. instMap[f][i] = <<P, i>>
  BY <1>1 DEF Reg!TablesInv
<1> QED
  BY <1>1, <1>2, InstanceHeld DEF PluginInv

LEMMA EmitterStep ==
  ASSUME IInv, [Next]_vars
  PROVE  EmitterFindsOwn'
<1>1. /\ Reg!LibraryInv /\ Reg!InstanceInv /\ Reg!TablesInv /\ PluginInv
      /\ Reg!EmitterFindsOwn
  BY DEF IInv, MainInv, EmitterFindsOwn
<1>2. Reg!LibraryInv' /\ Reg!InstanceInv' /\ Reg!TablesInv' /\ PluginInv'
  BY PluggerKept, PluginStep
<1>3. Reg!OneEach /\ Reg!OneEach'
  BY <1>1, <1>2, OneInstance, PTL
<1>4. Reg!TypeInv'
  BY <1>2 DEF Reg!LibraryInv
<1> QED
  BY <1>1, <1>2, <1>3, <1>4, PluggerStep, SharedStep, DeathKeeps DEF EmitterFindsOwn

\* The instance EventEmit finds for a Command is main's plugin of some name.
LEMMA EmitterIs ==
  ASSUME IInv, NEW f \in Files, instMapByPlugin[f][None] # None
  PROVE  /\ instMapByPlugin[f][None][2] \in Ids
         /\ instMapByPlugin[f][None][2] \in 0 .. MaxInstances
<1> DEFINE k == instMapByPlugin[f][None]
<1>1. k \in {P} \X Reg!Ids
  BY DEF IInv, Reg!LibraryInv, Reg!TypeInv, Reg!Values, Reg!Instances
<1>2. k = <<P, k[2]>> /\ k[2] \in Ids
  BY <1>1, IdsOf
<1>3. instMap[f][k[2]] = <<P, k[2]>>
  BY <1>1, <1>2 DEF IInv, EmitterFindsOwn, Reg!EmitterFindsOwn, Reg!ValueOf, Reg!Instances
<1> HIDE DEF k
<1>4. files[f].name \in Names /\ Held(k[2], files[f].name)
  BY <1>2, <1>3, InstanceHeld DEF IInv
<1>5. k[2] = plugin[files[f].name]
  BY <1>2, <1>4 DEF IInv, MainInv, PluginInv
<1>6. k[2] \in 0 .. MaxInstances
  BY <1>4, <1>5 DEF IInv, TypeOK
<1> QED
  BY <1>2, <1>6 DEF k

\* In sound libraries the handle main uses has its instance, and a Command
\* emits for that one.
LEMMA SoundInstance ==
  ASSUME IInv, At("call") \/ At("command"), Handle # 0, \A f \in Files : Sound(f)
  PROVE  /\ instMap[Library][Handle] = <<P, Handle>> /\ ~InstanceGone
         /\ instMapByPlugin[Library][None] = <<P, Handle>> /\ <<P, Handle>> # None
<1>1. /\ Handle \in Ids /\ Handle \in Reg!Ids /\ handles[P][Handle] # None
      /\ Library \in Files /\ pc[Main] = "idle"
  BY InUse, IdsOf DEF At
<1>2. ~Reg!Releasing(P, Handle)
  BY <1>1 DEF Reg!Releasing
<1>3. Handle \in Reg!Present(handles[P]) /\ files[Library].makes
  BY <1>1 DEF Reg!Present, Sound, IInv, Reg!LibraryInv, Reg!TypeInv
<1>4. instMap[Library][Handle] = <<P, Handle>>
  BY <1>2, <1>3 DEF IInv, Reg!InstanceInv, Reg!OwnInstance, Library
<1>5. <<P, Handle>> \in Reg!Instances /\ <<P, Handle>> # None
  BY <1>1, Constants DEF Reg!Instances
<1>6. instMapByPlugin[Library][None] = <<P, Handle>>
  BY <1>1, <1>4, <1>5 DEF IInv, EmitterFindsOwn, Reg!EmitterFindsOwn, Reg!ValueOf
<1> QED
  BY <1>4, <1>5, <1>6 DEF InstanceGone

-----------------------------------------------------------------------------
(* Events.                                                                 *)

LEMMA EventMoves ==
  ASSUME [Next]_vars
  PROVE  event' = event \/ event' = NoEvent \/ Command \/ Listen
BY DEF Next, vars, mainVars, SetVersionSafe, Load, LoadFails, LoadReturns, NewPlugin,
   FreePlugin, Unload, Free, InPlugger, PassOver, Call, CallInstanceGone, SetEventHandler,
   CommandReturns, Park, ListenerLost, Dies

\* main has set its handler before it is where an event may be.
LEMMA HandlerStep ==
  ASSUME IInv, [Next]_vars
  PROVE  /\ (step \in 8 .. 11 /\ plugin["sample1"] # 0 => plugin["sample1"] \in handled)'
         /\ (step \in 17 .. 20 /\ plugin["sample2"] # 0 => plugin["sample2"] \in handled)'
<1>1. EventInv /\ PlaceInv /\ Reg!LibraryInv /\ step \in 1 .. 23
  BY StepTyped DEF IInv, MainInv, TypeOK
<1>2. CASE Walks
  BY <1>1, <1>2 DEF Walks, EventInv
<1>3. CASE Stands
  BY <1>1, <1>3 DEF Stands, EventInv
<1>4. CASE Loads \/ Makes \/ Frees \/ Tears
  BY <1>1, <1>4 DEF Loads, Makes, Frees, Tears, mainVars
<1>5. CASE InPlugger
  BY <1>1, <1>5 DEF InPlugger, mainVars, EventInv
<1>6. CASE LoadReturns
  <2>1. step = 2
    BY <1>1, <1>6 DEF LoadReturns, Reg!LoadReturns, Reg!Goes, PlaceInv, Reg!LoadSteps
  <2>2. step' = 3 \/ step' = 23
    <3>1. Len(Script) = 22
      BY ScriptIs
    <3> QED
      BY <1>6, <2>1, <3>1 DEF LoadReturns
  <2> QED
    BY <2>2
<1> QED
  BY <1>2, <1>3, <1>4, <1>5, <1>6, StepKinds

LEMMA EventStep ==
  ASSUME IInv, [Next]_vars
  PROVE  EventInv'
<1>1. /\ EventInv /\ PlaceInv /\ Reg!LibraryInv
      /\ event \in [at : {"none", "sent", "answered", "refused"}, of : 0 .. MaxInstances]
  BY DEF IInv, MainInv, TypeOK
<1>2. SUFFICES ASSUME event'.at # "none", (\A f \in Files : Sound(f))'
               PROVE  event'.at # "refused" /\ event'.of = Handle' /\ Handle' # 0
  BY HandlerStep DEF EventInv
<1>3. event' # NoEvent
  BY <1>2 DEF NoEvent
<1>4. CASE Command
  <2>1. At("command") /\ Handle # 0 /\ UNCHANGED <<files, step, plugin>>
    BY <1>4 DEF Command
  <2>2. \A f \in Files : Sound(f)
    BY <1>2, <2>1 DEF Sound
  <2>3. instMapByPlugin[Library][None] = <<P, Handle>> /\ <<P, Handle>> # None
    BY <2>1, <2>2, SoundInstance
  <2>4. event' = [at |-> "sent", of |-> Handle]
    BY <1>4, <2>3 DEF Command
  <2> QED
    BY <2>1, <2>4 DEF Handle, Name
<1>5. CASE Listen
  <2>1. event.at = "sent" /\ event # NoEvent /\ UNCHANGED <<files, step, plugin>>
    BY <1>5 DEF Listen, regVars, NoEvent
  <2>2. \A f \in Files : Sound(f)
    BY <1>2, <2>1 DEF Sound
  <2>3. event.of = Handle /\ Handle # 0 /\ step \in {8, 17}
    BY <1>1, <2>1, <2>2 DEF EventInv, PlaceInv
  <2>4. (step = 8 /\ Name = "sample1") \/ (step = 17 /\ Name = "sample2")
    BY <2>3, ScriptIs DEF Name
  <2>5. event.of \in handled
    BY <1>1, <2>3, <2>4 DEF EventInv, Handle
  <2>6. event' = [event EXCEPT !.at = "answered"]
    BY <1>5, <2>5 DEF Listen
  <2> QED
    BY <1>1, <2>1, <2>3, <2>6 DEF Handle, Name
<1>6. CASE event' = event
  <2>1. CASE Walks
    BY <1>3, <2>1 DEF Walks
  <2>2. CASE Stands
    BY <1>1, <1>2, <1>6, <2>2 DEF Stands, EventInv, Sound, Handle, Name
  <2>3. CASE Loads \/ Makes \/ Frees \/ Tears
    BY <1>3, <1>6, <2>3 DEF Loads, Makes, Frees, Tears
  <2>4. CASE InPlugger \/ LoadReturns
    BY <1>1, <1>3, <1>6, <2>4, InPluggerIs, AdvanceFacts DEF LoadReturns, Reg!Advance, PlaceInv
  <2> QED
    BY <2>1, <2>2, <2>3, <2>4, StepKinds
<1> QED
  BY <1>3, <1>4, <1>5, <1>6, EventMoves

-----------------------------------------------------------------------------
(* The end.                                                                *)

LEMMA EndStep ==
  ASSUME IInv, [Next]_vars
  PROVE  EndInv'
<1>1. /\ EndInv /\ PlaceInv /\ Reg!LibraryInv /\ Reg!TypeInv /\ step \in 1 .. 23
      /\ ~call[Main].warn
  BY StepTyped DEF IInv, MainInv, TypeOK, EndInv, Reg!LibraryInv
<1>2. Len(Script) = 22
  BY ScriptIs
<1>3. Exited' <=> step' > 22 /\ pc'[Main] = "idle"
  BY <1>2 DEF Exited, Ended, Script
<1>4. CASE Walks
  BY <1>1, <1>3, <1>4 DEF Walks, EndInv
<1>5. CASE Stands
  BY <1>1, <1>5 DEF Stands, EndInv, Exited, Ended
<1>6. CASE Loads \/ Makes \/ Frees \/ Tears
  BY <1>3, <1>6 DEF Loads, Makes, Frees, Tears, Entered, EndInv
<1>7. CASE InPlugger
  <2>1. Reg!Advance(Main) /\ UNCHANGED step
    BY <1>7, InPluggerIs DEF mainVars
  <2>2. pc[Main] # "idle" /\ call[Main].plugger = P
    BY <1>1, <2>1, AdvanceFacts
  <2>3. ~call'[Main].warn
    BY <1>1, <2>1, Reg!WarnStays, Constants
  <2>4. ASSUME Exited'
        PROVE  Reg!Present(libs'[P]) = {} /\ Reg!Present(handles'[P]) = {}
    <3>1. pc[Main] \in Reg!PcValues
      BY <1>1 DEF Reg!TypeInv
    <3>2. pc[Main] \in Reg!TearDown \ Reg!UnloadSteps
      BY <1>1, <1>3, <2>1, <2>2, <2>4, <3>1 DEF PlaceInv, Reg!PcValues, Reg!LoadSteps,
         Reg!MakeSteps, Reg!FreeSteps, Reg!UnloadSteps, Reg!TearDown
    <3>3. Reg!FreeForget(Main)
      BY <1>1, <1>3, <2>1, <2>4, <3>2, AdvancePlace
      DEF Reg!LoadReturns, Reg!SetHandle, Reg!FindHandle, Reg!DeleteHandle,
          Reg!UnloadForget, Reg!Goes, Reg!UnloadSteps, Reg!TearDown
    <3>4. libs'[P] = Reg!Empty(Names) /\ handles' = handles
      BY <1>1, <2>2, <3>3 DEF Reg!FreeForget, Reg!TypeInv
    <3>5. Reg!Present(handles[P]) = {}
      BY <1>1, <2>2, <3>3 DEF Reg!FreeForget, Reg!Goes, Reg!LibraryInv, Reg!TearInv, Reg!Left
    <3>6. Reg!Present(libs'[P]) = {}
      BY <3>4 DEF Reg!Present, Reg!Empty
    <3> QED
      BY <3>4, <3>5, <3>6
  <2> QED
    BY <2>3, <2>4 DEF EndInv, Reg!Present
<1>8. CASE LoadReturns
  <2>1. step = 2
    BY <1>1, <1>8 DEF LoadReturns, Reg!LoadReturns, Reg!Goes, PlaceInv, Reg!LoadSteps
  <2>2. step' = 3 /\ Reg!Advance(Main)
    BY <1>1, <1>8, <2>1 DEF LoadReturns, Reg!Advance
  <2>3. ~call'[Main].warn
    BY <1>1, <2>2, Reg!WarnStays, Constants
  <2> QED
    BY <1>3, <2>2, <2>3 DEF EndInv
<1> QED
  BY <1>4, <1>5, <1>6, <1>7, <1>8, StepKinds

-----------------------------------------------------------------------------
(* Types.                                                                  *)

LEMMA ParkMoves ==
  ASSUME [Next]_vars
  PROVE  \/ parked' \subseteq parked
         \/ \E i \in Ids : Listening(i) /\ parked' = parked \cup {i}
BY DEF Next, vars, mainVars, SetVersionSafe, Load, LoadFails, LoadReturns, NewPlugin,
   FreePlugin, Unload, Free, InPlugger, PassOver, Call, CallInstanceGone, SetEventHandler,
   Command, Listen, CommandReturns, Park, ListenerLost, Dies

LEMMA HandlerMoves ==
  ASSUME [Next]_vars
  PROVE  UNCHANGED handled \/ SetEventHandler
BY DEF Next, vars, mainVars, SetVersionSafe, Load, LoadFails, LoadReturns, NewPlugin,
   FreePlugin, Unload, Free, InPlugger, PassOver, Call, CallInstanceGone, Command, Listen,
   CommandReturns, Park, ListenerLost, Dies

LEMMA TypeStep ==
  ASSUME IInv, [Next]_vars
  PROVE  TypeOK'
<1>1. /\ Reg!LibraryInv /\ Reg!InstanceInv /\ Reg!TypeInv /\ PlaceInv
      /\ plugin \in [Names -> 0 .. MaxInstances]
      /\ handled \subseteq 1 .. MaxInstances /\ parked \subseteq 1 .. MaxInstances
      /\ event \in [at : {"none", "sent", "answered", "refused"}, of : 0 .. MaxInstances]
      /\ step \in 1 .. 23
  BY StepTyped DEF IInv, MainInv, TypeOK, Reg!LibraryInv
<1>2. Reg!TypeOK'
  BY PluggerKept, TypesFollow, PTL
<1>3. step' \in 1 .. Len(Script) + 1
  <2>1. Len(Script) = 22
    BY ScriptIs
  <2>2. Walks \/ Makes \/ Frees \/ Tears => step' = step + 1 /\ step <= 22
    BY DEF Walks, Makes, Frees, Tears
  <2>3. Stands \/ Loads \/ InPlugger => step' = step
    BY DEF Stands, Loads, InPlugger, mainVars
  <2>4. LoadReturns => step' = 23 \/ step' = 3
    BY <1>1, <2>1 DEF LoadReturns, Reg!LoadReturns, Reg!Goes, PlaceInv, Reg!LoadSteps
  <2> QED
    BY <1>1, <2>1, <2>2, <2>3, <2>4, StepKinds
<1>4. plugin' \in [Names -> 0 .. MaxInstances]
  <2>1. Makes => plugin' \in [Names -> 0 .. MaxInstances]
    BY <1>1 DEF Makes, Names
  <2>2. UNCHANGED plugin \/ Makes
    BY StepKinds DEF Walks, Stands, Loads, Frees, Tears, InPlugger, LoadReturns, mainVars
  <2> QED
    BY <1>1, <2>1, <2>2
<1>5. handled' \subseteq 1 .. MaxInstances
  <2>1. CASE SetEventHandler
    <3>1. Name \in Names /\ Handle # 0 /\ handled' = handled \cup {Handle}
      BY <2>1, AtOf DEF SetEventHandler
    <3>2. Handle \in 1 .. MaxInstances
      BY <1>1, <3>1, Constants DEF Handle
    <3> QED
      BY <1>1, <3>1, <3>2
  <2> QED
    BY <1>1, <2>1, HandlerMoves
<1>6. parked' \subseteq 1 .. MaxInstances
  <2>1. ASSUME NEW i \in Ids, Listening(i) PROVE i \in 1 .. MaxInstances
    <3>1. i \in Reg!Ids /\ i <= instanceId[P] /\ instanceId[P] \in 0 .. MaxInstances
      BY <1>1, <2>1, IdsOf DEF Listening, Reg!InstanceInv, Reg!IdsInv, Reg!GivenInv, Reg!TypeInv
    <3> QED
      BY <3>1, Constants DEF Ids
  <2> QED
    BY <1>1, <2>1, ParkMoves
<1>7. event' \in [at : {"none", "sent", "answered", "refused"}, of : 0 .. MaxInstances]
  <2>1. NoEvent \in [at : {"none", "sent", "answered", "refused"}, of : 0 .. MaxInstances]
    BY Constants DEF NoEvent
  <2>2. CASE Listen
    BY <1>1, <2>2 DEF Listen
  <2>3. CASE Command
    <3> DEFINE emitter == instMapByPlugin[Library][None]
    <3>1. Library \in Files
      BY <2>3, InUse DEF Command
    <3>2. emitter # None => emitter[2] \in 0 .. MaxInstances
      BY <3>1, EmitterIs
    <3>3. event' = IF emitter = None THEN [at |-> "refused", of |-> 0]
                                     ELSE [at |-> "sent", of |-> emitter[2]]
      BY <2>3 DEF Command
    <3> HIDE DEF emitter
    <3> QED
      BY <3>2, <3>3, Constants
  <2> QED
    BY <1>1, <2>1, <2>2, <2>3, EventMoves
<1> QED
  BY <1>2, <1>3, <1>4, <1>5, <1>6, <1>7 DEF TypeOK

-----------------------------------------------------------------------------
(* How the process dies.                                                   *)

LEMMA DeadStays == halted /\ [Next]_vars => UNCHANGED vars
BY DEF Next, At, SetVersionSafe, Load, LoadFails, LoadReturns, NewPlugin,
   FreePlugin, Unload, Free, InPlugger, PassOver, Call, CallInstanceGone, SetEventHandler,
   Command, Listen, CommandReturns, Park, ListenerLost,
   Reg!LoadReturns, Reg!OpenFile, Reg!Register, Reg!CallNewPlugin, Reg!SetHandle,
   Reg!FindHandle, Reg!CallFreePlugin, Reg!DeleteHandle, Reg!UnloadEach, Reg!UnloadDelete,
   Reg!UnloadClose, Reg!UnloadForget, Reg!FreeEach, Reg!FreeClear, Reg!FreeClose,
   Reg!FreeForget, Reg!Goes

LEMMA PluggerFiles ==
  ASSUME IInv, [Next]_vars
  PROVE  UNCHANGED files
<1>1. InPlugger \/ LoadReturns => Reg!Changes(Main)
  BY InPluggerIs, AdvanceFacts DEF IInv, LoadReturns, Reg!Advance
<1> QED
  BY <1>1, StepKinds DEF Walks, Stands, Loads, Makes, Frees, Tears, Entered, Reg!Changes

LEMMA DeathMoves ==
  ASSUME IInv, [Next]_vars, ~halted, halted'
  PROVE  \/ Reg!OpenFile(Main) /\ UNCHANGED mainVars
         \/ FreePlugin /\ Handle = 0 /\ Dies
         \/ CallInstanceGone
         \/ event.at = "refused"
         \/ \E i \in Ids : ListenerLost(i)
<1>1. CASE InPlugger
  <2>1. Reg!Advance(Main) /\ UNCHANGED mainVars
    BY <1>1, InPluggerIs
  <2>2. Reg!Changes(Main)
    BY <2>1, AdvanceFacts DEF IInv
  <2> QED
    BY <2>1, <2>2 DEF Reg!Changes
<1>2. CASE SetVersionSafe \/ Load \/ LoadFails \/ LoadReturns \/ NewPlugin \/ Unload \/ Free
  BY <1>2 DEF SetVersionSafe, Load, LoadFails, LoadReturns, NewPlugin, Unload, Free,
     Reg!SetVersionSafe, Reg!Load, Reg!LoadReturns, Reg!NewPlugin, Reg!Unload, Reg!Free,
     Reg!Begins, Reg!Goes, regVars
<1>3. CASE FreePlugin
  BY <1>3 DEF FreePlugin, Reg!FreePlugin, Reg!Begins
<1>4. CASE PassOver \/ Call \/ SetEventHandler \/ Command \/ CommandReturns \/ Listen
  BY <1>4 DEF PassOver, Call, SetEventHandler, Command, CommandReturns, Listen, regVars
<1>5. ASSUME NEW i \in Ids, Park(i) PROVE UNCHANGED halted
  BY <1>5 DEF Park, regVars
<1>6. CASE UNCHANGED vars
  BY <1>6 DEF vars, regVars
<1> QED
  BY <1>1, <1>2, <1>3, <1>4, <1>5, <1>6 DEF Next

LEMMA DiesStep ==
  ASSUME IInv, [Next]_vars
  PROVE  DiesOfNilOrLateListener'
<1>1. DiesOfNilOrLateListener
  BY DEF IInv
<1>2. CASE halted
  <2>1. UNCHANGED vars
    BY <1>2, DeadStays
  <2> QED
    BY <1>1, <2>1 DEF DiesOfNilOrLateListener, vars, regVars, mainVars, Sound, Listening,
       Alive, Ended
<1>3. SUFFICES ASSUME ~halted, halted', (\A f \in Files : Sound(f))'
               PROVE  \/ (~Ended /\ Script[step] = Do("free", "sample1")
                             /\ plugin["sample1"] = 0)'
                      \/ (\E i \in Ids : Listening(i) /\ ~Alive(i) /\ i \notin parked)'
  BY <1>2 DEF DiesOfNilOrLateListener
<1>4. \A f \in Files : Sound(f)
  BY <1>3, PluggerFiles DEF Sound
<1>5. CASE Reg!OpenFile(Main)
  <2>1. PICK f \in call[Main].todo : ~files[f].opens
    BY <1>3, <1>5 DEF Reg!OpenFile, Reg!Goes
  <2>2. f \in Files
    BY <2>1, Reg!CallFields, Constants DEF IInv, Reg!LibraryInv, Reg!TypeInv
  <2> QED
    BY <1>4, <2>1, <2>2 DEF Sound
<1>6. CASE FreePlugin /\ Handle = 0 /\ Dies
  <2>1. step = 11 /\ Name = "sample1" /\ UNCHANGED <<step, plugin>> /\ ~Ended
    BY <1>6, AtOf DEF FreePlugin, Dies, mainVars, At
  <2>2. Script[11] = Do("free", "sample1")
    BY DEF Script
  <2>3. plugin["sample1"] = 0
    BY <1>6, <2>1 DEF Handle
  <2> QED
    BY <2>1, <2>2, <2>3 DEF Ended
<1>7. ~CallInstanceGone
  BY <1>4, SoundInstance DEF CallInstanceGone
<1>8. event.at # "refused"
  BY <1>4 DEF IInv, MainInv, EventInv
<1>9. ASSUME NEW i \in Ids, ListenerLost(i)
      PROVE  (\E j \in Ids : Listening(j) /\ ~Alive(j) /\ j \notin parked)'
  <2>1. /\ Listening(i) /\ ~Alive(i) /\ i \notin parked
        /\ UNCHANGED <<given, instMap, parked>>
    BY <1>9 DEF ListenerLost, Dies, mainVars
  <2> QED
    BY <2>1 DEF Listening, Alive
<1> QED
  BY <1>3, <1>5, <1>6, <1>7, <1>8, <1>9, DeathMoves

-----------------------------------------------------------------------------
(* The invariant, and what follows.                                        *)

LEMMA InitIInv == Init => IInv
<1> SUFFICES ASSUME Init PROVE IInv
  OBVIOUS
<1>1. Reg!LibraryInv /\ Reg!InstanceInv /\ Reg!TablesInv /\ Reg!EmitterFindsOwn
  BY LibraryInit, InstanceInit DEF Init
<1>2. /\ pc[Main] = "idle" /\ ~halted /\ ~call[Main].warn
      /\ handles[P] = Reg!Empty(Ids)
  BY IdsOf DEF Init, Reg!Init, Reg!NoCall
<1>3. Len(Script) = 22
  BY ScriptIs
<1>4. TypeOK
  <2>1. Reg!TypeOK
    BY <1>1, TypesFollow
  <2>2. NoEvent \in [at : {"none", "sent", "answered", "refused"}, of : 0 .. MaxInstances]
    BY Constants DEF NoEvent
  <2>3. [n \in Names |-> 0] \in [Names -> 0 .. MaxInstances]
    BY Constants
  <2> QED
    BY <1>3, <2>1, <2>2, <2>3 DEF Init, TypeOK
<1>5. \A i \in Ids, n \in Names : ~Held(i, n)
  BY <1>2 DEF Held, Reg!Empty, Reg!MakeSteps
<1>6. PlaceInv
  BY <1>2 DEF Init, PlaceInv, Reg!LoadSteps, Reg!MakeSteps, Reg!FreeSteps, Reg!UnloadSteps,
     Reg!TearDown
<1>7. PluginInv
  BY <1>2, <1>5 DEF Init, PluginInv, Names, Reg!FreeSteps
<1>8. EventInv /\ EndInv
  BY <1>2, <1>3 DEF Init, EventInv, NoEvent, EndInv, Exited, Ended
<1> QED
  BY <1>1, <1>2, <1>4, <1>6, <1>7, <1>8
  DEF IInv, MainInv, EmitterFindsOwn, DiesOfNilOrLateListener

LEMMA NextIInv == IInv /\ [Next]_vars => IInv'
<1> SUFFICES ASSUME IInv, [Next]_vars PROVE IInv'
  OBVIOUS
<1>1. Reg!LibraryInv' /\ Reg!InstanceInv' /\ Reg!TablesInv' /\ EmitterFindsOwn'
  BY PluggerKept, EmitterStep
<1>2. TypeOK' /\ DiesOfNilOrLateListener'
  BY TypeStep, DiesStep
<1>3. MainInv'
  BY PlaceStep, PluginStep, EventStep, EndStep DEF MainInv
<1> QED
  BY <1>1, <1>2, <1>3 DEF IInv

LEMMA Invariant == Spec => []IInv
BY InitIInv, NextIInv, PTL DEF Spec

\* main's variables have their types, and only handles get an event handler,
\* whatever libraries are in the directory.
THEOREM ExampleTypeCorrect == Spec => []TypeOK
<1>1. IInv => TypeOK
  BY DEF IInv
<1> QED
  BY Invariant, <1>1, PTL

\* Though the values of the samples are all equal, EventEmit finds the right
\* instance: main has one in a library at a time.
THEOREM ExampleEmitterFindsOwn == Spec => []EmitterFindsOwn
<1>1. IInv => EmitterFindsOwn
  BY DEF IInv
<1> QED
  BY Invariant, <1>1, PTL

\* Of sound libraries the process dies only in FreePlugin of a nil plugin1 and
\* of a listener that is late: no Command waits for an event that is refused,
\* and no call finds its instance gone.
THEOREM ExampleDeaths == Spec => []DiesOfNilOrLateListener
<1>1. IInv => DiesOfNilOrLateListener
  BY DEF IInv
<1> QED
  BY Invariant, <1>1, PTL

\* When main ends, its Free has left no library open, no handle and no
\* instance, of sound libraries and others.
THEOREM ExampleLeavesNothing == Spec => []LeavesNothing
<1>1. IInv => LeavesNothing
  <2> SUFFICES ASSUME IInv, Exited PROVE
             /\ ~stray
             /\ \A f \in Files : opens[f] = 0 /\ Reg!Present(instMap[f]) = {}
             /\ Reg!Present(libs[P]) = {} /\ Reg!Present(handles[P]) = {}
    BY DEF LeavesNothing
  <2>1. /\ Reg!LibraryInv /\ Reg!InstanceInv /\ Reg!TablesInv /\ Reg!TypeInv
        /\ pc[Main] = "idle"
        /\ Reg!Present(libs[P]) = {} /\ Reg!Present(handles[P]) = {}
    BY DEF IInv, MainInv, EndInv, Exited, Reg!LibraryInv
  <2>2. ~stray
    BY <2>1 DEF Reg!LibraryInv, Reg!NoStrayCall
  <2>3. ASSUME NEW f \in Files PROVE opens[f] = 0
    <3>1. Reg!Holders(f) = {}
      BY <2>1, Constants DEF Reg!Holders, Reg!Holds, Reg!Present, Reg!TypeInv
    <3>2. Reg!Loaders(f) = {}
      BY <2>1 DEF Reg!Loaders
    <3> QED
      BY <2>1, <3>1, <3>2, Reg!UnusedIsClosed, Constants
  <2>4. ASSUME NEW f \in Files, NEW i \in Reg!Present(instMap[f]) PROVE FALSE
    <3>1. i \in Ids /\ i \in Reg!Ids /\ instMap[f][i] # None
      BY <2>1, IdsOf DEF Reg!Present, Reg!TypeInv
    <3>2. instMap[f][i] = <<P, i>>
      BY <2>1, <3>1 DEF Reg!TablesInv
    <3>3. Held(i, files[f].name)
      BY <2>1, <3>1, <3>2, InstanceHeld
    <3>4. handles[P][i] # None
      BY <2>1, <3>3 DEF Held, Reg!MakeSteps
    <3> QED
      BY <2>1, <3>1, <3>4 DEF Reg!Present, Reg!TypeInv
  <2> QED
    BY <2>1, <2>2, <2>3, <2>4
<1> QED
  BY Invariant, <1>1, PTL
=============================================================================
