-------------------------- MODULE LifecycleProofs --------------------------
(***************************************************************************)
(* A Plugger whose Unload and Free nothing overlaps implements Lifecycle:  *)
(* every step under one of its locks is a step of a library's or an        *)
(* instance's life, or none that the application can see.                  *)
(***************************************************************************)
EXTENDS RegistryProofs

-----------------------------------------------------------------------------
(* What is observed.                                                       *)

Single == OnePlugger /\ Pluggers # {}

LEMMA ObservedPlugger ==
  ASSUME Single
  PROVE  Observed \in Pluggers /\ \A p \in Pluggers : p = Observed
BY DEF Single, OnePlugger, Observed

\* Whether the library has the instance.
Alive(f, i) == instMap[f][i] = <<Observed, i>>

\* The slot of an instance that was never made.
Fresh(i) == i > instanceId[Observed] \/ Making(i)

\* An instance lives in one library.
LEMMA LivesInOne ==
  ASSUME Single, LibraryInv, InstanceInv, NEW i \in Ids
  PROVE  \A f, g \in Files : Alive(f, i) /\ Alive(g, i) => f = g
<1> SUFFICES ASSUME NEW f \in Files, NEW g \in Files, Alive(f, i), Alive(g, i) PROVE f = g
  OBVIOUS
<1> DEFINE p == Observed
           Registered(h) == handles[p][i] # None /\ handles[p][i].lib = h
           Maker(w, h) == pc[w] = "setHandle" /\ call[w].plugger = p /\ call[w].id = i
                            /\ call[w].lib = h
<1>1. p \in Pluggers
  BY ObservedPlugger
<1>2. \A h \in Files : Alive(h, i) => Registered(h) \/ \E w \in Users : Maker(w, h)
  BY <1>1 DEF InstanceInv, NoOrphans, Alive
<1>3. ASSUME NEW w \in Users, NEW h, Maker(w, h) PROVE handles[p][i] = None
  <2>1. given[p][i] = None
    BY <1>3 DEF InstanceInv, IdsInv, OwnId, MakeSteps
  <2>2. i \in Present(handles[p]) => handles[p][i].name = None /\ handles[p][i] \in Handles
    BY <1>1, <2>1 DEF InstanceInv, IdsInv, GivenInv, LibraryInv, TypeInv, Present
  <2>3. \A x \in Handles : x.name \in Names
    BY DEF Handles
  <2> QED
    BY <1>1, <2>2, <2>3, Constants DEF Present, LibraryInv, TypeInv
<1>4. ASSUME NEW w \in Users, NEW v \in Users, Maker(w, f), Maker(v, g) PROVE w = v
  BY <1>4 DEF InstanceInv, IdsInv, OwnId, MakeSteps
<1> QED
  BY <1>2, <1>3, <1>4

\* What Life says of an instance, before a step and after it.
LEMMA LifeIs ==
  ASSUME NEW i \in Ids, \A f, g \in Files : Alive(f, i) /\ Alive(g, i) => f = g
  PROVE  /\ \A f \in Files : Alive(f, i) => Life[i] = f
         /\ (\A f \in Files : ~Alive(f, i)) => Life[i] = IF Fresh(i) THEN "unused" ELSE "over"
BY DEF Life, Alive, Fresh

LEMMA LifeBecomes ==
  ASSUME NEW i \in Ids, \A f, g \in Files : Alive(f, i)' /\ Alive(g, i)' => f = g
  PROVE  /\ \A f \in Files : Alive(f, i)' => Life'[i] = f
         /\ (\A f \in Files : ~Alive(f, i)') =>
              Life'[i] = IF Fresh(i)' THEN "unused" ELSE "over"
BY DEF Life, Alive, Fresh

LEMMA LifeInFiles ==
  ASSUME Single, LibraryInv, InstanceInv, NEW i \in Ids, NEW f \in Files
  PROVE  Life[i] = f <=> Alive(f, i)
<1>1. \A g, h \in Files : Alive(g, i) /\ Alive(h, i) => g = h
  BY LivesInOne
<1>2. "unused" \notin Files /\ "over" \notin Files
  BY EntriesAssumption
<1> QED
  BY <1>1, <1>2, LifeIs

\* The life of an instance goes on when no library gains or loses it.
LEMMA LifeGoesOn ==
  ASSUME Single, LibraryInv, InstanceInv, NEW i \in Ids,
         \A f \in Files : Alive(f, i)' <=> Alive(f, i),
         Fresh(i)' <=> Fresh(i)
  PROVE  Life'[i] = Life[i]
<1>1. \A f, g \in Files : Alive(f, i) /\ Alive(g, i) => f = g
  BY LivesInOne
<1>2. \A f, g \in Files : Alive(f, i)' /\ Alive(g, i)' => f = g
  BY <1>1
<1> QED
  BY <1>1, <1>2, LifeIs, LifeBecomes

LEMMA LifeIsFunction ==
  /\ DOMAIN Life = Ids /\ DOMAIN Life' = Ids /\ Life = [i \in Ids |-> Life[i]]
  /\ (\A i \in Ids : Life'[i] = Life[i]) => Life' = Life
BY DEF Life

LEMMA LoadedIsFunction ==
  /\ DOMAIN Loaded = Names /\ DOMAIN Loaded' = Names
  /\ \A n \in Names : Loaded[n] = IF TornDown(n) THEN None ELSE libs[Observed][n]
  /\ \A n \in Names : Loaded'[n] = IF TornDown(n)' THEN None ELSE libs'[Observed][n]
  /\ (\A n \in Names : Loaded'[n] = Loaded[n]) => Loaded' = Loaded
BY DEF Loaded, Observed

-----------------------------------------------------------------------------
(* What a step changes of it.                                              *)

LEMMA AliveAfter ==
  ASSUME Single, LibraryInv, NEW u \in Users, Advance(u), NEW f \in Files, NEW i \in Ids
  PROVE  /\ Alive(f, i)' <=> Made(u, f, i) \/ (Alive(f, i) /\ ~Deleted(u, f, i))
         /\ call[u].plugger = Observed
         /\ ~(Made(u, f, i) /\ Deleted(u, f, i))
<1>1. call[u].plugger = Observed
  <2>1. pc[u] # "idle"
    BY DEF Advance, OpenFile, Register, LoadReturns, CallNewPlugin, SetHandle, FindHandle,
           CallFreePlugin, DeleteHandle, UnloadEach, UnloadDelete, UnloadClose, UnloadForget,
           FreeEach, FreeClear, FreeClose, FreeForget, Goes
  <2> QED
    BY <2>1, ObservedPlugger DEF LibraryInv, CallInv, InHand
<1>2. None # <<Observed, i>>
  BY ObservedPlugger, Constants DEF Instances
<1>3. instMap'[f][i] = IF Made(u, f, i) THEN <<Observed, i>>
                       ELSE IF Deleted(u, f, i) THEN None ELSE instMap[f][i]
  BY <1>1, InstancesEntries DEF LibraryInv
<1>4. ~(Made(u, f, i) /\ Deleted(u, f, i))
  BY DEF Made, Deleted, CallNewPlugin, CallFreePlugin, UnloadEach, FreeEach, Goes
<1>5. Alive(f, i)' <=> instMap'[f][i] = <<Observed, i>>
  BY DEF Alive, Observed
<1> QED
  BY <1>1, <1>2, <1>3, <1>4, <1>5 DEF Alive

LEMMA FreshAfter ==
  ASSUME Single, LibraryInv, InstanceInv, NEW u \in Users, Advance(u), NEW i \in Ids
  PROVE  IF CallNewPlugin(u) /\ i = call[u].id THEN Fresh(i) /\ ~Fresh(i)'
                                                ELSE Fresh(i)' <=> Fresh(i)
<1> DEFINE Makes(w) == pc[w] = "callNew" /\ call[w].plugger = Observed /\ call[w].id = i
<1>1. OthersStay(u) /\ KeepsCall(u) /\ Arrives(u) /\ UNCHANGED instanceId
  BY AdvanceMovesOne, AdvanceKeepsCall, AdvanceArrives, AdvanceChanges DEF Changes, LibraryInv
<1>2. \A w \in Users : Makes(w)' <=> w # u /\ Makes(w)
  BY <1>1 DEF OthersStay, Arrives, Observed
<1>3. /\ Fresh(i) <=> i > instanceId[Observed] \/ \E w \in Users : Makes(w)
      /\ Fresh(i)' <=> i > instanceId[Observed] \/ \E w \in Users : Makes(w)'
  BY <1>1 DEF Fresh, Making, Observed
<1>4. CASE CallNewPlugin(u) /\ i = call[u].id
  <2>1. Makes(u) /\ call[u].plugger \in Pluggers
    BY <1>4, ObservedPlugger DEF CallNewPlugin, Goes, LibraryInv, CallInv, InHand
  <2>2. /\ i <= instanceId[Observed]
        /\ \A w \in Users \ {u} : ~Makes(w)
    BY <1>4, <2>1 DEF InstanceInv, IdsInv, OwnId, MakeSteps
  <2>3. i \in Nat /\ instanceId[Observed] \in Nat
    BY ObservedPlugger, Constants DEF LibraryInv, TypeInv
  <2> QED
    BY <1>2, <1>3, <1>4, <2>1, <2>2, <2>3
<1>5. CASE ~(CallNewPlugin(u) /\ i = call[u].id)
  <2>1. ~Makes(u)
    <3>1. pc[u] = "callNew" => CallNewPlugin(u)
      BY DEF Advance, OpenFile, Register, LoadReturns, CallNewPlugin, SetHandle, FindHandle,
             CallFreePlugin, DeleteHandle, UnloadEach, UnloadDelete, UnloadClose,
             UnloadForget, FreeEach, FreeClear, FreeClose, FreeForget, Goes
    <3> QED
      BY <1>5, <3>1
  <2> QED
    BY <1>2, <1>3, <1>5, <2>1
<1> QED
  BY <1>4, <1>5

\* Only the pass over the handles unloads a library.
LEMMA TornDownAfter ==
  ASSUME Single, LibraryInv, NEW u \in Users, Advance(u), NEW n \in Names
  PROVE  /\ UnloadEach(u) => /\ ~TornDown(n)
                             /\ TornDown(n)' <=> n = call[u].name
         /\ FreeEach(u) => ~TornDown(n) /\ TornDown(n)'
         /\ UnloadForget(u) => /\ ~TornDown(n)'
                               /\ TornDown(n) <=> n = call[u].name
         /\ FreeForget(u) => TornDown(n) /\ ~TornDown(n)'
         /\ ~(UnloadEach(u) \/ FreeEach(u) \/ UnloadForget(u) \/ FreeForget(u)) =>
              (TornDown(n)' <=> TornDown(n))
<1> DEFINE Tears(w) == \/ pc[w] \in {"freeClear", "freeClose", "freeForget"}
                       \/ /\ pc[w] \in {"unloadDelete", "unloadClose", "unloadForget"}
                          /\ call[w].name = n
<1>1. OthersStay(u) /\ KeepsCall(u) /\ Arrives(u) /\ pc[u] # "idle"
  BY AdvanceMovesOne, AdvanceKeepsCall, AdvanceArrives DEF LibraryInv, KeepsCall
<1>2. \A w \in Users : Tears(w) => call[w].plugger = Observed
  BY ObservedPlugger DEF LibraryInv, CallInv, InHand
<1>3. \A w \in Users : Tears(w)' => call'[w].plugger = Observed
  <2>1. ASSUME NEW w \in Users, Tears(w)' PROVE call'[w].plugger = Observed
    <3>1. CASE w = u
      BY <1>1, <2>1, <3>1, ObservedPlugger DEF KeepsCall, LibraryInv, CallInv, InHand
    <3>2. CASE w # u
      BY <1>1, <1>2, <2>1, <3>2 DEF OthersStay
    <3> QED
      BY <3>1, <3>2
  <2> QED
    BY <2>1
<1>4. /\ TornDown(n) <=> \E w \in Users : Tears(w)
      /\ TornDown(n)' <=> \E w \in Users : Tears(w)'
  BY <1>2, <1>3 DEF TornDown, Observed
<1>5. \A w \in Users \ {u} : Tears(w)' <=> Tears(w)
  BY <1>1 DEF OthersStay
<1>6. pc[u] \in TearDown => \A w \in Users \ {u} : ~Tears(w)
  BY <1>1, TearsAlone DEF Single
<1>7. CASE UnloadEach(u)
  <2>1. ~Tears(u) /\ (Tears(u)' <=> n = call[u].name) /\ pc[u] \in TearDown
    BY <1>1, <1>7 DEF UnloadEach, Goes, KeepsCall, TearDown, LibraryInv, TypeInv
  <2>2. ~FreeEach(u) /\ ~UnloadForget(u) /\ ~FreeForget(u)
    BY <1>7 DEF UnloadEach, FreeEach, UnloadForget, FreeForget, Goes
  <2> QED
    BY <1>4, <1>5, <1>6, <1>7, <2>1, <2>2
<1>8. CASE FreeEach(u)
  <2>1. ~Tears(u) /\ Tears(u)' /\ pc[u] \in TearDown
    BY <1>1, <1>8 DEF FreeEach, Goes, KeepsCall, TearDown, LibraryInv, TypeInv
  <2>2. ~UnloadEach(u) /\ ~UnloadForget(u) /\ ~FreeForget(u)
    BY <1>8 DEF UnloadEach, FreeEach, UnloadForget, FreeForget, Goes
  <2> QED
    BY <1>4, <1>5, <1>6, <1>8, <2>1, <2>2
<1>9. CASE UnloadForget(u)
  <2>1. (Tears(u) <=> n = call[u].name) /\ ~Tears(u)' /\ pc[u] \in TearDown
    BY <1>1, <1>9 DEF UnloadForget, Goes, TearDown, LibraryInv, TypeInv
  <2>2. ~UnloadEach(u) /\ ~FreeEach(u) /\ ~FreeForget(u)
    BY <1>9 DEF UnloadEach, FreeEach, UnloadForget, FreeForget, Goes
  <2> QED
    BY <1>4, <1>5, <1>6, <1>9, <2>1, <2>2
<1>10. CASE FreeForget(u)
  <2>1. Tears(u) /\ ~Tears(u)' /\ pc[u] \in TearDown
    BY <1>1, <1>10 DEF FreeForget, Goes, TearDown, LibraryInv, TypeInv
  <2>2. ~UnloadEach(u) /\ ~FreeEach(u) /\ ~UnloadForget(u)
    BY <1>10 DEF UnloadEach, FreeEach, UnloadForget, FreeForget, Goes
  <2> QED
    BY <1>4, <1>5, <1>6, <1>10, <2>1, <2>2
<1>11. CASE ~(UnloadEach(u) \/ FreeEach(u) \/ UnloadForget(u) \/ FreeForget(u))
  <2>1. CASE UnloadDelete(u) \/ UnloadClose(u)
    BY <1>1, <1>4, <1>5, <1>11, <2>1
    DEF UnloadDelete, UnloadClose, Goes, KeepsCall, LibraryInv, TypeInv
  <2>2. CASE FreeClear(u) \/ FreeClose(u)
    BY <1>1, <1>4, <1>5, <1>11, <2>2 DEF FreeClear, FreeClose, Goes, LibraryInv, TypeInv
  <2>3. CASE ~(UnloadDelete(u) \/ UnloadClose(u) \/ FreeClear(u) \/ FreeClose(u))
    <3>1. pc[u] \notin TearDown
      BY <1>11, <2>3
      DEF Advance, OpenFile, Register, LoadReturns, CallNewPlugin, SetHandle, FindHandle,
          CallFreePlugin, DeleteHandle, TearDown, Goes
    <3>2. ~Tears(u) /\ ~Tears(u)'
      BY <1>1, <3>1 DEF KeepsCall, TearDown
    <3> QED
      BY <1>4, <1>5, <1>11, <3>2
  <2> QED
    BY <2>1, <2>2, <2>3
<1> QED
  BY <1>7, <1>8, <1>9, <1>10, <1>11

-----------------------------------------------------------------------------
(* Every step is one of Lifecycle, or stutters.                            *)

LEMMA LoadedStays ==
  ASSUME Single, LibraryInv, NEW u \in Users, Advance(u),
         ~Register(u), ~UnloadEach(u), ~FreeEach(u)
  PROVE  Loaded' = Loaded
<1> SUFFICES ASSUME NEW n \in Names PROVE Loaded'[n] = Loaded[n]
  BY LoadedIsFunction
<1>1. \/ libs'[Observed][n] = libs[Observed][n]
      \/ FreeForget(u) \/ (UnloadForget(u) /\ n = call[u].name)
  BY ObservedPlugger, LibsEntries DEF LibraryInv
<1>2. \/ TornDown(n)' <=> TornDown(n)
      \/ FreeForget(u) \/ (UnloadForget(u) /\ n = call[u].name)
  BY TornDownAfter
<1>3. FreeForget(u) \/ (UnloadForget(u) /\ n = call[u].name) =>
        libs'[Observed][n] = None /\ TornDown(n)
  <2>1. ASSUME FreeForget(u) PROVE libs'[Observed][n] = None
    <3>1. libs' = [libs EXCEPT ![Observed] = Empty(Names)]
      BY <2>1, ObservedPlugger DEF FreeForget, Goes, LibraryInv, CallInv, InHand
    <3> QED
      BY <3>1, ObservedPlugger DEF Empty, LibraryInv, TypeInv
  <2>2. ASSUME UnloadForget(u), n = call[u].name PROVE libs'[Observed][n] = None
    <3>1. libs' = [libs EXCEPT ![Observed][n] = None]
      BY <2>2, ObservedPlugger DEF UnloadForget, Goes, LibraryInv, CallInv, InHand
    <3> QED
      BY <3>1, ObservedPlugger DEF LibraryInv, TypeInv
  <2> QED
    BY <2>1, <2>2, TornDownAfter
<1> QED
  BY <1>1, <1>2, <1>3, LoadedIsFunction

LEMMA LifeStays ==
  ASSUME Single, LibraryInv, InstanceInv, NEW u \in Users, Advance(u),
         ~CallNewPlugin(u), ~CallFreePlugin(u), ~UnloadEach(u), ~FreeEach(u)
  PROVE  Life' = Life
<1> SUFFICES ASSUME NEW i \in Ids PROVE Life'[i] = Life[i]
  BY LifeIsFunction
<1>1. \A f \in Files : Alive(f, i)' <=> Alive(f, i)
  BY AliveAfter DEF Made, Deleted
<1> QED
  BY <1>1, FreshAfter, LifeGoesOn

LEMMA RegisterLoads ==
  ASSUME Single, LibraryInv, InstanceInv, NEW u \in Users, Register(u), Advance(u)
  PROVE  Promise!vars' = Promise!vars \/ \E n \in Names, f \in Files :
                                           Promise!Load(n, f) /\ UNCHANGED halted
<1> DEFINE f == call[u].lib
           m == files[f].name
<1>1. Life' = Life
  BY LifeStays DEF Register, CallNewPlugin, CallFreePlugin, UnloadEach, FreeEach, Goes
<1>2. /\ UNCHANGED halted /\ f \in Files
      /\ ~UnloadForget(u) /\ ~FreeForget(u) /\ ~UnloadEach(u) /\ ~FreeEach(u)
      /\ pc[u] # "idle" /\ pc[u] \notin TearDown
  BY DEF Register, UnloadForget, FreeForget, UnloadEach, FreeEach, Goes, LibraryInv, CallInv,
         InHand, TearDown
<1>3. ASSUME NEW n \in Names PROVE ~TornDown(n) /\ ~TornDown(n)'
  <2>1. ~TornDown(n)
    BY <1>2, TearsAlone, ObservedPlugger DEF TornDown, TearDown, Single
  <2> QED
    BY <1>2, <2>1, TornDownAfter
<1>4. \A n \in Names : \/ libs'[Observed][n] = libs[Observed][n]
                       \/ n = m /\ libs[Observed][n] = None /\ libs'[Observed][n] = f
  BY <1>2, ObservedPlugger, LibsEntries DEF LibraryInv
<1>5. CASE \A n \in Names : libs'[Observed][n] = libs[Observed][n]
  <2>1. Loaded' = Loaded
    BY <1>3, <1>5, LoadedIsFunction
  <2> QED
    BY <1>1, <1>2, <2>1 DEF Promise!vars
<1>6. CASE \E n \in Names : libs'[Observed][n] # libs[Observed][n]
  <2>1. m \in Names /\ libs[Observed][m] = None /\ libs'[Observed][m] = f
    BY <1>4, <1>6
  <2>2. Loaded[m] = None
    BY <1>3, <2>1, LoadedIsFunction
  <2>3. \A n \in Names : Loaded'[n] = IF n = m THEN f ELSE Loaded[n]
    BY <1>3, <1>4, <2>1, LoadedIsFunction
  <2>4. Loaded' = [Loaded EXCEPT ![m] = f]
    BY <2>1, <2>3 DEF Loaded
  <2> QED
    BY <1>1, <1>2, <2>1, <2>2, <2>4 DEF Promise!Load
<1> QED
  BY <1>5, <1>6

LEMMA NewPluginMakes ==
  ASSUME Single, LibraryInv, InstanceInv, NEW u \in Users, CallNewPlugin(u), Advance(u)
  PROVE  \E i \in Ids : Promise!Refuse(i) \/ \E n \in Names : Promise!Make(i, n)
<1> DEFINE c == call[u]
           f == c.lib
<1>0. PICK i \in Ids : i = c.id
  BY DEF CallNewPlugin, Goes, LibraryInv, CallInv, InHand, MakeSteps
<1>1. /\ i = c.id /\ f \in Files /\ c.name \in Names
      /\ libs[Observed][c.name] = f /\ c.plugger = Observed
  BY <1>0, ObservedPlugger DEF CallNewPlugin, Goes, LibraryInv, CallInv, InHand, MakeSteps
<1>2. /\ ~Register(u) /\ ~UnloadEach(u) /\ ~FreeEach(u) /\ ~CallFreePlugin(u)
      /\ pc[u] # "idle" /\ pc[u] \notin TearDown /\ pc[u] \in MakeSteps
  BY DEF CallNewPlugin, Register, CallFreePlugin, UnloadEach, FreeEach, Goes, TearDown, MakeSteps
<1>3. Loaded' = Loaded
  BY <1>2, LoadedStays
<1>4. Loaded[c.name] = f
  <2>1. ~TornDown(c.name)
    BY <1>2, TearsAlone, ObservedPlugger DEF TornDown, TearDown, Single
  <2> QED
    BY <1>1, <2>1, LoadedIsFunction
\* The id is nobody's yet.
<1>5. ASSUME NEW g \in Files PROVE ~Alive(g, i)
  <2>1. given[Observed][i] = None /\ \A w \in Users \ {u} :
          pc[w] \in MakeSteps /\ call[w].plugger = Observed => call[w].id # i
    BY <1>1, <1>2 DEF InstanceInv, IdsInv, OwnId
  <2>2. handles[Observed][i] = None
    <3>1. i \in Present(handles[Observed]) =>
            handles[Observed][i].name = None /\ handles[Observed][i] \in Handles
      BY <1>1, <2>1, ObservedPlugger
      DEF InstanceInv, IdsInv, GivenInv, LibraryInv, TypeInv, Present
    <3>2. \A x \in Handles : x.name \in Names
      BY DEF Handles
    <3> QED
      BY <1>1, <3>1, <3>2, Constants, ObservedPlugger DEF Present, LibraryInv, TypeInv
  <2>3. \A w \in Users : ~(pc[w] = "setHandle" /\ call[w].plugger = Observed /\ call[w].id = i)
    BY <1>2, <2>1 DEF MakeSteps, CallNewPlugin, Goes
  <2> QED
    BY <1>1, <2>2, <2>3, ObservedPlugger DEF InstanceInv, NoOrphans, Alive
<1>6. Fresh(i) /\ ~Fresh(i)'
  BY <1>1, FreshAfter
<1>7. Life[i] = "unused"
  BY <1>1, <1>5, <1>6, LifeIs
<1>8. \A g \in Files, j \in Ids :
        Alive(g, j)' <=> (files[f].makes /\ g = f /\ j = i) \/ Alive(g, j)
  BY <1>1, <1>2, AliveAfter DEF Made, Deleted
<1>9. \A j \in Ids \ {i} : Life'[j] = Life[j]
  BY <1>1, <1>8, FreshAfter, LifeGoesOn
<1>10. CASE files[f].makes
  <2>1. Life'[i] = f
    BY <1>1, <1>5, <1>8, <1>10, LifeBecomes
  <2>2. Life' = [Life EXCEPT ![i] = f]
    BY <1>1, <1>9, <2>1 DEF Life
  <2> QED
    BY <1>1, <1>3, <1>4, <1>7, <2>2, Constants DEF Promise!Make
<1>11. CASE ~files[f].makes
  <2>1. Life'[i] = "over"
    BY <1>1, <1>5, <1>6, <1>8, <1>11, LifeBecomes
  <2>2. Life' = [j \in Ids |-> IF j \in {i} THEN "over" ELSE Life[j]]
    BY <1>1, <1>9, <2>1 DEF Life
  <2> QED
    BY <1>1, <1>3, <1>7, <2>2 DEF Promise!Refuse, Promise!End
<1> QED
  BY <1>10, <1>11

\* What ends goes from the library it lives in.
LEMMA LivesEnd ==
  ASSUME Single, LibraryInv, InstanceInv, NEW u \in Users, Advance(u), ~CallNewPlugin(u),
         NEW ended \in SUBSET Ids,
         \A i \in Ids : i \in ended <=> \E f \in Files : Alive(f, i) /\ Deleted(u, f, i),
         \A i \in ended : ~Fresh(i)
  PROVE  Promise!End(ended)
<1>1. ASSUME NEW i \in Ids PROVE Life'[i] = IF i \in ended THEN "over" ELSE Life[i]
  <2>1. \A f \in Files : Alive(f, i)' <=> Alive(f, i) /\ ~Deleted(u, f, i)
    BY AliveAfter DEF Made
  <2>2. Fresh(i)' <=> Fresh(i)
    BY FreshAfter
  <2>3. \A f, g \in Files : Alive(f, i) /\ Alive(g, i) => f = g
    BY LivesInOne
  <2>4. CASE i \in ended
    <3>1. \A f \in Files : ~Alive(f, i)'
      BY <2>1, <2>3, <2>4
    <3> QED
      BY <2>2, <2>4, <3>1, LifeBecomes
  <2>5. CASE i \notin ended
    <3>1. \A f \in Files : Alive(f, i)' <=> Alive(f, i)
      BY <2>1, <2>5
    <3> QED
      BY <2>2, <2>5, <3>1, LifeGoesOn
  <2> QED
    BY <2>4, <2>5
<1> QED
  BY <1>1 DEF Promise!End, Life

\* The handle of an instance tells that it was made.
LEMMA HandledNotFresh ==
  ASSUME Single, LibraryInv, InstanceInv, NEW i \in Ids, given[Observed][i] # None
  PROVE  ~Fresh(i)
<1>1. i <= instanceId[Observed] /\ i \in Nat /\ instanceId[Observed] \in Nat
  BY ObservedPlugger, Constants DEF InstanceInv, IdsInv, GivenInv, LibraryInv, TypeInv
<1>2. ~Making(i)
  BY DEF Making, InstanceInv, IdsInv, OwnId, MakeSteps
<1> QED
  BY <1>1, <1>2 DEF Fresh

LEMMA RegisteredNotFresh ==
  ASSUME Single, LibraryInv, InstanceInv, NEW i \in Ids, handles[Observed][i] # None
  PROVE  /\ ~Fresh(i) /\ handles[Observed][i] \in Handles
         /\ libs[Observed][handles[Observed][i].name] = handles[Observed][i].lib
<1>1. i \in Present(handles[Observed]) /\ handles[Observed][i] \in Handles
  BY ObservedPlugger DEF Present, LibraryInv, TypeInv
<1>2. handles[Observed][i].name = given[Observed][i]
  BY <1>1, ObservedPlugger DEF InstanceInv, IdsInv, GivenInv
<1>3. handles[Observed][i].name # None
  BY <1>1, Constants DEF Handles
<1> QED
  BY <1>1, <1>2, <1>3, HandledNotFresh, ObservedPlugger DEF LibraryInv, HandlesInv

LEMMA FreePluginDisposes ==
  ASSUME Single, LibraryInv, InstanceInv, NEW u \in Users, CallFreePlugin(u), Advance(u)
  PROVE  Promise!vars' = Promise!vars \/ \E i \in Ids : Promise!Dispose(i) /\ UNCHANGED halted
<1> DEFINE f == call[u].lib
<1>1. PICK i \in Ids : i = call[u].id
  BY DEF CallFreePlugin, Goes, LibraryInv, CallInv, InHand, FreeSteps
<1>2. f \in Files /\ call[u].plugger = Observed /\ given[Observed][i] # None /\ UNCHANGED halted
  BY <1>1, ObservedPlugger
  DEF CallFreePlugin, Goes, LibraryInv, CallInv, InHand, FreeSteps, InstanceInv, IdsInv, OwnId
<1>3. /\ ~Register(u) /\ ~UnloadEach(u) /\ ~FreeEach(u) /\ ~CallNewPlugin(u)
  BY DEF CallNewPlugin, Register, CallFreePlugin, UnloadEach, FreeEach, Goes
<1>4. Loaded' = Loaded
  BY <1>3, LoadedStays
<1>5. \A g \in Files, j \in Ids : Deleted(u, g, j) <=> g = f /\ j = i
  BY <1>1, <1>3 DEF Deleted
<1>6. CASE Alive(f, i)
  <2>1. Promise!End({i})
    BY <1>2, <1>3, <1>5, <1>6, LivesEnd, HandledNotFresh
  <2>2. i \in Promise!LivingIn(Files)
    BY <1>2, <1>6, LifeInFiles DEF Promise!LivingIn
  <2> QED
    BY <1>2, <1>4, <2>1, <2>2 DEF Promise!Dispose
<1>7. CASE ~Alive(f, i)
  <2>1. \A g \in Files, j \in Ids : Alive(g, j)' <=> Alive(g, j)
    BY <1>3, <1>5, <1>7, AliveAfter DEF Made
  <2>2. \A j \in Ids : Life'[j] = Life[j]
    BY <1>3, <2>1, FreshAfter, LifeGoesOn
  <2> QED
    BY <1>2, <1>4, <2>2, LifeIsFunction DEF Promise!vars
<1> QED
  BY <1>6, <1>7

\* No instance is being made while its Plugger tears down.
LEMMA TearingFindsHandles ==
  ASSUME Single, LibraryInv, InstanceInv, NEW u \in Users, pc[u] \in TearDown,
         NEW f \in Files, NEW i \in Ids, Alive(f, i)
  PROVE  handles[Observed][i] # None /\ handles[Observed][i].lib = f
<1>1. \A w \in Users : pc[w] # "setHandle"
  BY TearsAlone DEF TearDown, Single
<1> QED
  BY <1>1, ObservedPlugger DEF InstanceInv, NoOrphans, Alive

LEMMA UnloadEachUnloads ==
  ASSUME Single, LibraryInv, InstanceInv, NEW u \in Users, UnloadEach(u), Advance(u)
  PROVE  \E n \in Names : Promise!Unload(n)
<1> DEFINE c == call[u]
           f == c.lib
           H == handles[Observed]
<1>1. PICK n \in Names : n = c.name
  BY DEF UnloadEach, Goes, LibraryInv, CallInv, InHand, UnloadSteps
<1>2. /\ f \in Files /\ c.plugger = Observed /\ libs[Observed][n] = f
      /\ pc[u] \in TearDown
  BY <1>1, ObservedPlugger
  DEF UnloadEach, Goes, LibraryInv, CallInv, InHand, UnloadSteps, TearDown
<1>3. /\ ~Register(u) /\ ~UnloadForget(u) /\ ~FreeForget(u) /\ ~FreeEach(u)
      /\ ~CallNewPlugin(u) /\ ~CallFreePlugin(u)
  BY DEF CallNewPlugin, CallFreePlugin, Register, UnloadEach, FreeEach, UnloadForget,
         FreeForget, Goes
<1>4. Loaded[n] = f
  BY <1>1, <1>2, TornDownAfter, LoadedIsFunction
<1>5. Loaded' = [Loaded EXCEPT ![n] = None]
  <2>1. ASSUME NEW m \in Names PROVE Loaded'[m] = IF m = n THEN None ELSE Loaded[m]
    <3>1. libs'[Observed][m] = libs[Observed][m]
      BY <1>3, AdvanceChanges DEF Changes
    <3> QED
      BY <1>1, <3>1, TornDownAfter, LoadedIsFunction
  <2> QED
    BY <2>1 DEF Loaded
<1>6. ASSUME NEW i \in Ids, Alive(f, i) PROVE Deleted(u, f, i) /\ ~Fresh(i)
  <2>1. /\ H[i] # None /\ H[i].lib = f
        /\ H[i] \in Handles /\ libs[Observed][H[i].name] = f /\ ~Fresh(i)
    BY <1>2, <1>6, TearingFindsHandles, RegisteredNotFresh
  <2>2. H[i].name \in Names
    BY <2>1 DEF Handles
  <2>3. H[i].name = n
    BY <1>2, <2>1, <2>2, ObservedPlugger, Constants DEF LibraryInv, LibsInv
  <2>4. i \in Present(H)
    BY <2>1, ObservedPlugger DEF Present, LibraryInv, TypeInv
  <2> QED
    BY <1>1, <1>2, <2>1, <2>3, <2>4 DEF Deleted
<1>7. \A g \in Files, i \in Ids : Deleted(u, g, i) => g = f
  BY <1>3 DEF Deleted
<1>8. Promise!LivingIn({f}) = {i \in Ids : Alive(f, i)}
  BY <1>2, LifeInFiles DEF Promise!LivingIn
<1>9. Promise!End({i \in Ids : Alive(f, i)})
  <2> DEFINE ended == {i \in Ids : Alive(f, i)}
  <2>1. \A i \in Ids : i \in ended <=> \E g \in Files : Alive(g, i) /\ Deleted(u, g, i)
    BY <1>2, <1>6, <1>7
  <2>2. ended \in SUBSET Ids /\ \A i \in ended : ~Fresh(i)
    BY <1>6
  <2> HIDE DEF ended
  <2>3. Promise!End(ended)
    BY <1>3, <2>1, <2>2, LivesEnd
  <2> QED
    BY <2>3 DEF ended
<1>10. Promise!Unload(n)
  BY <1>2, <1>4, <1>5, <1>8, <1>9, Constants DEF Promise!Unload
<1> QED
  BY <1>10

LEMMA FreeEachClears ==
  ASSUME Single, LibraryInv, InstanceInv, NEW u \in Users, FreeEach(u), Advance(u)
  PROVE  Promise!Clear
<1> DEFINE H == handles[Observed]
           ended == {i \in Ids : \E f \in Files : Alive(f, i)}
<1>1. call[u].plugger = Observed /\ pc[u] \in TearDown
  BY ObservedPlugger DEF FreeEach, Goes, LibraryInv, CallInv, InHand, TearDown
<1>2. ~CallNewPlugin(u) /\ ~CallFreePlugin(u) /\ ~UnloadEach(u)
  BY DEF CallNewPlugin, CallFreePlugin, UnloadEach, FreeEach, Goes
<1>3. Loaded' = [n \in Names |-> None]
  BY TornDownAfter, LoadedIsFunction DEF Loaded
<1>4. ASSUME NEW f \in Files, NEW i \in Ids, Alive(f, i) PROVE Deleted(u, f, i) /\ ~Fresh(i)
  <2>1. H[i] # None /\ H[i].lib = f /\ ~Fresh(i)
    BY <1>1, <1>4, TearingFindsHandles, RegisteredNotFresh
  <2>2. i \in Present(H)
    BY <2>1, ObservedPlugger DEF Present, LibraryInv, TypeInv
  <2> QED
    BY <1>1, <2>1, <2>2 DEF Deleted
<1>5. /\ ended \in SUBSET Ids /\ \A i \in ended : ~Fresh(i)
      /\ \A i \in Ids : i \in ended <=> \E f \in Files : Alive(f, i) /\ Deleted(u, f, i)
  BY <1>4
<1>6. Promise!LivingIn(Files) = ended
  BY LifeInFiles DEF Promise!LivingIn
<1> HIDE DEF ended
<1>7. Promise!End(ended)
  BY <1>2, <1>5, LivesEnd
<1> QED
  BY <1>3, <1>6, <1>7 DEF Promise!Clear

\* A call that begins is not seen: an id that is taken is fresh until the
\* instance is made.
LEMMA InvokeUnseen ==
  ASSUME Single, LibraryInv, InstanceInv, NEW u \in Users, NEW p \in Pluggers, Invoke(u, p)
  PROVE  UNCHANGED Promise!vars
<1>1. PICK to \in FirstSteps, c \in Calls : BeginsWith(u, p, to, c)
  BY InvokeBegins DEF LibraryInv
<1>2. OthersStay(u) /\ pc[u] = "idle" /\ pc'[u] = to /\ call'[u] = c /\ c.plugger = Observed
  BY <1>1, BeginsMovesOne, ObservedPlugger DEF LibraryInv, BeginsWith
<1>3. UNCHANGED <<libs, instMap, halted>>
  BY <1>1 DEF BeginsWith, Begins, instVars
<1>4. ASSUME NEW n \in Names PROVE Loaded'[n] = Loaded[n]
  <2>1. TornDown(n)' <=> TornDown(n)
    BY <1>2 DEF TornDown, OthersStay, FirstSteps, Observed
  <2> QED
    BY <1>3, <2>1, LoadedIsFunction
<1>5. ASSUME NEW i \in Ids PROVE Life'[i] = Life[i]
  <2>1. \A f \in Files : Alive(f, i)' <=> Alive(f, i)
    BY <1>3 DEF Alive, Observed
  <2>2. \A w \in Users \ {u} : pc'[w] = pc[w] /\ call'[w] = call[w]
    BY <1>2 DEF OthersStay
  <2>3. Fresh(i)' <=> Fresh(i)
    <3>1. CASE to = "callNew"
      <4>1. /\ c.id = instanceId[Observed] + 1 /\ instanceId'[Observed] = c.id
        BY <1>1, <1>2, <3>1, ObservedPlugger DEF BeginsWith, LibraryInv, TypeInv
      <4>2. Making(i)' <=> i = c.id \/ Making(i)
        BY <1>2, <2>2, <3>1 DEF Making, Observed
      <4>3. Fresh(i)' <=> i > instanceId'[Observed] \/ Making(i)'
        BY DEF Fresh, Observed
      <4>4. i \in Nat /\ instanceId[Observed] \in Nat
        BY ObservedPlugger, Constants DEF LibraryInv, TypeInv
      <4> QED
        BY <4>1, <4>2, <4>3, <4>4 DEF Fresh
    <3>2. CASE to # "callNew"
      <4>1. instanceId' = instanceId
        BY <1>1, <3>2 DEF BeginsWith
      <4>2. Making(i)' <=> Making(i)
        BY <1>2, <2>2, <3>2 DEF Making, Observed
      <4> QED
        BY <4>1, <4>2 DEF Fresh, Observed
    <3> QED
      BY <3>1, <3>2
  <2> QED
    BY <2>1, <2>3, LifeGoesOn
<1> QED
  BY <1>3, <1>4, <1>5, LoadedIsFunction, LifeIsFunction DEF Promise!vars

LEMMA LifecycleInit == Single /\ Init => Promise!Init
<1> SUFFICES ASSUME Single, Init PROVE Promise!Init
  OBVIOUS
<1>1. Loaded = [n \in Names |-> None]
  <2>1. \A n \in Names : libs[Observed][n] = None
    BY ObservedPlugger DEF Init, Empty
  <2> QED
    BY <2>1 DEF Loaded
<1>2. ASSUME NEW i \in Ids PROVE Life[i] = "unused"
  <2>1. \A f \in Files : ~Alive(f, i)
    BY ObservedPlugger, Constants DEF Init, Alive, Empty, Instances
  <2>2. Fresh(i)
    <3>1. instanceId[Observed] = 0 /\ i \in Nat /\ i # 0
      BY ObservedPlugger, Constants DEF Init
    <3> QED
      BY <3>1 DEF Fresh
  <2> QED
    BY <2>1, <2>2, LifeIs
<1> QED
  BY <1>1, <1>2 DEF Promise!Init, Init, Life

LEMMA LifecycleStep ==
  Single /\ LibraryInv /\ InstanceInv /\ [Next]_vars => [Promise!Next]_(Promise!vars)
<1> SUFFICES ASSUME Single, LibraryInv, InstanceInv, [Next]_vars
             PROVE  Promise!Next \/ UNCHANGED Promise!vars
  OBVIOUS
<1>1. ASSUME NEW u \in Users, Advance(u) PROVE Promise!Next \/ UNCHANGED Promise!vars
  <2>1. ~halted
    BY <1>1
    DEF Advance, OpenFile, Register, LoadReturns, CallNewPlugin, SetHandle, FindHandle,
        CallFreePlugin, DeleteHandle, UnloadEach, UnloadDelete, UnloadClose, UnloadForget,
        FreeEach, FreeClear, FreeClose, FreeForget, Goes
  <2>2. CASE Register(u)
    BY <1>1, <2>1, <2>2, RegisterLoads DEF Promise!Next
  <2>3. CASE CallNewPlugin(u)
    <3>1. UNCHANGED halted
      BY <2>3 DEF CallNewPlugin, Goes
    <3> QED
      BY <1>1, <2>1, <2>3, <3>1, NewPluginMakes DEF Promise!Next
  <2>4. CASE CallFreePlugin(u)
    BY <1>1, <2>1, <2>4, FreePluginDisposes DEF Promise!Next
  <2>5. CASE UnloadEach(u)
    <3>1. UNCHANGED halted
      BY <2>5 DEF UnloadEach, Goes
    <3> QED
      BY <1>1, <2>1, <2>5, <3>1, UnloadEachUnloads DEF Promise!Next
  <2>6. CASE FreeEach(u)
    <3>1. UNCHANGED halted
      BY <2>6 DEF FreeEach, Goes
    <3> QED
      BY <1>1, <2>1, <2>6, <3>1, FreeEachClears DEF Promise!Next
  <2>7. CASE ~(Register(u) \/ CallNewPlugin(u) \/ CallFreePlugin(u) \/ UnloadEach(u) \/ FreeEach(u))
    <3>1. Loaded' = Loaded /\ Life' = Life
      BY <1>1, <2>7, LoadedStays, LifeStays
    <3>2. halted' = TRUE \/ UNCHANGED halted
      BY <1>1, AdvanceChanges DEF Changes, OpenFile, Goes
    <3> QED
      BY <2>1, <3>1, <3>2 DEF Promise!Next, Promise!vars
  <2> QED
    BY <2>2, <2>3, <2>4, <2>5, <2>6, <2>7
<1>2. ASSUME UNCHANGED <<libs, instMap, instanceId, halted, pc, call>>
      PROVE  UNCHANGED Promise!vars
  <2>1. Loaded' = Loaded
    BY <1>2 DEF Loaded, TornDown, Observed
  <2>2. ASSUME NEW i \in Ids PROVE Life'[i] = Life[i]
    <3>1. \A f \in Files : Alive(f, i)' <=> Alive(f, i)
      BY <1>2 DEF Alive, Observed
    <3>2. Fresh(i)' <=> Fresh(i)
      BY <1>2 DEF Fresh, Making, Observed
    <3> QED
      BY <3>1, <3>2, LifeGoesOn
  <2> QED
    BY <1>2, <2>1, <2>2, LifeIsFunction DEF Promise!vars
<1>3. ASSUME NEW p \in Pluggers, SetVersionSafe(p) PROVE UNCHANGED Promise!vars
  BY <1>2, <1>3 DEF SetVersionSafe, instVars
<1>4. CASE UNCHANGED vars
  BY <1>2, <1>4 DEF vars, hostVars, instVars
<1> QED
  BY <1>1, <1>3, <1>4, InvokeUnseen DEF Next

\* The tables of a Plugger and its libraries, each locked by itself,
\* implement the life of libraries and instances that an application which
\* lets nothing overlap its Unload and Free may count on.
THEOREM PluggerImplementsLifecycle ==
  ASSUME Exclusive, OnePlugger, Pluggers # {} PROVE Spec => ImplementsLifecycle
<1>1. Single
  BY DEF Single
<1>2. Init => Promise!Init
  BY <1>1, LifecycleInit
<1>3. LibraryInv /\ InstanceInv /\ [Next]_vars => [Promise!Next]_(Promise!vars)
  BY <1>1, LifecycleStep
<1> QED
  BY LibraryHolds, InstancesHold, <1>2, <1>3, PTL DEF Spec, ImplementsLifecycle, Promise!Spec
=============================================================================
