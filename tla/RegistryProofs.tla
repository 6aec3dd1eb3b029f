--------------------------- MODULE RegistryProofs ---------------------------
(***************************************************************************)
(* Registry for any number of Pluggers, goroutines and libraries, where    *)
(* nothing overlaps an Unload or Free (Exclusive).  LibraryInv, which is   *)
(* about libraries, holds of several Pluggers that share them; InstanceInv *)
(* and TablesInv, about instances, of one Plugger: the ids of two meet in  *)
(* the tables of a library.                                                *)
(***************************************************************************)
EXTENDS Registry, FiniteSetTheorems, TLAPS

-----------------------------------------------------------------------------
(* Types.                                                                  *)

LEMMA Constants ==
  /\ MaxInstances \in Nat /\ MaxInstances < IdSpan
  /\ None \notin Names \cup Files \cup Pluggers \cup Instances \cup Handles
  /\ 0 \notin Ids /\ Ids \subseteq Nat
BY RegistryAssumption, EntriesAssumption, IdSpanAssumption DEF Ids

\* Within the bound on the instances the id generator counts up.
LEMMA NextIdCounts ==
  ASSUME NEW n \in Nat, n < MaxInstances
  PROVE  NextId(n) = n + 1 /\ NextId(n) \in Ids
BY Constants, IdSpanAssumption DEF NextId, Ids

\* An update leaves a table of tables one.
LEMMA UpdateTyped ==
  ASSUME NEW A, NEW B, NEW V, NEW t \in [A -> [B -> V]], NEW a \in A, NEW b \in B, NEW v \in V
  PROVE  [t EXCEPT ![a][b] = v] \in [A -> [B -> V]]
OBVIOUS

LEMMA NoCallTyped == NoCall \in Calls
BY DEF NoCall, Calls

LEMMA CallFields ==
  ASSUME NEW c \in Calls
  PROVE  /\ c.plugger \in Pluggers \cup {None} /\ c.lib \in Files \cup {None}
         /\ c.name \in Names \cup {None} /\ c.id \in Ids \cup {0}
         /\ c.todo \in SUBSET Files /\ c.ids \in SUBSET Ids
         /\ c.skipped \in BOOLEAN /\ c.warn \in BOOLEAN
BY DEF Calls

\* What a goroutine keeps of its call.
LEMMA CallsKept ==
  ASSUME NEW c \in Calls, NEW f \in Files \cup {None}, NEW S \in SUBSET Files,
         NEW w \in BOOLEAN
  PROVE  /\ [c EXCEPT !.lib = f] \in Calls
         /\ [c EXCEPT !.lib = f, !.todo = S] \in Calls
         /\ [c EXCEPT !.lib = f, !.skipped = TRUE, !.warn = w] \in Calls
<1> DEFINE d == [c EXCEPT !.lib = f]
           e == [d EXCEPT !.skipped = TRUE]
<1>1. d \in Calls
  BY DEF Calls
<1>2. [d EXCEPT !.todo = S] \in Calls
  BY <1>1 DEF Calls
<1>3. e \in Calls
  BY <1>1 DEF Calls
<1>4. [e EXCEPT !.warn = w] \in Calls
  BY <1>3 DEF Calls
<1>5. [c EXCEPT !.lib = f, !.todo = S] = [d EXCEPT !.todo = S]
  OBVIOUS
<1>6. [c EXCEPT !.lib = f, !.skipped = TRUE, !.warn = w] = [e EXCEPT !.warn = w]
  OBVIOUS
<1> HIDE DEF d, e
<1> QED
  BY <1>1, <1>2, <1>4, <1>5, <1>6 DEF d

\* What it begins one with.
LEMMA CallsMade ==
  ASSUME NEW p \in Pluggers
  PROVE  /\ [NoCall EXCEPT !.plugger = p] \in Calls
         /\ \A S \in SUBSET Files : [NoCall EXCEPT !.plugger = p, !.todo = S] \in Calls
         /\ \A f \in Files, i \in Ids :
              [NoCall EXCEPT !.plugger = p, !.lib = f, !.id = i] \in Calls
         /\ \A n \in Names, f \in Files :
              [NoCall EXCEPT !.plugger = p, !.name = n, !.lib = f] \in Calls
         /\ \A n \in Names, f \in Files, i \in Ids :
              [NoCall EXCEPT !.plugger = p, !.name = n, !.lib = f, !.id = i] \in Calls
<1> DEFINE a == [NoCall EXCEPT !.plugger = p]
<1>1. a \in Calls
  BY DEF Calls, NoCall
<1>2. ASSUME NEW S \in SUBSET Files
      PROVE  [NoCall EXCEPT !.plugger = p, !.todo = S] \in Calls
  <2>1. [NoCall EXCEPT !.plugger = p, !.todo = S] = [a EXCEPT !.todo = S]
    OBVIOUS
  <2> HIDE DEF a
  <2>2. [a EXCEPT !.todo = S] \in Calls
    BY <1>1 DEF Calls
  <2> QED
    BY <2>1, <2>2
<1>3. ASSUME NEW f \in Files, NEW i \in Ids
      PROVE  [NoCall EXCEPT !.plugger = p, !.lib = f, !.id = i] \in Calls
  <2> DEFINE d == [a EXCEPT !.lib = f]
  <2>1. [NoCall EXCEPT !.plugger = p, !.lib = f, !.id = i] = [d EXCEPT !.id = i]
    OBVIOUS
  <2> HIDE DEF a
  <2>2. d \in Calls
    BY <1>1 DEF Calls
  <2> HIDE DEF d
  <2>3. [d EXCEPT !.id = i] \in Calls
    BY <2>2 DEF Calls
  <2> QED
    BY <2>1, <2>3
<1>4. ASSUME NEW n \in Names, NEW f \in Files
      PROVE  /\ [NoCall EXCEPT !.plugger = p, !.name = n, !.lib = f] \in Calls
             /\ \A i \in Ids :
                  [NoCall EXCEPT !.plugger = p, !.name = n, !.lib = f, !.id = i] \in Calls
  <2> DEFINE b == [a EXCEPT !.name = n]
             c == [b EXCEPT !.lib = f]
  <2>1. /\ [NoCall EXCEPT !.plugger = p, !.name = n, !.lib = f] = c
        /\ \A i \in Ids : [NoCall EXCEPT !.plugger = p, !.name = n, !.lib = f, !.id = i]
                            = [c EXCEPT !.id = i]
    OBVIOUS
  <2> HIDE DEF a
  <2>2. b \in Calls
    BY <1>1 DEF Calls
  <2> HIDE DEF b
  <2>3. c \in Calls
    BY <2>2 DEF Calls
  <2> HIDE DEF c
  <2>4. \A i \in Ids : [c EXCEPT !.id = i] \in Calls
    BY <2>3 DEF Calls
  <2> QED
    BY <2>1, <2>3, <2>4
<1> QED
  BY <1>1, <1>2, <1>3, <1>4

LEMMA IdsKept ==
  ASSUME NEW c \in Calls, NEW I \in SUBSET Ids
  PROVE  [c EXCEPT !.ids = I] \in Calls
BY DEF Calls

LEMMA NotesTyped ==
  ASSUME TypeInv, NEW u \in Users, NEW c \in Calls, Notes(u, c)
  PROVE  call' \in [Users -> Calls]
BY DEF TypeInv, Notes

LEMMA DeleteTyped ==
  ASSUME TypeInv, NEW D, DeleteInstances(D)
  PROVE  /\ instMap' \in [Files -> [Ids -> Instances \cup {None}]]
         /\ instMapByPlugin' \in [Files -> [Values -> Instances \cup {None}]]
BY DEF TypeInv, DeleteInstances

LEMMA CloseTyped ==
  ASSUME TypeInv, NEW closed, Close(closed)
  PROVE  opens' \in [Files -> Nat] /\ stray' \in BOOLEAN
BY DEF TypeInv, Close

LEMMA TablesTyped ==
  ASSUME TypeInv
  PROVE  /\ \A p \in Pluggers, n \in Names, f \in Files \cup {None} :
              [libs EXCEPT ![p][n] = f] \in [Pluggers -> [Names -> Files \cup {None}]]
         /\ \A p \in Pluggers, i \in Ids, h \in Handles \cup {None} :
              [handles EXCEPT ![p][i] = h] \in [Pluggers -> [Ids -> Handles \cup {None}]]
         /\ \A p \in Pluggers, i \in Ids, n \in Names \cup {None} :
              [given EXCEPT ![p][i] = n] \in [Pluggers -> [Ids -> Names \cup {None}]]
         /\ \A f \in Files, i \in Ids, k \in Instances \cup {None} :
              [instMap EXCEPT ![f][i] = k] \in [Files -> [Ids -> Instances \cup {None}]]
         /\ \A f \in Files, v \in Values, k \in Instances \cup {None} :
              [instMapByPlugin EXCEPT ![f][v] = k]
                \in [Files -> [Values -> Instances \cup {None}]]
<1>1. /\ libs \in [Pluggers -> [Names -> Files \cup {None}]]
      /\ handles \in [Pluggers -> [Ids -> Handles \cup {None}]]
      /\ given \in [Pluggers -> [Ids -> Names \cup {None}]]
      /\ instMap \in [Files -> [Ids -> Instances \cup {None}]]
      /\ instMapByPlugin \in [Files -> [Values -> Instances \cup {None}]]
  BY DEF TypeInv
<1> QED
  BY <1>1, UpdateTyped, Zenon

LEMMA TypeInit == Init => TypeInv
<1> SUFFICES ASSUME Init PROVE TypeInv
  OBVIOUS
<1>1. call \in [Users -> Calls]
  BY NoCallTyped DEF Init
<1>2. /\ handles \in [Pluggers -> [Ids -> Handles \cup {None}]]
      /\ given \in [Pluggers -> [Ids -> Names \cup {None}]]
      /\ libs \in [Pluggers -> [Names -> Files \cup {None}]]
  BY DEF Init, Empty
<1>3. /\ instMap \in [Files -> [Ids -> Instances \cup {None}]]
      /\ instMapByPlugin \in [Files -> [Values -> Instances \cup {None}]]
  BY DEF Init, Empty
<1>4. /\ pc \in [Users -> PcValues] /\ instanceId \in [Pluggers -> 0 .. MaxInstances]
      /\ versionSafe \in [Pluggers -> BOOLEAN] /\ opens \in [Files -> Nat]
  BY Constants DEF Init, PcValues
<1> QED
  BY <1>1, <1>2, <1>3, <1>4 DEF Init, TypeInv

\* How a goroutine begins a call, and with what in hand.
BeginsWith(u, p, to, c) ==
  /\ Begins(u, to, c)
  /\ c.plugger = p
  /\ to = "callNew" =>
       /\ c.lib \in Files /\ c.name \in Names /\ libs[p][c.name] = c.lib
       /\ c.id \in Ids /\ c.id = instanceId[p] + 1 /\ c.id <= MaxInstances
       /\ instanceId' = [instanceId EXCEPT ![p] = c.id]
  /\ to # "callNew" => UNCHANGED instanceId
  /\ to = "unloadEach" => c.lib \in Files /\ c.name \in Names /\ libs[p][c.name] = c.lib
  /\ to = "findHandle" =>
       /\ c.lib \in Files /\ c.id \in Ids
       /\ given[p][c.id] # None /\ libs[p][given[p][c.id]] = c.lib

FirstSteps == {"open", "callNew", "findHandle", "unloadEach", "freeEach"}

LEMMA InvokeBegins ==
  ASSUME TypeInv, NEW u \in Users, NEW p \in Pluggers, Invoke(u, p)
  PROVE  \E to \in FirstSteps, c \in Calls : BeginsWith(u, p, to, c)
<1> DEFINE G == \E to \in FirstSteps, c \in Calls : BeginsWith(u, p, to, c)
<1>1. ASSUME NEW dir \in SUBSET Files, Load(u, p, dir) PROVE G
  <2> DEFINE c == [NoCall EXCEPT !.plugger = p, !.todo = dir]
  <2>1. c \in Calls
    BY CallsMade
  <2>2. c.plugger = p
    BY DEF NoCall
  <2>3. Begins(u, "open", c) /\ UNCHANGED instanceId
    BY <1>1 DEF Load
  <2> HIDE DEF c
  <2> QED
    BY <2>1, <2>2, <2>3 DEF BeginsWith, FirstSteps
<1>2. ASSUME NEW n \in Names, NewPlugin(u, p, n) PROVE G
  <2> DEFINE i == NextId(instanceId[p])
             c == [NoCall EXCEPT !.plugger = p, !.name = n, !.lib = libs[p][n], !.id = i]
  <2>1. i = instanceId[p] + 1 /\ i \in Ids /\ i <= MaxInstances
    BY <1>2, NextIdCounts, Constants DEF NewPlugin, TypeInv
  <2>2. libs[p][n] \in Files
    BY <1>2 DEF NewPlugin, TypeInv
  <2>3. instanceId' = [instanceId EXCEPT ![p] = i] /\ instanceId'[p] = i
    BY <1>2 DEF NewPlugin, TypeInv
  <2> HIDE DEF i
  <2>4. c \in Calls
    BY <2>1, <2>2, CallsMade
  <2>5. c.plugger = p /\ c.name = n /\ c.lib = libs[p][n] /\ c.id = i
    BY DEF NoCall
  <2>6. Begins(u, "callNew", c)
    BY <1>2, <2>3 DEF NewPlugin
  <2> HIDE DEF c
  <2> QED
    BY <2>1, <2>2, <2>3, <2>4, <2>5, <2>6 DEF BeginsWith, FirstSteps
<1>3. ASSUME NEW n \in Names, Unload(u, p, n) PROVE G
  <2> DEFINE c == [NoCall EXCEPT !.plugger = p, !.name = n, !.lib = libs[p][n]]
  <2>1. libs[p][n] \in Files
    BY <1>3 DEF Unload, TypeInv
  <2>2. c \in Calls
    BY <2>1, CallsMade
  <2>3. c.plugger = p /\ c.name = n /\ c.lib = libs[p][n]
    BY DEF NoCall
  <2>4. Begins(u, "unloadEach", c) /\ UNCHANGED instanceId
    BY <1>3 DEF Unload
  <2> HIDE DEF c
  <2> QED
    BY <2>1, <2>2, <2>3, <2>4 DEF BeginsWith, FirstSteps
<1>4. ASSUME NEW i \in Ids, FreePlugin(u, p, i) PROVE G
  <2> DEFINE c == [NoCall EXCEPT !.plugger = p, !.lib = libs[p][given[p][i]], !.id = i]
  <2>1. given[p][i] # None /\ libs[p][given[p][i]] \in Files
    BY <1>4 DEF FreePlugin, TypeInv
  <2>2. c \in Calls
    BY <2>1, CallsMade
  <2>3. c.plugger = p /\ c.lib = libs[p][given[p][i]] /\ c.id = i
    BY DEF NoCall
  <2>4. Begins(u, "findHandle", c) /\ UNCHANGED instanceId
    BY <1>4 DEF FreePlugin
  <2> HIDE DEF c
  <2> QED
    BY <2>1, <2>2, <2>3, <2>4 DEF BeginsWith, FirstSteps
<1>5. ASSUME Free(u, p) PROVE G
  <2> DEFINE c == [NoCall EXCEPT !.plugger = p]
  <2>1. c \in Calls /\ c.plugger = p
    BY CallsMade DEF NoCall
  <2>2. Begins(u, "freeEach", c) /\ UNCHANGED instanceId
    BY <1>5 DEF Free
  <2> HIDE DEF c
  <2> QED
    BY <2>1, <2>2 DEF BeginsWith, FirstSteps
<1> QED
  BY <1>1, <1>2, <1>3, <1>4, <1>5 DEF Invoke

LEMMA BeginsTyped ==
  ASSUME TypeInv, NEW u \in Users, NEW p \in Pluggers, NEW to \in FirstSteps,
         NEW c \in Calls, BeginsWith(u, p, to, c)
  PROVE  TypeInv'
<1>1. call' \in [Users -> Calls]
  BY NotesTyped DEF BeginsWith, Begins
<1>2. instanceId' \in [Pluggers -> 0 .. MaxInstances]
  <2>1. CASE to = "callNew"
    <3>1. c.id \in 0 .. MaxInstances /\ instanceId' = [instanceId EXCEPT ![p] = c.id]
      BY <2>1, Constants DEF BeginsWith, TypeInv
    <3> QED
      BY <3>1 DEF TypeInv
  <2>2. CASE to # "callNew"
    BY <2>2 DEF BeginsWith, TypeInv
  <2> QED
    BY <2>1, <2>2
<1> QED
  BY <1>1, <1>2
  DEF BeginsWith, Begins, instVars, TypeInv, FirstSteps, PcValues, TearDown, LoadSteps

LEMMA TypeStep ==
  ASSUME TypeInv, CallInv, [Next]_vars
  PROVE  TypeInv'
<1>1. ASSUME NEW u \in Users, OpenFile(u) PROVE TypeInv'
  <2>1. PICK f \in call[u].todo : \/ /\ Goes(u, "open", "register")
                                     /\ opens' = [opens EXCEPT ![f] = @ + 1]
                                     /\ Notes(u, [call[u] EXCEPT !.lib = f, !.todo = @ \ {f}])
                                     /\ UNCHANGED <<stray, libs, handles, given, instVars>>
                                  \/ /\ halted' = TRUE
                                     /\ UNCHANGED <<files, opens, stray, hostVars, instVars, pc, call>>
    BY <1>1 DEF OpenFile
  <2>2. call[u] \in Calls /\ f \in Files
    BY <2>1, CallFields DEF TypeInv
  <2>3. CASE Goes(u, "open", "register") /\ opens' = [opens EXCEPT ![f] = @ + 1]
             /\ Notes(u, [call[u] EXCEPT !.lib = f, !.todo = @ \ {f}])
             /\ UNCHANGED <<stray, libs, handles, given, instVars>>
    <3>1. [call[u] EXCEPT !.lib = f, !.todo = @ \ {f}] \in Calls
      BY <2>2, CallsKept, CallFields
    <3>2. call' \in [Users -> Calls]
      BY <2>3, <3>1, NotesTyped
    <3>3. opens' \in [Files -> Nat]
      BY <2>2, <2>3 DEF TypeInv
    <3>4. pc' \in [Users -> PcValues]
      BY <2>3 DEF Goes, TypeInv, PcValues, LoadSteps
    <3> QED
      BY <2>3, <3>2, <3>3, <3>4 DEF Goes, instVars, TypeInv
  <2>4. CASE halted' = TRUE /\ UNCHANGED <<files, opens, stray, hostVars, instVars, pc, call>>
    BY <2>4 DEF hostVars, instVars, TypeInv
  <2> QED
    BY <2>1, <2>3, <2>4
<1>2. ASSUME NEW u \in Users, Register(u) PROVE TypeInv'
  <2> DEFINE c == call[u]
             n == files[c.lib].name
  <2>1. /\ c \in Calls /\ c.plugger \in Pluggers /\ c.lib \in Files /\ n \in Names \cup {None}
    BY <1>2, RegistryAssumption DEF Register, Goes, CallInv, InHand, TypeInv, Libraries
  <2>2. [c EXCEPT !.lib = None] \in Calls
    BY <2>1, CallsKept
  <2>3. [c EXCEPT !.lib = None, !.skipped = TRUE, !.warn = AddWarning(@)] \in Calls
    BY <2>1, CallsKept, CallFields DEF AddWarning
  <2>4. call' \in [Users -> Calls]
    BY <1>2, <2>2, <2>3, NotesTyped DEF Register
  <2>5. libs' \in [Pluggers -> [Names -> Files \cup {None}]]
    <3>1. \/ UNCHANGED libs
          \/ n # None /\ libs' = [libs EXCEPT ![c.plugger][n] = c.lib]
      BY <1>2 DEF Register, Usable
    <3>2. n # None => [libs EXCEPT ![c.plugger][n] = c.lib]
                         \in [Pluggers -> [Names -> Files \cup {None}]]
      BY <2>1, TablesTyped
    <3> QED
      BY <3>1, <3>2 DEF TypeInv
  <2>6. opens' \in [Files -> Nat] /\ stray' \in BOOLEAN
    BY <1>2, CloseTyped DEF Register, TypeInv
  <2> HIDE DEF c, n
  <2>7. /\ Goes(u, "register", "open")
        /\ UNCHANGED <<handles, given, instVars>>
    BY <1>2 DEF Register
  <2> QED
    BY <2>4, <2>5, <2>6, <2>7 DEF Goes, instVars, TypeInv, PcValues, LoadSteps
<1>3. ASSUME NEW u \in Users, LoadReturns(u) PROVE TypeInv'
  <2>1. call' \in [Users -> Calls]
    BY <1>3, NotesTyped, NoCallTyped DEF LoadReturns, Returns
  <2> QED
    BY <1>3, <2>1, Constants
    DEF LoadReturns, Goes, instVars, TypeInv, PcValues, TearDown, LoadSteps
<1>4. ASSUME NEW u \in Users, CallNewPlugin(u) PROVE TypeInv'
  <2>1. call' \in [Users -> Calls]
    BY <1>4 DEF CallNewPlugin, Stays, TypeInv
  <2>2. /\ instMap' \in [Files -> [Ids -> Instances \cup {None}]]
        /\ instMapByPlugin' \in [Files -> [Values -> Instances \cup {None}]]
    <3> DEFINE k == <<call[u].plugger, call[u].id>>
    <3>1. k \in Instances /\ k[2] \in Ids /\ ValueOf(k) \in Values /\ call[u].lib \in Files
      BY <1>4 DEF CallNewPlugin, Goes, CallInv, InHand, MakeSteps, Instances, Values, ValueOf
    <3>2. SetInstance(call[u].lib, k) \/ UNCHANGED instVars
      BY <1>4 DEF CallNewPlugin
    <3> HIDE DEF k
    <3>3. /\ [instMap EXCEPT ![call[u].lib][k[2]] = k]
               \in [Files -> [Ids -> Instances \cup {None}]]
          /\ [instMapByPlugin EXCEPT ![call[u].lib][ValueOf(k)] = k]
               \in [Files -> [Values -> Instances \cup {None}]]
      BY <3>1, TablesTyped
    <3> QED
      BY <3>2, <3>3 DEF SetInstance, instVars, TypeInv
  <2> QED
    BY <1>4, <2>1, <2>2, Constants
    DEF CallNewPlugin, Goes, Stays, Enters, instVars, TypeInv, PcValues, TearDown,
         LoadSteps
<1>5. ASSUME NEW u \in Users, SetHandle(u) PROVE TypeInv'
  <2>1. call' \in [Users -> Calls]
    BY <1>5, NotesTyped, NoCallTyped DEF SetHandle, Returns
  <2>2. /\ handles' \in [Pluggers -> [Ids -> Handles \cup {None}]]
        /\ given' \in [Pluggers -> [Ids -> Names \cup {None}]]
    BY <1>5 DEF SetHandle, CallInv, InHand, MakeSteps, Handles, Goes, TypeInv
  <2> QED
    BY <1>5, <2>1, <2>2, Constants
    DEF SetHandle, Goes, instVars, TypeInv, PcValues, TearDown, LoadSteps
<1>6. ASSUME NEW u \in Users, FindHandle(u) PROVE TypeInv'
  <2>1. call' \in [Users -> Calls]
    BY <1>6, NotesTyped, NoCallTyped DEF FindHandle, Returns, Stays, TypeInv
  <2> QED
    BY <1>6, <2>1, Constants
    DEF FindHandle, Goes, Stays, instVars, TypeInv, PcValues, TearDown, LoadSteps
<1>7. ASSUME NEW u \in Users, CallFreePlugin(u) PROVE TypeInv'
  <2>1. call' \in [Users -> Calls]
    BY <1>7 DEF CallFreePlugin, Stays, TypeInv
  <2>2. /\ instMap' \in [Files -> [Ids -> Instances \cup {None}]]
        /\ instMapByPlugin' \in [Files -> [Values -> Instances \cup {None}]]
    BY <1>7, DeleteTyped DEF CallFreePlugin
  <2> QED
    BY <1>7, <2>1, <2>2, Constants
    DEF CallFreePlugin, Goes, Stays, Enters, TypeInv, PcValues, TearDown, LoadSteps
<1>8. ASSUME NEW u \in Users, DeleteHandle(u) PROVE TypeInv'
  <2>1. call' \in [Users -> Calls]
    BY <1>8, NotesTyped, NoCallTyped DEF DeleteHandle, Returns
  <2> QED
    BY <1>8, <2>1, Constants
    DEF DeleteHandle, Goes, instVars, TypeInv, PcValues, TearDown, LoadSteps
<1>9. ASSUME NEW u \in Users, UnloadEach(u) PROVE TypeInv'
  <2> DEFINE c   == call[u]
             ids == {i \in Present(handles[c.plugger]) : handles[c.plugger][i].name = c.name}
  <2>1. call' \in [Users -> Calls]
    <3>1. c \in Calls /\ ids \in SUBSET Ids
      <4>1. c.plugger \in Pluggers
        BY <1>9 DEF UnloadEach, Goes, CallInv, InHand
      <4> QED
        BY <4>1 DEF Present, TypeInv
    <3>2. Notes(u, [c EXCEPT !.ids = ids])
      BY <1>9 DEF UnloadEach
    <3> HIDE DEF c, ids
    <3> QED
      BY <3>1, <3>2, IdsKept, NotesTyped
  <2>2. /\ instMap' \in [Files -> [Ids -> Instances \cup {None}]]
        /\ instMapByPlugin' \in [Files -> [Values -> Instances \cup {None}]]
    BY <1>9, DeleteTyped DEF UnloadEach
  <2> QED
    BY <1>9, <2>1, <2>2, Constants
    DEF UnloadEach, Goes, Enters, TypeInv, PcValues, TearDown, LoadSteps
<1>10. ASSUME NEW u \in Users, UnloadDelete(u) PROVE TypeInv'
  <2>1. call[u] \in Calls /\ call[u].plugger \in Pluggers /\ call[u].ids \in SUBSET Ids
    BY <1>10, CallFields DEF UnloadDelete, Goes, CallInv, InHand, TypeInv
  <2>2. \A i \in Ids : [call[u] EXCEPT !.ids = @ \ {i}] \in Calls
    BY <2>1, IdsKept
  <2>3. call' \in [Users -> Calls]
    BY <1>10, <2>1, <2>2, NotesTyped DEF UnloadDelete, Stays, TypeInv
  <2>4. handles' \in [Pluggers -> [Ids -> Handles \cup {None}]]
    <3>1. \A i \in Ids : [handles EXCEPT ![call[u].plugger][i] = None]
                           \in [Pluggers -> [Ids -> Handles \cup {None}]]
      BY <2>1, TablesTyped
    <3>2. \/ UNCHANGED handles
          \/ \E i \in call[u].ids : handles' = [handles EXCEPT ![call[u].plugger][i] = None]
      BY <1>10 DEF UnloadDelete
    <3>3. CASE UNCHANGED handles
      BY <3>3 DEF TypeInv
    <3>4. CASE \E i \in call[u].ids : handles' = [handles EXCEPT ![call[u].plugger][i] = None]
      <4>1. PICK i \in call[u].ids : handles' = [handles EXCEPT ![call[u].plugger][i] = None]
        BY <3>4
      <4>2. i \in Ids
        BY <2>1
      <4> QED
        BY <3>1, <4>1, <4>2
    <3> QED
      BY <3>2, <3>3, <3>4
  <2> QED
    BY <1>10, <2>3, <2>4 DEF UnloadDelete, Goes, instVars, TypeInv, PcValues, TearDown
<1>11. ASSUME NEW u \in Users, UnloadClose(u) PROVE TypeInv'
  <2>1. call' \in [Users -> Calls]
    BY <1>11 DEF UnloadClose, Stays, TypeInv
  <2>2. opens' \in [Files -> Nat] /\ stray' \in BOOLEAN
    BY <1>11, CloseTyped DEF UnloadClose, TypeInv
  <2> QED
    BY <1>11, <2>1, <2>2, Constants
    DEF UnloadClose, Goes, Stays, instVars, TypeInv, PcValues, TearDown, LoadSteps
<1>12. ASSUME NEW u \in Users, UnloadForget(u) PROVE TypeInv'
  <2>1. call' \in [Users -> Calls]
    BY <1>12, NotesTyped, NoCallTyped DEF UnloadForget, Returns
  <2> QED
    BY <1>12, <2>1, Constants
    DEF UnloadForget, Goes, instVars, TypeInv, PcValues, TearDown, LoadSteps
<1>13. ASSUME NEW u \in Users, FreeEach(u) PROVE TypeInv'
  <2>1. call' \in [Users -> Calls]
    BY <1>13 DEF FreeEach, Stays, TypeInv
  <2>2. /\ instMap' \in [Files -> [Ids -> Instances \cup {None}]]
        /\ instMapByPlugin' \in [Files -> [Values -> Instances \cup {None}]]
    BY <1>13, DeleteTyped DEF FreeEach
  <2> QED
    BY <1>13, <2>1, <2>2, Constants
    DEF FreeEach, Goes, Stays, Enters, TypeInv, PcValues, TearDown, LoadSteps
<1>14. ASSUME NEW u \in Users, FreeClear(u) PROVE TypeInv'
  <2>1. call' \in [Users -> Calls]
    BY <1>14 DEF FreeClear, Stays, TypeInv
  <2>2. handles' \in [Pluggers -> [Ids -> Handles \cup {None}]]
    BY <1>14 DEF FreeClear, Empty, TypeInv
  <2> QED
    BY <1>14, <2>1, <2>2, Constants
    DEF FreeClear, Goes, Stays, instVars, TypeInv, PcValues, TearDown, LoadSteps
<1>15. ASSUME NEW u \in Users, FreeClose(u) PROVE TypeInv'
  <2>1. call' \in [Users -> Calls]
    BY <1>15 DEF FreeClose, Stays, TypeInv
  <2>2. opens' \in [Files -> Nat] /\ stray' \in BOOLEAN
    BY <1>15, CloseTyped DEF FreeClose, TypeInv
  <2> QED
    BY <1>15, <2>1, <2>2, Constants
    DEF FreeClose, Goes, Stays, instVars, TypeInv, PcValues, TearDown, LoadSteps
<1>16. ASSUME NEW u \in Users, FreeForget(u) PROVE TypeInv'
  <2>1. call' \in [Users -> Calls]
    BY <1>16, NotesTyped, NoCallTyped DEF FreeForget, Returns
  <2>2. libs' \in [Pluggers -> [Names -> Files \cup {None}]]
    BY <1>16 DEF FreeForget, Empty, TypeInv
  <2> QED
    BY <1>16, <2>1, <2>2, Constants
    DEF FreeForget, Goes, instVars, TypeInv, PcValues, TearDown, LoadSteps
<1>17. ASSUME NEW u \in Users, NEW p \in Pluggers, Invoke(u, p) PROVE TypeInv'
  BY <1>17, InvokeBegins, BeginsTyped
<1>18. ASSUME NEW p \in Pluggers, SetVersionSafe(p) PROVE TypeInv'
  BY <1>18 DEF SetVersionSafe, instVars, TypeInv
<1>19. CASE UNCHANGED vars
  BY <1>19 DEF vars, hostVars, instVars, TypeInv
<1> QED
  BY <1>1, <1>2, <1>3, <1>4, <1>5, <1>6, <1>7, <1>8, <1>9, <1>10, <1>11, <1>12,
     <1>13, <1>14, <1>15, <1>16, <1>17, <1>18, <1>19 DEF Next, Advance

-----------------------------------------------------------------------------
(* What a step of an operation changes.                                    *)

Changes(u) ==
  /\ OpenFile(u) \/ UNCHANGED halted
  /\ \/ Register(u) \/ CallNewPlugin(u) \/ CallFreePlugin(u) \/ UnloadEach(u)
     \/ UnloadClose(u) \/ FreeEach(u) \/ FreeClose(u)
     \/ UNCHANGED stray
  /\ OpenFile(u) \/ Register(u) \/ UnloadClose(u) \/ FreeClose(u) \/ UNCHANGED opens
  /\ Register(u) \/ UnloadForget(u) \/ FreeForget(u) \/ UNCHANGED libs
  /\ SetHandle(u) \/ DeleteHandle(u) \/ UnloadDelete(u) \/ FreeClear(u) \/ UNCHANGED handles
  /\ SetHandle(u) \/ UNCHANGED given
  /\ CallNewPlugin(u) \/ CallFreePlugin(u) \/ UnloadEach(u) \/ FreeEach(u) \/ UNCHANGED instVars
  /\ pc[u] = "register" => Register(u)
  /\ pc[u] = "unloadForget" => UnloadForget(u)
  /\ pc[u] = "freeForget" => FreeForget(u)
  /\ UNCHANGED <<files, versionSafe, instanceId>>

LEMMA AdvanceChanges ==
  ASSUME NEW u \in Users, Advance(u)
  PROVE  Changes(u)
<1>1. ASSUME OpenFile(u) PROVE Changes(u)
  BY <1>1 DEF Changes, OpenFile, Goes, hostVars, instVars
<1>2. ASSUME Register(u) PROVE Changes(u)
  BY <1>2 DEF Changes, Register, Goes
<1>3. ASSUME LoadReturns(u) PROVE Changes(u)
  BY <1>3 DEF Changes, LoadReturns, Goes, instVars
<1>4. ASSUME CallNewPlugin(u) PROVE Changes(u)
  BY <1>4 DEF Changes, CallNewPlugin, Goes, Enters, instVars
<1>5. ASSUME SetHandle(u) PROVE Changes(u)
  BY <1>5 DEF Changes, SetHandle, Goes, instVars
<1>6. ASSUME FindHandle(u) PROVE Changes(u)
  BY <1>6 DEF Changes, FindHandle, Goes, instVars
<1>7. ASSUME CallFreePlugin(u) PROVE Changes(u)
  BY <1>7 DEF Changes, CallFreePlugin, Goes, Enters
<1>8. ASSUME DeleteHandle(u) PROVE Changes(u)
  BY <1>8 DEF Changes, DeleteHandle, Goes, instVars
<1>9. ASSUME UnloadEach(u) PROVE Changes(u)
  BY <1>9 DEF Changes, UnloadEach, Goes, Enters
<1>10. ASSUME UnloadDelete(u) PROVE Changes(u)
  BY <1>10 DEF Changes, UnloadDelete, Goes, instVars
<1>11. ASSUME UnloadClose(u) PROVE Changes(u)
  BY <1>11 DEF Changes, UnloadClose, Goes, instVars
<1>12. ASSUME UnloadForget(u) PROVE Changes(u)
  BY <1>12 DEF Changes, UnloadForget, Goes, instVars
<1>13. ASSUME FreeEach(u) PROVE Changes(u)
  BY <1>13 DEF Changes, FreeEach, Goes, Enters
<1>14. ASSUME FreeClear(u) PROVE Changes(u)
  BY <1>14 DEF Changes, FreeClear, Goes, instVars
<1>15. ASSUME FreeClose(u) PROVE Changes(u)
  BY <1>15 DEF Changes, FreeClose, Goes, instVars
<1>16. ASSUME FreeForget(u) PROVE Changes(u)
  BY <1>16 DEF Changes, FreeForget, Goes, instVars
<1> QED
  BY <1>1, <1>2, <1>3, <1>4, <1>5, <1>6, <1>7, <1>8, <1>9, <1>10, <1>11, <1>12, <1>13,
       <1>14, <1>15, <1>16 DEF Advance

\* A step is one goroutine's.
OthersStay(u) == \A v \in Users \ {u} : pc'[v] = pc[v] /\ call'[v] = call[v]

LEMMA AdvanceMovesOne ==
  ASSUME TypeInv, NEW u \in Users, Advance(u)
  PROVE  OthersStay(u)
<1>1. ASSUME OpenFile(u) PROVE OthersStay(u)
  BY <1>1
  DEF OpenFile, Goes, hostVars, instVars, Notes, OthersStay, TypeInv
<1>2. ASSUME Register(u) PROVE OthersStay(u)
  BY <1>2
  DEF Register, Goes, Close, AddWarning, Notes, OthersStay, TypeInv
<1>3. ASSUME LoadReturns(u) PROVE OthersStay(u)
  BY <1>3
  DEF LoadReturns, Goes, Returns, instVars, Notes, OthersStay, TypeInv
<1>4. ASSUME CallNewPlugin(u) PROVE OthersStay(u)
  BY <1>4
  DEF CallNewPlugin, Goes, Stays, Enters, SetInstance, instVars, Notes, OthersStay,
       TypeInv
<1>5. ASSUME SetHandle(u) PROVE OthersStay(u)
  BY <1>5
  DEF SetHandle, Goes, Returns, instVars, Notes, OthersStay, TypeInv
<1>6. ASSUME FindHandle(u) PROVE OthersStay(u)
  BY <1>6
  DEF FindHandle, Goes, Returns, Stays, instVars, Notes, OthersStay, TypeInv
<1>7. ASSUME CallFreePlugin(u) PROVE OthersStay(u)
  BY <1>7
  DEF CallFreePlugin, Goes, Stays, Enters, DeleteInstances, Notes, OthersStay, TypeInv
<1>8. ASSUME DeleteHandle(u) PROVE OthersStay(u)
  BY <1>8
  DEF DeleteHandle, Goes, Returns, instVars, Notes, OthersStay, TypeInv
<1>9. ASSUME UnloadEach(u) PROVE OthersStay(u)
  BY <1>9
  DEF UnloadEach, Goes, Enters, DeleteInstances, Notes, OthersStay, TypeInv
<1>10. ASSUME UnloadDelete(u) PROVE OthersStay(u)
  BY <1>10
  DEF UnloadDelete, Goes, Stays, instVars, Notes, OthersStay, TypeInv
<1>11. ASSUME UnloadClose(u) PROVE OthersStay(u)
  BY <1>11
  DEF UnloadClose, Goes, Stays, Close, instVars, Notes, OthersStay, TypeInv
<1>12. ASSUME UnloadForget(u) PROVE OthersStay(u)
  BY <1>12
  DEF UnloadForget, Goes, Returns, instVars, Notes, OthersStay, TypeInv
<1>13. ASSUME FreeEach(u) PROVE OthersStay(u)
  BY <1>13
  DEF FreeEach, Goes, Stays, Enters, DeleteInstances, Notes, OthersStay, TypeInv
<1>14. ASSUME FreeClear(u) PROVE OthersStay(u)
  BY <1>14
  DEF FreeClear, Goes, Stays, instVars, Notes, OthersStay, TypeInv
<1>15. ASSUME FreeClose(u) PROVE OthersStay(u)
  BY <1>15
  DEF FreeClose, Goes, Stays, Close, instVars, Notes, OthersStay, TypeInv
<1>16. ASSUME FreeForget(u) PROVE OthersStay(u)
  BY <1>16
  DEF FreeForget, Goes, Returns, instVars, Notes, OthersStay, TypeInv
<1> QED
  BY <1>1, <1>2, <1>3, <1>4, <1>5, <1>6, <1>7, <1>8, <1>9, <1>10, <1>11, <1>12, <1>13,
       <1>14, <1>15, <1>16 DEF Advance

\* An entry of a table of tables that is written, and the others.
LEMMA EntryAt ==
  ASSUME NEW A, NEW B, NEW V, NEW t \in [A -> [B -> V]], NEW a \in A, NEW b, NEW v
  PROVE  \A x \in A, y \in B :
           [t EXCEPT ![a][b] = v][x][y] = IF x = a /\ y = b THEN v ELSE t[x][y]
OBVIOUS

\* The entries of a library table that a step writes.
LEMMA LibsEntries ==
  ASSUME TypeInv, CallInv, NEW u \in Users, Advance(u), NEW p \in Pluggers, NEW n \in Names
  PROVE  \/ libs'[p][n] = libs[p][n]
         \/ /\ Register(u) /\ p = call[u].plugger /\ n = files[call[u].lib].name
            /\ libs[p][n] = None /\ libs'[p][n] = call[u].lib
         \/ /\ p = call[u].plugger /\ libs'[p][n] = None
            /\ FreeForget(u) \/ (UnloadForget(u) /\ n = call[u].name)
<1>1. CASE Register(u)
  <2> DEFINE c == call[u]
             m == files[c.lib].name
  <2>1. c.plugger \in Pluggers
    BY <1>1 DEF Register, Goes, CallInv, InHand
  <2>2. \/ UNCHANGED libs
        \/ libs[c.plugger][m] = None /\ libs' = [libs EXCEPT ![c.plugger][m] = c.lib]
    BY <1>1 DEF Register, Absent
  <2>3. CASE libs[c.plugger][m] = None /\ libs' = [libs EXCEPT ![c.plugger][m] = c.lib]
    <3> HIDE DEF c, m
    <3>1. libs'[p][n] = IF p = c.plugger /\ n = m THEN c.lib ELSE libs[p][n]
      BY <2>1, <2>3, EntryAt DEF TypeInv
    <3> QED
      BY <1>1, <2>3, <3>1 DEF c, m
  <2>4. CASE UNCHANGED libs
    BY <2>4
  <2> QED
    BY <2>2, <2>3, <2>4
<1>2. CASE UnloadForget(u)
  <2>1. /\ call[u].plugger \in Pluggers
        /\ libs' = [libs EXCEPT ![call[u].plugger][call[u].name] = None]
    BY <1>2 DEF UnloadForget, Goes, CallInv, InHand
  <2>2. libs'[p][n] = IF p = call[u].plugger /\ n = call[u].name THEN None ELSE libs[p][n]
    BY <2>1, EntryAt DEF TypeInv
  <2> QED
    BY <1>2, <2>2
<1>3. CASE FreeForget(u)
  <2>1. libs' = [libs EXCEPT ![call[u].plugger] = Empty(Names)]
    BY <1>3 DEF FreeForget
  <2>2. Empty(Names)[n] = None
    BY DEF Empty
  <2>3. libs'[p][n] = IF p = call[u].plugger THEN None ELSE libs[p][n]
    BY <2>1, <2>2 DEF TypeInv
  <2> QED
    BY <1>3, <2>3
<1>4. CASE UNCHANGED libs
  BY <1>4
<1> QED
  BY <1>1, <1>2, <1>3, <1>4, AdvanceChanges DEF Changes

\* The entries of a handle table that a step writes.
LEMMA HandlesEntries ==
  ASSUME TypeInv, CallInv, NEW u \in Users, Advance(u), NEW p \in Pluggers, NEW i \in Ids
  PROVE  \/ handles'[p][i] = handles[p][i]
         \/ /\ SetHandle(u) /\ p = call[u].plugger /\ i = call[u].id
            /\ handles'[p][i] = [name |-> call[u].name, lib |-> call[u].lib]
         \/ /\ p = call[u].plugger /\ handles'[p][i] = None
            /\ \/ FreeClear(u)
               \/ DeleteHandle(u) /\ i = call[u].id
               \/ UnloadDelete(u) /\ i \in call[u].ids
<1>1. CASE SetHandle(u)
  <2>1. /\ call[u].plugger \in Pluggers
        /\ handles' = [handles EXCEPT ![call[u].plugger][call[u].id]
                                        = [name |-> call[u].name, lib |-> call[u].lib]]
    BY <1>1 DEF SetHandle, Goes, CallInv, InHand
  <2>2. handles'[p][i] = IF p = call[u].plugger /\ i = call[u].id
                           THEN [name |-> call[u].name, lib |-> call[u].lib]
                           ELSE handles[p][i]
    BY <2>1, EntryAt DEF TypeInv
  <2> QED
    BY <1>1, <2>2
<1>2. CASE DeleteHandle(u)
  <2>1. /\ call[u].plugger \in Pluggers
        /\ handles' = [handles EXCEPT ![call[u].plugger][call[u].id] = None]
    BY <1>2 DEF DeleteHandle, Goes, CallInv, InHand
  <2>2. handles'[p][i] = IF p = call[u].plugger /\ i = call[u].id THEN None ELSE handles[p][i]
    BY <2>1, EntryAt DEF TypeInv
  <2> QED
    BY <1>2, <2>2
<1>3. CASE UnloadDelete(u)
  <2>1. CASE UNCHANGED handles
    BY <2>1
  <2>2. CASE \E j \in call[u].ids : handles' = [handles EXCEPT ![call[u].plugger][j] = None]
    <3>1. PICK j \in call[u].ids : handles' = [handles EXCEPT ![call[u].plugger][j] = None]
      BY <2>2
    <3>2. call[u].plugger \in Pluggers
      BY <1>3 DEF UnloadDelete, Goes, CallInv, InHand
    <3>3. handles'[p][i] = IF p = call[u].plugger /\ i = j THEN None ELSE handles[p][i]
      BY <3>1, <3>2, EntryAt DEF TypeInv
    <3> QED
      BY <1>3, <3>3
  <2> QED
    BY <1>3, <2>1, <2>2 DEF UnloadDelete
<1>4. CASE FreeClear(u)
  <2>1. handles' = [handles EXCEPT ![call[u].plugger] = Empty(Ids)]
    BY <1>4 DEF FreeClear
  <2>2. handles'[p][i] = IF p = call[u].plugger THEN None ELSE handles[p][i]
    BY <2>1 DEF Empty, TypeInv
  <2> QED
    BY <1>4, <2>2
<1> QED
  BY <1>1, <1>2, <1>3, <1>4, AdvanceChanges DEF Changes

\* What others hold of a library table stays: an Unload or Free overlaps nothing.
LibsStay(u) ==
  \A v \in Users \ {u}, n \in Names :
    call[v].plugger \in Pluggers /\ libs[call[v].plugger][n] # None =>
      libs'[call[v].plugger][n] = libs[call[v].plugger][n]

LEMMA AdvanceKeepsLibs ==
  ASSUME TypeInv, CallInv, ExclusiveInv, NEW u \in Users, Advance(u)
  PROVE  LibsStay(u)
<1>1. FreeForget(u) \/ UnloadForget(u) => \A v \in Users \ {u} : call[v].plugger # call[u].plugger
  BY DEF UnloadForget, FreeForget, Goes, ExclusiveInv, TearDown
<1> QED
  BY <1>1, LibsEntries DEF LibsStay

-----------------------------------------------------------------------------
(* What a goroutine has in hand.                                           *)

LEMMA OthersKeepInHand ==
  ASSUME TypeInv, CallInv, NEW u \in Users, OthersStay(u), LibsStay(u),
         NEW v \in Users \ {u}
  PROVE  InHand(v)'
<1>1. InHand(v) /\ pc'[v] = pc[v] /\ call'[v] = call[v]
  BY DEF CallInv, OthersStay
<1>2. /\ pc[v] # "idle" => call[v].plugger \in Pluggers
      /\ \A n \in Names : call[v].plugger \in Pluggers /\ libs[call[v].plugger][n] # None =>
           libs'[call[v].plugger][n] = libs[call[v].plugger][n]
  BY <1>1 DEF InHand, LibsStay
<1> QED
  BY <1>1, <1>2, Constants DEF InHand, MakeSteps, FreeSteps, UnloadSteps

\* Register notes the library as dealt with, and a warning perhaps.
LEMMA RegisterKeeps ==
  ASSUME TypeInv, NEW u \in Users, Register(u)
  PROVE  /\ call'[u].plugger = call[u].plugger /\ call'[u].name = call[u].name
         /\ call'[u].id = call[u].id /\ call'[u].ids = call[u].ids
<1> DEFINE c == call[u]
<1>1. c \in Calls /\ call \in [Users -> Calls]
  BY DEF TypeInv
<1>2. \/ call'[u] = [c EXCEPT !.lib = None]
      \/ call'[u] = [c EXCEPT !.lib = None, !.skipped = TRUE, !.warn = AddWarning(@)]
  <2>1. \/ Notes(u, [c EXCEPT !.lib = None])
        \/ Notes(u, [c EXCEPT !.lib = None, !.skipped = TRUE, !.warn = AddWarning(@)])
    BY Zenon DEF Register
  <2> QED
    BY <1>1, <2>1 DEF Notes
<1> HIDE DEF c
<1>3. /\ call'[u].plugger = c.plugger /\ call'[u].name = c.name
      /\ call'[u].id = c.id /\ call'[u].ids = c.ids
  BY <1>1, <1>2 DEF Calls
<1> QED
  BY <1>3 DEF c

LEMMA AdvanceInHand ==
  ASSUME TypeInv, CallInv, NEW u \in Users, Advance(u)
  PROVE  InHand(u)'
<1> USE DEF CallInv
<1>1. ASSUME OpenFile(u) PROVE InHand(u)'
  <2>1. call[u] \in Calls
    BY DEF TypeInv
  <2>2. CASE Goes(u, "open", "register")
    <3>1. PICK f \in Files : call'[u] = [call[u] EXCEPT !.lib = f, !.todo = @ \ {f}]
      BY <1>1, <2>1, <2>2, CallFields DEF OpenFile, Goes, Notes, TypeInv
    <3>2. call'[u].plugger = call[u].plugger /\ call'[u].lib \in Files
      BY <2>1, <3>1 DEF Calls
    <3> QED
      BY <2>2, <3>2 DEF Goes, InHand, TypeInv, MakeSteps, FreeSteps, UnloadSteps
  <2>3. CASE UNCHANGED <<pc, call, libs>>
    BY <2>3 DEF InHand
  <2> QED
    BY <1>1, <2>2, <2>3 DEF OpenFile, hostVars
<1>2. ASSUME Register(u) PROVE InHand(u)'
  <2>1. call'[u].plugger = call[u].plugger
    BY <1>2, RegisterKeeps
  <2> QED
    BY <1>2, <2>1 DEF Register, Goes, InHand, TypeInv, MakeSteps, FreeSteps, UnloadSteps
<1>3. ASSUME LoadReturns(u) PROVE InHand(u)'
  BY <1>3 DEF LoadReturns, Goes, Returns, Notes, NoCall, InHand, TypeInv, MakeSteps,
       FreeSteps, UnloadSteps
<1>4. ASSUME CallNewPlugin(u) PROVE InHand(u)'
  BY <1>4 DEF CallNewPlugin, Goes, Stays, InHand, TypeInv, MakeSteps, FreeSteps,
       UnloadSteps
<1>5. ASSUME SetHandle(u) PROVE InHand(u)'
  BY <1>5 DEF SetHandle, Goes, Returns, Notes, NoCall, InHand, TypeInv, MakeSteps,
       FreeSteps, UnloadSteps
<1>6. ASSUME FindHandle(u) PROVE InHand(u)'
  BY <1>6 DEF FindHandle, Goes, Returns, Notes, NoCall, Stays, InHand, TypeInv,
       MakeSteps, FreeSteps, UnloadSteps
<1>7. ASSUME CallFreePlugin(u) PROVE InHand(u)'
  BY <1>7 DEF CallFreePlugin, Goes, Stays, InHand, TypeInv, MakeSteps, FreeSteps,
       UnloadSteps
<1>8. ASSUME DeleteHandle(u) PROVE InHand(u)'
  BY <1>8 DEF DeleteHandle, Goes, Returns, Notes, NoCall, InHand, TypeInv, MakeSteps,
       FreeSteps, UnloadSteps
<1>9. ASSUME UnloadEach(u) PROVE InHand(u)'
  <2> DEFINE c == call[u]
             ids == {i \in Present(handles[c.plugger]) : handles[c.plugger][i].name = c.name}
  <2>1. c \in Calls
    BY DEF TypeInv
  <2>2. call'[u] = [c EXCEPT !.ids = ids]
    BY <1>9 DEF UnloadEach, Notes, TypeInv
  <2> HIDE DEF ids
  <2>3. /\ call'[u].plugger = c.plugger /\ call'[u].name = c.name
        /\ call'[u].lib = c.lib
    BY <2>1, <2>2 DEF Calls
  <2>4. Goes(u, "unloadEach", "unloadDelete") /\ UNCHANGED libs
    BY <1>9 DEF UnloadEach
  <2> QED
    BY <2>3, <2>4 DEF Goes, InHand, TypeInv, MakeSteps, FreeSteps, UnloadSteps
<1>10. ASSUME UnloadDelete(u) PROVE InHand(u)'
  <2>1. call[u] \in Calls
    BY DEF TypeInv
  <2>2. /\ call'[u].plugger = call[u].plugger /\ call'[u].name = call[u].name
        /\ call'[u].lib = call[u].lib
    BY <1>10, <2>1 DEF UnloadDelete, Notes, Stays, TypeInv, Calls
  <2> QED
    BY <1>10, <2>2 DEF UnloadDelete, Goes, InHand, TypeInv, MakeSteps, FreeSteps, UnloadSteps
<1>11. ASSUME UnloadClose(u) PROVE InHand(u)'
  BY <1>11 DEF UnloadClose, Goes, Stays, InHand, TypeInv, MakeSteps, FreeSteps,
       UnloadSteps
<1>12. ASSUME UnloadForget(u) PROVE InHand(u)'
  BY <1>12 DEF UnloadForget, Goes, Returns, Notes, NoCall, InHand, TypeInv, MakeSteps,
       FreeSteps, UnloadSteps
<1>13. ASSUME FreeEach(u) PROVE InHand(u)'
  BY <1>13 DEF FreeEach, Goes, Stays, InHand, TypeInv, MakeSteps, FreeSteps, UnloadSteps
<1>14. ASSUME FreeClear(u) PROVE InHand(u)'
  BY <1>14 DEF FreeClear, Goes, Stays, InHand, TypeInv, MakeSteps, FreeSteps,
       UnloadSteps
<1>15. ASSUME FreeClose(u) PROVE InHand(u)'
  BY <1>15 DEF FreeClose, Goes, Stays, InHand, TypeInv, MakeSteps, FreeSteps,
       UnloadSteps
<1>16. ASSUME FreeForget(u) PROVE InHand(u)'
  BY <1>16 DEF FreeForget, Goes, Returns, Notes, NoCall, InHand, TypeInv, MakeSteps,
       FreeSteps, UnloadSteps
<1> QED
  BY <1>1, <1>2, <1>3, <1>4, <1>5, <1>6, <1>7, <1>8, <1>9, <1>10, <1>11, <1>12, <1>13,
       <1>14, <1>15, <1>16 DEF Advance

LEMMA BeginsMovesOne ==
  ASSUME TypeInv, NEW u \in Users, NEW p \in Pluggers, NEW to \in FirstSteps,
         NEW c \in Calls, BeginsWith(u, p, to, c)
  PROVE  OthersStay(u) /\ pc[u] = "idle" /\ pc'[u] = to /\ call'[u] = c
BY DEF BeginsWith, Begins, Notes, OthersStay, TypeInv

LEMMA CallStep ==
  ASSUME TypeInv, CallInv, ExclusiveInv, [Next]_vars
  PROVE  CallInv'
<1>1. ASSUME NEW u \in Users, Advance(u) PROVE CallInv'
  BY <1>1, OthersKeepInHand, AdvanceInHand, AdvanceMovesOne, AdvanceKeepsLibs DEF CallInv
<1>2. ASSUME NEW u \in Users, NEW p \in Pluggers, Invoke(u, p) PROVE CallInv'
  <2>1. PICK to \in FirstSteps, c \in Calls : BeginsWith(u, p, to, c)
    BY <1>2, InvokeBegins
  <2>2. OthersStay(u) /\ pc'[u] = to /\ call'[u] = c
    BY <2>1, BeginsMovesOne
  <2>3. UNCHANGED libs
    BY <2>1 DEF BeginsWith, Begins
  <2>4. LibsStay(u)
    BY <2>3 DEF LibsStay
  <2>5. InHand(u)'
    BY <2>1, <2>2, <2>3
    DEF BeginsWith, InHand, FirstSteps, MakeSteps, FreeSteps, UnloadSteps, TypeInv
  <2> QED
    BY <2>2, <2>4, <2>5, OthersKeepInHand DEF CallInv
<1>3. ASSUME NEW p \in Pluggers, SetVersionSafe(p) PROVE CallInv'
  BY <1>3 DEF SetVersionSafe, CallInv, InHand
<1>4. CASE UNCHANGED vars
  BY <1>4 DEF vars, hostVars, CallInv, InHand
<1> QED
  BY <1>1, <1>2, <1>3, <1>4 DEF Next

-----------------------------------------------------------------------------
(* What a step leaves of a call.                                           *)

KeepsCall(u) ==
  LET c == call[u]
      d == call'[u]
  IN  \/ pc[u] # "idle" /\ pc'[u] = "idle" /\ d = NoCall
      \/ /\ pc[u] # "idle" /\ pc'[u] # "idle"
         /\ pc[u] \in TearDown <=> pc'[u] \in TearDown
         /\ d.plugger = c.plugger /\ d.name = c.name /\ d.id = c.id
         /\ pc[u] \in LoadSteps \/ d.lib = c.lib
         /\ UnloadEach(u) \/ UnloadDelete(u) \/ d.ids = c.ids

LEMMA AdvanceKeepsCall ==
  ASSUME TypeInv, NEW u \in Users, Advance(u)
  PROVE  KeepsCall(u)
<1>1. ASSUME OpenFile(u) PROVE KeepsCall(u)
  <2>1. call[u] \in Calls
    BY DEF TypeInv
  <2>2. CASE UNCHANGED <<pc, call>> /\ pc[u] = "open"
    BY <2>2 DEF KeepsCall, LoadSteps, TearDown
  <2>3. CASE Goes(u, "open", "register")
    <3>1. PICK f \in Files : call'[u] = [call[u] EXCEPT !.lib = f, !.todo = @ \ {f}]
      BY <1>1, <2>1, <2>3, CallFields DEF OpenFile, Goes, Notes, TypeInv
    <3>2. /\ call'[u].plugger = call[u].plugger /\ call'[u].name = call[u].name
          /\ call'[u].id = call[u].id /\ call'[u].ids = call[u].ids
      BY <2>1, <3>1 DEF Calls
    <3> QED
      BY <2>3, <3>2 DEF KeepsCall, Goes, TypeInv, LoadSteps, TearDown
  <2> QED
    BY <1>1, <2>2, <2>3 DEF OpenFile
<1>2. ASSUME Register(u) PROVE KeepsCall(u)
  <2>1. /\ call'[u].plugger = call[u].plugger /\ call'[u].name = call[u].name
        /\ call'[u].id = call[u].id /\ call'[u].ids = call[u].ids
    BY <1>2, RegisterKeeps
  <2> QED
    BY <1>2, <2>1 DEF Register, Goes, KeepsCall, TypeInv, LoadSteps, TearDown
<1>3. ASSUME LoadReturns(u) PROVE KeepsCall(u)
  BY <1>3 DEF LoadReturns, Goes, Returns, Notes, KeepsCall, TypeInv, LoadSteps, TearDown
<1>4. ASSUME CallNewPlugin(u) PROVE KeepsCall(u)
  BY <1>4 DEF CallNewPlugin, Goes, Stays, KeepsCall, TypeInv, LoadSteps, TearDown
<1>5. ASSUME SetHandle(u) PROVE KeepsCall(u)
  BY <1>5 DEF SetHandle, Goes, Returns, Notes, KeepsCall, TypeInv, LoadSteps, TearDown
<1>6. ASSUME FindHandle(u) PROVE KeepsCall(u)
  BY <1>6 DEF FindHandle, Goes, Returns, Notes, Stays, KeepsCall, TypeInv, LoadSteps,
       TearDown
<1>7. ASSUME CallFreePlugin(u) PROVE KeepsCall(u)
  BY <1>7 DEF CallFreePlugin, Goes, Stays, KeepsCall, TypeInv, LoadSteps, TearDown
<1>8. ASSUME DeleteHandle(u) PROVE KeepsCall(u)
  BY <1>8 DEF DeleteHandle, Goes, Returns, Notes, KeepsCall, TypeInv, LoadSteps,
       TearDown
<1>9. ASSUME UnloadEach(u) PROVE KeepsCall(u)
  <2> DEFINE c == call[u]
             ids == {i \in Present(handles[c.plugger]) : handles[c.plugger][i].name = c.name}
  <2>1. c \in Calls
    BY DEF TypeInv
  <2>2. call'[u] = [c EXCEPT !.ids = ids] /\ Goes(u, "unloadEach", "unloadDelete")
    BY <1>9 DEF UnloadEach, Notes, TypeInv
  <2> HIDE DEF ids
  <2> QED
    BY <1>9, <2>1, <2>2 DEF Goes, KeepsCall, TypeInv, Calls, LoadSteps, TearDown
<1>10. ASSUME UnloadDelete(u) PROVE KeepsCall(u)
  <2>1. call[u] \in Calls
    BY DEF TypeInv
  <2>2. /\ call'[u].plugger = call[u].plugger /\ call'[u].name = call[u].name
        /\ call'[u].lib = call[u].lib /\ call'[u].id = call[u].id
    BY <1>10, <2>1 DEF UnloadDelete, Notes, Stays, TypeInv, Calls
  <2> QED
    BY <1>10, <2>2 DEF UnloadDelete, Goes, KeepsCall, TypeInv, LoadSteps, TearDown
<1>11. ASSUME UnloadClose(u) PROVE KeepsCall(u)
  BY <1>11 DEF UnloadClose, Goes, Stays, KeepsCall, TypeInv, LoadSteps, TearDown
<1>12. ASSUME UnloadForget(u) PROVE KeepsCall(u)
  BY <1>12 DEF UnloadForget, Goes, Returns, Notes, KeepsCall, TypeInv, LoadSteps,
       TearDown
<1>13. ASSUME FreeEach(u) PROVE KeepsCall(u)
  BY <1>13 DEF FreeEach, Goes, Stays, KeepsCall, TypeInv, LoadSteps, TearDown
<1>14. ASSUME FreeClear(u) PROVE KeepsCall(u)
  BY <1>14 DEF FreeClear, Goes, Stays, KeepsCall, TypeInv, LoadSteps, TearDown
<1>15. ASSUME FreeClose(u) PROVE KeepsCall(u)
  BY <1>15 DEF FreeClose, Goes, Stays, KeepsCall, TypeInv, LoadSteps, TearDown
<1>16. ASSUME FreeForget(u) PROVE KeepsCall(u)
  BY <1>16 DEF FreeForget, Goes, Returns, Notes, KeepsCall, TypeInv, LoadSteps, TearDown
<1> QED
  BY <1>1, <1>2, <1>3, <1>4, <1>5, <1>6, <1>7, <1>8, <1>9, <1>10, <1>11, <1>12, <1>13,
       <1>14, <1>15, <1>16 DEF Advance

LEMMA ExclusiveStep ==
  ASSUME Exclusive, TypeInv, CallInv, ExclusiveInv, [Next]_vars
  PROVE  ExclusiveInv'
<1>1. ASSUME NEW u \in Users, Advance(u) PROVE ExclusiveInv'
  <2>1. OthersStay(u) /\ KeepsCall(u)
    BY <1>1, AdvanceMovesOne, AdvanceKeepsCall
  <2>2. \A v \in Users : pc[v] # "idle" => call[v].plugger \in Pluggers
    BY DEF CallInv, InHand
  <2> QED
    BY <2>1, <2>2, Constants
    DEF OthersStay, KeepsCall, ExclusiveInv, NoCall, TearDown
<1>2. ASSUME NEW u \in Users, NEW p \in Pluggers, Invoke(u, p) PROVE ExclusiveInv'
  <2>1. PICK to \in FirstSteps, c \in Calls : BeginsWith(u, p, to, c)
    BY <1>2, InvokeBegins
  <2>2. OthersStay(u) /\ pc[u] = "idle" /\ pc'[u] = to /\ call'[u] = c /\ c.plugger = p
    BY <2>1, BeginsMovesOne DEF BeginsWith
  <2>3. \A v \in Users : call[v].plugger = p => to \notin TearDown /\ pc[v] \notin TearDown
    BY <2>1, <2>2 DEF BeginsWith, Begins, MayBegin
  <2> QED
    BY <2>2, <2>3 DEF OthersStay, ExclusiveInv
<1>3. ASSUME NEW p \in Pluggers, SetVersionSafe(p) PROVE ExclusiveInv'
  BY <1>3 DEF SetVersionSafe, ExclusiveInv
<1>4. CASE UNCHANGED vars
  BY <1>4 DEF vars, ExclusiveInv
<1> QED
  BY <1>1, <1>2, <1>3, <1>4 DEF Next

\* A library is registered under the name it gives itself.
LEMMA LibsStep ==
  ASSUME TypeInv, CallInv, LibsInv, [Next]_vars
  PROVE  LibsInv'
<1>1. ASSUME UNCHANGED <<files, libs>> PROVE LibsInv'
  BY <1>1 DEF LibsInv
<1>2. ASSUME NEW u \in Users, Advance(u) PROVE LibsInv'
  <2>1. UNCHANGED files
    BY <1>2, AdvanceChanges DEF Changes
  <2> QED
    BY <1>2, <2>1, LibsEntries DEF LibsInv
<1>3. ASSUME NEW u \in Users, NEW p \in Pluggers, Invoke(u, p) PROVE LibsInv'
  BY <1>1, <1>3, InvokeBegins DEF BeginsWith, Begins
<1>4. ASSUME NEW p \in Pluggers, SetVersionSafe(p) PROVE LibsInv'
  BY <1>1, <1>4 DEF SetVersionSafe
<1>5. CASE UNCHANGED vars
  BY <1>1, <1>5 DEF vars, hostVars
<1> QED
  BY <1>2, <1>3, <1>4, <1>5 DEF Next

-----------------------------------------------------------------------------
(* The library of a handle is registered, and a library goes without one.  *)

LEMMA HandlesStep ==
  ASSUME LibraryInv, [Next]_vars
  PROVE  HandlesInv'
<1> USE DEF LibraryInv
<1>1. ASSUME UNCHANGED <<handles, libs>> PROVE HandlesInv'
  BY <1>1 DEF HandlesInv, Present
<1>2. ASSUME NEW u \in Users, Advance(u) PROVE HandlesInv'
  <2> SUFFICES ASSUME NEW p \in Pluggers, NEW i \in Ids, handles'[p][i] # None
               PROVE  libs'[p][handles'[p][i].name] = handles'[p][i].lib
    BY TypeStep DEF HandlesInv, Present, TypeInv
  <2>1. CASE handles'[p][i] = handles[p][i]
    <3> DEFINE h == handles[p][i]
    <3>1. h \in Handles /\ libs[p][h.name] = h.lib
      BY <2>1 DEF HandlesInv, Present, TypeInv
    <3>2. h.name \in Names /\ h.lib # None
      BY <3>1, Constants DEF Handles
    <3>3. ~ (p = call[u].plugger /\ FreeForget(u))
      BY <2>1 DEF FreeForget, Goes, TearInv, Left, Present, TypeInv
    <3>4. ~ (p = call[u].plugger /\ UnloadForget(u) /\ h.name = call[u].name)
      BY <2>1 DEF UnloadForget, Goes, TearInv, Left, Present, TypeInv
    <3>5. libs'[p][h.name] = libs[p][h.name]
      BY <1>2, <3>1, <3>2, <3>3, <3>4, LibsEntries
    <3> QED
      BY <2>1, <3>1, <3>5
  <2>2. CASE /\ SetHandle(u) /\ p = call[u].plugger
             /\ handles'[p][i] = [name |-> call[u].name, lib |-> call[u].lib]
    BY <2>2 DEF SetHandle, Goes, CallInv, InHand, MakeSteps
  <2> QED
    BY <1>2, <2>1, <2>2, HandlesEntries
<1>3. ASSUME NEW u \in Users, NEW p \in Pluggers, Invoke(u, p) PROVE HandlesInv'
  BY <1>1, <1>3, InvokeBegins DEF BeginsWith, Begins
<1>4. ASSUME NEW p \in Pluggers, SetVersionSafe(p) PROVE HandlesInv'
  BY <1>1, <1>4 DEF SetVersionSafe
<1>5. CASE UNCHANGED vars
  BY <1>1, <1>5 DEF vars, hostVars
<1> QED
  BY <1>2, <1>3, <1>4, <1>5 DEF Next


\* The action that brings a goroutine to a step.
Arrives(u) ==
  LET to == pc'[u]
  IN  /\ to = "register" => OpenFile(u)
      /\ to = "open" => OpenFile(u) \/ Register(u)
      /\ to = "setHandle" => CallNewPlugin(u)
      /\ to = "callFree" => FindHandle(u)
      /\ to = "deleteHandle" => CallFreePlugin(u)
      /\ to = "unloadDelete" => UnloadEach(u) \/ UnloadDelete(u)
      /\ to = "unloadClose" => UnloadDelete(u)
      /\ to = "unloadForget" => UnloadClose(u)
      /\ to = "freeClear" => FreeEach(u)
      /\ to = "freeClose" => FreeClear(u)
      /\ to = "freeForget" => FreeClose(u)
      /\ to \notin {"callNew", "findHandle", "unloadEach", "freeEach"}

LEMMA AdvanceArrives ==
  ASSUME TypeInv, NEW u \in Users, Advance(u)
  PROVE  Arrives(u)
<1>1. ASSUME OpenFile(u) PROVE Arrives(u)
  BY <1>1 DEF Arrives, OpenFile, Goes, TypeInv
<1>2. ASSUME Register(u) PROVE Arrives(u)
  BY <1>2 DEF Arrives, Register, Goes, TypeInv
<1>3. ASSUME LoadReturns(u) PROVE Arrives(u)
  BY <1>3 DEF Arrives, LoadReturns, Goes, TypeInv
<1>4. ASSUME CallNewPlugin(u) PROVE Arrives(u)
  BY <1>4 DEF Arrives, CallNewPlugin, Goes, TypeInv
<1>5. ASSUME SetHandle(u) PROVE Arrives(u)
  BY <1>5 DEF Arrives, SetHandle, Goes, TypeInv
<1>6. ASSUME FindHandle(u) PROVE Arrives(u)
  BY <1>6 DEF Arrives, FindHandle, Goes, TypeInv
<1>7. ASSUME CallFreePlugin(u) PROVE Arrives(u)
  BY <1>7 DEF Arrives, CallFreePlugin, Goes, TypeInv
<1>8. ASSUME DeleteHandle(u) PROVE Arrives(u)
  BY <1>8 DEF Arrives, DeleteHandle, Goes, TypeInv
<1>9. ASSUME UnloadEach(u) PROVE Arrives(u)
  BY <1>9 DEF Arrives, UnloadEach, Goes, TypeInv
<1>10. ASSUME UnloadDelete(u) PROVE Arrives(u)
  BY <1>10 DEF Arrives, UnloadDelete, Goes, TypeInv
<1>11. ASSUME UnloadClose(u) PROVE Arrives(u)
  BY <1>11 DEF Arrives, UnloadClose, Goes, TypeInv
<1>12. ASSUME UnloadForget(u) PROVE Arrives(u)
  BY <1>12 DEF Arrives, UnloadForget, Goes, TypeInv
<1>13. ASSUME FreeEach(u) PROVE Arrives(u)
  BY <1>13 DEF Arrives, FreeEach, Goes, TypeInv
<1>14. ASSUME FreeClear(u) PROVE Arrives(u)
  BY <1>14 DEF Arrives, FreeClear, Goes, TypeInv
<1>15. ASSUME FreeClose(u) PROVE Arrives(u)
  BY <1>15 DEF Arrives, FreeClose, Goes, TypeInv
<1>16. ASSUME FreeForget(u) PROVE Arrives(u)
  BY <1>16 DEF Arrives, FreeForget, Goes, TypeInv
<1> QED
  BY <1>1, <1>2, <1>3, <1>4, <1>5, <1>6, <1>7, <1>8, <1>9, <1>10, <1>11, <1>12, <1>13,
       <1>14, <1>15, <1>16 DEF Advance

LEMMA TearStep ==
  ASSUME LibraryInv, [Next]_vars
  PROVE  TearInv'
<1> USE DEF LibraryInv
<1>0. (\A v \in Users : Left(v)) /\ ((\A v \in Users : Left(v)') => TearInv')
  BY DEF TearInv
<1>1. ASSUME NEW u \in Users, Advance(u) PROVE TearInv'
  <2>1. OthersStay(u) /\ KeepsCall(u)
    BY <1>1, AdvanceMovesOne, AdvanceKeepsCall
  <2>2. ASSUME NEW v \in Users \ {u} PROVE Left(v)'
    <3>1. CASE pc[v] \in TearDown
      <4>1. call[v].plugger \in Pluggers /\ call[v].plugger # call[u].plugger
        BY <3>1 DEF CallInv, InHand, ExclusiveInv, TearDown
      <4>2. \A i \in Ids : handles'[call[v].plugger][i] = handles[call[v].plugger][i]
        BY <1>1, <4>1, HandlesEntries
      <4>3. handles' \in [Pluggers -> [Ids -> Handles \cup {None}]]
        BY TypeStep DEF TypeInv
      <4>4. handles'[call[v].plugger] = handles[call[v].plugger]
        BY <4>1, <4>2, <4>3 DEF TypeInv
      <4> QED
        BY <1>0, <2>1, <4>4 DEF OthersStay, Left
    <3>2. CASE pc[v] \notin TearDown
      BY <2>1, <3>2 DEF OthersStay, Left, TearDown
    <3> QED
      BY <3>1, <3>2
  <2>3. Left(u)'
    <3>1. CASE UnloadEach(u)
      <4> DEFINE c == call[u]
                 ids == {i \in Present(handles[c.plugger]) : handles[c.plugger][i].name = c.name}
      <4>1. c \in Calls
        BY DEF TypeInv
      <4>2. call'[u] = [c EXCEPT !.ids = ids] /\ pc'[u] = "unloadDelete" /\ UNCHANGED handles
        BY <3>1 DEF UnloadEach, Goes, Notes, TypeInv
      <4>3. call'[u].plugger = c.plugger /\ call'[u].name = c.name /\ call'[u].ids = ids
        BY <4>1, <4>2 DEF Calls
      <4> QED
        BY <4>2, <4>3 DEF Left
    <3>2. CASE UnloadDelete(u)
      <4> DEFINE c == call[u]
      <4>1. c \in Calls /\ c.plugger \in Pluggers /\ pc[u] = "unloadDelete"
        BY <3>2 DEF UnloadDelete, Goes, CallInv, InHand, TypeInv
      <4>2. CASE c.ids = {} /\ pc'[u] = "unloadClose" /\ call'[u] = c /\ UNCHANGED handles
        BY <1>0, <4>1, <4>2 DEF Left
      <4>3. ASSUME NEW i \in c.ids, pc'[u] = "unloadDelete",
                   handles' = [handles EXCEPT ![c.plugger][i] = None],
                   call'[u] = [c EXCEPT !.ids = @ \ {i}]
            PROVE  Left(u)'
        <5>1. call'[u].plugger = c.plugger /\ call'[u].name = c.name /\ call'[u].ids = c.ids \ {i}
          BY <4>1, <4>3 DEF Calls
        <5>2. \A j \in Ids : handles'[c.plugger][j] = IF j = i THEN None
                                                              ELSE handles[c.plugger][j]
          BY <4>1, <4>3, EntryAt DEF TypeInv
        <5>3. DOMAIN handles'[c.plugger] = Ids /\ DOMAIN handles[c.plugger] = Ids
          BY <4>1, TypeStep DEF TypeInv
        <5> QED
          BY <1>0, <4>1, <4>3, <5>1, <5>2, <5>3 DEF Left, Present
      <4>4. \/ c.ids = {} /\ pc'[u] = "unloadClose" /\ call'[u] = c /\ UNCHANGED handles
            \/ \E i \in c.ids : /\ pc'[u] = "unloadDelete"
                                /\ handles' = [handles EXCEPT ![c.plugger][i] = None]
                                /\ call'[u] = [c EXCEPT !.ids = @ \ {i}]
        BY <3>2 DEF UnloadDelete, Goes, Notes, Stays, TypeInv
      <4> QED
        BY <4>2, <4>3, <4>4
    <3>3. CASE FreeClear(u)
      BY <3>3 DEF FreeClear, Goes, Stays, Left, Present, Empty, TypeInv, CallInv, InHand
    <3>4. CASE UnloadClose(u) \/ FreeClose(u)
      BY <1>0, <3>4 DEF UnloadClose, FreeClose, Goes, Stays, Left, TypeInv
    <3> QED
      BY <1>1, <3>1, <3>2, <3>3, <3>4, AdvanceArrives DEF Arrives, Left
  <2> QED
    BY <1>0, <2>2, <2>3
<1>2. ASSUME NEW u \in Users, NEW p \in Pluggers, Invoke(u, p) PROVE TearInv'
  <2>1. PICK to \in FirstSteps, c \in Calls : BeginsWith(u, p, to, c)
    BY <1>2, InvokeBegins
  <2>2. OthersStay(u) /\ pc'[u] = to
    BY <2>1, BeginsMovesOne
  <2>3. UNCHANGED handles
    BY <2>1 DEF BeginsWith, Begins
  <2> QED
    BY <1>0, <2>2, <2>3 DEF OthersStay, Left, FirstSteps
<1>3. ASSUME NEW p \in Pluggers, SetVersionSafe(p) PROVE TearInv'
  BY <1>3 DEF SetVersionSafe, TearInv, Left
<1>4. CASE UNCHANGED vars
  BY <1>4 DEF vars, hostVars, TearInv, Left
<1> QED
  BY <1>1, <1>2, <1>3, <1>4 DEF Next

-----------------------------------------------------------------------------
(* A library is open as often as it is used.                               *)

LEMMA HoldersFinite ==
  ASSUME NEW f \in Files
  PROVE  IsFiniteSet(Holders(f)) /\ IsFiniteSet(Loaders(f))
BY RegistryAssumption, FS_Subset DEF Holders, Loaders

LEMMA UsedIsOpen ==
  ASSUME OpensMatch, NEW f \in Files, Holders(f) # {} \/ Loaders(f) # {}
  PROVE  opens[f] \in Nat /\ opens[f] > 0
<1>1. /\ Cardinality(Holders(f)) \in Nat /\ Cardinality(Loaders(f)) \in Nat
      /\ Cardinality(Holders(f)) = 0 <=> Holders(f) = {}
      /\ Cardinality(Loaders(f)) = 0 <=> Loaders(f) = {}
  BY HoldersFinite, FS_CardinalityType, FS_EmptySet
<1>2. opens[f] = Cardinality(Holders(f)) + Cardinality(Loaders(f))
  BY DEF OpensMatch
<1> QED
  BY <1>1, <1>2

\* A library that an operation finds registered is open, until the operation
\* forgets it.
LEMMA RegisteredIsHeld ==
  ASSUME LibraryInv, NEW u \in Users, pc[u] # "idle",
         pc[u] \notin {"unloadForget", "freeForget"},
         NEW n \in Names, libs[call[u].plugger][n] # None
  PROVE  /\ libs[call[u].plugger][n] \in Files
         /\ Holds(call[u].plugger, libs[call[u].plugger][n])
         /\ opens[libs[call[u].plugger][n]] > 0
<1> DEFINE p == call[u].plugger
           f == libs[p][n]
<1>1. p \in Pluggers /\ f \in Files
  BY DEF LibraryInv, CallInv, InHand, TypeInv
<1>2. ~\E v \in Users : Forgetting(v, p, f)
  BY DEF LibraryInv, ExclusiveInv, Forgetting, TearDown
<1>3. Holds(p, f)
  BY <1>2 DEF Holds
<1>4. Holders(f) # {}
  BY <1>1, <1>3 DEF Holders
<1> QED
  BY <1>1, <1>3, <1>4, UsedIsOpen DEF LibraryInv

LEMMA NoStrayStep ==
  ASSUME LibraryInv, [Next]_vars
  PROVE  NoStrayCall'
<1> USE DEF LibraryInv
<1>1. ASSUME UNCHANGED stray PROVE NoStrayCall'
  BY <1>1 DEF NoStrayCall
<1>2. ASSUME NEW F, stray' = (stray \/ \E f \in F : opens[f] = 0), \A f \in F : opens[f] > 0
      PROVE  NoStrayCall'
  BY <1>2 DEF NoStrayCall, TypeInv
<1>3. ASSUME NEW u \in Users, Advance(u) PROVE NoStrayCall'
  <2> DEFINE c == call[u]
             p == c.plugger
  <2>1. CASE Register(u)
    <3>1. c.lib \in Files /\ pc[u] = "register"
      BY <2>1 DEF Register, Goes, CallInv, InHand
    <3>2. Loaders(c.lib) # {}
      BY <3>1 DEF Loaders
    <3>3. opens[c.lib] > 0
      BY <3>1, <3>2, UsedIsOpen
    <3>4. UNCHANGED stray \/ stray' = (stray \/ \E f \in {c.lib} : opens[f] = 0)
      BY <2>1 DEF Register, Close
    <3>5. \A f \in {c.lib} : opens[f] > 0
      BY <3>3
    <3> QED
      BY <3>4, <3>5 DEF NoStrayCall, TypeInv
  <2>2. CASE CallNewPlugin(u) \/ CallFreePlugin(u) \/ UnloadClose(u)
    <3>1. /\ pc[u] \in {"callNew", "callFree", "unloadClose"}
          /\ stray' = (stray \/ \E f \in {c.lib} : opens[f] = 0)
      BY <2>2 DEF CallNewPlugin, CallFreePlugin, UnloadClose, Goes, Enters, Close
    <3>2. c.lib \in Files /\ \E n \in Names : libs[p][n] = c.lib
      BY <3>1 DEF CallInv, InHand, MakeSteps, FreeSteps, UnloadSteps
    <3>3. opens[c.lib] > 0
      BY <3>1, <3>2, RegisteredIsHeld, Constants
    <3>4. \A f \in {c.lib} : opens[f] > 0
      BY <3>3
    <3> QED
      BY <3>1, <3>4 DEF NoStrayCall, TypeInv
  <2>3. CASE UnloadEach(u)
    <3>1. PICK I : stray' = (stray \/ \E f \in {c.lib : i \in I} : opens[f] = 0)
      BY <2>3 DEF UnloadEach, Enters
    <3>2. pc[u] = "unloadEach" /\ c.lib \in Files /\ \E n \in Names : libs[p][n] = c.lib
      BY <2>3 DEF UnloadEach, Goes, CallInv, InHand, UnloadSteps
    <3>3. opens[c.lib] > 0
      BY <3>2, RegisteredIsHeld, Constants
    <3>4. \A f \in {c.lib : i \in I} : opens[f] > 0
      BY <3>3
    <3> QED
      BY <1>2, <3>1, <3>4
  <2>4. CASE FreeEach(u)
    <3> DEFINE D == {<<handles[p][i].lib, i>> : i \in Present(handles[p])}
    <3>1. pc[u] = "freeEach" /\ stray' = (stray \/ \E f \in {d[1] : d \in D} : opens[f] = 0)
      BY <2>4 DEF FreeEach, Goes, Enters
    <3>2. p \in Pluggers
      BY <3>1 DEF CallInv, InHand
    <3>3. ASSUME NEW i \in Present(handles[p]) PROVE opens[handles[p][i].lib] > 0
      <4>1. handles[p][i] \in Handles /\ libs[p][handles[p][i].name] = handles[p][i].lib
        BY <3>2 DEF Present, HandlesInv, TypeInv
      <4>2. handles[p][i].name \in Names /\ handles[p][i].lib # None
        BY <4>1, Constants DEF Handles
      <4> QED
        BY <3>1, <4>1, <4>2, RegisteredIsHeld
    <3>4. \A f \in {d[1] : d \in D} : opens[f] > 0
      BY <3>3
    <3> HIDE DEF D
    <3> QED
      BY <1>2, <3>1, <3>4
  <2>5. CASE FreeClose(u)
    <3>1. /\ pc[u] = "freeClose"
          /\ stray' = (stray \/ \E f \in {libs[p][n] : n \in Present(libs[p])} : opens[f] = 0)
      BY <2>5 DEF FreeClose, Goes, Close
    <3>2. p \in Pluggers
      BY <3>1 DEF CallInv, InHand
    <3>3. \A n \in Present(libs[p]) : opens[libs[p][n]] > 0
      BY <3>1, <3>2, RegisteredIsHeld DEF Present, TypeInv
    <3>4. \A f \in {libs[p][n] : n \in Present(libs[p])} : opens[f] > 0
      BY <3>3
    <3> QED
      BY <1>2, <3>1, <3>4
  <2>6. CASE UNCHANGED stray
    BY <1>1, <2>6
  <2> QED
    BY <1>3, <2>1, <2>2, <2>3, <2>4, <2>5, <2>6, AdvanceChanges DEF Changes
<1>4. ASSUME NEW u \in Users, NEW p \in Pluggers, Invoke(u, p) PROVE NoStrayCall'
  BY <1>1, <1>4, InvokeBegins DEF BeginsWith, Begins
<1>5. ASSUME NEW p \in Pluggers, SetVersionSafe(p) PROVE NoStrayCall'
  BY <1>1, <1>5 DEF SetVersionSafe
<1>6. CASE UNCHANGED vars
  BY <1>1, <1>6 DEF vars
<1> QED
  BY <1>3, <1>4, <1>5, <1>6 DEF Next

LEMMA HoldsSame ==
  ASSUME NEW u \in Users, OthersStay(u), NEW q \in Pluggers, NEW f \in Files,
         \A n \in Names : libs'[q][n] = f <=> libs[q][n] = f,
         Forgetting(u, q, f)' <=> Forgetting(u, q, f)
  PROVE  Holds(q, f)' <=> Holds(q, f)
BY DEF OthersStay, Holds, Forgetting

LEMMA HoldersSame ==
  ASSUME NEW f \in Files, \A q \in Pluggers : Holds(q, f)' <=> Holds(q, f)
  PROVE  Holders(f)' = Holders(f)
BY DEF Holders

LEMMA LoadersSame ==
  ASSUME NEW u \in Users, OthersStay(u), NEW f \in Files, pc[u] # "register",
         pc'[u] # "register"
  PROVE  Loaders(f)' = Loaders(f)
BY DEF OthersStay, Loaders

\* One more and one less.
LEMMA CountOf ==
  ASSUME NEW S, IsFiniteSet(S), NEW x
  PROVE  /\ Cardinality(S) \in Nat
         /\ x \notin S => Cardinality(S \cup {x}) = Cardinality(S) + 1
         /\ x \in S => Cardinality(S \ {x}) = Cardinality(S) - 1
BY FS_CardinalityType, FS_AddElement, FS_RemoveElement

\* Steps that neither open nor close a library, nor forget one.
LEMMA OpensQuiet ==
  ASSUME LibraryInv, NEW u \in Users, OthersStay(u), NEW f \in Files,
         UNCHANGED <<opens, libs>>,
         pc[u] \notin {"register", "unloadForget", "freeForget"},
         pc'[u] \notin {"register", "unloadForget", "freeForget"}
  PROVE  (opens[f] = Cardinality(Holders(f)) + Cardinality(Loaders(f)))'
<1>1. Loaders(f)' = Loaders(f)
  BY LoadersSame
<1>2. \A q \in Pluggers : Holds(q, f)' <=> Holds(q, f)
  BY HoldsSame DEF Forgetting
<1>3. Holders(f)' = Holders(f)
  BY <1>2, HoldersSame
<1> QED
  BY <1>1, <1>3 DEF LibraryInv, OpensMatch

LEMMA OpensOpenFile ==
  ASSUME LibraryInv, NEW u \in Users, OpenFile(u), OthersStay(u), NEW f \in Files
  PROVE  (opens[f] = Cardinality(Holders(f)) + Cardinality(Loaders(f)))'
<1> USE DEF LibraryInv
<1>1. CASE UNCHANGED <<pc, call, libs, opens>> /\ pc[u] = "open"
  BY <1>1, OpensQuiet
<1>2. CASE Goes(u, "open", "register")
  <2>1. call[u] \in Calls /\ call[u].todo \in SUBSET Files
    BY CallFields DEF TypeInv
  <2>2. PICK g \in Files : /\ call'[u] = [call[u] EXCEPT !.lib = g, !.todo = @ \ {g}]
                           /\ opens' = [opens EXCEPT ![g] = @ + 1]
    BY <1>2, <2>1 DEF OpenFile, Goes, Notes, TypeInv
  <2>3. call'[u].lib = g
    BY <2>1, <2>2 DEF Calls
  <2>4. pc[u] = "open" /\ pc'[u] = "register" /\ UNCHANGED libs
    BY <1>2 DEF OpenFile, Goes, hostVars, TypeInv
  <2>5. \A q \in Pluggers : Holds(q, f)' <=> Holds(q, f)
    BY <2>4, HoldsSame DEF Forgetting
  <2>6. Holders(f)' = Holders(f)
    BY <2>5, HoldersSame
  <2>7. opens[f] = Cardinality(Holders(f)) + Cardinality(Loaders(f))
    BY DEF OpensMatch
  <2>8. Cardinality(Holders(f)) \in Nat /\ Cardinality(Loaders(f)) \in Nat
    BY HoldersFinite, CountOf
  <2>9. u \notin Loaders(f)
    BY <2>4 DEF Loaders
  <2>10. CASE f = g
    <3>1. Loaders(f)' = Loaders(f) \cup {u}
      BY <2>3, <2>4, <2>10 DEF OthersStay, Loaders
    <3>2. Cardinality(Loaders(f)') = Cardinality(Loaders(f)) + 1
      BY <2>9, <3>1, HoldersFinite, CountOf
    <3>3. opens'[f] = opens[f] + 1
      BY <2>2, <2>10 DEF TypeInv
    <3> QED
      BY <2>6, <2>7, <2>8, <3>2, <3>3
  <2>11. CASE f # g
    <3>1. Loaders(f)' = Loaders(f)
      BY <2>3, <2>4, <2>11 DEF OthersStay, Loaders
    <3>2. opens'[f] = opens[f]
      BY <2>2, <2>11 DEF TypeInv
    <3> QED
      BY <2>6, <2>7, <3>1, <3>2
  <2> QED
    BY <2>10, <2>11
<1> QED
  BY <1>1, <1>2 DEF OpenFile, hostVars

LEMMA OpensRegister ==
  ASSUME LibraryInv, NEW u \in Users, Register(u), OthersStay(u), KeepsCall(u),
         NEW f \in Files
  PROVE  (opens[f] = Cardinality(Holders(f)) + Cardinality(Loaders(f)))'
<1> USE DEF LibraryInv
<1>0. PICK p, g, n : p = call[u].plugger /\ g = call[u].lib /\ n = files[g].name
  OBVIOUS
<1> USE <1>0
<1>1. /\ pc[u] = "register" /\ pc'[u] = "open"
      /\ p \in Pluggers /\ g \in Files /\ call'[u].plugger = p
  BY DEF Register, Goes, KeepsCall, CallInv, InHand, TypeInv
<1>2. /\ opens[f] = Cardinality(Holders(f)) + Cardinality(Loaders(f))
      /\ Cardinality(Holders(f)) \in Nat /\ Cardinality(Loaders(f)) \in Nat
  BY HoldersFinite, CountOf DEF OpensMatch
<1>3. \A q \in Pluggers : ~Forgetting(u, q, f) /\ ~Forgetting(u, q, f)'
  BY <1>1 DEF Forgetting
<1>4. CASE f # g
  <2>1. Loaders(f)' = Loaders(f)
    BY <1>1, <1>4 DEF OthersStay, Loaders
  <2>2. opens'[f] = opens[f]
    BY <1>4 DEF Register, Close, TypeInv
  <2>3. \A q \in Pluggers, m \in Names : libs'[q][m] = f <=> libs[q][m] = f
    <3>1. Advance(u) /\ ~UnloadForget(u) /\ ~FreeForget(u)
      BY <1>1 DEF Advance, UnloadForget, FreeForget, Goes
    <3>2. f # None
      BY Constants
    <3>3. \A q \in Pluggers, m \in Names :
            libs'[q][m] = libs[q][m] \/ (libs[q][m] = None /\ libs'[q][m] = g)
      BY <3>1, LibsEntries
    <3> QED
      BY <1>4, <3>2, <3>3
  <2>4. \A q \in Pluggers : Holds(q, f)' <=> Holds(q, f)
    BY <1>3, <2>3, HoldsSame
  <2>5. Holders(f)' = Holders(f)
    BY <2>4, HoldersSame
  <2> QED
    BY <1>2, <2>1, <2>2, <2>5
<1>5. CASE f = g
  <2>1. u \in Loaders(f) /\ Loaders(f)' = Loaders(f) \ {u}
    BY <1>1, <1>5 DEF OthersStay, Loaders
  <2>2. Cardinality(Loaders(f)') = Cardinality(Loaders(f)) - 1
    BY <2>1, HoldersFinite, CountOf
  <2>3. CASE UNCHANGED libs /\ Close({g})
    <3>1. opens'[f] = opens[f] - 1
      <4>1. opens[f] > 0
        BY <2>1, UsedIsOpen
      <4> QED
        BY <1>5, <2>3, <4>1 DEF Close
    <3>2. \A q \in Pluggers : Holds(q, f)' <=> Holds(q, f)
      BY <1>3, <2>3, HoldsSame
    <3>3. Holders(f)' = Holders(f)
      BY <3>2, HoldersSame
    <3> QED
      BY <1>2, <2>2, <3>1, <3>3
  <2>4. CASE Usable(p, g) /\ Absent(p, n) /\ UNCHANGED opens /\ libs' = [libs EXCEPT ![p][n] = g]
    <3>1. n \in Names /\ libs[p][n] = None
      BY <1>1, <2>4, RegistryAssumption DEF Usable, Absent, TypeInv, Libraries
    <3>2. \A q \in Pluggers, m \in Names : libs'[q][m] = IF q = p /\ m = n THEN g ELSE libs[q][m]
      BY <1>1, <2>4, EntryAt DEF TypeInv
    <3>3. ~Holds(p, f)
      BY <1>1, <1>5, <3>1, Constants DEF Holds, LibsInv
    <3>4. Holds(p, f)'
      <4>1. ASSUME NEW v \in Users \ {u} PROVE ~Forgetting(v, p, f)
        BY <1>1, <4>1 DEF Forgetting, ExclusiveInv, TearDown
      <4>2. ~\E v \in Users : Forgetting(v, p, f)'
        BY <1>1, <1>3, <4>1 DEF OthersStay, Forgetting
      <4>3. \E m \in Names : libs'[p][m] = f
        BY <1>1, <1>5, <3>1, <3>2
      <4> QED
        BY <4>2, <4>3 DEF Holds
    <3>5. \A q \in Pluggers \ {p} : Holds(q, f)' <=> Holds(q, f)
      BY <1>3, <3>2, HoldsSame
    <3>6. Holders(f)' = Holders(f) \cup {p} /\ p \notin Holders(f)
      BY <1>1, <3>3, <3>4, <3>5 DEF Holders
    <3>7. Cardinality(Holders(f)') = Cardinality(Holders(f)) + 1
      BY <3>6, HoldersFinite, CountOf
    <3> QED
      BY <1>2, <2>2, <2>4, <3>7
  <2> QED
    BY <2>3, <2>4 DEF Register
<1> QED
  BY <1>4, <1>5

LEMMA OpensUnloadClose ==
  ASSUME LibraryInv, NEW u \in Users, UnloadClose(u), OthersStay(u), NEW f \in Files
  PROVE  (opens[f] = Cardinality(Holders(f)) + Cardinality(Loaders(f)))'
<1> USE DEF LibraryInv
<1>0. PICK p, g : p = call[u].plugger /\ g = call[u].lib
  OBVIOUS
<1> USE <1>0
<1>1. /\ pc[u] = "unloadClose" /\ pc'[u] = "unloadForget" /\ call'[u] = call[u]
      /\ UNCHANGED libs /\ Close({g})
  BY DEF UnloadClose, Goes, Stays, TypeInv
<1>2. p \in Pluggers /\ g \in Files /\ \E n \in Names : libs[p][n] = g
  BY <1>1 DEF CallInv, InHand, UnloadSteps
<1>3. /\ opens[f] = Cardinality(Holders(f)) + Cardinality(Loaders(f))
      /\ Cardinality(Holders(f)) \in Nat /\ Cardinality(Loaders(f)) \in Nat
  BY HoldersFinite, CountOf DEF OpensMatch
<1>4. Loaders(f)' = Loaders(f)
  BY <1>1, LoadersSame
<1>5. ASSUME NEW q \in Pluggers, q # p \/ f # g PROVE Holds(q, f)' <=> Holds(q, f)
  <2>1. Forgetting(u, q, f)' <=> Forgetting(u, q, f)
    BY <1>1, <1>5 DEF Forgetting
  <2> QED
    BY <1>1, <2>1, HoldsSame
<1>6. CASE f # g
  <2>1. Holders(f)' = Holders(f)
    BY <1>5, <1>6, HoldersSame
  <2>2. opens'[f] = opens[f]
    BY <1>1, <1>6 DEF Close
  <2> QED
    BY <1>3, <1>4, <2>1, <2>2
<1>7. CASE f = g
  <2>1. Holds(p, f) /\ opens[f] > 0
    BY <1>1, <1>2, <1>7, RegisteredIsHeld, Constants
  <2>2. ~Holds(p, f)'
    BY <1>1, <1>7 DEF Holds, Forgetting
  <2>3. Holders(f)' = Holders(f) \ {p} /\ p \in Holders(f)
    BY <1>2, <1>5, <2>1, <2>2 DEF Holders
  <2>4. Cardinality(Holders(f)') = Cardinality(Holders(f)) - 1
    BY <2>3, HoldersFinite, CountOf
  <2>5. opens'[f] = opens[f] - 1
    BY <1>1, <1>7, <2>1 DEF Close
  <2> QED
    BY <1>3, <1>4, <2>4, <2>5
<1> QED
  BY <1>6, <1>7

LEMMA OpensFreeClose ==
  ASSUME LibraryInv, NEW u \in Users, FreeClose(u), OthersStay(u), NEW f \in Files
  PROVE  (opens[f] = Cardinality(Holders(f)) + Cardinality(Loaders(f)))'
<1> USE DEF LibraryInv
<1>0. PICK p : p = call[u].plugger
  OBVIOUS
<1> USE <1>0
<1> DEFINE G == {libs[p][n] : n \in Present(libs[p])}
<1>1. /\ pc[u] = "freeClose" /\ pc'[u] = "freeForget" /\ call'[u] = call[u]
      /\ UNCHANGED libs /\ Close(G)
  BY DEF FreeClose, Goes, Stays, TypeInv
<1>2. p \in Pluggers
  BY <1>1 DEF CallInv, InHand
<1>3. /\ opens[f] = Cardinality(Holders(f)) + Cardinality(Loaders(f))
      /\ Cardinality(Holders(f)) \in Nat /\ Cardinality(Loaders(f)) \in Nat
  BY HoldersFinite, CountOf DEF OpensMatch
<1>4. Loaders(f)' = Loaders(f)
  BY <1>1, LoadersSame
<1>5. ASSUME NEW q \in Pluggers \ {p} PROVE Holds(q, f)' <=> Holds(q, f)
  <2>1. Forgetting(u, q, f)' <=> Forgetting(u, q, f)
    BY <1>1 DEF Forgetting
  <2> QED
    BY <1>1, <2>1, HoldsSame
<1>6. ~Holds(p, f)'
  BY <1>1 DEF Holds, Forgetting
<1>7. f \in G <=> \E n \in Names : libs[p][n] = f
  BY <1>2, Constants DEF Present, TypeInv
<1>8. CASE f \notin G
  <2>1. ~Holds(p, f)
    BY <1>7, <1>8 DEF Holds
  <2>2. Holders(f)' = Holders(f)
    BY <1>5, <1>6, <2>1, HoldersSame
  <2>3. opens'[f] = opens[f]
    BY <1>1, <1>8 DEF Close
  <2> QED
    BY <1>3, <1>4, <2>2, <2>3
<1>9. CASE f \in G
  <2>1. Holds(p, f) /\ opens[f] > 0
    BY <1>1, <1>7, <1>9, RegisteredIsHeld, Constants
  <2>2. Holders(f)' = Holders(f) \ {p} /\ p \in Holders(f)
    BY <1>2, <1>5, <1>6, <2>1 DEF Holders
  <2>3. Cardinality(Holders(f)') = Cardinality(Holders(f)) - 1
    BY <2>2, HoldersFinite, CountOf
  <2>4. opens'[f] = opens[f] - 1
    BY <1>1, <1>9, <2>1 DEF Close
  <2> QED
    BY <1>3, <1>4, <2>3, <2>4
<1> QED
  BY <1>8, <1>9

LEMMA OpensForget ==
  ASSUME LibraryInv, NEW u \in Users, UnloadForget(u) \/ FreeForget(u), OthersStay(u),
         NEW f \in Files
  PROVE  (opens[f] = Cardinality(Holders(f)) + Cardinality(Loaders(f)))'
<1> USE DEF LibraryInv
<1>0. PICK p : p = call[u].plugger
  OBVIOUS
<1> USE <1>0
<1>1. /\ pc[u] \in {"unloadForget", "freeForget"} /\ pc'[u] = "idle" /\ UNCHANGED opens
      /\ Advance(u) /\ ~Register(u)
  BY DEF UnloadForget, FreeForget, Register, Goes, Advance, TypeInv
<1>2. p \in Pluggers
  BY <1>1 DEF CallInv, InHand
<1>3. Loaders(f)' = Loaders(f)
  BY <1>1, LoadersSame
<1>4. ASSUME NEW q \in Pluggers \ {p} PROVE Holds(q, f)' <=> Holds(q, f)
  <2>1. Forgetting(u, q, f)' <=> Forgetting(u, q, f)
    BY <1>1 DEF Forgetting
  <2>2. \A n \in Names : libs'[q][n] = libs[q][n]
    BY <1>1, LibsEntries
  <2> QED
    BY <2>1, <2>2, HoldsSame
<1>5. Holds(p, f)' <=> Holds(p, f)
  <2>1. CASE FreeForget(u)
    <3>1. ~Holds(p, f)
      BY <2>1 DEF FreeForget, Goes, Holds, Forgetting
    <3>2. libs' = [libs EXCEPT ![p] = Empty(Names)]
      BY <2>1 DEF FreeForget
    <3>3. \A n \in Names : libs'[p][n] = None
      BY <1>2, <3>2 DEF Empty, TypeInv
    <3> QED
      BY <3>1, <3>3, Constants DEF Holds
  <2>2. CASE UnloadForget(u)
    <3>0. PICK g, m : g = call[u].lib /\ m = call[u].name
      OBVIOUS
    <3> USE <3>0
    <3>1. /\ pc[u] = "unloadForget" /\ libs' = [libs EXCEPT ![p][m] = None]
          /\ g \in Files /\ m \in Names /\ libs[p][m] = g
      BY <2>2 DEF UnloadForget, Goes, CallInv, InHand, UnloadSteps
    <3>2. \A n \in Names : libs'[p][n] = IF n = m THEN None ELSE libs[p][n]
      BY <1>2, <3>1, EntryAt DEF TypeInv
    <3>3. CASE f = g
      <4>1. ~Holds(p, f)
        BY <3>1, <3>3 DEF Holds, Forgetting
      <4>2. \A n \in Names : libs'[p][n] # f
        BY <1>2, <3>1, <3>2, <3>3, Constants DEF LibsInv
      <4> QED
        BY <4>1, <4>2 DEF Holds
    <3>4. CASE f # g
      <4>1. \A n \in Names : libs'[p][n] = f <=> libs[p][n] = f
        BY <3>1, <3>2, <3>4, Constants
      <4>2. ~Forgetting(u, p, f) /\ ~Forgetting(u, p, f)'
        BY <1>1, <3>1, <3>4 DEF Forgetting
      <4> QED
        BY <1>2, <4>1, <4>2, HoldsSame
    <3> QED
      BY <3>3, <3>4
  <2> QED
    BY <2>1, <2>2
<1>6. Holders(f)' = Holders(f)
  BY <1>4, <1>5, HoldersSame
<1> QED
  BY <1>1, <1>3, <1>6 DEF OpensMatch

LEMMA OpensStep ==
  ASSUME LibraryInv, [Next]_vars
  PROVE  OpensMatch'
<1> USE DEF LibraryInv
<1>1. ASSUME NEW u \in Users, Advance(u) PROVE OpensMatch'
  <2> SUFFICES ASSUME NEW f \in Files
               PROVE  (opens[f] = Cardinality(Holders(f)) + Cardinality(Loaders(f)))'
    BY DEF OpensMatch
  <2>1. OthersStay(u) /\ KeepsCall(u)
    BY <1>1, AdvanceMovesOne, AdvanceKeepsCall
  <2>2. CASE \/ OpenFile(u) \/ Register(u) \/ UnloadClose(u) \/ FreeClose(u)
             \/ UnloadForget(u) \/ FreeForget(u)
    BY <2>1, <2>2, OpensOpenFile, OpensRegister, OpensUnloadClose, OpensFreeClose, OpensForget
  <2>3. CASE ~ (\/ OpenFile(u) \/ Register(u) \/ UnloadClose(u) \/ FreeClose(u)
                \/ UnloadForget(u) \/ FreeForget(u))
    <3>1. UNCHANGED <<opens, libs>> /\ pc[u] \notin {"register", "unloadForget", "freeForget"}
      BY <1>1, <2>3, AdvanceChanges DEF Changes
    <3>2. pc'[u] \notin {"register", "unloadForget", "freeForget"}
      BY <1>1, <2>3, AdvanceArrives DEF Arrives
    <3> QED
      BY <2>1, <3>1, <3>2, OpensQuiet
  <2> QED
    BY <2>2, <2>3
<1>2. ASSUME NEW u \in Users, NEW p \in Pluggers, Invoke(u, p) PROVE OpensMatch'
  <2>1. PICK to \in FirstSteps, c \in Calls : BeginsWith(u, p, to, c)
    BY <1>2, InvokeBegins
  <2>2. OthersStay(u) /\ pc[u] = "idle" /\ pc'[u] = to
    BY <2>1, BeginsMovesOne
  <2>3. UNCHANGED <<opens, libs>>
    BY <2>1 DEF BeginsWith, Begins
  <2>4. ASSUME NEW f \in Files
        PROVE  (opens[f] = Cardinality(Holders(f)) + Cardinality(Loaders(f)))'
    BY <2>2, <2>3, OpensQuiet DEF FirstSteps
  <2> QED
    BY <2>4 DEF OpensMatch
<1>3. ASSUME UNCHANGED <<opens, libs, pc, call>> PROVE OpensMatch'
  BY <1>3 DEF OpensMatch, Holders, Holds, Forgetting, Loaders
<1>4. ASSUME NEW p \in Pluggers, SetVersionSafe(p) PROVE OpensMatch'
  BY <1>3, <1>4 DEF SetVersionSafe
<1>5. CASE UNCHANGED vars
  BY <1>3, <1>5 DEF vars, hostVars
<1> QED
  BY <1>1, <1>2, <1>4, <1>5 DEF Next

-----------------------------------------------------------------------------
(* Libraries.                                                              *)

LEMMA LibraryInit == Init => LibraryInv
<1> SUFFICES ASSUME Init PROVE LibraryInv
  OBVIOUS
<1>1. TypeInv
  BY TypeInit
<1>2. CallInv /\ ExclusiveInv /\ TearInv
  BY DEF Init, CallInv, InHand, ExclusiveInv, TearInv, Left, TearDown, NoCall, MakeSteps,
         FreeSteps, UnloadSteps
<1>3. LibsInv /\ HandlesInv
  BY DEF Init, LibsInv, HandlesInv, Present, Empty
<1>4. OpensMatch
  <2>1. ASSUME NEW f \in Files PROVE Holders(f) = {} /\ Loaders(f) = {} /\ opens[f] = 0
    BY Constants DEF Init, Holders, Holds, Loaders, Empty
  <2> QED
    BY <2>1, FS_EmptySet DEF OpensMatch
<1>5. NoStrayCall
  BY DEF Init, NoStrayCall
<1> QED
  BY <1>1, <1>2, <1>3, <1>4, <1>5 DEF LibraryInv

LEMMA LibraryStep == Exclusive /\ LibraryInv /\ [Next]_vars => LibraryInv'
<1> SUFFICES ASSUME Exclusive, LibraryInv, [Next]_vars PROVE LibraryInv'
  OBVIOUS
<1>1. TypeInv' /\ CallInv' /\ ExclusiveInv' /\ LibsInv'
  BY TypeStep, CallStep, ExclusiveStep, LibsStep DEF LibraryInv
<1>2. HandlesInv' /\ TearInv' /\ OpensMatch' /\ NoStrayCall'
  BY HandlesStep, TearStep, OpensStep, NoStrayStep
<1> QED
  BY <1>1, <1>2 DEF LibraryInv

LEMMA LibraryHolds == ASSUME Exclusive PROVE Spec => []LibraryInv
<1>1. LibraryInv /\ [Next]_vars => LibraryInv'
  BY LibraryStep
<1> QED
  BY LibraryInit, <1>1, PTL DEF Spec

\* A library is open at most once for each Plugger and each goroutine.
LEMMA OpensBounded ==
  ASSUME LibraryInv, NEW f \in Files
  PROVE  opens[f] \in 0 .. Cardinality(Pluggers) + Cardinality(Users)
<1>1. /\ Cardinality(Holders(f)) \in Nat /\ Cardinality(Loaders(f)) \in Nat
      /\ Cardinality(Pluggers) \in Nat /\ Cardinality(Users) \in Nat
  BY RegistryAssumption, HoldersFinite, FS_CardinalityType
<1>2. /\ Cardinality(Holders(f)) <= Cardinality(Pluggers)
      /\ Cardinality(Loaders(f)) <= Cardinality(Users)
  BY RegistryAssumption, FS_Subset DEF Holders, Loaders
<1>3. opens[f] = Cardinality(Holders(f)) + Cardinality(Loaders(f))
  BY DEF LibraryInv, OpensMatch
<1> QED
  BY <1>1, <1>2, <1>3

LEMMA TypesFollow == LibraryInv => TypeOK
<1> SUFFICES ASSUME LibraryInv PROVE TypeOK
  OBVIOUS
<1>1. opens \in [Files -> 0 .. Cardinality(Pluggers) + Cardinality(Users)]
  BY OpensBounded DEF LibraryInv, TypeInv
<1> QED
  BY <1>1 DEF LibraryInv, TypeInv, TypeOK

\* And not at all when nobody uses it.
LEMMA UnusedIsClosed ==
  ASSUME LibraryInv, NEW f \in Files, Holders(f) = {}, Loaders(f) = {}
  PROVE  opens[f] = 0
<1>1. Cardinality(Holders(f)) = 0 /\ Cardinality(Loaders(f)) = 0
  BY FS_EmptySet
<1> QED
  BY <1>1 DEF LibraryInv, OpensMatch

\* Every variable of the Pluggers has its type, and no library is opened more
\* often than there are Pluggers and goroutines to open it.
THEOREM RegistryTypeCorrect == ASSUME Exclusive PROVE Spec => []TypeOK
BY LibraryHolds, TypesFollow, PTL

\* Load, Unload and Free open and close a library as often as their Pluggers
\* use it, when the application lets nothing overlap its Unload and Free.
THEOREM OpensMatchUses == ASSUME Exclusive PROVE Spec => []OpensMatch
<1>1. LibraryInv => OpensMatch
  BY DEF LibraryInv
<1> QED
  BY LibraryHolds, <1>1, PTL

\* No entry point of a library is called, and no library closed, that the
\* process does not have open.
THEOREM CallsFindLibrary == ASSUME Exclusive PROVE Spec => []NoStrayCall
<1>1. LibraryInv => NoStrayCall
  BY DEF LibraryInv
<1> QED
  BY LibraryHolds, <1>1, PTL

-----------------------------------------------------------------------------
(* The instance tables of a library.                                       *)

\* What a step makes and deletes.
Made(u, f, i) ==
  CallNewPlugin(u) /\ files[f].makes /\ f = call[u].lib /\ i = call[u].id

Deleted(u, f, i) ==
  LET c == call[u]
  IN  \/ CallFreePlugin(u) /\ f = c.lib /\ i = c.id
      \/ /\ UnloadEach(u) /\ f = c.lib
         /\ i \in Present(handles[c.plugger]) /\ handles[c.plugger][i].name = c.name
      \/ /\ FreeEach(u)
         /\ i \in Present(handles[c.plugger]) /\ handles[c.plugger][i].lib = f

\* Every deletion is one of a set of pairs.
LEMMA DeletesPairs ==
  ASSUME NEW u \in Users, CallFreePlugin(u) \/ UnloadEach(u) \/ FreeEach(u)
  PROVE  \E D : /\ DeleteInstances(D)
                /\ \A f \in Files, i \in Ids : <<f, i>> \in D <=> Deleted(u, f, i)
<1> DEFINE c == call[u]
<1>1. CASE CallFreePlugin(u)
  <2>1. /\ DeleteInstances({<<c.lib, c.id>>}) /\ ~UnloadEach(u) /\ ~FreeEach(u)
    BY <1>1 DEF CallFreePlugin, UnloadEach, FreeEach, Goes
  <2>2. \A f \in Files, i \in Ids : <<f, i>> \in {<<c.lib, c.id>>} <=> Deleted(u, f, i)
    BY <1>1, <2>1 DEF Deleted
  <2> QED
    BY <2>1, <2>2
<1>2. CASE UnloadEach(u)
  <2> DEFINE I == {i \in Present(handles[c.plugger]) : handles[c.plugger][i].name = c.name}
             D == {<<c.lib, i>> : i \in I}
  <2>1. DeleteInstances(D) /\ ~CallFreePlugin(u) /\ ~FreeEach(u)
    BY <1>2 DEF CallFreePlugin, UnloadEach, FreeEach, Goes
  <2>2. \A f \in Files, i \in Ids : <<f, i>> \in D <=> Deleted(u, f, i)
    BY <1>2, <2>1 DEF Deleted
  <2> HIDE DEF D
  <2> QED
    BY <2>1, <2>2
<1>3. CASE FreeEach(u)
  <2> DEFINE D == {<<handles[c.plugger][i].lib, i>> : i \in Present(handles[c.plugger])}
  <2>1. DeleteInstances(D) /\ ~CallFreePlugin(u) /\ ~UnloadEach(u)
    BY <1>3 DEF CallFreePlugin, UnloadEach, FreeEach, Goes
  <2>2. \A f \in Files, i \in Ids : <<f, i>> \in D <=> Deleted(u, f, i)
    BY <1>3, <2>1 DEF Deleted
  <2> HIDE DEF D
  <2> QED
    BY <2>1, <2>2
<1> QED
  BY <1>1, <1>2, <1>3

LEMMA InstancesEntries ==
  ASSUME TypeInv, CallInv, NEW u \in Users, Advance(u), NEW f \in Files, NEW i \in Ids
  PROVE  instMap'[f][i] = IF Made(u, f, i) THEN <<call[u].plugger, i>>
                          ELSE IF Deleted(u, f, i) THEN None ELSE instMap[f][i]
<1>1. CASE CallNewPlugin(u)
  <2> DEFINE c == call[u]
  <2>1. ~Deleted(u, f, i)
    BY <1>1 DEF Deleted, CallNewPlugin, CallFreePlugin, UnloadEach, FreeEach, Goes
  <2>2. c.lib \in Files /\ c.id \in Ids
    BY <1>1 DEF CallNewPlugin, Goes, CallInv, InHand, MakeSteps
  <2>3. CASE files[c.lib].makes
    <3>1. instMap' = [instMap EXCEPT ![c.lib][c.id] = <<c.plugger, c.id>>]
      BY <1>1, <2>3 DEF CallNewPlugin, SetInstance
    <3> HIDE DEF c
    <3>2. instMap'[f][i] = IF f = c.lib /\ i = c.id THEN <<c.plugger, c.id>> ELSE instMap[f][i]
      BY <2>2, <3>1, EntryAt DEF TypeInv
    <3> QED
      BY <1>1, <2>1, <2>3, <3>2 DEF Made, c
  <2>4. CASE ~files[c.lib].makes
    BY <1>1, <2>1, <2>4 DEF CallNewPlugin, instVars, Made
  <2> QED
    BY <2>3, <2>4
<1>2. CASE CallFreePlugin(u) \/ UnloadEach(u) \/ FreeEach(u)
  <2>1. PICK D : DeleteInstances(D) /\ (<<f, i>> \in D <=> Deleted(u, f, i))
    BY <1>2, DeletesPairs
  <2>2. ~Made(u, f, i)
    BY <1>2 DEF Made, CallNewPlugin, CallFreePlugin, UnloadEach, FreeEach, Goes
  <2> QED
    BY <2>1, <2>2 DEF DeleteInstances
<1>3. CASE ~ (CallNewPlugin(u) \/ CallFreePlugin(u) \/ UnloadEach(u) \/ FreeEach(u))
  <2>1. UNCHANGED instMap
    BY <1>3, AdvanceChanges DEF Changes, instVars
  <2> QED
    BY <1>3, <2>1 DEF Made, Deleted
<1> QED
  BY <1>1, <1>2, <1>3

LEMMA TablesStep ==
  ASSUME OnePlugger, TypeInv, CallInv, TablesInv, [Next]_vars
  PROVE  TablesInv'
<1>1. ASSUME UNCHANGED instVars PROVE TablesInv'
  BY <1>1 DEF instVars, TablesInv
<1>2. ASSUME NEW u \in Users, Advance(u) PROVE TablesInv'
  <2> SUFFICES ASSUME NEW f \in Files, NEW p \in Pluggers, NEW i \in Ids
               PROVE  /\ instMap'[f][i] \in {None, <<p, i>>}
                      /\ ~SharedValue => instMapByPlugin'[f][<<p, i>>] = instMap'[f][i]
    BY DEF TablesInv
  <2>1. instMap[f][i] \in {None, <<p, i>>}
    BY DEF TablesInv
  <2>2. Made(u, f, i) => call[u].plugger = p
    BY DEF Made, CallNewPlugin, Goes, CallInv, InHand, OnePlugger
  <2>3. instMap'[f][i] \in {None, <<p, i>>}
    BY <1>2, <2>1, <2>2, InstancesEntries
  <2>4. ASSUME ~SharedValue PROVE instMapByPlugin'[f][<<p, i>>] = instMap'[f][i]
    <3>1. /\ instMapByPlugin[f][<<p, i>>] = instMap[f][i]
          /\ <<p, i>> \in Values /\ Values = Instances /\ \A k : ValueOf(k) = k
      BY <2>4 DEF TablesInv, Values, ValueOf, Instances
    <3>2. CASE CallNewPlugin(u) /\ files[call[u].lib].makes
      <4> DEFINE c == call[u]
      <4>1. /\ c.lib \in Files /\ c.id \in Ids /\ c.plugger = p
            /\ instMap' = [instMap EXCEPT ![c.lib][c.id] = <<c.plugger, c.id>>]
            /\ instMapByPlugin' = [instMapByPlugin EXCEPT ![c.lib][<<c.plugger, c.id>>]
                                                            = <<c.plugger, c.id>>]
        BY <3>1, <3>2
        DEF CallNewPlugin, SetInstance, Goes, CallInv, InHand, MakeSteps, OnePlugger
      <4> HIDE DEF c
      <4>2. /\ instMap'[f][i] = IF f = c.lib /\ i = c.id THEN <<p, c.id>> ELSE instMap[f][i]
            /\ instMapByPlugin'[f][<<p, i>>] = IF f = c.lib /\ <<p, i>> = <<p, c.id>>
                                                 THEN <<p, c.id>>
                                                 ELSE instMapByPlugin[f][<<p, i>>]
        BY <3>1, <4>1, EntryAt DEF TypeInv
      <4> QED
        BY <3>1, <4>2
    <3>3. CASE CallFreePlugin(u) \/ UnloadEach(u) \/ FreeEach(u)
      <4>1. PICK D : DeleteInstances(D)
        BY <3>3, DeletesPairs
      <4>2. \A j \in Present(instMap[f]) : j \in Ids /\ instMap[f][j] = <<p, j>>
        BY DEF Present, TypeInv, TablesInv
      <4>3. instMapByPlugin'[f][<<p, i>>]
              = IF \E j \in Present(instMap[f]) : <<f, j>> \in D /\ instMap[f][j] = <<p, i>>
                  THEN None ELSE instMapByPlugin[f][<<p, i>>]
        BY <3>1, <4>1 DEF DeleteInstances
      <4>4. instMap'[f][i] = IF <<f, i>> \in D THEN None ELSE instMap[f][i]
        BY <4>1 DEF DeleteInstances
      <4>5. i \in Present(instMap[f]) <=> instMap[f][i] # None
        BY DEF Present, TypeInv
      <4>6. (\E j \in Present(instMap[f]) : <<f, j>> \in D /\ instMap[f][j] = <<p, i>>)
              <=> instMap[f][i] # None /\ <<f, i>> \in D
        <5>1. ASSUME NEW j \in Present(instMap[f]), <<f, j>> \in D, instMap[f][j] = <<p, i>>
              PROVE  instMap[f][i] # None /\ <<f, i>> \in D
          <6>1. <<p, j>> = <<p, i>>
            BY <4>2, <5>1
          <6>2. j = i
            BY <6>1
          <6> QED
            BY <4>5, <5>1, <6>2
        <5>2. ASSUME instMap[f][i] # None, <<f, i>> \in D
              PROVE  \E j \in Present(instMap[f]) : <<f, j>> \in D /\ instMap[f][j] = <<p, i>>
          BY <2>1, <4>5, <5>2
        <5> QED
          BY <5>1, <5>2
      <4> QED
        BY <3>1, <4>3, <4>4, <4>6
    <3>4. CASE UNCHANGED instVars
      BY <3>1, <3>4 DEF instVars
    <3>5. CallNewPlugin(u) /\ ~files[call[u].lib].makes => UNCHANGED instVars
      BY DEF CallNewPlugin
    <3> QED
      BY <1>2, <3>2, <3>3, <3>4, <3>5, AdvanceChanges DEF Changes
  <2> QED
    BY <2>3, <2>4
<1>3. ASSUME NEW u \in Users, NEW p \in Pluggers, Invoke(u, p) PROVE TablesInv'
  BY <1>1, <1>3, InvokeBegins DEF BeginsWith, Begins
<1>4. ASSUME NEW p \in Pluggers, SetVersionSafe(p) PROVE TablesInv'
  BY <1>1, <1>4 DEF SetVersionSafe
<1>5. CASE UNCHANGED vars
  BY <1>1, <1>5 DEF vars
<1> QED
  BY <1>2, <1>3, <1>4, <1>5 DEF Next

LEMMA TablesInit == Init => TablesInv
<1> SUFFICES ASSUME Init PROVE TablesInv
  OBVIOUS
<1>1. ASSUME NEW p \in Pluggers, NEW i \in Ids, ~SharedValue PROVE <<p, i>> \in Values
  BY <1>1 DEF Values, Instances
<1> QED
  BY <1>1 DEF Init, TablesInv, Empty

LEMMA TablesHold == ASSUME Exclusive, OnePlugger PROVE Spec => []TablesInv
<1>1. LibraryInv /\ TablesInv /\ [Next]_vars => TablesInv'
  BY TablesStep DEF LibraryInv
<1> QED
  BY LibraryHolds, TablesInit, <1>1, PTL DEF Spec

\* EventEmit finds the instance of a plugin value exactly while it lives, when
\* the values of the instances differ.
THEOREM EmitterFindsInstance ==
  ASSUME Exclusive, OnePlugger, ~SharedValue PROVE Spec => []EmitterFindsOwn
<1>1. TablesInv => EmitterFindsOwn
  BY DEF TablesInv, EmitterFindsOwn, Instances, ValueOf
<1> QED
  BY TablesHold, <1>1, PTL

-----------------------------------------------------------------------------
(* The ids of instances.                                                   *)

LEMMA GivenEntries ==
  ASSUME TypeInv, CallInv, NEW u \in Users, Advance(u), NEW p \in Pluggers, NEW i \in Ids
  PROVE  /\ SetHandle(u) /\ p = call[u].plugger /\ i = call[u].id =>
              /\ given'[p][i] = call[u].name /\ call[u].name \in Names
              /\ handles'[p][i] = [name |-> call[u].name, lib |-> call[u].lib]
         /\ ~ (SetHandle(u) /\ p = call[u].plugger /\ i = call[u].id) =>
              given'[p][i] = given[p][i]
<1>1. CASE SetHandle(u)
  <2>1. /\ call[u].plugger \in Pluggers /\ call[u].name \in Names
        /\ given' = [given EXCEPT ![call[u].plugger][call[u].id] = call[u].name]
        /\ handles' = [handles EXCEPT ![call[u].plugger][call[u].id]
                                        = [name |-> call[u].name, lib |-> call[u].lib]]
    BY <1>1 DEF SetHandle, Goes, CallInv, InHand, MakeSteps
  <2>2. /\ given'[p][i] = IF p = call[u].plugger /\ i = call[u].id
                            THEN call[u].name ELSE given[p][i]
        /\ handles'[p][i] = IF p = call[u].plugger /\ i = call[u].id
                              THEN [name |-> call[u].name, lib |-> call[u].lib]
                              ELSE handles[p][i]
    BY <2>1, EntryAt DEF TypeInv
  <2> QED
    BY <1>1, <2>1, <2>2
<1>2. CASE UNCHANGED given /\ ~SetHandle(u)
  BY <1>2
<1> QED
  BY <1>1, <1>2, AdvanceChanges DEF Changes

LEMMA GivenStep ==
  ASSUME LibraryInv, IdsInv, [Next]_vars, TypeInv'
  PROVE  GivenInv'
<1> USE DEF LibraryInv, IdsInv
<1>1. ASSUME UNCHANGED <<handles, given, instanceId>> PROVE GivenInv'
  BY <1>1 DEF GivenInv, Present
<1>2. ASSUME NEW u \in Users, Advance(u) PROVE GivenInv'
  <2> SUFFICES ASSUME NEW p \in Pluggers, NEW i \in Ids
               PROVE  /\ given'[p][i] # None => i <= instanceId'[p]
                      /\ handles'[p][i] # None => handles'[p][i].name = given'[p][i]
    BY DEF GivenInv, Present, TypeInv
  <2>1. UNCHANGED instanceId
    BY <1>2, AdvanceChanges DEF Changes
  <2>2. CASE SetHandle(u) /\ p = call[u].plugger /\ i = call[u].id
    <3>1. i <= instanceId[p]
      BY <2>2 DEF SetHandle, Goes, OwnId, MakeSteps
    <3>2. /\ given'[p][i] = call[u].name
          /\ handles'[p][i] = [name |-> call[u].name, lib |-> call[u].lib]
      BY <1>2, <2>2, GivenEntries
    <3>3. handles'[p][i].name = given'[p][i]
      BY <3>2
    <3> QED
      BY <2>1, <3>1, <3>3
  <2>3. CASE ~ (SetHandle(u) /\ p = call[u].plugger /\ i = call[u].id)
    <3>1. given'[p][i] = given[p][i]
      BY <1>2, <2>3, GivenEntries
    <3>2. handles'[p][i] \in {handles[p][i], None}
      BY <1>2, <2>3, HandlesEntries
    <3>3. /\ given[p][i] # None => i <= instanceId[p]
          /\ handles[p][i] # None => handles[p][i].name = given[p][i]
      BY DEF GivenInv, Present, TypeInv
    <3> QED
      BY <2>1, <3>1, <3>2, <3>3
  <2> QED
    BY <2>2, <2>3
<1>3. ASSUME NEW u \in Users, NEW p \in Pluggers, Invoke(u, p) PROVE GivenInv'
  <2>1. PICK to \in FirstSteps, c \in Calls : BeginsWith(u, p, to, c)
    BY <1>3, InvokeBegins
  <2>2. UNCHANGED <<handles, given>>
    BY <2>1 DEF BeginsWith, Begins
  <2>3. CASE to # "callNew"
    BY <1>1, <2>1, <2>2, <2>3 DEF BeginsWith
  <2>4. CASE to = "callNew"
    <3>1. /\ instanceId' = [instanceId EXCEPT ![p] = instanceId[p] + 1]
      BY <2>1, <2>4 DEF BeginsWith
    <3>2. \A q \in Pluggers : instanceId[q] \in Nat /\ instanceId'[q] \in Nat
                              /\ instanceId[q] <= instanceId'[q]
      BY <3>1, Constants DEF TypeInv
    <3>3. \A q \in Pluggers, i \in Ids : given'[q][i] # None => i <= instanceId'[q]
      BY <2>2, <3>2, Constants DEF GivenInv
    <3> QED
      BY <2>2, <3>3 DEF GivenInv, Present
  <2> QED
    BY <2>3, <2>4
<1>4. ASSUME NEW p \in Pluggers, SetVersionSafe(p) PROVE GivenInv'
  BY <1>1, <1>4 DEF SetVersionSafe
<1>5. CASE UNCHANGED vars
  BY <1>1, <1>5 DEF vars, hostVars
<1> QED
  BY <1>2, <1>3, <1>4, <1>5 DEF Next

LEMMA AdvanceKeepsIds ==
  ASSUME LibraryInv, IdsInv, NEW u \in Users, Advance(u), NEW v \in Users
  PROVE  OwnId(v)'
<1> USE DEF LibraryInv, IdsInv
<1>1. OthersStay(u) /\ KeepsCall(u) /\ Arrives(u) /\ UNCHANGED instanceId
  BY AdvanceMovesOne, AdvanceKeepsCall, AdvanceArrives, AdvanceChanges DEF Changes
\* Who makes or frees an instance after the step did so before, and of the same.
<1>2. ASSUME NEW w \in Users, pc'[w] \in MakeSteps
      PROVE  pc[w] \in MakeSteps /\ call'[w].plugger = call[w].plugger /\ call'[w].id = call[w].id
  <2>1. CASE w = u
    BY <1>1, <1>2, <2>1 DEF Arrives, KeepsCall, CallNewPlugin, Goes, MakeSteps
  <2> QED
    BY <1>1, <1>2, <2>1 DEF OthersStay
<1>3. ASSUME pc'[v] \in FreeSteps
      PROVE  pc[v] \in FreeSteps /\ call'[v] = call[v] /\ ~SetHandle(v)
  <2>1. CASE v = u
    BY <1>1, <1>3, <2>1
    DEF Arrives, FindHandle, CallFreePlugin, SetHandle, Goes, Stays, FreeSteps, TypeInv
  <2> QED
    BY <1>1, <1>3, <2>1 DEF OthersStay, SetHandle, Goes, FreeSteps
<1>4. ASSUME pc'[v] \in MakeSteps
      PROVE  /\ call'[v].id <= instanceId'[call'[v].plugger]
             /\ given'[call'[v].plugger][call'[v].id] = None
  <2>1. /\ pc[v] \in MakeSteps /\ call'[v].plugger = call[v].plugger /\ call'[v].id = call[v].id
    BY <1>2, <1>4
  <2>2. /\ call[v].plugger \in Pluggers /\ call[v].id \in Ids
        /\ call[v].id <= instanceId[call[v].plugger]
        /\ given[call[v].plugger][call[v].id] = None
    BY <2>1 DEF CallInv, InHand, OwnId, MakeSteps
  <2>3. ~ (SetHandle(u) /\ call[v].plugger = call[u].plugger /\ call[v].id = call[u].id)
    <3>1. CASE v = u
      BY <1>4, <3>1 DEF SetHandle, Goes, MakeSteps, TypeInv
    <3>2. CASE v # u
      BY <2>1, <3>2 DEF SetHandle, Goes, OwnId, MakeSteps
    <3> QED
      BY <3>1, <3>2
  <2> QED
    <3>1. given'[call[v].plugger][call[v].id] = None
      BY <2>2, <2>3, GivenEntries
    <3> QED
      BY <1>1, <2>1, <2>2, <3>1
<1>5. ASSUME pc'[v] \in MakeSteps, NEW w \in Users \ {v}, pc'[w] \in MakeSteps,
             call'[w].plugger = call'[v].plugger
      PROVE  call'[w].id # call'[v].id
  BY <1>2, <1>5 DEF OwnId
<1>6. ASSUME pc'[v] \in FreeSteps
      PROVE  /\ given'[call'[v].plugger][call'[v].id] # None
             /\ libs'[call'[v].plugger][given'[call'[v].plugger][call'[v].id]] = call'[v].lib
  <2> DEFINE p == call[v].plugger
             i == call[v].id
  <2>1. pc[v] \in FreeSteps /\ call'[v] = call[v]
    BY <1>3, <1>6
  <2>2. /\ p \in Pluggers /\ i \in Ids /\ call[v].lib \in Files
        /\ given[p][i] # None /\ libs[p][given[p][i]] = call[v].lib
    BY <2>1 DEF CallInv, InHand, OwnId, FreeSteps
  <2>3. ~ (SetHandle(u) /\ p = call[u].plugger /\ i = call[u].id)
    BY <2>2 DEF SetHandle, Goes, OwnId, MakeSteps
  <2>4. given'[p][i] = given[p][i] /\ given[p][i] \in Names
    <3>1. given'[p][i] = given[p][i]
      BY <2>2, <2>3, GivenEntries
    <3>2. given[p][i] \in Names
      BY <2>2 DEF TypeInv
    <3> QED
      BY <3>1, <3>2
  <2>5. libs'[p][given[p][i]] = libs[p][given[p][i]]
    <3>1. CASE v = u
      <4>1. UNCHANGED libs
        BY <1>1, <1>6, <3>1 DEF Arrives, FindHandle, CallFreePlugin, FreeSteps
      <4> QED
        BY <4>1
    <3>2. CASE v # u
      BY <2>2, <2>4, <3>2, AdvanceKeepsLibs, Constants DEF LibsStay
    <3> QED
      BY <3>1, <3>2
  <2> HIDE DEF p, i
  <2>6. given'[p][i] # None /\ libs'[p][given'[p][i]] = call[v].lib
    BY <2>2, <2>4, <2>5
  <2> QED
    BY <2>1, <2>6 DEF p, i
<1> QED
  BY <1>4, <1>5, <1>6 DEF OwnId

LEMMA IdsStep ==
  ASSUME LibraryInv, IdsInv, [Next]_vars, TypeInv'
  PROVE  IdsInv'
<1> SUFFICES ASSUME NEW v \in Users PROVE OwnId(v)'
  BY GivenStep DEF IdsInv
<1>1. ASSUME UNCHANGED <<pc, call, given, libs, instanceId>> PROVE OwnId(v)'
  BY <1>1 DEF IdsInv, OwnId
<1>2. ASSUME NEW u \in Users, Advance(u) PROVE OwnId(v)'
  BY <1>2, AdvanceKeepsIds
<1>3. ASSUME NEW u \in Users, NEW p \in Pluggers, Invoke(u, p) PROVE OwnId(v)'
  <2>1. PICK to \in FirstSteps, c \in Calls : BeginsWith(u, p, to, c)
    BY <1>3, InvokeBegins DEF LibraryInv
  <2>2. OthersStay(u) /\ pc'[u] = to /\ call'[u] = c
    BY <2>1, BeginsMovesOne DEF LibraryInv
  <2>3. UNCHANGED <<given, libs>> /\ c.plugger = p
    BY <2>1 DEF BeginsWith, Begins
  <2>4. ASSUME NEW q \in Pluggers
        PROVE  instanceId[q] \in Nat /\ instanceId'[q] \in Nat /\ instanceId[q] <= instanceId'[q]
    <3>1. \/ UNCHANGED instanceId
          \/ instanceId' = [instanceId EXCEPT ![p] = instanceId[p] + 1]
      BY <2>1 DEF BeginsWith
    <3>2. instanceId \in [Pluggers -> 0 .. MaxInstances] /\ instanceId[q] \in Nat
      BY Constants DEF LibraryInv, TypeInv
    <3> QED
      BY <3>1, <3>2
  <2>5. ASSUME to = "callNew"
        PROVE  /\ c.id \in Ids /\ c.id = instanceId[p] + 1 /\ c.id = instanceId'[p]
               /\ given[p][c.id] = None
    <3>1. c.id \in Ids /\ c.id = instanceId[p] + 1
      BY <2>1, <2>5 DEF BeginsWith
    <3>2. c.id = instanceId'[p]
      BY <2>1, <2>5 DEF BeginsWith, LibraryInv, TypeInv
    <3>3. given[p][c.id] = None
      BY <2>4, <3>1 DEF IdsInv, GivenInv
    <3> QED
      BY <3>1, <3>2, <3>3
  <2>6. ASSUME NEW w \in Users \ {u}, pc[w] \in MakeSteps
        PROVE  /\ call[w].plugger \in Pluggers /\ call[w].id \in Nat
               /\ call[w].id <= instanceId[call[w].plugger]
    BY <2>6, Constants DEF LibraryInv, CallInv, InHand, IdsInv, OwnId, MakeSteps
  <2>7. CASE v = u
    <3>1. to \in MakeSteps => to = "callNew"
      BY DEF FirstSteps, MakeSteps
    <3>2. to \in FreeSteps => to = "findHandle"
      BY DEF FirstSteps, FreeSteps
    <3>3. ASSUME to = "callNew"
          PROVE  /\ c.id <= instanceId'[p] /\ given'[p][c.id] = None
                 /\ \A w \in Users \ {u} :
                      pc'[w] \in MakeSteps /\ call'[w].plugger = p => call'[w].id # c.id
      <4>1. c.id \in Nat
        BY <2>5, <3>3, Constants
      <4> QED
        BY <2>2, <2>3, <2>4, <2>5, <2>6, <3>3, <4>1 DEF OthersStay
    <3>4. ASSUME to = "findHandle"
          PROVE  given'[p][c.id] # None /\ libs'[p][given'[p][c.id]] = c.lib
      BY <2>1, <2>3, <3>4 DEF BeginsWith
    <3> QED
      BY <2>2, <2>3, <2>7, <3>1, <3>2, <3>3, <3>4 DEF OwnId
  <2>8. CASE v # u
    <3>1. OwnId(v) /\ pc'[v] = pc[v] /\ call'[v] = call[v]
      BY <2>2, <2>8 DEF IdsInv, OthersStay
    <3>2. ASSUME pc[v] \in MakeSteps PROVE call[v].id <= instanceId'[call[v].plugger]
      BY <2>4, <2>6, <2>8, <3>2
    <3>3. ASSUME pc[v] \in MakeSteps, NEW w \in Users \ {v}, pc'[w] \in MakeSteps,
                 call'[w].plugger = call[v].plugger
          PROVE  call'[w].id # call[v].id
      <4>1. CASE w = u
        <5>1. to = "callNew" /\ c.plugger = call[v].plugger
          BY <2>2, <3>3, <4>1 DEF FirstSteps, MakeSteps
        <5>2. call[v].id <= instanceId[p] /\ call[v].id \in Nat
          BY <2>3, <2>6, <2>8, <3>3, <5>1
        <5> QED
          BY <2>2, <2>4, <2>5, <4>1, <5>1, <5>2
      <4>2. CASE w # u
        BY <2>2, <3>1, <3>3, <4>2 DEF OthersStay, OwnId
      <4> QED
        BY <4>1, <4>2
    <3> QED
      BY <2>3, <3>1, <3>2, <3>3 DEF OwnId
  <2> QED
    BY <2>7, <2>8
<1>4. ASSUME NEW p \in Pluggers, SetVersionSafe(p) PROVE OwnId(v)'
  BY <1>1, <1>4 DEF SetVersionSafe
<1>5. CASE UNCHANGED vars
  BY <1>1, <1>5 DEF vars, hostVars
<1> QED
  BY <1>2, <1>3, <1>4, <1>5 DEF Next

-----------------------------------------------------------------------------
(* Instances and their handles.                                            *)

\* A goroutine that unloads or frees is the only one that does anything.
LEMMA TearsAlone ==
  ASSUME OnePlugger, LibraryInv, NEW u \in Users, NEW v \in Users, pc[u] \in TearDown,
         pc[v] # "idle"
  PROVE  v = u
BY DEF OnePlugger, LibraryInv, CallInv, InHand, ExclusiveInv, TearDown

\* The handle of an instance tells its library.
LEMMA InstanceHasHandle ==
  ASSUME InstanceInv, NEW f \in Files, NEW p \in Pluggers, NEW i \in Ids,
         instMap[f][i] = <<p, i>>
  PROVE  \/ handles[p][i] # None /\ handles[p][i].lib = f
         \/ \E w \in Users : /\ pc[w] = "setHandle" /\ call[w].plugger = p
                             /\ call[w].id = i /\ given[p][i] = None
BY DEF InstanceInv, NoOrphans, IdsInv, OwnId, MakeSteps

LEMMA OthersInTime ==
  ASSUME OnePlugger, LibraryInv, InstanceInv, NEW u \in Users, Advance(u), OthersStay(u),
         KeepsCall(u), NEW v \in Users \ {u}
  PROVE  InTime(v)'
<1> USE DEF LibraryInv, InstanceInv
<1>1. InTime(v) /\ OwnId(v) /\ InHand(v) /\ pc'[v] = pc[v] /\ call'[v] = call[v]
  BY DEF MadeInv, IdsInv, CallInv, OthersStay
<1>2. OwnId(u) /\ InHand(u) /\ pc[u] # "idle" /\ UNCHANGED files
  BY AdvanceChanges DEF IdsInv, CallInv, KeepsCall, Changes
<1>3. pc[v] # "idle" => call[u].plugger = call[v].plugger
  BY <1>1, <1>2 DEF InHand, OnePlugger
<1>4. ASSUME pc[v] = "setHandle", files[call[v].lib].makes
      PROVE  instMap'[call[v].lib][call[v].id] = <<call[v].plugger, call[v].id>>
  <2>1. call[v].lib \in Files /\ call[v].id \in Ids
    BY <1>1, <1>4 DEF InHand, MakeSteps
  <2>2. ~Deleted(u, call[v].lib, call[v].id)
    <3>1. ~UnloadEach(u) /\ ~FreeEach(u)
      BY <1>4, TearsAlone DEF UnloadEach, FreeEach, Goes, TearDown
    <3>2. ~ (CallFreePlugin(u) /\ call[v].id = call[u].id)
      BY <1>1, <1>2, <1>3, <1>4 DEF CallFreePlugin, Goes, OwnId, FreeSteps, MakeSteps
    <3> QED
      BY <3>1, <3>2 DEF Deleted
  <2>3. instMap[call[v].lib][call[v].id] = <<call[v].plugger, call[v].id>>
    BY <1>1, <1>4 DEF InTime
  <2> QED
    <3>1. call[u].plugger = call[v].plugger
      BY <1>3, <1>4
    <3>2. instMap'[call[v].lib][call[v].id]
            = IF Made(u, call[v].lib, call[v].id) THEN <<call[u].plugger, call[v].id>>
              ELSE IF Deleted(u, call[v].lib, call[v].id) THEN None
              ELSE instMap[call[v].lib][call[v].id]
      BY <2>1, InstancesEntries
    <3> QED
      BY <2>2, <2>3, <3>1, <3>2
<1>5. ASSUME pc[v] = "deleteHandle", NEW f \in Files
      PROVE  instMap'[f][call[v].id] # <<call[v].plugger, call[v].id>>
  <2>1. call[v].id \in Ids /\ call[v].plugger \in Pluggers
    BY <1>1, <1>5 DEF InHand, FreeSteps
  <2>2. ~Made(u, f, call[v].id)
    BY <1>1, <1>2, <1>3, <1>5 DEF Made, CallNewPlugin, Goes, OwnId, FreeSteps, MakeSteps
  <2>3. instMap[f][call[v].id] # <<call[v].plugger, call[v].id>>
    BY <1>1, <1>5 DEF InTime
  <2>4. <<call[v].plugger, call[v].id>> # None
    BY <2>1, Constants DEF Instances
  <2> QED
    BY <2>1, <2>2, <2>3, <2>4, InstancesEntries
<1>6. pc[v] \notin {"unloadDelete", "freeClear"}
  BY <1>2, TearsAlone DEF TearDown
<1> QED
  BY <1>1, <1>2, <1>4, <1>5, <1>6 DEF InTime

LEMMA OwnInTime ==
  ASSUME OnePlugger, LibraryInv, InstanceInv, NEW u \in Users, Advance(u)
  PROVE  InTime(u)'
<1> USE DEF LibraryInv, InstanceInv
<1>0. PICK p, c : c = call[u] /\ p = c.plugger
  OBVIOUS
<1>1. /\ OwnId(u) /\ InHand(u) /\ InTime(u) /\ Arrives(u) /\ UNCHANGED files
      /\ pc[u] # "idle" /\ p \in Pluggers /\ c \in Calls
  BY <1>0, AdvanceChanges, AdvanceKeepsCall, AdvanceArrives
  DEF MadeInv, IdsInv, CallInv, KeepsCall, Changes, InHand, TypeInv
<1>2. ASSUME NEW i \in Ids PROVE <<p, i>> # None
  BY <1>1, Constants DEF Instances
<1>3. CASE CallNewPlugin(u)
  <2>1. pc'[u] = "setHandle" /\ call'[u] = c /\ c.lib \in Files /\ c.id \in Ids
    BY <1>0, <1>1, <1>3 DEF CallNewPlugin, Goes, Stays, InHand, MakeSteps, TypeInv
  <2>2. files[c.lib].makes => instMap'[c.lib][c.id] = <<p, c.id>>
    <3>1. files[c.lib].makes => Made(u, c.lib, c.id)
      BY <1>0, <1>3 DEF Made
    <3>2. Made(u, c.lib, c.id) => instMap'[c.lib][c.id] = <<call[u].plugger, c.id>>
      BY <2>1, InstancesEntries
    <3> QED
      BY <1>0, <3>1, <3>2
  <2> QED
    BY <1>0, <1>1, <2>1, <2>2 DEF InTime
<1>4. CASE CallFreePlugin(u)
  <2>1. pc[u] = "callFree" /\ pc'[u] = "deleteHandle" /\ call'[u] = c
    BY <1>0, <1>4 DEF CallFreePlugin, Goes, Stays, TypeInv
  <2>2. /\ c.lib \in Files /\ c.id \in Ids
        /\ given[p][c.id] # None /\ libs[p][given[p][c.id]] = c.lib
    BY <1>0, <1>1, <2>1 DEF InHand, OwnId, FreeSteps
  <2>3. ASSUME NEW f \in Files PROVE instMap'[f][c.id] # <<p, c.id>>
    <3>1. ~Made(u, f, c.id)
      BY <2>1 DEF Made, CallNewPlugin, Goes
    <3>2. CASE f = c.lib
      BY <1>0, <1>2, <1>4, <2>2, <3>1, <3>2, InstancesEntries DEF Deleted
    <3>3. ASSUME f # c.lib, instMap[f][c.id] = <<p, c.id>> PROVE FALSE
      <4>1. handles[p][c.id] # None /\ handles[p][c.id].lib = f
        BY <1>1, <2>2, <3>3, InstanceHasHandle
      <4>2. c.id \in Present(handles[p])
        BY <1>1, <2>2, <4>1 DEF Present, TypeInv
      <4>3. handles[p][c.id].name = given[p][c.id]
        BY <1>1, <4>2 DEF IdsInv, GivenInv
      <4>4. libs[p][handles[p][c.id].name] = handles[p][c.id].lib
        BY <1>1, <4>2 DEF HandlesInv
      <4> QED
        BY <2>2, <3>3, <4>1, <4>3, <4>4
    <3> QED
      BY <1>2, <2>2, <3>1, <3>2, <3>3, InstancesEntries
  <2> QED
    BY <1>0, <2>1, <2>3 DEF InTime
<1>5. CASE UnloadEach(u)
  <2> DEFINE ids == {i \in Present(handles[p]) : handles[p][i].name = c.name}
  <2>1. /\ pc[u] = "unloadEach" /\ pc'[u] = "unloadDelete"
        /\ call'[u] = [c EXCEPT !.ids = ids] /\ UNCHANGED handles
    BY <1>0, <1>5 DEF UnloadEach, Goes, Notes, TypeInv
  <2>2. c.lib \in Files /\ libs[p][c.name] = c.lib
    BY <1>0, <1>1, <2>1 DEF InHand, UnloadSteps
  <2>3. call'[u].plugger = p /\ call'[u].ids = ids
    BY <1>0, <1>1, <2>1 DEF Calls
  <2>4. ASSUME NEW f \in Files, NEW i \in ids PROVE instMap'[f][i] # <<p, i>>
    <3>1. i \in Ids /\ i \in Present(handles[p]) /\ handles[p][i].name = c.name
      BY <1>1 DEF Present, TypeInv
    <3>2. ~Made(u, f, i)
      BY <2>1 DEF Made, CallNewPlugin, Goes
    <3>3. CASE f = c.lib
      <4>1. Deleted(u, f, i)
        BY <1>0, <1>5, <3>1, <3>3 DEF Deleted
      <4> QED
        BY <1>2, <3>1, <3>2, <4>1, InstancesEntries
    <3>4. ASSUME f # c.lib, instMap[f][i] = <<p, i>> PROVE FALSE
      <4>1. ~\E w \in Users : pc[w] = "setHandle"
        BY <2>1, TearsAlone DEF TearDown
      <4>2. handles[p][i].lib = f
        BY <1>1, <3>1, <3>4, <4>1, InstanceHasHandle
      <4>3. libs[p][handles[p][i].name] = handles[p][i].lib
        BY <1>1, <3>1 DEF HandlesInv
      <4> QED
        BY <2>2, <3>1, <3>4, <4>2, <4>3
    <3> QED
      BY <1>2, <3>1, <3>2, <3>3, <3>4, InstancesEntries
  <2> HIDE DEF ids
  <2> QED
    BY <2>1, <2>3, <2>4 DEF InTime
<1>6. CASE FreeEach(u)
  <2>1. pc[u] = "freeEach" /\ pc'[u] = "freeClear" /\ call'[u] = c
    BY <1>0, <1>6 DEF FreeEach, Goes, Stays, TypeInv
  <2>2. ASSUME NEW f \in Files, NEW i \in Ids PROVE instMap'[f][i] # <<p, i>>
    <3>1. ~Made(u, f, i)
      BY <2>1 DEF Made, CallNewPlugin, Goes
    <3>2. ASSUME instMap[f][i] = <<p, i>> PROVE Deleted(u, f, i)
      <4>1. ~\E w \in Users : pc[w] = "setHandle"
        BY <2>1, TearsAlone DEF TearDown
      <4>2. handles[p][i] # None /\ handles[p][i].lib = f
        BY <1>1, <3>2, <4>1, InstanceHasHandle
      <4>3. i \in Present(handles[p])
        BY <1>1, <4>2 DEF Present, TypeInv
      <4> QED
        BY <1>0, <1>6, <4>2, <4>3 DEF Deleted
    <3> QED
      BY <1>2, <3>1, <3>2, InstancesEntries
  <2> QED
    BY <1>0, <2>1, <2>2 DEF InTime
<1>7. CASE UnloadDelete(u)
  <2>1. pc[u] = "unloadDelete" /\ UNCHANGED instMap /\ pc'[u] \in {"unloadDelete", "unloadClose"}
    BY <1>7 DEF UnloadDelete, Goes, instVars, TypeInv
  <2>2. call'[u].plugger = p /\ call'[u].ids \subseteq c.ids
    BY <1>0, <1>1, <1>7 DEF UnloadDelete, Notes, Stays, TypeInv, Calls
  <2> QED
    BY <1>0, <1>1, <2>1, <2>2 DEF InTime
<1>8. CASE pc'[u] \notin {"setHandle", "deleteHandle", "unloadDelete", "freeClear"}
  BY <1>8 DEF InTime
<1> QED
  BY <1>1, <1>3, <1>4, <1>5, <1>6, <1>7, <1>8 DEF Arrives

LEMMA OwnInstanceKept ==
  ASSUME OnePlugger, LibraryInv, InstanceInv, NEW u \in Users, Advance(u), TypeInv'
  PROVE  OwnInstance'
<1> USE DEF LibraryInv, InstanceInv
<1>1. /\ OthersStay(u) /\ KeepsCall(u) /\ Arrives(u) /\ UNCHANGED files
      /\ \A v \in Users : OwnId(v) /\ InHand(v) /\ InTime(v)
  BY AdvanceMovesOne, AdvanceChanges, AdvanceKeepsCall, AdvanceArrives
  DEF MadeInv, IdsInv, CallInv, Changes
<1> SUFFICES ASSUME NEW p \in Pluggers, NEW i \in Ids, handles'[p][i] # None,
                    files[handles'[p][i].lib].makes, ~Releasing(p, i)'
             PROVE  instMap'[handles'[p][i].lib][i] = <<p, i>>
  BY <1>1 DEF OwnInstance, Present, TypeInv
<1>2. call[u].plugger = p
  BY <1>1 DEF KeepsCall, InHand, OnePlugger
<1>3. CASE SetHandle(u) /\ i = call[u].id
  <2>1. handles'[p][i] = [name |-> call[u].name, lib |-> call[u].lib]
    BY <1>2, <1>3, GivenEntries
  <2>2. handles'[p][i].lib = call[u].lib
    BY <2>1
  <2>3. pc[u] = "setHandle" /\ UNCHANGED instMap
    BY <1>3 DEF SetHandle, Goes, instVars
  <2> QED
    BY <1>1, <1>2, <1>3, <2>2, <2>3 DEF InTime
<1>4. CASE ~ (SetHandle(u) /\ i = call[u].id)
  <2>1. handles'[p][i] = handles[p][i]
    BY <1>4, HandlesEntries
  <2> DEFINE f == handles[p][i].lib
  <2>2. f \in Files /\ i \in Present(handles[p])
    BY <2>1 DEF Present, TypeInv, Handles
  <2>3. ~Deleted(u, f, i)
    <3>1. CASE CallFreePlugin(u)
      <4>1. pc'[u] = "deleteHandle" /\ call'[u] = call[u] /\ ~UnloadEach(u) /\ ~FreeEach(u)
        BY <3>1 DEF CallFreePlugin, UnloadEach, FreeEach, Goes, Stays, TypeInv
      <4>2. call[u].id # i
        BY <1>2, <4>1 DEF Releasing
      <4> QED
        BY <4>1, <4>2 DEF Deleted
    <3>2. CASE UnloadEach(u)
      <4>1. PICK c : c = call[u]
        OBVIOUS
      <4>2. PICK ids : ids = {j \in Present(handles[p]) : handles[p][j].name = c.name}
        OBVIOUS
      <4>3. /\ pc'[u] = "unloadDelete" /\ call'[u] = [c EXCEPT !.ids = ids]
            /\ ~CallFreePlugin(u) /\ ~FreeEach(u)
        BY <1>2, <3>2, <4>1, <4>2
        DEF CallFreePlugin, UnloadEach, FreeEach, Goes, Notes, TypeInv
      <4>4. c \in Calls
        BY <4>1 DEF TypeInv
      <4>5. call'[u].plugger = p /\ call'[u].ids = ids
        BY <1>2, <4>1, <4>3, <4>4 DEF Calls
      <4>6. i \notin ids
        BY <4>3, <4>5 DEF Releasing
      <4> QED
        BY <1>2, <4>1, <4>2, <4>3, <4>6 DEF Deleted
    <3>3. CASE FreeEach(u)
      <4>1. pc'[u] = "freeClear" /\ call'[u] = call[u]
        BY <3>3 DEF FreeEach, Goes, Stays, TypeInv
      <4> QED
        BY <1>2, <4>1 DEF Releasing
    <3> QED
      BY <3>1, <3>2, <3>3 DEF Deleted
  <2>4. ~Releasing(p, i)
    <3> SUFFICES ASSUME NEW v \in Users, call[v].plugger = p,
                        \/ pc[v] = "deleteHandle" /\ call[v].id = i
                        \/ pc[v] = "unloadDelete" /\ i \in call[v].ids
                        \/ pc[v] = "freeClear"
                 PROVE  FALSE
      BY DEF Releasing
    <3>1. CASE v # u
      BY <1>1, <3>1 DEF OthersStay, Releasing
    <3>2. CASE v = u
      <4>1. CASE pc[u] = "deleteHandle" /\ call[u].id = i
        <5>1. DeleteHandle(u)
          BY <4>1 DEF Advance, OpenFile, Register, LoadReturns, CallNewPlugin, SetHandle,
               FindHandle, CallFreePlugin, UnloadEach, UnloadDelete, UnloadClose,
               UnloadForget, FreeEach, FreeClear, FreeClose, FreeForget, Goes
        <5>2. handles' = [handles EXCEPT ![call[u].plugger][call[u].id] = None]
          BY <5>1 DEF DeleteHandle
        <5>3. handles'[p][i] = None
          BY <1>2, <4>1, <5>2 DEF TypeInv
        <5> QED
          BY <5>3
      <4>2. CASE pc[u] = "freeClear"
        <5>1. FreeClear(u)
          BY <4>2 DEF Advance, OpenFile, Register, LoadReturns, CallNewPlugin, SetHandle,
               FindHandle, CallFreePlugin, DeleteHandle, UnloadEach, UnloadDelete,
               UnloadClose, UnloadForget, FreeEach, FreeClose, FreeForget, Goes
        <5>2. handles' = [handles EXCEPT ![call[u].plugger] = Empty(Ids)]
          BY <5>1 DEF FreeClear
        <5>3. handles'[p][i] = None
          BY <1>2, <5>2 DEF Empty, TypeInv
        <5> QED
          BY <5>3
      <4>3. CASE pc[u] = "unloadDelete" /\ i \in call[u].ids
        <5>1. UnloadDelete(u)
          BY <4>3 DEF Advance, OpenFile, Register, LoadReturns, CallNewPlugin, SetHandle,
               FindHandle, CallFreePlugin, DeleteHandle, UnloadEach, UnloadClose,
               UnloadForget, FreeEach, FreeClear, FreeClose, FreeForget, Goes
        <5>2. PICK j \in call[u].ids : /\ pc'[u] = "unloadDelete"
                                       /\ handles' = [handles EXCEPT ![call[u].plugger][j] = None]
                                       /\ call'[u] = [call[u] EXCEPT !.ids = @ \ {j}]
          BY <4>3, <5>1 DEF UnloadDelete, Goes, Notes, TypeInv
        <5>3. CASE i = j
          <6>1. handles'[p][i] = None
            BY <1>2, <5>2, <5>3 DEF TypeInv
          <6> QED
            BY <6>1
        <5>4. CASE i # j
          <6>1. call[u] \in Calls
            BY DEF TypeInv
          <6>2. call'[u].plugger = p /\ i \in call'[u].ids
            BY <1>2, <4>3, <5>2, <5>4, <6>1 DEF Calls
          <6> QED
            BY <5>2, <6>2 DEF Releasing
        <5> QED
          BY <5>3, <5>4
      <4> QED
        BY <3>2, <4>1, <4>2, <4>3
    <3> QED
      BY <3>1, <3>2
  <2>5. instMap[f][i] = <<p, i>>
    BY <2>1, <2>2, <2>4 DEF OwnInstance
  <2>6. instMap'[f][i] = <<p, i>>
    BY <1>2, <2>2, <2>3, <2>5, InstancesEntries
  <2> QED
    BY <2>1, <2>6
<1> QED
  BY <1>3, <1>4

LEMMA NoOrphansKept ==
  ASSUME OnePlugger, LibraryInv, InstanceInv, NEW u \in Users, Advance(u), TypeInv'
  PROVE  NoOrphans'
<1> USE DEF LibraryInv, InstanceInv
<1>1. /\ OthersStay(u) /\ KeepsCall(u)
      /\ \A v \in Users : OwnId(v) /\ InHand(v) /\ InTime(v)
  BY AdvanceMovesOne, AdvanceKeepsCall DEF MadeInv, IdsInv, CallInv
<1> SUFFICES ASSUME NEW f \in Files, NEW p \in Pluggers, NEW i \in Ids,
                    instMap'[f][i] = <<p, i>>
             PROVE  \/ handles'[p][i] # None /\ handles'[p][i].lib = f
                    \/ \E w \in Users : /\ pc'[w] = "setHandle" /\ call'[w].plugger = p
                                        /\ call'[w].id = i /\ call'[w].lib = f
  BY DEF NoOrphans
<1>2. call[u].plugger = p /\ <<p, i>> # None
  BY <1>1, Constants DEF KeepsCall, InHand, OnePlugger, Instances
<1>3. CASE Made(u, f, i)
  BY <1>2, <1>3 DEF Made, CallNewPlugin, Goes, Stays, TypeInv
<1>4. CASE instMap[f][i] = <<p, i>>
  <2>1. CASE \E w \in Users : /\ pc[w] = "setHandle" /\ call[w].plugger = p
                              /\ call[w].id = i /\ call[w].lib = f
    <3>1. PICK w \in Users : /\ pc[w] = "setHandle" /\ call[w].plugger = p
                             /\ call[w].id = i /\ call[w].lib = f
      BY <2>1
    <3>2. CASE w # u
      BY <1>1, <3>1, <3>2 DEF OthersStay
    <3>3. CASE w = u
      <4>1. SetHandle(u)
        BY <3>1, <3>3 DEF Advance, OpenFile, Register, LoadReturns, CallNewPlugin,
             FindHandle, CallFreePlugin, DeleteHandle, UnloadEach, UnloadDelete,
             UnloadClose, UnloadForget, FreeEach, FreeClear, FreeClose, FreeForget, Goes
      <4>2. handles'[p][i] = [name |-> call[u].name, lib |-> f] /\ call[u].name \in Names
        BY <3>1, <3>3, <4>1, GivenEntries
      <4>3. handles'[p][i] \in Handles
        BY <4>2 DEF Handles
      <4> QED
        BY <4>2, <4>3, Constants
    <3> QED
      BY <3>2, <3>3
  <2>2. CASE handles[p][i] # None /\ handles[p][i].lib = f
    <3>1. ~ (SetHandle(u) /\ i = call[u].id)
      <4>1. handles[p][i] \in Handles /\ handles[p][i].name = given[p][i]
        BY <2>2 DEF IdsInv, GivenInv, Present, TypeInv
      <4>2. given[p][i] # None
        BY <4>1, Constants DEF Handles
      <4> QED
        BY <1>1, <1>2, <4>2 DEF SetHandle, Goes, OwnId, MakeSteps
    <3>2. ~ (DeleteHandle(u) /\ i = call[u].id)
      BY <1>1, <1>2, <1>4 DEF DeleteHandle, Goes, InTime
    <3>3. ~ (UnloadDelete(u) /\ i \in call[u].ids)
      BY <1>1, <1>2, <1>4 DEF UnloadDelete, Goes, InTime
    <3>4. ~FreeClear(u)
      BY <1>1, <1>2, <1>4 DEF FreeClear, Goes, InTime
    <3>5. handles'[p][i] = handles[p][i]
      BY <3>1, <3>2, <3>3, <3>4, HandlesEntries
    <3> QED
      BY <2>2, <3>5
  <2> QED
    BY <1>4, <2>1, <2>2 DEF NoOrphans
<1> QED
  BY <1>2, <1>3, <1>4, InstancesEntries

LEMMA InstanceStep ==
  ASSUME OnePlugger, LibraryInv, InstanceInv, [Next]_vars, TypeInv'
  PROVE  InstanceInv'
<1> USE DEF InstanceInv
<1>1. IdsInv'
  BY IdsStep
<1>2. ASSUME NEW u \in Users, Advance(u) PROVE InstanceInv'
  <2>1. OthersStay(u) /\ KeepsCall(u)
    BY <1>2, AdvanceMovesOne, AdvanceKeepsCall DEF LibraryInv
  <2>2. MadeInv'
    BY <1>2, <2>1, OthersInTime, OwnInTime DEF MadeInv
  <2> QED
    BY <1>1, <1>2, <2>2, OwnInstanceKept, NoOrphansKept
<1>3. ASSUME NEW u \in Users, NEW p \in Pluggers, Invoke(u, p) PROVE InstanceInv'
  <2>1. PICK to \in FirstSteps, c \in Calls : BeginsWith(u, p, to, c)
    BY <1>3, InvokeBegins DEF LibraryInv
  <2>2. OthersStay(u) /\ pc[u] = "idle" /\ pc'[u] = to
    BY <2>1, BeginsMovesOne DEF LibraryInv
  <2>3. UNCHANGED <<files, handles, instMap>>
    BY <2>1 DEF BeginsWith, Begins, instVars
  <2>4. MadeInv'
    <3>1. \A v \in Users \ {u} : InTime(v)'
      BY <2>2, <2>3 DEF MadeInv, InTime, OthersStay
    <3>2. InTime(u)'
      BY <2>2 DEF InTime, FirstSteps
    <3> QED
      BY <3>1, <3>2 DEF MadeInv
  <2>5. ASSUME NEW q \in Pluggers, NEW i \in Ids PROVE Releasing(q, i) => Releasing(q, i)'
    BY <2>2 DEF Releasing, OthersStay
  <2>6. OwnInstance'
    <3> SUFFICES ASSUME NEW q \in Pluggers, NEW i \in Present(handles[q]),
                        files[handles[q][i].lib].makes, ~Releasing(q, i)'
                 PROVE  instMap[handles[q][i].lib][i] = <<q, i>>
      BY <2>3 DEF OwnInstance
    <3>1. i \in Ids
      BY DEF LibraryInv, TypeInv, Present
    <3> QED
      BY <2>5, <3>1 DEF OwnInstance
  <2>7. NoOrphans'
    BY <2>2, <2>3 DEF NoOrphans, OthersStay
  <2> QED
    BY <1>1, <2>4, <2>6, <2>7
<1>4. ASSUME UNCHANGED <<files, handles, instMap, pc, call>> PROVE InstanceInv'
  <2>1. MadeInv'
    BY <1>4 DEF MadeInv, InTime
  <2>2. OwnInstance'
    BY <1>4 DEF OwnInstance, Releasing, Present
  <2>3. NoOrphans'
    BY <1>4 DEF NoOrphans
  <2> QED
    BY <1>1, <2>1, <2>2, <2>3
<1>5. ASSUME NEW p \in Pluggers, SetVersionSafe(p) PROVE InstanceInv'
  BY <1>4, <1>5 DEF SetVersionSafe, instVars
<1>6. CASE UNCHANGED vars
  BY <1>4, <1>6 DEF vars, hostVars, instVars
<1> QED
  BY <1>2, <1>3, <1>5, <1>6 DEF Next

LEMMA InstanceInit == Init => InstanceInv
<1> SUFFICES ASSUME Init PROVE InstanceInv
  OBVIOUS
<1>1. IdsInv /\ MadeInv
  BY DEF Init, IdsInv, GivenInv, OwnId, MadeInv, InTime, MakeSteps, FreeSteps, Empty, Present
<1>2. OwnInstance
  BY DEF Init, OwnInstance, Empty, Present
<1>3. NoOrphans
  BY Constants DEF Init, NoOrphans, Empty, Instances
<1> QED
  BY <1>1, <1>2, <1>3 DEF InstanceInv

LEMMA InstancesHold == ASSUME Exclusive, OnePlugger PROVE Spec => []InstanceInv
<1>1. LibraryInv /\ LibraryInv' /\ InstanceInv /\ [Next]_vars => InstanceInv'
  BY InstanceStep DEF LibraryInv
<1> QED
  BY LibraryHolds, InstanceInit, <1>1, PTL DEF Spec

\* The handle NewPlugin registered stands for its instance until the instance
\* is being freed, whatever is loaded, unloaded and freed meanwhile.
THEOREM HandlesOwnInstances ==
  ASSUME Exclusive, OnePlugger PROVE Spec => []OwnInstance
<1>1. InstanceInv => OwnInstance
  BY DEF InstanceInv
<1> QED
  BY InstancesHold, <1>1, PTL

\* Every instance a library has can be freed: its handle is registered, or
\* NewPlugin is about to register it.
THEOREM InstancesHaveHandles ==
  ASSUME Exclusive, OnePlugger PROVE Spec => []NoOrphans
<1>1. InstanceInv => NoOrphans
  BY DEF InstanceInv
<1> QED
  BY InstancesHold, <1>1, PTL

-----------------------------------------------------------------------------
(* Plugin values that are equal.                                           *)

\* A library has one instance at a time.
OneEach == \A f \in Files : \A i, j \in Present(instMap[f]) : i = j

\* What EventEmit finds then: the entry of the value that all instances have
\* is that of the instance there is.
LEMMA SharedStep ==
  ASSUME OnePlugger, SharedValue, TypeInv, CallInv, TablesInv, OneEach, EmitterFindsOwn,
         TypeInv', TablesInv', OneEach', [Next]_vars
  PROVE  EmitterFindsOwn'
<1>1. ASSUME UNCHANGED instVars PROVE EmitterFindsOwn'
  BY <1>1 DEF instVars, EmitterFindsOwn
<1>2. Values = {None} /\ \A k : ValueOf(k) = None
  BY DEF Values, ValueOf
<1>3. ASSUME NEW u \in Users, Advance(u) PROVE EmitterFindsOwn'
  <2> SUFFICES ASSUME NEW f \in Files, NEW p \in Pluggers, NEW i \in Ids
               PROVE  instMapByPlugin'[f][None] = <<p, i>> <=> instMap'[f][i] = <<p, i>>
    BY <1>2 DEF EmitterFindsOwn, Instances
  <2>1. <<p, i>> \in Instances /\ <<p, i>> # None
    BY Constants DEF Instances
  <2>2. /\ instMapByPlugin[f][None] = <<p, i>> <=> instMap[f][i] = <<p, i>>
    BY <1>2, <2>1 DEF EmitterFindsOwn
  <2>3. CASE CallNewPlugin(u) /\ files[call[u].lib].makes
    <3> DEFINE c == call[u]
    <3>1. /\ c.lib \in Files /\ c.id \in Ids /\ c.plugger = p
          /\ instMap' = [instMap EXCEPT ![c.lib][c.id] = <<p, c.id>>]
          /\ instMapByPlugin' = [instMapByPlugin EXCEPT ![c.lib][None] = <<p, c.id>>]
      BY <1>2, <2>3
      DEF CallNewPlugin, SetInstance, Goes, CallInv, InHand, MakeSteps, OnePlugger
    <3> HIDE DEF c
    <3>2. /\ instMap'[f][i] = IF f = c.lib /\ i = c.id THEN <<p, c.id>> ELSE instMap[f][i]
          /\ instMap'[f][c.id] = IF f = c.lib THEN <<p, c.id>> ELSE instMap[f][c.id]
          /\ instMapByPlugin'[f][None] = IF f = c.lib THEN <<p, c.id>>
                                                      ELSE instMapByPlugin[f][None]
      BY <1>2, <3>1, EntryAt DEF TypeInv
    <3>3. CASE f = c.lib /\ i # c.id
      <4>1. c.id \in Present(instMap'[f])
        BY <3>1, <3>2, <3>3, Constants DEF Present, TypeInv, Instances
      <4>2. i \notin Present(instMap'[f])
        BY <3>3, <4>1 DEF OneEach, Present
      <4>3. instMap'[f][i] = None
        BY <4>2 DEF Present, TypeInv
      <4> QED
        BY <2>1, <3>2, <3>3, <4>3
    <3> QED
      BY <2>2, <3>1, <3>2, <3>3
  <2>4. CASE CallFreePlugin(u) \/ UnloadEach(u) \/ FreeEach(u)
    <3>1. PICK D : DeleteInstances(D)
      BY <2>4, DeletesPairs
    <3>2. instMap'[f][i] = IF <<f, i>> \in D THEN None ELSE instMap[f][i]
      BY <3>1 DEF DeleteInstances
    <3>3. instMapByPlugin'[f][None]
            = IF \E j \in Present(instMap[f]) : <<f, j>> \in D
                THEN None ELSE instMapByPlugin[f][None]
      BY <1>2, <3>1 DEF DeleteInstances
    <3>4. CASE instMap[f][i] = <<p, i>>
      <4>1. i \in Present(instMap[f])
        BY <2>1, <3>4 DEF Present, TypeInv
      <4>2. (\E j \in Present(instMap[f]) : <<f, j>> \in D) <=> <<f, i>> \in D
        BY <4>1 DEF OneEach
      <4> QED
        BY <2>1, <2>2, <3>2, <3>3, <4>2
    <3>5. CASE instMap[f][i] # <<p, i>>
      BY <2>1, <2>2, <3>2, <3>3, <3>5
    <3> QED
      BY <3>4, <3>5
  <2>5. CASE UNCHANGED instVars
    BY <2>2, <2>5 DEF instVars
  <2>6. CallNewPlugin(u) /\ ~files[call[u].lib].makes => UNCHANGED instVars
    BY DEF CallNewPlugin
  <2> QED
    BY <1>3, <2>3, <2>4, <2>5, <2>6, AdvanceChanges DEF Changes
<1>4. ASSUME NEW u \in Users, NEW p \in Pluggers, Invoke(u, p) PROVE EmitterFindsOwn'
  BY <1>1, <1>4, InvokeBegins DEF BeginsWith, Begins
<1>5. ASSUME NEW p \in Pluggers, SetVersionSafe(p) PROVE EmitterFindsOwn'
  BY <1>1, <1>5 DEF SetVersionSafe
<1>6. CASE UNCHANGED vars
  BY <1>1, <1>6 DEF vars
<1> QED
  BY <1>3, <1>4, <1>5, <1>6 DEF Next

LEMMA SharedInit == SharedValue /\ Init => EmitterFindsOwn
<1> SUFFICES ASSUME SharedValue, Init, NEW f \in Files, NEW k \in Instances
             PROVE  instMapByPlugin[f][ValueOf(k)] = k <=> instMap[f][k[2]] = k
  BY DEF EmitterFindsOwn
<1>1. k[2] \in Ids /\ k # None /\ ValueOf(k) \in Values
  BY Constants DEF Instances, ValueOf, Values
<1> QED
  BY <1>1 DEF Init, Empty

\* When all plugin values of a library are equal, EventEmit finds the right
\* instance as long as the application has one instance in a library at a time.
THEOREM SharedValueFindsInstance ==
  ASSUME Exclusive, OnePlugger, SharedValue
  PROVE  Spec /\ []OneEach => []EmitterFindsOwn
<1>1. LibraryInv /\ TablesInv /\ OneEach /\ EmitterFindsOwn /\ LibraryInv' /\ TablesInv'
        /\ OneEach' /\ [Next]_vars => EmitterFindsOwn'
  <2> SUFFICES ASSUME LibraryInv, TablesInv, OneEach, EmitterFindsOwn,
                      LibraryInv', TablesInv', OneEach', [Next]_vars
               PROVE  EmitterFindsOwn'
    OBVIOUS
  <2>1. TypeInv /\ CallInv /\ TypeInv'
    BY DEF LibraryInv
  <2> QED
    BY <2>1, SharedStep
<1> QED
  BY LibraryHolds, TablesHold, SharedInit, <1>1, PTL DEF Spec

-----------------------------------------------------------------------------
(* A process that dies elsewhere: in a call through a handle, or of a      *)
(* listener.  The tables keep what they had.                               *)

Died ==
  /\ halted' = TRUE
  /\ UNCHANGED <<files, opens, stray, hostVars, instVars, pc, call>>

LEMMA DeathKeepsLibraries == LibraryInv /\ Died => LibraryInv'
<1> SUFFICES ASSUME LibraryInv, Died PROVE LibraryInv'
  OBVIOUS
<1> USE DEF Died, hostVars, instVars, LibraryInv
<1>1. TypeInv'
  BY DEF TypeInv
<1>2. CallInv' /\ ExclusiveInv' /\ LibsInv' /\ HandlesInv' /\ TearInv'
  BY DEF CallInv, InHand, ExclusiveInv, LibsInv, HandlesInv, TearInv, Left, Present
<1>3. OpensMatch' /\ NoStrayCall'
  BY DEF OpensMatch, Holders, Holds, Forgetting, Loaders, NoStrayCall
<1> QED
  BY <1>1, <1>2, <1>3

LEMMA DeathKeepsInstances ==
  Died => /\ InstanceInv => InstanceInv'
          /\ TablesInv => TablesInv'
          /\ EmitterFindsOwn => EmitterFindsOwn'
<1> SUFFICES ASSUME Died PROVE /\ InstanceInv => InstanceInv'
                               /\ TablesInv => TablesInv'
                               /\ EmitterFindsOwn => EmitterFindsOwn'
  OBVIOUS
<1> USE DEF Died, hostVars, instVars
<1>1. IdsInv => IdsInv'
  BY DEF IdsInv, GivenInv, OwnId, Present
<1>2. MadeInv => MadeInv'
  BY DEF MadeInv, InTime
<1>3. OwnInstance => OwnInstance'
  BY DEF OwnInstance, Releasing, Present
<1>4. NoOrphans => NoOrphans'
  BY DEF NoOrphans
<1> QED
  BY <1>1, <1>2, <1>3, <1>4 DEF InstanceInv, TablesInv, EmitterFindsOwn

-----------------------------------------------------------------------------
(* The warning of a Load.                                                  *)

\* No step of an operation adds one.
LEMMA WarnStays ==
  ASSUME TypeInv, NEW u \in Users, Advance(u), ~call[u].warn
  PROVE  ~call'[u].warn
<1> DEFINE c == call[u]
<1>1. c \in Calls /\ call \in [Users -> Calls] /\ ~NoCall.warn
  BY DEF TypeInv, NoCall
<1>2. CASE OpenFile(u)
  <2>1. PICK f \in c.todo : \/ Notes(u, [c EXCEPT !.lib = f, !.todo = @ \ {f}])
                            \/ UNCHANGED call
    BY <1>2 DEF OpenFile
  <2>2. call'[u] = [c EXCEPT !.lib = f, !.todo = @ \ {f}] \/ call'[u] = c
    BY <1>1, <2>1 DEF Notes
  <2> HIDE DEF c
  <2> QED
    BY <1>1, <2>2 DEF c, Calls
<1>3. CASE Register(u)
  <2>1. \/ Notes(u, [c EXCEPT !.lib = None])
        \/ Notes(u, [c EXCEPT !.lib = None, !.skipped = TRUE, !.warn = AddWarning(@)])
    BY <1>3, Zenon DEF Register
  <2>2. \/ call'[u] = [c EXCEPT !.lib = None]
        \/ call'[u] = [c EXCEPT !.lib = None, !.skipped = TRUE, !.warn = AddWarning(@)]
    BY <1>1, <2>1 DEF Notes
  <2> HIDE DEF c
  <2> QED
    BY <1>1, <2>2 DEF c, Calls, AddWarning
<1>4. CASE UnloadEach(u) \/ UnloadDelete(u)
  <2>1. \/ \E I : Notes(u, [c EXCEPT !.ids = I])
        \/ Stays(u)
    BY <1>4 DEF UnloadEach, UnloadDelete
  <2>2. \/ \E I : call'[u] = [c EXCEPT !.ids = I]
        \/ call'[u] = c
    BY <1>1, <2>1 DEF Notes, Stays
  <2> HIDE DEF c
  <2> QED
    BY <1>1, <2>2 DEF c, Calls
<1>5. CASE Stays(u) \/ Returns(u)
  BY <1>1, <1>5 DEF Stays, Returns, Notes
<1>6. \/ OpenFile(u) \/ Register(u) \/ UnloadEach(u) \/ UnloadDelete(u)
      \/ Stays(u) \/ Returns(u)
  BY DEF Advance, LoadReturns, CallNewPlugin, SetHandle, FindHandle, CallFreePlugin,
         DeleteHandle, UnloadClose, UnloadForget, FreeEach, FreeClear, FreeClose, FreeForget
<1> QED
  BY <1>2, <1>3, <1>4, <1>5, <1>6
=============================================================================
