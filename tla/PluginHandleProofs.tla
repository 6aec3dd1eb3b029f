------------------------- MODULE PluginHandleProofs -------------------------
(***************************************************************************)
(* Each path of a handle is, to the other, an environment that only moves  *)
(* the sizes, for any number of callers, emitters and listeners: what the  *)
(* proofs of RequestCall and EventLoop show of the open systems holds of   *)
(* the two together.                                                       *)
(*                                                                         *)
(* The argument goes round: a step of one path keeps that path's own IInv, *)
(* so it leaves sizes a C int can say, so it is a Resized step of the      *)
(* other path, so it keeps the other path's IInv as well.                  *)
(***************************************************************************)
EXTENDS PluginHandle, TLAPS

\* The invariants of both paths together.
IInv == Req!IInv /\ Ev!IInv

RequestStep == [Req!Next \/ Req!Resized]_(Req!vars)
EventStep == [Ev!Next \/ Ev!Resized]_(Ev!vars)

-----------------------------------------------------------------------------
(* What the paths' own proofs give, for the values they are given here.    *)

LEMMA RequestConstants ==
  /\ {RequestFuncs} \subseteq SUBSET Req!ConfigFuncs
  /\ ResultLens \subseteq Nat \ {0}
  /\ \A n \in ResultLens \cup ErrorLens : 2 * (n - 1) <= CIntMax
  /\ Nothing \notin Req!Answers
BY HandleAssumption, HandleSizesAssumption, HandleNothingAssumption
DEF RequestFuncs, Req!ConfigFuncs

LEMMA EventConstants ==
  /\ (Callers \cup Emitters) \cap Listeners = {}
  /\ {EventFuncs} \subseteq SUBSET {"newEventParamFunc", "newEventResultFunc"}
  /\ ParamLens \subseteq Nat \ {0}
  /\ \A n \in ParamLens \cup ErrorLens : 2 * (n - 1) <= CIntMax
  /\ Nothing \notin Ev!Events \cup Ev!Entries \cup Ev!Verdicts
BY HandleAssumption, HandleSizesAssumption, HandleNothingAssumption DEF EventFuncs

LEMMA RequestInv == (Req!Init => Req!IInv) /\ (Req!IInv /\ RequestStep => Req!IInv')
BY Req!InitIInv, Req!NextIInv, RequestConstants, HandleAssumption,
   HandleSizesAssumption, CIntAssumption, IdSpanAssumption
DEF RequestStep

LEMMA EventInv == (Ev!Init => Ev!IInv) /\ (Ev!IInv /\ EventStep => Ev!IInv')
BY Ev!InitIInv, Ev!NextIInv, EventConstants, HandleAssumption,
   HandleSizesAssumption, CIntAssumption, IdSpanAssumption
DEF EventStep
LEMMA RequestKeepsLive ==
  ASSUME NEW t \in CallThreads, Req!Invoke(t) \/ Req!Advance(t) \/ Req!Leave(t)
  PROVE  live' = live
BY Req!CallKeepsLive, RequestConstants, HandleAssumption, HandleSizesAssumption,
   CIntAssumption, IdSpanAssumption

LEMMA ListenKeepsLive ==
  ASSUME NEW l \in Listeners, Ev!Listen(l)
  PROVE  live' = live
BY Ev!ListenKeepsLive, EventConstants, HandleAssumption, HandleSizesAssumption,
   CIntAssumption, IdSpanAssumption

LEMMA EmitKeepsLive ==
  ASSUME NEW t \in CallThreads \cup Emitters,
         Ev!Emit(t) \/ Ev!EmitNotFound(t) \/ Ev!SendOnClosed(t) \/ Ev!Leave(t)
  PROVE  live' = live
<1>1. t \in Ev!Threads
  BY DEF CallThreads, Ev!Threads
<1> QED
  BY <1>1, Ev!EmitKeepsLive, EventConstants, HandleAssumption, HandleSizesAssumption,
     CIntAssumption, IdSpanAssumption

-----------------------------------------------------------------------------
(* A step of one path is a Resized step of the other.                      *)

LEMMA RequestStepResizes ==
  ASSUME IInv, RequestPath, Req!Next, live' = live
  PROVE  RequestStep /\ EventStep /\ IInv'
<1>1. RequestStep
  BY DEF RequestStep
<1>2. Req!IInv'
  BY <1>1, RequestInv DEF IInv
<1>3. Ev!Resized
  BY <1>2 DEF Req!IInv, Req!SizesInv, RequestPath, evVars, Ev!Resized, Ev!emitVars,
              Ev!callVars, Ev!handlerVars, Ev!appVars
<1>4. EventStep
  BY <1>3 DEF EventStep
<1> QED
  BY <1>1, <1>2, <1>4, EventInv DEF IInv

LEMMA EventStepResizes ==
  ASSUME IInv, EventPath, Ev!Next, live' = live
  PROVE  RequestStep /\ EventStep /\ IInv'
<1>1. EventStep
  BY DEF EventStep
<1>2. Ev!IInv'
  BY <1>1, EventInv DEF IInv
<1>3. Req!Resized
  BY <1>2 DEF Ev!IInv, Ev!SizesInv, EventPath, reqVars, Req!Resized
<1>4. RequestStep
  BY <1>3 DEF RequestStep
<1> QED
  BY <1>1, <1>2, <1>4, RequestInv DEF IInv

LEMMA StepOfBoth == IInv /\ [Next]_vars => RequestStep /\ EventStep /\ IInv'
<1> SUFFICES ASSUME IInv, [Next]_vars PROVE RequestStep /\ EventStep /\ IInv'
  OBVIOUS
<1>1. ASSUME NEW t \in CallThreads, Invoke(t) \/ Call(t) \/ Return(t)
      PROVE  RequestStep /\ EventStep /\ IInv'
  <2>1. RequestPath /\ (Req!Invoke(t) \/ Req!Advance(t) \/ Req!Leave(t))
    BY <1>1 DEF Invoke, Call, Return, Req!Invoke
  <2>2. Req!Next
    BY <2>1 DEF Req!Next
  <2> QED
    BY <2>1, <2>2, RequestKeepsLive, RequestStepResizes
<1>2. ASSUME NEW t \in CallThreads \cup Emitters, EventEmit(t) \/ EmitEnds(t)
      PROVE  RequestStep /\ EventStep /\ IInv'
  <2>1. /\ EventPath
        /\ Ev!Emit(t) \/ Ev!EmitNotFound(t) \/ Ev!SendOnClosed(t) \/ Ev!Leave(t)
    BY <1>2 DEF EventEmit, EmitEnds
  <2>2. Ev!Next
    BY <2>1 DEF Ev!Next, Ev!Threads, CallThreads
  <2> QED
    BY <2>1, <2>2, EmitKeepsLive, EventStepResizes
<1>3. ASSUME NEW l \in Listeners, Listen(l)
      PROVE  RequestStep /\ EventStep /\ IInv'
  <2>1. EventPath /\ Ev!Listen(l)
    BY <1>3 DEF Listen
  <2>2. Ev!Next
    BY <2>1 DEF Ev!Next
  <2> QED
    BY <2>1, <2>2, ListenKeepsLive, EventStepResizes
<1>4. CASE SetEventHandler
  <2>1. EventPath /\ Ev!Next /\ live' = live
    BY <1>4 DEF SetEventHandler, Ev!SetEventHandler, Ev!Next
  <2> QED
    BY <2>1, EventStepResizes
<1>5. CASE FreePlugin
  <2>1. RequestStep /\ EventStep
    BY <1>5 DEF FreePlugin, RequestStep, EventStep, Req!Next, Ev!Next
  <2> QED
    BY <2>1, RequestInv, EventInv DEF IInv
<1>6. CASE UNCHANGED vars
  <2>1. UNCHANGED Req!vars /\ UNCHANGED Ev!vars
    BY <1>6 DEF vars, reqVars, evVars, Req!vars, Ev!vars, Ev!emitVars, Ev!bufferVars,
                Ev!callVars, Ev!handlerVars, Ev!appVars
  <2>2. RequestStep /\ EventStep
    BY <2>1 DEF RequestStep, EventStep
  <2> QED
    BY <2>2, RequestInv, EventInv DEF IInv
<1> QED
  BY <1>1, <1>2, <1>3, <1>4, <1>5, <1>6 DEF Next

-----------------------------------------------------------------------------
LEMMA InitOfBoth == Init => IInv /\ Req!Init /\ Ev!Init
BY RequestInv, EventInv DEF Init, IInv

\* The invariants of both paths hold of every reachable state of the handle:
\* the parked answers and events, the ids and the buffers of either path are
\* safe although the other path moves the sizes of the two bufferManagers.
THEOREM HandleInvariance == Spec => []IInv
BY InitOfBoth, StepOfBoth, PTL DEF Spec

\* To either path of a handle, the other only moves the sizes.
THEOREM PathsOpen == Spec => OpenPaths
<1>1. Spec => Req!Init /\ [][Req!Next \/ Req!Resized]_(Req!vars)
  BY InitOfBoth, StepOfBoth, PTL DEF Spec, RequestStep
<1>2. Spec => Ev!Init /\ [][Ev!Next \/ Ev!Resized]_(Ev!vars)
  BY InitOfBoth, StepOfBoth, PTL DEF Spec, EventStep
<1> QED
  BY <1>1, <1>2 DEF OpenPaths, Req!OpenSpec, Ev!OpenSpec

\* With its methods emitting and its handlers calling, a handle of any size
\* still runs each method once and gives each call its own answer, and gives
\* each handler its own event and each event its own response.
THEOREM HandlePathsSafe ==
  Spec => []( /\ Req!MethodRunsOnce /\ Req!OwnAnswer /\ Req!NoOverrun
              /\ Ev!AwaitedIsCarried /\ Ev!HandlerSeesOwnEvent
              /\ Ev!ResponseTellsVerdict /\ Ev!NoOverrun )
<1>1. Req!IInv => Req!MethodRunsOnce /\ Req!OwnAnswer /\ Req!NoOverrun
  BY Req!IInvImplies, RequestConstants, HandleAssumption, HandleSizesAssumption,
     CIntAssumption, IdSpanAssumption
<1>2. Ev!IInv => Ev!AwaitedIsCarried /\ Ev!HandlerSeesOwnEvent
  BY Ev!AwaitedFromIInv, Ev!OwnEventFromIInv, EventConstants, HandleAssumption,
     HandleSizesAssumption, CIntAssumption, IdSpanAssumption
<1>3. Ev!IInv => Ev!ResponseTellsVerdict /\ Ev!NoOverrun
  BY DEF Ev!IInv
<1>4. IInv => /\ Req!MethodRunsOnce /\ Req!OwnAnswer /\ Req!NoOverrun
              /\ Ev!AwaitedIsCarried /\ Ev!HandlerSeesOwnEvent
              /\ Ev!ResponseTellsVerdict /\ Ev!NoOverrun
  BY <1>1, <1>2, <1>3 DEF IInv
<1> QED
  BY <1>4, HandleInvariance, PTL

\* Events of a handle whose methods emit and whose handlers call are plain
\* invocations of the handler.
THEOREM HandleEventsRefine == Spec => Ev!ImplementsInvocation
<1>1. Ev!OpenSpec => Ev!ImplementsInvocation
  BY Ev!OpenRefinement, EventConstants, HandleAssumption, HandleSizesAssumption,
     CIntAssumption, IdSpanAssumption
<1> QED
  BY <1>1, PathsOpen DEF OpenPaths

\* And its calls are plain invocations of the methods.
THEOREM HandleCallsRefine ==
  ASSUME 0 \notin ErrorLens
  PROVE  Spec => Req!ImplementsInvocation
<1>1. Req!OpenSpec => Req!ImplementsInvocation
  BY Req!OpenRefinement, RequestConstants, HandleAssumption, HandleSizesAssumption,
     CIntAssumption, IdSpanAssumption
<1> QED
  BY <1>1, PathsOpen DEF OpenPaths
-----------------------------------------------------------------------------
(* The floors under the sizes the two paths share.                         *)

LEMMA RequestFloors ==
  ASSUME Req!IInv, Req!Next, NEW n \in Nat
  PROVE  /\ Req!BigAtLeast(n) => Req!BigAtLeast(n)'
         /\ Req!SmallAtLeast(n) => Req!SmallAtLeast(n)'
BY Req!FloorsStep, RequestConstants, HandleAssumption, HandleSizesAssumption,
   CIntAssumption, IdSpanAssumption

LEMMA EventFloor ==
  ASSUME Ev!IInv, Ev!Next, NEW n \in Nat, Ev!BigAtLeast(n)
  PROVE  Ev!BigAtLeast(n)'
BY Ev!FloorStep, EventConstants, HandleAssumption, HandleSizesAssumption,
   CIntAssumption, IdSpanAssumption

LEMMA ListenKeepsSmall ==
  ASSUME Ev!IInv, NEW l \in Listeners, Ev!Listen(l)
  PROVE  smallSize' = smallSize
<1>1. Ev!Source(l)
  BY Ev!SourceOfSizes, EventConstants, HandleAssumption, HandleSizesAssumption,
     CIntAssumption, IdSpanAssumption
<1> QED
  BY <1>1 DEF Ev!Source

\* A step of one path keeps the floor under the other path's buffers, which
\* it leaves alone, because it keeps the floor under the sizes.
LEMMA RequestKeepsFloors ==
  ASSUME IInv, RequestPath, Req!Next, NEW n \in Nat, NEW m \in Nat, 2 * m >= n, AtLeast(n, m)
  PROVE  AtLeast(n, m)'
<1>1. Req!BigAtLeast(n)' /\ Req!SmallAtLeast(m)'
  BY RequestFloors DEF IInv, AtLeast
<1>2. bigSize' >= n /\ smallSize' >= m /\ smallSize' \in Nat
  <2>1. RequestStep
    BY DEF RequestStep
  <2>2. Req!IInv'
    BY <2>1, RequestInv DEF IInv
  <2> QED
    BY <1>1, <2>2 DEF Req!BigAtLeast, Req!SmallAtLeast, Req!IInv, Req!TypeOK
<1>3. Ev!BigAtLeast(n)'
  BY <1>2 DEF AtLeast, Ev!BigAtLeast, RequestPath, evVars
<1> QED
  BY <1>1, <1>3 DEF AtLeast

LEMMA EventKeepsFloors ==
  ASSUME IInv, EventPath, Ev!Next, smallSize' = smallSize,
         NEW n \in Nat, NEW m \in Nat, AtLeast(n, m)
  PROVE  AtLeast(n, m)'
<1>1. Ev!BigAtLeast(n)'
  BY EventFloor DEF IInv, AtLeast
<1>2. Req!BigAtLeast(n)' /\ Req!SmallAtLeast(m)'
  BY <1>1 DEF AtLeast, Ev!BigAtLeast, Req!BigAtLeast, Req!SmallAtLeast, EventPath, reqVars
<1> QED
  BY <1>1, <1>2 DEF AtLeast

LEMMA FloorsStep ==
  ASSUME IInv, [Next]_vars, NEW n \in Nat, NEW m \in Nat, 2 * m >= n, AtLeast(n, m)
  PROVE  AtLeast(n, m)'
<1>1. ASSUME NEW t \in CallThreads, Invoke(t) \/ Call(t) \/ Return(t)
      PROVE  AtLeast(n, m)'
  <2>1. RequestPath /\ (Req!Invoke(t) \/ Req!Advance(t) \/ Req!Leave(t))
    BY <1>1 DEF Invoke, Call, Return, Req!Invoke
  <2> QED
    BY <2>1, RequestKeepsFloors DEF Req!Next
<1>2. ASSUME NEW t \in CallThreads \cup Emitters, EventEmit(t) \/ EmitEnds(t)
      PROVE  AtLeast(n, m)'
  <2>1. /\ EventPath
        /\ Ev!Emit(t) \/ Ev!EmitNotFound(t) \/ Ev!SendOnClosed(t) \/ Ev!Leave(t)
    BY <1>2 DEF EventEmit, EmitEnds
  <2>2. smallSize' = smallSize
    BY <2>1 DEF Ev!Emit, Ev!EmitNotFound, Ev!SendOnClosed, Ev!Leave, Ev!Panics, Ev!bufferVars
  <2>3. Ev!Next
    BY <2>1 DEF Ev!Next, Ev!Threads, CallThreads
  <2> QED
    BY <2>1, <2>2, <2>3, EventKeepsFloors
<1>3. ASSUME NEW l \in Listeners, Listen(l)
      PROVE  AtLeast(n, m)'
  <2>1. EventPath /\ Ev!Listen(l) /\ Ev!Next
    BY <1>3 DEF Listen, Ev!Next
  <2> QED
    BY <2>1, ListenKeepsSmall, EventKeepsFloors DEF IInv
<1>4. CASE SetEventHandler \/ FreePlugin \/ UNCHANGED vars
  <2>1. UNCHANGED <<bigSize, smallSize, pc, resultBuf, errorBuf, lpc, paramBuf, evErrorBuf>>
    BY <1>4
    DEF SetEventHandler, FreePlugin, vars, EventPath, reqVars, evVars, Req!FreePlugin,
        Ev!SetEventHandler, Ev!FreePlugin, Ev!bufferVars
  <2> QED
    BY <2>1 DEF AtLeast, Req!BigAtLeast, Req!SmallAtLeast, Ev!BigAtLeast
<1> QED
  BY <1>1, <1>2, <1>3, <1>4 DEF Next

\* On a handle of any size, with methods that emit and handlers that call,
\* the unsynchronised sizes lose growth but never the floor.
THEOREM HandleFloorsHold == Spec => FloorsHold
<1>1. IInv /\ [Next]_vars =>
        [\A n, m \in 1 .. CIntMax : 2 * m >= n /\ AtLeast(n, m) => AtLeast(n, m)']_vars
  BY FloorsStep, CIntAssumption
<1> QED
  BY <1>1, HandleInvariance, PTL DEF Spec, FloorsHold
LEMMA FloorsInit ==
  ASSUME Init, NEW n \in Nat, NEW m \in Nat, n <= BigInit, m <= SmallInit, 2 * m >= n
  PROVE  AtLeast(n, m)
<1>1. BigInit \in Nat /\ SmallInit \in Nat
  BY HandleSizesAssumption, CIntAssumption
<1>2. bigSize >= n /\ smallSize >= m /\ 2 * smallSize >= n
  BY <1>1 DEF Init, Req!Init
<1>3. Req!BigAtLeast(n) /\ Req!SmallAtLeast(m)
  BY <1>2 DEF Init, Req!Init, Req!BigAtLeast, Req!SmallAtLeast, Req!Offering
<1>4. Ev!BigAtLeast(n)
  BY <1>2 DEF Init, Ev!Init, Ev!BigAtLeast, Ev!Offering
<1> QED
  BY <1>3, <1>4 DEF AtLeast

\* So no buffer a handle offers is ever smaller than it would be had nothing
\* grown: a small one than smallBufferSize, a big one than bigBufferSize or
\* the double of smallBufferSize.
THEOREM HandleBuffersNeverShrink ==
  ASSUME NEW n \in Nat, NEW m \in Nat, n <= BigInit, m <= SmallInit, n <= 2 * m
  PROVE  Spec => []AtLeast(n, m)
<1>1. Init => AtLeast(n, m)
  BY FloorsInit
<1>2. IInv /\ AtLeast(n, m) /\ [Next]_vars => AtLeast(n, m)'
  BY FloorsStep
<1> QED
  BY <1>1, <1>2, HandleInvariance, PTL DEF Spec
=============================================================================
