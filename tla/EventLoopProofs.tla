-------------------------- MODULE EventLoopProofs ---------------------------
(***************************************************************************)
(* EventLoop is safe for any number of emitters and listeners, any depth   *)
(* of handlers that emit, any lengths of parameters and errors and any     *)
(* width of the C int: IInv is inductive, also when the request path moves *)
(* the sizes, and the safety properties of the runs follow from it.        *)
(*                                                                         *)
(* Most steps are the step of one listener inside the call it is in, and   *)
(* leave ids, events and the eventMap alone (Inside).                      *)
(***************************************************************************)
EXTENDS EventLoop, TLAPS

-----------------------------------------------------------------------------
(* Values.                                                                 *)

LEMMA Bounds ==
  /\ MaxEmits \in Nat /\ MaxEvents \in Nat /\ IdSpan \in Nat /\ MaxEvents < IdSpan
  /\ {0} \cup ParamLens \subseteq Nat /\ {0} \cup ErrorLens \subseteq Nat
BY EventAssumption, IdSpanAssumption

\* Within the bound on the events the id generator counts up.
LEMMA NextIdCounts ==
  ASSUME NEW n \in Nat, n < MaxEvents
  PROVE  NextId(n) = n + 1 /\ NextId(n) \in Ids
BY Bounds, IdSpanAssumption DEF NextId, Ids

\* The fields of an event.
LEMMA EventFields ==
  ASSUME NEW e \in Events
  PROVE  /\ e.of \in 1 .. MaxEmits
         /\ e.failed \in BOOLEAN
         /\ e.len \in {0} \cup ParamLens /\ e.len \in Nat
         /\ e.err \in {0} \cup ErrorLens /\ e.err \in Nat
         /\ e.failed => e.err \in ErrorLens
         /\ ~e.failed => e.err = 0
         /\ e # Nothing
<1>1. e # Nothing
  BY EventNothingAssumption
<1>2. /\ e.of \in 1 .. MaxEmits /\ e.failed \in BOOLEAN
      /\ e.len \in {0} \cup ParamLens /\ e.err \in {0} \cup ErrorLens
      /\ e.failed => e.err \in ErrorLens
      /\ ~e.failed => e.err = 0
  BY DEF Events, EventsNumbered
<1> QED
  BY <1>1, <1>2, Bounds

\* A number of the events that begin is that of one event.
LEMMA EventNumbered ==
  ASSUME NEW k \in 1 .. MaxEmits, NEW e \in EventsNumbered({k})
  PROVE  e \in Events /\ e.of = k
BY DEF Events, EventsNumbered

\* A capacity a C int can hold is read back as it was written.
LEMMA AsCIntExact ==
  ASSUME NEW n \in Nat, n <= CIntMax
  PROVE  AsCInt(n) = n
BY DEF AsCInt

\* Doubling a buffer that is too short stays in the C int.
LEMMA DoubleFits ==
  ASSUME NEW n \in ParamLens \cup ErrorLens, NEW cap \in Nat, cap < n
  PROVE  2 * cap <= CIntMax
<1>1. n \in Nat /\ 2 * (n - 1) <= CIntMax
  BY EventAssumption, EventSizesAssumption
<1> QED
  BY <1>1, CIntAssumption

\* Buffers of a capacity the C int holds.
LEMMA BufferTypes ==
  /\ NoBuffer \in Buffers
  /\ \A n \in 1 .. CIntMax : BufferOf(n) \in Buffers /\ Offered(BufferOf(n))
  /\ \A buf \in Buffers : \A n \in 0 .. MaxAlloc : [buf EXCEPT !.len = n] \in Buffers
BY CIntAssumption DEF NoBuffer, BufferOf, Buffers, Offered

\* Room there is not for a parameter or an error can be made.
LEMMA TooShort ==
  ASSUME TypeOK, NEW l \in Listeners, NEW e \in Events
  PROVE  /\ Offered(paramBuf[l]) /\ ~ParamFits(l, e) => 2 * paramBuf[l].cap \in 1 .. CIntMax
         /\ Offered(errorBuf[l]) /\ ~ErrorFits(l, e) => 2 * errorBuf[l].cap \in 1 .. CIntMax
<1>1. ASSUME Offered(paramBuf[l]), ~ParamFits(l, e)
      PROVE  2 * paramBuf[l].cap \in 1 .. CIntMax
  <2>1. paramBuf[l].cap < e.len /\ e.len \in ParamLens /\ paramBuf[l].cap \in Nat
    BY <1>1, EventFields, AsCIntExact, CIntAssumption DEF ParamFits, HoldsData, Offered
  <2> QED
    BY <1>1, <2>1, DoubleFits, CIntAssumption DEF Offered
<1>2. ASSUME Offered(errorBuf[l]), ~ErrorFits(l, e)
      PROVE  2 * errorBuf[l].cap \in 1 .. CIntMax
  <2>1. errorBuf[l].cap < e.err /\ e.err \in ErrorLens /\ errorBuf[l].cap \in Nat
    BY <1>2, EventFields, AsCIntExact, CIntAssumption DEF ErrorFits, HoldsError, Offered
  <2> QED
    BY <1>2, <2>1, DoubleFits, CIntAssumption DEF Offered
<1> QED
  BY <1>1, <1>2

-----------------------------------------------------------------------------
(* What a step of one listener leaves to the others.                       *)

Alone(l) ==
  \A m \in Listeners \ {l} :
    /\ lpc'[m] = lpc[m]
    /\ id'[m] = id[m]
    /\ recall'[m] = recall[m]
    /\ paramBuf'[m] = paramBuf[m]
    /\ errorBuf'[m] = errorBuf[m]
    /\ got'[m] = got[m]
    /\ verdict'[m] = verdict[m]

\* A listener that goes on with what it carries, or without anything, leaves
\* ids, events and entries as they are.
LEMMA Inside ==
  ASSUME IInv, NEW l \in Listeners, Alone(l),
         UNCHANGED <<emitVars, id, eventMap>>, Carrying(l)' = Carrying(l)
  PROVE  EventMapMatches' /\ EventsInv' /\ AwaitInv'
<1>1. \A m \in Listeners : Carrying(m)' = Carrying(m)
  BY DEF Alone, Carrying, HasEvent
<1>2. EventMapMatches'
  BY <1>1 DEF IInv, EventMapMatches
<1>3. EventsInv'
  BY DEF IInv, EventsInv, emitVars
<1>4. AwaitInv'
  BY DEF IInv, AwaitInv, emitVars
<1> QED
  BY <1>2, <1>3, <1>4

\* A listener that is on its way to the plugin, or back, has taken an id.
LEMMA HasId ==
  ASSUME IInv, NEW l \in Listeners, lpc[l] \notin {"start", "next", "done"}
  PROVE  id[l] \in Ids
<1>1. id[l] \in 0 .. MaxEvents
  BY DEF IInv, TypeOK
<1>2. id[l] # 0
  BY DEF IInv, IdsInv
<1> QED
  BY <1>1, <1>2, Bounds DEF Ids

LEMMA CarrierHasId ==
  ASSUME IInv, NEW l \in Listeners, Carrying(l)
  PROVE  id[l] \in Ids
BY HasId DEF Carrying, HasEvent

\* An event that is carried has its entry, one thread waits for it and no
\* other listener carries it.
LEMMA CarriedIsAwaited ==
  ASSUME IInv, NEW l \in Listeners, Carrying(l)
  PROVE  /\ id[l] \in Ids
         /\ eventMap[id[l]] \in Entries
         /\ eventMap[id[l]] # Nothing
         /\ eventMap[id[l]].chan \in 1 .. MaxEmits /\ eventMap[id[l]].chan <= emits
         /\ \A m \in Listeners \ {l} : Carrying(m) => eventMap[id[m]].chan # eventMap[id[l]].chan
         /\ \A u \in Threads : event[u] # Nothing /\ event[u].of = eventMap[id[l]].chan => epc[u] = "await"
<1>1. id[l] \in Ids
  BY CarrierHasId
<1>2. eventMap[id[l]] # Nothing /\ eventMap[id[l]] \in Entries
  BY <1>1 DEF IInv, TypeOK, EventMapMatches
<1>3. PICK t \in Threads : epc[t] = "await" /\ eventMap[id[l]].chan = event[t].of
  BY <1>1, <1>2 DEF IInv, AwaitInv
<1>4. /\ eventMap[id[l]].chan \in 1 .. MaxEmits /\ event[t].of <= emits
      /\ \A u \in Threads \ {t} : event[u] # Nothing => event[u].of # event[t].of
  BY <1>2, <1>3 DEF IInv, EventsInv, Entries
<1>5. ASSUME NEW m \in Listeners \ {l}, Carrying(m)
      PROVE  eventMap[id[m]].chan # eventMap[id[l]].chan
  <2>1. id[m] \in Ids
    BY <1>5, CarrierHasId
  <2>2. id[m] # id[l]
    BY <1>1 DEF IInv, IdsInv, Ids
  <2>3. eventMap[id[m]] # Nothing
    BY <1>5, <2>1 DEF IInv, EventMapMatches
  <2> QED
    BY <1>1, <1>2, <2>1, <2>2, <2>3 DEF IInv, AwaitInv
<1> QED
  BY <1>1, <1>2, <1>3, <1>4, <1>5

\* A panic for a reason HaltsOnlyUnquiet allows.
LEMMA PanicStep ==
  ASSUME IInv, Panics,
         \/ ~live /\ ~quietFree
         \/ \E l \in Listeners : lpc[l] = "call" /\ ~handler
  PROVE  IInv'
<1> USE DEF Panics, emitVars, bufferVars, callVars, handlerVars, appVars
<1>1. TypeOK' /\ SizesInv'
  BY DEF IInv, TypeOK, SizesInv
<1>2. IdsInv' /\ RecallInv' /\ OfferInv' /\ NoOverrun'
  BY DEF IInv, IdsInv, RecallInv, OfferInv, NoOverrun, Carrying, HasEvent
<1>3. EventMapMatches' /\ EventsInv' /\ AwaitInv'
  BY DEF IInv, EventMapMatches, EventsInv, AwaitInv, Carrying, HasEvent
<1>4. CarriedInv' /\ RunsInv' /\ ResponseTellsVerdict'
  BY DEF IInv, CarriedInv, RunsInv, ResponseTellsVerdict, Carrying, HasEvent, ParamFits, ErrorFits
<1>5. QuietInv' /\ HaltsOnlyUnquiet'
  BY DEF IInv, QuietInv, Quiet, HaltsOnlyUnquiet
<1> QED
  BY <1>1, <1>2, <1>3, <1>4, <1>5 DEF IInv

-----------------------------------------------------------------------------
(* One lemma per action.                                                   *)

\* A listener starts, or ends at once.
LEMMA StartStep ==
  ASSUME IInv, NEW l \in Listeners, Start(l)
  PROVE  IInv'
<1> USE DEF Start, Listening, emitVars, bufferVars, callVars, handlerVars, appVars
<1>1. TypeOK'
  BY DEF IInv, TypeOK
<1>2. SizesInv' /\ IdsInv' /\ RecallInv'
  BY DEF IInv, TypeOK, SizesInv, IdsInv, RecallInv, Carrying, HasEvent
<1>3. OfferInv' /\ NoOverrun'
  BY DEF IInv, TypeOK, OfferInv, NoOverrun, HasEvent
<1>4. EventMapMatches' /\ EventsInv' /\ AwaitInv'
  BY Inside DEF IInv, TypeOK, Alone, Carrying, HasEvent, RecallInv
<1>5. CarriedInv'
  BY DEF IInv, TypeOK, CarriedInv, Carrying, HasEvent, ParamFits, ErrorFits, RecallInv
<1>6. RunsInv' /\ ResponseTellsVerdict'
  BY DEF IInv, TypeOK, RunsInv, ResponseTellsVerdict, Carrying, HasEvent, RecallInv
<1>7. QuietInv' /\ HaltsOnlyUnquiet'
  BY DEF IInv, TypeOK, QuietInv, Quiet, HaltsOnlyUnquiet
<1> QED
  BY <1>1, <1>2, <1>3, <1>4, <1>5, <1>6, <1>7 DEF IInv

\* A listener takes an id no listener holds.
LEMMA NextEventStep ==
  ASSUME IInv, NEW l \in Listeners, NextEvent(l)
  PROVE  IInv'
<1> USE DEF NextEvent, Listening, emitVars, bufferVars, callVars, handlerVars, appVars
<1>0. eventId' = eventId + 1 /\ eventId + 1 \in 1 .. MaxEvents
  BY NextIdCounts, EventAssumption DEF IInv, TypeOK
<1>1. TypeOK'
  BY <1>0, BufferTypes DEF IInv, TypeOK, SizesInv
<1>2. SizesInv' /\ IdsInv' /\ RecallInv'
  BY <1>0 DEF IInv, TypeOK, SizesInv, IdsInv, RecallInv, Carrying, HasEvent
<1>3. OfferInv' /\ NoOverrun'
  BY BufferTypes DEF IInv, TypeOK, OfferInv, NoOverrun, HasEvent, SizesInv
<1>4. EventMapMatches' /\ EventsInv' /\ AwaitInv'
  <2>1. \A m \in Listeners : Carrying(m)' = Carrying(m) /\ (Carrying(m) => id'[m] = id[m])
    BY DEF IInv, TypeOK, Carrying, HasEvent, RecallInv
  <2>2. EventMapMatches'
    BY <2>1, <1>0 DEF IInv, TypeOK, EventMapMatches, IdsInv
  <2>3. EventsInv' /\ AwaitInv'
    BY DEF IInv, EventsInv, AwaitInv
  <2> QED
    BY <2>2, <2>3
<1>5. CarriedInv'
  BY DEF IInv, TypeOK, CarriedInv, Carrying, HasEvent, ParamFits, ErrorFits, RecallInv
<1>6. RunsInv' /\ ResponseTellsVerdict'
  BY DEF IInv, TypeOK, RunsInv, ResponseTellsVerdict, Carrying, HasEvent, RecallInv
<1>7. QuietInv' /\ HaltsOnlyUnquiet'
  BY DEF IInv, TypeOK, QuietInv, Quiet, HaltsOnlyUnquiet
<1> QED
  BY <1>1, <1>2, <1>3, <1>4, <1>5, <1>6, <1>7 DEF IInv

\* An error buffer of the shared size.
LEMMA GetSmallStep ==
  ASSUME IInv, NEW l \in Listeners, GetSmallBuffer(l)
  PROVE  IInv'
<1> USE DEF GetSmallBuffer, Listening, emitVars, bufferVars, callVars, handlerVars, appVars
<1>1. TypeOK'
  BY BufferTypes DEF IInv, TypeOK, SizesInv
<1>2. SizesInv' /\ IdsInv' /\ RecallInv'
  BY DEF IInv, TypeOK, SizesInv, IdsInv, RecallInv, Carrying, HasEvent
<1>3. OfferInv' /\ NoOverrun'
  BY BufferTypes DEF IInv, TypeOK, OfferInv, NoOverrun, HasEvent, SizesInv
<1>4. EventMapMatches' /\ EventsInv' /\ AwaitInv'
  BY Inside DEF IInv, TypeOK, Alone, Carrying, HasEvent, RecallInv
<1>5. CarriedInv'
  BY DEF IInv, TypeOK, CarriedInv, Carrying, HasEvent, ParamFits, ErrorFits, RecallInv
<1>6. RunsInv' /\ ResponseTellsVerdict'
  BY DEF IInv, TypeOK, RunsInv, ResponseTellsVerdict, Carrying, HasEvent, RecallInv
<1>7. QuietInv' /\ HaltsOnlyUnquiet'
  BY DEF IInv, TypeOK, QuietInv, Quiet, HaltsOnlyUnquiet
<1> QED
  BY <1>1, <1>2, <1>3, <1>4, <1>5, <1>6, <1>7 DEF IInv

\* The plugin finds the instance.
LEMMA EnterStep ==
  ASSUME IInv, NEW l \in Listeners, Enter(l)
  PROVE  IInv'
<1> USE DEF Enter, Listening, emitVars, bufferVars, callVars, handlerVars, appVars
<1>1. TypeOK'
  BY DEF IInv, TypeOK
<1>2. SizesInv' /\ IdsInv' /\ RecallInv'
  BY DEF IInv, TypeOK, SizesInv, IdsInv, RecallInv, Carrying, HasEvent
<1>3. OfferInv' /\ NoOverrun'
  BY DEF IInv, TypeOK, OfferInv, NoOverrun, HasEvent
<1>4. EventMapMatches' /\ EventsInv' /\ AwaitInv'
  BY Inside DEF IInv, TypeOK, Alone, Carrying, HasEvent, RecallInv
<1>5. CarriedInv'
  BY DEF IInv, TypeOK, CarriedInv, Carrying, HasEvent, ParamFits, ErrorFits, RecallInv
<1>6. RunsInv' /\ ResponseTellsVerdict'
  BY DEF IInv, TypeOK, RunsInv, ResponseTellsVerdict, Carrying, HasEvent, RecallInv
<1>7. QuietInv' /\ HaltsOnlyUnquiet'
  BY DEF IInv, TypeOK, QuietInv, Quiet, HaltsOnlyUnquiet
<1> QED
  BY <1>1, <1>2, <1>3, <1>4, <1>5, <1>6, <1>7 DEF IInv

\* The closed channel wakes a listener, which ends.
LEMMA ChannelClosedStep ==
  ASSUME IInv, NEW l \in Listeners, ChannelClosed(l)
  PROVE  IInv'
<1> USE DEF ChannelClosed, Listening, emitVars, bufferVars, callVars, handlerVars, appVars
<1>1. TypeOK'
  BY DEF IInv, TypeOK
<1>2. SizesInv' /\ IdsInv' /\ RecallInv'
  BY DEF IInv, TypeOK, SizesInv, IdsInv, RecallInv, Carrying, HasEvent
<1>3. OfferInv' /\ NoOverrun'
  BY DEF IInv, TypeOK, OfferInv, NoOverrun, HasEvent
<1>4. EventMapMatches' /\ EventsInv' /\ AwaitInv'
  BY Inside DEF IInv, TypeOK, Alone, Carrying, HasEvent, RecallInv
<1>5. CarriedInv'
  BY DEF IInv, TypeOK, CarriedInv, Carrying, HasEvent, ParamFits, ErrorFits, RecallInv
<1>6. RunsInv' /\ ResponseTellsVerdict'
  BY DEF IInv, TypeOK, RunsInv, ResponseTellsVerdict, Carrying, HasEvent, RecallInv
<1>7. QuietInv' /\ HaltsOnlyUnquiet'
  BY DEF IInv, TypeOK, QuietInv, Quiet, HaltsOnlyUnquiet
<1> QED
  BY <1>1, <1>2, <1>3, <1>4, <1>5, <1>6, <1>7 DEF IInv

\* The shared size becomes twice that of the parameter buffer.
LEMMA GlowParamStep ==
  ASSUME IInv, NEW l \in Listeners, GlowParam(l)
  PROVE  IInv'
<1> USE DEF GlowParam, Glow, Listening, emitVars, bufferVars, callVars, handlerVars, appVars
<1>0. 2 * paramBuf[l].cap \in 1 .. CIntMax
  <2>1. eventMap[id[l]].parked \in Events /\ ~ParamFits(l, eventMap[id[l]].parked)
    BY DEF IInv, CarriedInv, Carrying, HasEvent
  <2> QED
    BY <2>1, TooShort DEF IInv, OfferInv
<1>1. TypeOK'
  BY <1>0, CIntAssumption DEF IInv, TypeOK
<1>2. SizesInv' /\ IdsInv' /\ RecallInv'
  BY <1>0 DEF IInv, TypeOK, SizesInv, IdsInv, RecallInv, Carrying, HasEvent
<1>3. OfferInv' /\ NoOverrun'
  BY DEF IInv, TypeOK, OfferInv, NoOverrun, HasEvent
<1>4. EventMapMatches' /\ EventsInv' /\ AwaitInv'
  BY Inside DEF IInv, TypeOK, Alone, Carrying, HasEvent, RecallInv
<1>5. CarriedInv'
  BY DEF IInv, TypeOK, CarriedInv, Carrying, HasEvent, ParamFits, ErrorFits, RecallInv
<1>6. RunsInv' /\ ResponseTellsVerdict'
  BY DEF IInv, TypeOK, RunsInv, ResponseTellsVerdict, Carrying, HasEvent, RecallInv
<1>7. QuietInv' /\ HaltsOnlyUnquiet'
  BY DEF IInv, TypeOK, QuietInv, Quiet, HaltsOnlyUnquiet
<1> QED
  BY <1>1, <1>2, <1>3, <1>4, <1>5, <1>6, <1>7 DEF IInv

\* The shared size becomes twice that of the error buffer.
LEMMA GlowErrorStep ==
  ASSUME IInv, NEW l \in Listeners, GlowError(l)
  PROVE  IInv'
<1> USE DEF GlowError, Glow, Listening, emitVars, bufferVars, callVars, handlerVars, appVars
<1>0. 2 * errorBuf[l].cap \in 1 .. CIntMax
  <2>1. eventMap[id[l]].parked \in Events /\ ~ErrorFits(l, eventMap[id[l]].parked)
    BY DEF IInv, CarriedInv, Carrying, HasEvent
  <2> QED
    BY <2>1, TooShort DEF IInv, OfferInv
<1>1. TypeOK'
  BY <1>0, CIntAssumption DEF IInv, TypeOK
<1>2. SizesInv' /\ IdsInv' /\ RecallInv'
  BY <1>0 DEF IInv, TypeOK, SizesInv, IdsInv, RecallInv, Carrying, HasEvent
<1>3. OfferInv' /\ NoOverrun'
  BY DEF IInv, TypeOK, OfferInv, NoOverrun, HasEvent
<1>4. EventMapMatches' /\ EventsInv' /\ AwaitInv'
  BY Inside DEF IInv, TypeOK, Alone, Carrying, HasEvent, RecallInv
<1>5. CarriedInv'
  BY DEF IInv, TypeOK, CarriedInv, Carrying, HasEvent, ParamFits, ErrorFits, RecallInv
<1>6. RunsInv' /\ ResponseTellsVerdict'
  BY DEF IInv, TypeOK, RunsInv, ResponseTellsVerdict, Carrying, HasEvent, RecallInv
<1>7. QuietInv' /\ HaltsOnlyUnquiet'
  BY DEF IInv, TypeOK, QuietInv, Quiet, HaltsOnlyUnquiet
<1> QED
  BY <1>1, <1>2, <1>3, <1>4, <1>5, <1>6, <1>7 DEF IInv

\* There is no handler.
LEMMA NoHandlerStep ==
  ASSUME IInv, NEW l \in Listeners, NoHandler(l)
  PROVE  IInv'
<1> USE DEF NoHandler, Listening, emitVars, bufferVars, callVars, handlerVars, appVars
<1>1. TypeOK'
  BY DEF IInv, TypeOK
<1>2. SizesInv' /\ IdsInv' /\ RecallInv'
  BY DEF IInv, TypeOK, SizesInv, IdsInv, RecallInv, Carrying, HasEvent
<1>3. OfferInv' /\ NoOverrun'
  BY DEF IInv, TypeOK, OfferInv, NoOverrun, HasEvent
<1>4. EventMapMatches' /\ EventsInv' /\ AwaitInv'
  BY Inside DEF IInv, TypeOK, Alone, Carrying, HasEvent, RecallInv
<1>5. CarriedInv'
  BY DEF IInv, TypeOK, CarriedInv, Carrying, HasEvent, ParamFits, ErrorFits, RecallInv
<1>6. RunsInv' /\ ResponseTellsVerdict'
  BY DEF IInv, TypeOK, RunsInv, ResponseTellsVerdict, Carrying, HasEvent, RecallInv
<1>7. QuietInv' /\ HaltsOnlyUnquiet'
  BY DEF IInv, TypeOK, QuietInv, Quiet, HaltsOnlyUnquiet
<1> QED
  BY <1>1, <1>2, <1>3, <1>4, <1>5, <1>6, <1>7 DEF IInv

\* There is a handler.
LEMMA HandlerSeenStep ==
  ASSUME IInv, NEW l \in Listeners, HandlerSeen(l)
  PROVE  IInv'
<1> USE DEF HandlerSeen, Listening, emitVars, bufferVars, callVars, handlerVars, appVars
<1>1. TypeOK'
  BY DEF IInv, TypeOK
<1>2. SizesInv' /\ IdsInv' /\ RecallInv'
  BY DEF IInv, TypeOK, SizesInv, IdsInv, RecallInv, Carrying, HasEvent
<1>3. OfferInv' /\ NoOverrun'
  BY DEF IInv, TypeOK, OfferInv, NoOverrun, HasEvent
<1>4. EventMapMatches' /\ EventsInv' /\ AwaitInv'
  BY Inside DEF IInv, TypeOK, Alone, Carrying, HasEvent, RecallInv
<1>5. CarriedInv'
  BY DEF IInv, TypeOK, CarriedInv, Carrying, HasEvent, ParamFits, ErrorFits, RecallInv
<1>6. RunsInv' /\ ResponseTellsVerdict'
  BY DEF IInv, TypeOK, RunsInv, ResponseTellsVerdict, Carrying, HasEvent, RecallInv
<1>7. QuietInv' /\ HaltsOnlyUnquiet'
  BY DEF IInv, TypeOK, QuietInv, Quiet, HaltsOnlyUnquiet
<1> QED
  BY <1>1, <1>2, <1>3, <1>4, <1>5, <1>6, <1>7 DEF IInv

\* The handler returns its verdict on the event.
LEMMA HandlerReturnsStep ==
  ASSUME IInv, NEW l \in Listeners, HandlerReturns(l)
  PROVE  IInv'
<1> USE DEF HandlerReturns, Listening, emitVars, bufferVars, callVars, handlerVars, appVars
<1>0. /\ got[l].of \in 1 .. MaxEmits /\ got[l].of <= emits
      /\ got[l].of = eventMap[id[l]].chan
      /\ verdict[l] = Nothing /\ runs[got[l].of] = 0
  BY CarriedIsAwaited, Bounds DEF IInv, TypeOK, CarriedInv, RunsInv, Carrying, HasEvent
<1>a. PICK v \in Verdicts :
        /\ verdict' = [verdict EXCEPT ![l] = v]
        /\ verdicts' = [verdicts EXCEPT ![got[l].of] = v]
  OBVIOUS
<1>1. TypeOK'
  <2>1. runs' \in [1 .. MaxEmits -> 0 .. 1]
    BY <1>0 DEF IInv, TypeOK
  <2>2. verdict' \in [Listeners -> Verdicts \cup {Nothing}]
        /\ verdicts' \in [1 .. MaxEmits -> Verdicts \cup {Nothing}]
    BY <1>0, <1>a DEF IInv, TypeOK
  <2> QED
    BY <2>1, <2>2 DEF IInv, TypeOK
<1>2. SizesInv' /\ IdsInv' /\ RecallInv'
  BY DEF IInv, TypeOK, SizesInv, IdsInv, RecallInv, Carrying, HasEvent
<1>3. OfferInv' /\ NoOverrun'
  BY DEF IInv, TypeOK, OfferInv, NoOverrun, HasEvent
<1>4. EventMapMatches' /\ EventsInv' /\ AwaitInv'
  BY Inside DEF IInv, TypeOK, Alone, Carrying, HasEvent, RecallInv
<1>5. CarriedInv'
  BY DEF IInv, TypeOK, CarriedInv, Carrying, HasEvent, ParamFits, ErrorFits, RecallInv
<1>6. RunsInv' /\ ResponseTellsVerdict'
  <2>1. v # Nothing
    BY EventNothingAssumption
  <2>2. \A k \in 1 .. MaxEmits : k # got[l].of => runs'[k] = runs[k] /\ verdicts'[k] = verdicts[k]
    BY <1>0, <1>a DEF IInv, TypeOK
  <2>3. runs'[got[l].of] = 1 /\ verdicts'[got[l].of] = v
    BY <1>0, <1>a DEF IInv, TypeOK
  <2>4. \A u \in Threads : event[u] # Nothing /\ epc[u] # "await" =>
          event[u].of # got[l].of /\ event[u].of \in 1 .. MaxEmits
    BY <1>0, CarriedIsAwaited, EventFields DEF IInv, TypeOK, Carrying, HasEvent
  <2>5. \A m \in Listeners \ {l} : Carrying(m) =>
          eventMap[id[m]].chan # got[l].of /\ eventMap[id[m]].chan \in 1 .. MaxEmits
    BY <1>0, CarriedIsAwaited, Bounds DEF IInv, TypeOK, Carrying, HasEvent
  <2>6. \A m \in Listeners : Carrying(m)' = Carrying(m)
    BY DEF Carrying, HasEvent
  <2>7. ResponseTellsVerdict'
    BY <2>2, <2>4 DEF IInv, ResponseTellsVerdict
  <2>8. \A k \in 1 .. MaxEmits : k > emits => runs'[k] = 0
    BY <1>0, <2>2, Bounds DEF IInv, TypeOK, RunsInv
  <2>9. \A t \in Threads : epc[t] = "send" => runs'[event[t].of] = 0
    BY <2>2, <2>4 DEF IInv, RunsInv, EventsInv
  <2>10. \A m \in Listeners : verdict'[m] # Nothing => lpc'[m] = "result"
    BY <1>a DEF IInv, TypeOK, RunsInv
  <2>11. \A m \in Listeners : Carrying(m) =>
       LET k == eventMap[id[m]].chan
       IN  IF verdict'[m] = Nothing THEN runs'[k] = 0 ELSE runs'[k] = 1 /\ verdicts'[k] = verdict'[m]
    BY <1>0, <1>a, <2>1, <2>2, <2>3, <2>5 DEF IInv, TypeOK, RunsInv
  <2> QED
    BY <2>6, <2>7, <2>8, <2>9, <2>10, <2>11 DEF RunsInv
<1>7. QuietInv' /\ HaltsOnlyUnquiet'
  BY DEF IInv, TypeOK, QuietInv, Quiet, HaltsOnlyUnquiet
<1> QED
  BY <1>1, <1>2, <1>3, <1>4, <1>5, <1>6, <1>7 DEF IInv

\* A larger parameter buffer, of one of the two sizes the listener may read.
LEMMA MakeParamStep ==
  ASSUME IInv, NEW l \in Listeners, MakeParam(l)
  PROVE  IInv'
<1> USE DEF Panics, Listening, emitVars, bufferVars, callVars, handlerVars, appVars
<1>0. PICK n \in 1 .. CIntMax :
        /\ Made(l, "makeParam")
        /\ paramBuf' = [paramBuf EXCEPT ![l] = BufferOf(n)]
        /\ UNCHANGED errorBuf
  <2>1. eventMap[id[l]].parked \in Events /\ ~ParamFits(l, eventMap[id[l]].parked)
    BY DEF MakeParam, Made, IInv, CarriedInv, Carrying, HasEvent
  <2>2. bigSize \in 1 .. CIntMax /\ 2 * paramBuf[l].cap \in 1 .. CIntMax
    BY <2>1, TooShort DEF MakeParam, Made, IInv, OfferInv, SizesInv
  <2> QED
    BY <2>2, CIntAssumption DEF MakeParam
<1> USE DEF Made
<1>1. TypeOK'
  BY <1>0, BufferTypes DEF IInv, TypeOK
<1>2. SizesInv' /\ IdsInv' /\ RecallInv'
  BY <1>0 DEF IInv, TypeOK, SizesInv, IdsInv, RecallInv, Carrying, HasEvent
<1>3. OfferInv' /\ NoOverrun'
  BY <1>0, BufferTypes DEF IInv, TypeOK, OfferInv, NoOverrun, HasEvent
<1>4. EventMapMatches' /\ EventsInv' /\ AwaitInv'
  BY <1>0, Inside DEF IInv, TypeOK, Alone, Carrying, HasEvent, RecallInv
<1>5. CarriedInv'
  BY <1>0 DEF IInv, TypeOK, CarriedInv, Carrying, HasEvent, ParamFits, ErrorFits, RecallInv
<1>6. RunsInv' /\ ResponseTellsVerdict'
  BY <1>0 DEF IInv, TypeOK, RunsInv, ResponseTellsVerdict, Carrying, HasEvent, RecallInv
<1>7. QuietInv' /\ HaltsOnlyUnquiet'
  BY <1>0 DEF IInv, TypeOK, QuietInv, Quiet, HaltsOnlyUnquiet
<1> QED
  BY <1>1, <1>2, <1>3, <1>4, <1>5, <1>6, <1>7 DEF IInv

\* A larger error buffer, of one of the two sizes the listener may read.
LEMMA MakeErrorStep ==
  ASSUME IInv, NEW l \in Listeners, MakeError(l)
  PROVE  IInv'
<1> USE DEF Panics, Listening, emitVars, bufferVars, callVars, handlerVars, appVars
<1>0. PICK n \in 1 .. CIntMax :
        /\ Made(l, "makeError")
        /\ errorBuf' = [errorBuf EXCEPT ![l] = BufferOf(n)]
        /\ UNCHANGED paramBuf
  <2>1. eventMap[id[l]].parked \in Events /\ ~ErrorFits(l, eventMap[id[l]].parked)
    BY DEF MakeError, Made, IInv, CarriedInv, Carrying, HasEvent
  <2>2. bigSize \in 1 .. CIntMax /\ 2 * errorBuf[l].cap \in 1 .. CIntMax
    BY <2>1, TooShort DEF MakeError, Made, IInv, OfferInv, SizesInv
  <2> QED
    BY <2>2, CIntAssumption DEF MakeError
<1> USE DEF Made
<1>1. TypeOK'
  BY <1>0, BufferTypes DEF IInv, TypeOK
<1>2. SizesInv' /\ IdsInv' /\ RecallInv'
  BY <1>0 DEF IInv, TypeOK, SizesInv, IdsInv, RecallInv, Carrying, HasEvent
<1>3. OfferInv' /\ NoOverrun'
  BY <1>0, BufferTypes DEF IInv, TypeOK, OfferInv, NoOverrun, HasEvent
<1>4. EventMapMatches' /\ EventsInv' /\ AwaitInv'
  BY <1>0, Inside DEF IInv, TypeOK, Alone, Carrying, HasEvent, RecallInv
<1>5. CarriedInv'
  BY <1>0 DEF IInv, TypeOK, CarriedInv, Carrying, HasEvent, ParamFits, ErrorFits, RecallInv
<1>6. RunsInv' /\ ResponseTellsVerdict'
  BY <1>0 DEF IInv, TypeOK, RunsInv, ResponseTellsVerdict, Carrying, HasEvent, RecallInv
<1>7. QuietInv' /\ HaltsOnlyUnquiet'
  BY <1>0 DEF IInv, TypeOK, QuietInv, Quiet, HaltsOnlyUnquiet
<1> QED
  BY <1>1, <1>2, <1>3, <1>4, <1>5, <1>6, <1>7 DEF IInv

\* The listener calls the handler, or dies of one taken back.
LEMMA CallHandlerStep ==
  ASSUME IInv, NEW l \in Listeners, CallHandler(l)
  PROVE  IInv'
<1>a. CASE lpc[l] = "call" /\ ~handler /\ Panics
  BY <1>a, PanicStep
<1>b. CASE /\ Listening(l, "call", "handling")
           /\ UNCHANGED <<emitVars, bufferVars, callVars, handlerVars, appVars>>
  <2> USE <1>b DEF Listening, emitVars, bufferVars, callVars, handlerVars, appVars
  <2>1. TypeOK'
    BY DEF IInv, TypeOK
  <2>2. SizesInv' /\ IdsInv' /\ RecallInv'
    BY DEF IInv, TypeOK, SizesInv, IdsInv, RecallInv, Carrying, HasEvent
  <2>3. OfferInv' /\ NoOverrun'
    BY DEF IInv, TypeOK, OfferInv, NoOverrun, HasEvent
  <2>4. EventMapMatches' /\ EventsInv' /\ AwaitInv'
    BY Inside DEF IInv, TypeOK, Alone, Carrying, HasEvent, RecallInv
  <2>5. CarriedInv'
    BY DEF IInv, TypeOK, CarriedInv, Carrying, HasEvent, ParamFits, ErrorFits, RecallInv
  <2>6. RunsInv' /\ ResponseTellsVerdict'
    BY DEF IInv, TypeOK, RunsInv, ResponseTellsVerdict, Carrying, HasEvent, RecallInv
  <2>7. QuietInv' /\ HaltsOnlyUnquiet'
    BY DEF IInv, TypeOK, QuietInv, Quiet, HaltsOnlyUnquiet
  <2> QED
    BY <2>1, <2>2, <2>3, <2>4, <2>5, <2>6, <2>7 DEF IInv
<1> QED
  BY <1>a, <1>b DEF CallHandler

\* The instance is gone from under a listener, or the channel from under a
\* sender: FreePlugin did not wait for them.
LEMMA GoneStep ==
  ASSUME IInv, (\E l \in Listeners : InstanceGone(l)) \/ (\E t \in Threads : SendOnClosed(t))
  PROVE  IInv'
<1>1. ~live /\ ~Quiet /\ Panics
  BY DEF InstanceGone, SendOnClosed, Quiet
<1>2. ~quietFree
  BY <1>1 DEF IInv, TypeOK, QuietInv
<1> QED
  BY <1>1, <1>2, PanicStep


\* A thread emits an event of its own.
LEMMA EmitStep ==
  ASSUME IInv, NEW t \in Threads, Emit(t)
  PROVE  IInv'
<1> USE DEF Emit, Emitting, emitVars, bufferVars, callVars, handlerVars, appVars
<1>0. PICK e \in Events :
        /\ e.of = emits + 1 /\ emits + 1 \in 1 .. MaxEmits /\ e # Nothing
        /\ event' = [event EXCEPT ![t] = e]
  <2>1. emits + 1 \in 1 .. MaxEmits
    BY Bounds DEF IInv, TypeOK
  <2> QED
    BY <2>1, EventNumbered, EventFields
<1>1. TypeOK'
  BY <1>0, Bounds DEF IInv, TypeOK
<1>2. SizesInv' /\ IdsInv' /\ RecallInv'
  BY DEF IInv, SizesInv, IdsInv, RecallInv, Carrying, HasEvent
<1>3. OfferInv' /\ NoOverrun'
  BY DEF IInv, OfferInv, NoOverrun, HasEvent
<1>4. EventMapMatches' /\ EventsInv' /\ AwaitInv'
  <2>1. \A m \in Listeners : Carrying(m)' = Carrying(m)
    BY DEF Carrying, HasEvent
  <2>2. EventMapMatches'
    BY <2>1 DEF IInv, EventMapMatches
  <2>3. EventsInv'
    BY <1>0, Bounds, EventFields DEF IInv, TypeOK, EventsInv
  <2>4. AwaitInv'
    BY <1>0 DEF IInv, TypeOK, AwaitInv, EventsInv
  <2> QED
    BY <2>2, <2>3, <2>4
<1>5. CarriedInv'
  BY DEF IInv, CarriedInv, Carrying, HasEvent, ParamFits, ErrorFits
<1>6. RunsInv' /\ ResponseTellsVerdict'
  BY <1>0, Bounds, EventFields DEF IInv, TypeOK, RunsInv, ResponseTellsVerdict, EventsInv, Carrying, HasEvent, Refusal
<1>7. QuietInv' /\ HaltsOnlyUnquiet'
  BY <1>0 DEF IInv, TypeOK, QuietInv, Quiet, HaltsOnlyUnquiet
<1> QED
  BY <1>1, <1>2, <1>3, <1>4, <1>5, <1>6, <1>7 DEF IInv

\* The instance is gone: EventEmit says so.
LEMMA EmitNotFoundStep ==
  ASSUME IInv, NEW t \in Threads, EmitNotFound(t)
  PROVE  IInv'
<1> USE DEF EmitNotFound, Emitting, emitVars, bufferVars, callVars, handlerVars, appVars
<1>0. /\ emits + 1 \in 1 .. MaxEmits
      /\ [result |-> "nil", error |-> "refused"] \in Replies
  BY Bounds DEF IInv, TypeOK, Replies
<1>1. TypeOK'
  BY <1>0, Bounds DEF IInv, TypeOK
<1>2. SizesInv' /\ IdsInv' /\ RecallInv'
  BY DEF IInv, SizesInv, IdsInv, RecallInv, Carrying, HasEvent
<1>3. OfferInv' /\ NoOverrun'
  BY DEF IInv, OfferInv, NoOverrun, HasEvent
<1>4. EventMapMatches' /\ EventsInv' /\ AwaitInv'
  <2>1. \A m \in Listeners : Carrying(m)' = Carrying(m)
    BY DEF Carrying, HasEvent
  <2>2. EventMapMatches'
    BY <2>1 DEF IInv, EventMapMatches
  <2>3. EventsInv'
    BY <1>0, Bounds, EventFields DEF IInv, TypeOK, EventsInv
  <2>4. AwaitInv'
    BY <1>0 DEF IInv, TypeOK, AwaitInv, EventsInv
  <2> QED
    BY <2>2, <2>3, <2>4
<1>5. CarriedInv'
  BY DEF IInv, CarriedInv, Carrying, HasEvent, ParamFits, ErrorFits
<1>6. RunsInv' /\ ResponseTellsVerdict'
  BY <1>0, Bounds, EventFields DEF IInv, TypeOK, RunsInv, ResponseTellsVerdict, EventsInv, Carrying, HasEvent, Refusal
<1>7. QuietInv' /\ HaltsOnlyUnquiet'
  BY <1>0 DEF IInv, TypeOK, QuietInv, Quiet, HaltsOnlyUnquiet
<1> QED
  BY <1>1, <1>2, <1>3, <1>4, <1>5, <1>6, <1>7 DEF IInv

\* EventEmit returns.
LEMMA LeaveStep ==
  ASSUME IInv, NEW t \in Threads, Leave(t)
  PROVE  IInv'
<1> USE DEF Leave, Emitting, emitVars, bufferVars, callVars, handlerVars, appVars
<1>0. NoReply \in Replies
  BY DEF NoReply, Replies
<1>1. TypeOK'
  BY <1>0, Bounds DEF IInv, TypeOK
<1>2. SizesInv' /\ IdsInv' /\ RecallInv'
  BY DEF IInv, SizesInv, IdsInv, RecallInv, Carrying, HasEvent
<1>3. OfferInv' /\ NoOverrun'
  BY DEF IInv, OfferInv, NoOverrun, HasEvent
<1>4. EventMapMatches' /\ EventsInv' /\ AwaitInv'
  <2>1. \A m \in Listeners : Carrying(m)' = Carrying(m)
    BY DEF Carrying, HasEvent
  <2>2. EventMapMatches'
    BY <2>1 DEF IInv, EventMapMatches
  <2>3. EventsInv'
    BY <1>0, Bounds, EventFields DEF IInv, TypeOK, EventsInv
  <2>4. AwaitInv'
    BY <1>0 DEF IInv, TypeOK, AwaitInv, EventsInv
  <2> QED
    BY <2>2, <2>3, <2>4
<1>5. CarriedInv'
  BY DEF IInv, CarriedInv, Carrying, HasEvent, ParamFits, ErrorFits
<1>6. RunsInv' /\ ResponseTellsVerdict'
  BY <1>0, Bounds, EventFields DEF IInv, TypeOK, RunsInv, ResponseTellsVerdict, EventsInv, Carrying, HasEvent, Refusal
<1>7. QuietInv' /\ HaltsOnlyUnquiet'
  BY <1>0 DEF IInv, TypeOK, QuietInv, Quiet, HaltsOnlyUnquiet
<1> QED
  BY <1>1, <1>2, <1>3, <1>4, <1>5, <1>6, <1>7 DEF IInv

\* What the plugin does with an event: it is copied out within the buffers,
\* or the buffers stay as they are and one of them is too short.
LEMMA Brought ==
  ASSUME TypeOK, NEW l \in Listeners, NEW from, NEW e \in Events, Bring(l, from, e),
         Offered(paramBuf[l]), Offered(errorBuf[l])
  PROVE  /\ lpc[l] = from /\ ~halted /\ UNCHANGED halted
         /\ \E to \in {"glowParam", "glowError", "decide"} : lpc' = [lpc EXCEPT ![l] = to]
         /\ lpc'[l] \in {"glowParam", "glowError", "decide"}
         /\ lpc'[l] = "decide" => /\ got'[l] = e
                                  /\ paramBuf'[l].len = e.len /\ errorBuf'[l].len = e.err
         /\ lpc'[l] # "decide" => UNCHANGED <<got, paramBuf, errorBuf>>
         /\ lpc'[l] = "glowParam" => ~ParamFits(l, e)
         /\ lpc'[l] = "glowError" => ~ErrorFits(l, e)
         /\ paramBuf' \in [Listeners -> Buffers] /\ errorBuf' \in [Listeners -> Buffers]
         /\ got' \in [Listeners -> Events \cup {Nothing}]
         /\ paramBuf'[l].len <= paramBuf'[l].cap
         /\ errorBuf'[l].len <= errorBuf'[l].cap
         /\ \A m \in Listeners \ {l} :
              /\ lpc'[m] = lpc[m] /\ got'[m] = got[m]
              /\ paramBuf'[m] = paramBuf[m] /\ errorBuf'[m] = errorBuf[m]
<1> USE DEF Bring, Listening
<1>1. CASE ParamFits(l, e) /\ ErrorFits(l, e)
  <2>1. /\ paramBuf[l].cap \in 1 .. CIntMax /\ errorBuf[l].cap \in 1 .. CIntMax
        /\ e.len <= paramBuf[l].cap /\ e.len \in Nat
        /\ e.failed => e.err <= errorBuf[l].cap /\ e.err \in Nat
    BY <1>1, EventFields, AsCIntExact, CIntAssumption
    DEF ParamFits, ErrorFits, HoldsData, HoldsError, Offered
  <2>2. e.len \in 0 .. MaxAlloc /\ (IF e.failed THEN e.err ELSE 0) \in 0 .. MaxAlloc
    BY <2>1, CIntAssumption
  <2>3. /\ paramBuf' = [paramBuf EXCEPT ![l].len = e.len]
        /\ errorBuf' = [errorBuf EXCEPT ![l].len = IF e.failed THEN e.err ELSE 0]
        /\ got' = [got EXCEPT ![l] = e]
        /\ lpc' = [lpc EXCEPT ![l] = "decide"]
    BY <1>1
  <2>4. (IF e.failed THEN e.err ELSE 0) = e.err
    BY EventFields
  <2>5. /\ paramBuf' \in [Listeners -> Buffers] /\ errorBuf' \in [Listeners -> Buffers]
        /\ paramBuf'[l] = [paramBuf[l] EXCEPT !.len = e.len]
        /\ errorBuf'[l] = [errorBuf[l] EXCEPT !.len = IF e.failed THEN e.err ELSE 0]
    BY <2>2, <2>3, BufferTypes DEF TypeOK
  <2>6. /\ paramBuf'[l].len <= paramBuf'[l].cap /\ errorBuf'[l].len <= errorBuf'[l].cap
        /\ paramBuf'[l].len = e.len /\ errorBuf'[l].len = e.err
    BY <2>1, <2>4, <2>5 DEF TypeOK, Buffers
  <2> QED
    BY <1>1, <2>3, <2>5, <2>6 DEF TypeOK
<1>2. CASE ~(ParamFits(l, e) /\ ErrorFits(l, e))
  <2>1. paramBuf[l].len <= paramBuf[l].cap /\ errorBuf[l].len <= errorBuf[l].cap
    BY CIntAssumption DEF Offered
  <2> QED
    BY <1>2, <2>1 DEF TypeOK
<1> QED
  BY <1>1, <1>2

\* A listener comes back for the event it had parked, which is there.
LEMMA RecallStep ==
  ASSUME IInv, NEW l \in Listeners, Recall(l)
  PROVE  IInv'
<1> USE DEF emitVars, bufferVars, callVars, handlerVars, appVars
<1>0. /\ lpc[l] = "recall" /\ Carrying(l) /\ ~HasEvent(l)
      /\ eventMap[id[l]] # Nothing
      /\ Offered(paramBuf[l]) /\ Offered(errorBuf[l])
  BY CarriedIsAwaited DEF Recall, IInv, RecallInv, OfferInv, Carrying, HasEvent
<1> DEFINE e == eventMap[id[l]].parked
<1>a. e \in Events /\ e.of = eventMap[id[l]].chan
  BY <1>0 DEF IInv, CarriedInv
<1>b. /\ Bring(l, "recall", e)
      /\ UNCHANGED <<emitVars, bigSize, smallSize, eventId, id, recall, eventMap, handlerVars,
                     appVars>>
  BY <1>0 DEF Recall
<1> HIDE DEF e
<1>c. /\ ~halted /\ UNCHANGED halted
      /\ \E to \in {"glowParam", "glowError", "decide"} : lpc' = [lpc EXCEPT ![l] = to]
      /\ lpc'[l] \in {"glowParam", "glowError", "decide"}
      /\ lpc'[l] = "decide" => /\ got'[l] = e
                               /\ paramBuf'[l].len = e.len /\ errorBuf'[l].len = e.err
      /\ lpc'[l] # "decide" => UNCHANGED <<got, paramBuf, errorBuf>>
      /\ lpc'[l] = "glowParam" => ~ParamFits(l, e)
      /\ lpc'[l] = "glowError" => ~ErrorFits(l, e)
      /\ paramBuf' \in [Listeners -> Buffers] /\ errorBuf' \in [Listeners -> Buffers]
      /\ got' \in [Listeners -> Events \cup {Nothing}]
      /\ paramBuf'[l].len <= paramBuf'[l].cap
      /\ errorBuf'[l].len <= errorBuf'[l].cap
  BY <1>0, <1>a, <1>b, Brought DEF IInv
<1>d. \A m \in Listeners \ {l} :
        /\ lpc'[m] = lpc[m] /\ got'[m] = got[m]
        /\ paramBuf'[m] = paramBuf[m] /\ errorBuf'[m] = errorBuf[m]
  BY <1>0, <1>a, <1>b, Brought DEF IInv
<1>1. TypeOK'
  BY <1>b, <1>c DEF IInv, TypeOK
<1>2. SizesInv' /\ IdsInv' /\ RecallInv'
  BY <1>0, <1>b, <1>c, <1>d DEF IInv, SizesInv, IdsInv, RecallInv, Carrying, HasEvent
<1>3. OfferInv' /\ NoOverrun'
  BY <1>0, <1>c, <1>d DEF IInv, OfferInv, NoOverrun, HasEvent
<1>4. EventMapMatches' /\ EventsInv' /\ AwaitInv'
  <2>1. Alone(l) /\ Carrying(l)'
    BY <1>b, <1>c, <1>d DEF Alone, Carrying, HasEvent
  <2> QED
    BY <1>0, <1>b, <2>1, Inside
<1>5. CarriedInv'
  <2>1. ASSUME NEW m \in Listeners \ {l} PROVE (Carrying(m)' <=> Carrying(m)) /\ (HasEvent(m)' <=> HasEvent(m))
    BY <1>b, <1>d DEF Carrying, HasEvent
  <2>2. ASSUME NEW m \in Listeners \ {l}, NEW f PROVE (ParamFits(m, f)' <=> ParamFits(m, f)) /\ (ErrorFits(m, f)' <=> ErrorFits(m, f))
    BY <1>d DEF ParamFits, ErrorFits
  <2> QED
    BY <1>0, <1>a, <1>b, <1>c, <1>d DEF IInv, CarriedInv, Carrying, HasEvent, ParamFits, ErrorFits, e
<1>6. RunsInv' /\ ResponseTellsVerdict'
  <2>1. \A m \in Listeners : Carrying(m)' = Carrying(m)
    BY <1>0, <1>b, <1>c, <1>d DEF Carrying, HasEvent
  <2>2. verdict[l] = Nothing
    BY <1>0 DEF IInv, RunsInv
  <2> QED
    BY <1>b, <1>d, <2>1, <2>2 DEF IInv, RunsInv, ResponseTellsVerdict
<1>7. QuietInv' /\ HaltsOnlyUnquiet'
  BY <1>0, <1>b, <1>c DEF IInv, QuietInv, Quiet, HaltsOnlyUnquiet
<1> QED
  BY <1>1, <1>2, <1>3, <1>4, <1>5, <1>6, <1>7 DEF IInv

\* A listener that waits for an event has an id, and no entry under it.
LEMMA Unoccupied ==
  ASSUME IInv, NEW l \in Listeners, lpc[l] = "receive"
  PROVE  id[l] \in Ids /\ eventMap[id[l]] = Nothing /\ ~recall[l] /\ ~Carrying(l)
<1>1. id[l] \in Ids
  BY HasId
<1>2. ~recall[l] /\ ~Carrying(l)
  BY DEF IInv, RecallInv, Carrying, HasEvent
<1>3. \A m \in Listeners : id[m] = id[l] => ~Carrying(m)
  BY <1>1, <1>2 DEF IInv, IdsInv, Ids
<1> QED
  BY <1>1, <1>2, <1>3 DEF IInv, EventMapMatches

\* A listener receives an event: it enters the eventMap under an id of its
\* own, and its emitter waits.
LEMMA ReceiveStep ==
  ASSUME IInv, NEW l \in Listeners, NEW t \in Threads, Receive(l, t)
  PROVE  IInv'
<1> USE DEF Emitting, bufferVars, callVars, handlerVars, appVars
<1> DEFINE e == event[t]
<1>a. /\ lpc[l] = "receive" /\ live /\ epc[t] = "send"
      /\ epc' = [epc EXCEPT ![t] = "await"]
      /\ Bring(l, "receive", e)
      /\ eventMap' = [eventMap EXCEPT ![id[l]] =
           [chan |-> e.of, parked |-> IF lpc'[l] = "decide" THEN Nothing ELSE e]]
      /\ UNCHANGED <<emits, event, reply, bigSize, smallSize, eventId, id, recall,
                     handlerVars, appVars>>
  BY DEF Receive
<1>b. e \in Events /\ e # Nothing /\ e.of \in 1 .. MaxEmits
  BY <1>a, EventFields DEF IInv, TypeOK, EventsInv
<1>c. /\ id[l] \in Ids /\ eventMap[id[l]] = Nothing /\ ~recall[l] /\ ~Carrying(l)
      /\ Offered(paramBuf[l]) /\ Offered(errorBuf[l])
  BY <1>a, Unoccupied DEF IInv, OfferInv
<1>d. /\ ~halted /\ UNCHANGED halted
      /\ \E to \in {"glowParam", "glowError", "decide"} : lpc' = [lpc EXCEPT ![l] = to]
      /\ lpc'[l] \in {"glowParam", "glowError", "decide"}
      /\ lpc'[l] = "decide" => /\ got'[l] = e
                               /\ paramBuf'[l].len = e.len /\ errorBuf'[l].len = e.err
      /\ lpc'[l] # "decide" => UNCHANGED <<got, paramBuf, errorBuf>>
      /\ lpc'[l] = "glowParam" => ~ParamFits(l, e)
      /\ lpc'[l] = "glowError" => ~ErrorFits(l, e)
      /\ paramBuf' \in [Listeners -> Buffers] /\ errorBuf' \in [Listeners -> Buffers]
      /\ got' \in [Listeners -> Events \cup {Nothing}]
      /\ paramBuf'[l].len <= paramBuf'[l].cap
      /\ errorBuf'[l].len <= errorBuf'[l].cap
  BY <1>a, <1>b, <1>c, Brought DEF IInv
<1>e. \A m \in Listeners \ {l} :
        /\ lpc'[m] = lpc[m] /\ got'[m] = got[m]
        /\ paramBuf'[m] = paramBuf[m] /\ errorBuf'[m] = errorBuf[m]
  BY <1>a, <1>b, <1>c, Brought DEF IInv
<1>f. /\ \A i \in Ids \ {id[l]} : eventMap'[i] = eventMap[i]
      /\ eventMap'[id[l]] # Nothing /\ eventMap'[id[l]].chan = e.of
      /\ eventMap'[id[l]] \in Entries
      /\ lpc'[l] # "decide" => eventMap'[id[l]].parked = e
  <2>1. [chan |-> e.of, parked |-> IF lpc'[l] = "decide" THEN Nothing ELSE e] \in Entries
    BY <1>b DEF Entries
  <2> QED
    BY <1>a, <1>c, <2>1, EventNothingAssumption DEF IInv, TypeOK
<1>g. \A m \in Listeners \ {l} :
        /\ (Carrying(m)' <=> Carrying(m)) /\ (HasEvent(m)' <=> HasEvent(m))
        /\ Carrying(m) => id[m] \in Ids \ {id[l]}
  BY <1>a, <1>c, <1>e, CarrierHasId DEF Carrying, HasEvent, IInv, IdsInv, Ids
<1>h. Carrying(l)' /\ (HasEvent(l)' <=> lpc'[l] = "decide")
  BY <1>d DEF Carrying, HasEvent
<1>i. \A i \in Ids : eventMap[i] # Nothing => eventMap[i].chan # e.of
  BY <1>a, <1>b DEF IInv, AwaitInv, EventsInv
<1> HIDE DEF e
<1>1. TypeOK'
  BY <1>a, <1>d, <1>f DEF IInv, TypeOK
<1>2. SizesInv' /\ IdsInv' /\ RecallInv'
  <2>1. IdsInv'
    BY <1>a, <1>c, <1>e DEF IInv, IdsInv, Ids
  <2>2. RecallInv'
    BY <1>a, <1>c, <1>d, <1>e DEF IInv, RecallInv, Carrying, HasEvent
  <2> QED
    BY <1>a, <2>1, <2>2 DEF IInv, SizesInv
<1>3. OfferInv' /\ NoOverrun'
  BY <1>c, <1>d, <1>e DEF IInv, OfferInv, NoOverrun, HasEvent
<1>4. EventMapMatches' /\ EventsInv' /\ AwaitInv'
  <2>1. EventMapMatches'
    <3>1. ASSUME NEW i \in Ids
          PROVE  eventMap'[i] # Nothing <=> \E m \in Listeners : id'[m] = i /\ Carrying(m)'
      <4>1. CASE i = id[l]
        BY <1>a, <1>f, <4>1, <1>h
      <4>2. CASE i # id[l]
        BY <1>a, <1>c, <1>d, <1>e, <1>f, <4>2 DEF IInv, EventMapMatches, Carrying, HasEvent
      <4> QED
        BY <4>1, <4>2
    <3> QED
      BY <3>1 DEF EventMapMatches
  <2>2. EventsInv'
    BY <1>a, <1>b DEF IInv, TypeOK, EventsInv
  <2>3. AwaitInv'
    <3>1. ASSUME NEW u \in Threads, epc'[u] = "await"
          PROVE  \E i \in Ids : eventMap'[i] # Nothing /\ eventMap'[i].chan = event[u].of
      <4>1. CASE u = t
        BY <4>1, <1>c, <1>f DEF e
      <4>2. CASE u # t
        <5>1. PICK i \in Ids : eventMap[i] # Nothing /\ eventMap[i].chan = event[u].of
          BY <1>a, <3>1, <4>2 DEF IInv, TypeOK, AwaitInv
        <5> QED
          BY <1>c, <1>f, <5>1
      <4> QED
        BY <4>1, <4>2
    <3>2. ASSUME NEW i \in Ids, eventMap'[i] # Nothing
          PROVE  \E u \in Threads : epc'[u] = "await" /\ eventMap'[i].chan = event[u].of
      <4>1. CASE i = id[l]
        BY <1>a, <1>f, <4>1 DEF IInv, TypeOK, e
      <4>2. CASE i # id[l]
        <5>1. PICK u \in Threads : epc[u] = "await" /\ eventMap[i].chan = event[u].of
          BY <1>f, <3>2, <4>2 DEF IInv, AwaitInv
        <5> QED
          BY <1>a, <1>f, <4>2, <5>1 DEF IInv, TypeOK
      <4> QED
        BY <4>1, <4>2
    <3>3. ASSUME NEW i \in Ids, NEW j \in Ids, eventMap'[i] # Nothing, eventMap'[j] # Nothing,
                 eventMap'[i].chan = eventMap'[j].chan
          PROVE  i = j
      BY <1>f, <1>i, <3>3 DEF IInv, AwaitInv
    <3> QED
      BY <1>a, <3>1, <3>2, <3>3 DEF AwaitInv
  <2> QED
    BY <2>1, <2>2, <2>3
<1>5. CarriedInv'
  <2> SUFFICES ASSUME NEW m \in Listeners, Carrying(m)'
               PROVE  /\ HasEvent(m)' => /\ got'[m] \in Events /\ got'[m].of = eventMap'[id'[m]].chan
                                         /\ paramBuf'[m].len = got'[m].len
                                         /\ errorBuf'[m].len = got'[m].err
                      /\ ~HasEvent(m)' => /\ eventMap'[id'[m]].parked \in Events
                                          /\ eventMap'[id'[m]].parked.of = eventMap'[id'[m]].chan
                      /\ lpc'[m] \in {"glowParam", "makeParam"} =>
                           ~ParamFits(m, eventMap[id[m]].parked)'
                      /\ lpc'[m] \in {"glowError", "makeError"} =>
                           ~ErrorFits(m, eventMap[id[m]].parked)'
    BY DEF CarriedInv
  <2>1. CASE m = l
    <3>1. HasEvent(m)' <=> lpc'[l] = "decide"
      BY <1>h, <2>1
    <3>2. id'[m] = id[l] /\ eventMap'[id'[m]].chan = e.of
          /\ (lpc'[l] # "decide" => eventMap'[id'[m]].parked = e)
      BY <1>a, <1>f, <2>1
    <3> QED
      BY <1>b, <1>d, <2>1, <3>1, <3>2 DEF ParamFits, ErrorFits
  <2>2. CASE m # l
    <3>1. Carrying(m) /\ (HasEvent(m)' <=> HasEvent(m))
      BY <1>a, <1>e, <2>2 DEF Carrying, HasEvent
    <3>2. id[m] \in Ids \ {id[l]} /\ id'[m] = id[m]
      BY <1>a, <1>c, <2>2, <3>1, CarrierHasId DEF IInv, IdsInv, Ids
    <3>3. eventMap'[id'[m]] = eventMap[id[m]]
      BY <1>f, <3>2
    <3> QED
      BY <1>e, <2>2, <3>1, <3>3 DEF IInv, CarriedInv, ParamFits, ErrorFits
  <2> QED
    BY <2>1, <2>2
<1>6. RunsInv' /\ ResponseTellsVerdict'
  <2>1. runs[e.of] = 0
    BY <1>a DEF IInv, RunsInv, e
  <2>2. verdict[l] = Nothing
    BY <1>a DEF IInv, RunsInv
  <2>3. \A u \in Threads : epc'[u] \in {"send", "returned"} => epc[u] = epc'[u]
    BY <1>a DEF IInv, TypeOK
  <2>4. ResponseTellsVerdict'
    BY <1>a, <2>3 DEF IInv, ResponseTellsVerdict
  <2>5. ASSUME NEW m \in Listeners, Carrying(m)'
        PROVE  LET k == eventMap'[id'[m]].chan
               IN  IF verdict[m] = Nothing THEN runs[k] = 0
                   ELSE runs[k] = 1 /\ verdicts[k] = verdict[m]
    <3>1. CASE m = l
      BY <1>a, <1>f, <2>1, <2>2, <3>1
    <3>2. CASE m # l
      <4>1. Carrying(m)
        BY <1>a, <1>e, <2>5, <3>2 DEF Carrying, HasEvent
      <4>2. id[m] \in Ids \ {id[l]} /\ id'[m] = id[m]
        BY <1>a, <1>c, <3>2, <4>1, CarrierHasId DEF IInv, IdsInv, Ids
      <4> QED
        BY <1>f, <4>1, <4>2 DEF IInv, RunsInv
    <3> QED
      BY <3>1, <3>2
  <2>6. \A m \in Listeners : verdict[m] # Nothing => lpc'[m] = "result"
    BY <1>e, <2>2 DEF IInv, RunsInv
  <2> QED
    BY <1>a, <2>3, <2>4, <2>5, <2>6 DEF IInv, RunsInv
<1>7. QuietInv' /\ HaltsOnlyUnquiet'
  BY <1>a, <1>d DEF IInv, QuietInv, Quiet, HaltsOnlyUnquiet
<1> QED
  BY <1>1, <1>2, <1>3, <1>4, <1>5, <1>6, <1>7 DEF IInv

\* The reply made of a verdict says it, if there is a result function, and the
\* reply made without a verdict or without the function refuses.
LEMMA ResponseTells ==
  /\ \A v \in Verdicts : /\ "newEventResultFunc" \in setup => Says(ResponseTo(v), v)
                         /\ Tells(ResponseTo(v), v)
  /\ Refusal(ResponseTo(Nothing))
  /\ \A v : "newEventResultFunc" \notin setup => Refusal(ResponseTo(v))
  /\ \A v \in Verdicts \cup {Nothing} : ResponseTo(v) \in Replies
<1>1. \A v \in Verdicts : v.failed \in BOOLEAN /\ v # Nothing
  BY EventNothingAssumption DEF Verdicts
<1>2. \A v : "newEventResultFunc" \notin setup => Refusal(ResponseTo(v))
  BY DEF Refusal, ResponseTo
<1>3. \A v \in Verdicts : "newEventResultFunc" \in setup => Says(ResponseTo(v), v)
  BY <1>1 DEF Says, ResponseTo
<1>4. Refusal(ResponseTo(Nothing))
  BY DEF Refusal, ResponseTo
<1>5. \A v \in Verdicts \cup {Nothing} : ResponseTo(v) \in Replies
  BY DEF ResponseTo, Replies
<1> QED
  BY <1>2, <1>3, <1>4, <1>5 DEF Tells

\* The response goes to the one thread that waits for it, and the entry is
\* deleted.
LEMMA RespondStep ==
  ASSUME IInv, NEW l \in Listeners, live, eventMap[id[l]] # Nothing, Respond(l)
  PROVE  IInv'
<1> USE DEF appVars
<1>a. PICK t \in Threads :
        /\ epc[t] = "await"
        /\ event[t].of = eventMap[id[l]].chan
        /\ epc' = [epc EXCEPT ![t] = "returned"]
        /\ reply' = [reply EXCEPT ![t] = ResponseTo(verdict[l])]
  BY DEF Respond
<1>b. /\ ~halted /\ UNCHANGED halted
      /\ lpc[l] = "result" /\ lpc' = [lpc EXCEPT ![l] = "next"]
      /\ eventMap' = [eventMap EXCEPT ![id[l]] = Nothing]
      /\ recall' = [recall EXCEPT ![l] = FALSE]
      /\ paramBuf' = [paramBuf EXCEPT ![l] = NoBuffer]
      /\ errorBuf' = [errorBuf EXCEPT ![l] = NoBuffer]
      /\ got' = [got EXCEPT ![l] = Nothing]
      /\ verdict' = [verdict EXCEPT ![l] = Nothing]
      /\ UNCHANGED <<emits, event, bigSize, smallSize, eventId, id, runs, verdicts, appVars>>
  BY DEF Respond, Listening, Delete
<1>c. Carrying(l)
  BY <1>b DEF Carrying, HasEvent
<1>d. /\ id[l] \in Ids /\ eventMap[id[l]].chan \in 1 .. MaxEmits
      /\ \A u \in Threads : event[u] # Nothing /\ event[u].of = eventMap[id[l]].chan => epc[u] = "await"
      /\ \A m \in Listeners \ {l} : Carrying(m) => eventMap[id[m]].chan # eventMap[id[l]].chan
  BY <1>c, CarriedIsAwaited
<1>e. /\ event[t] # Nothing
      /\ \A u \in Threads \ {t} : event[u] # Nothing => event[u].of # event[t].of
  BY <1>a DEF IInv, EventsInv
<1>f. \A i \in Ids \ {id[l]} : eventMap'[i] = eventMap[i]
  BY <1>b DEF IInv, TypeOK
<1>g. eventMap'[id[l]] = Nothing
  BY <1>b, <1>d DEF IInv, TypeOK
<1>h. \A m \in Listeners \ {l} :
        /\ lpc'[m] = lpc[m] /\ id'[m] = id[m] /\ recall'[m] = recall[m] /\ got'[m] = got[m]
        /\ paramBuf'[m] = paramBuf[m] /\ errorBuf'[m] = errorBuf[m] /\ verdict'[m] = verdict[m]
  BY <1>b DEF IInv, TypeOK
<1>i. ~Carrying(l)' /\ lpc'[l] = "next" /\ verdict'[l] = Nothing /\ ~recall'[l]
  BY <1>b DEF IInv, TypeOK, Carrying, HasEvent
<1>1. TypeOK'
  <2>1. verdict[l] \in Verdicts \cup {Nothing}
    BY DEF IInv, TypeOK
  <2>2. ResponseTo(verdict[l]) \in Replies
    BY <2>1, ResponseTells
  <2> QED
    BY <1>a, <1>b, <1>d, <2>2, BufferTypes DEF IInv, TypeOK
<1>2. SizesInv' /\ IdsInv' /\ RecallInv'
  <2>1. IdsInv'
    BY <1>b, <1>h, <1>i DEF IInv, IdsInv
  <2>2. RecallInv'
    BY <1>h, <1>i DEF IInv, RecallInv, Carrying, HasEvent
  <2> QED
    BY <1>b, <2>1, <2>2 DEF IInv, SizesInv
<1>3. OfferInv' /\ NoOverrun'
  BY <1>h, <1>i DEF IInv, OfferInv, NoOverrun, HasEvent
<1>4. EventMapMatches' /\ EventsInv' /\ AwaitInv'
  <2>1. EventMapMatches'
    <3>1. ASSUME NEW i \in Ids
          PROVE  eventMap'[i] # Nothing <=> \E m \in Listeners : id'[m] = i /\ Carrying(m)'
      <4>1. CASE i = id[l]
        BY <1>b, <1>d, <1>g, <1>h, <1>i, <4>1 DEF IInv, IdsInv, Ids, Carrying, HasEvent
      <4>2. CASE i # id[l]
        BY <1>b, <1>f, <1>h, <1>i, <4>2 DEF IInv, EventMapMatches, Carrying, HasEvent
      <4> QED
        BY <4>1, <4>2
    <3> QED
      BY <3>1 DEF EventMapMatches
  <2>2. EventsInv'
    BY <1>a, <1>b DEF IInv, TypeOK, EventsInv
  <2>3. AwaitInv'
    <3>1. ASSUME NEW u \in Threads, epc'[u] = "await"
          PROVE  \E i \in Ids : eventMap'[i] # Nothing /\ eventMap'[i].chan = event[u].of
      <4>1. epc[u] = "await" /\ u # t
        BY <1>a, <3>1 DEF IInv, TypeOK
      <4>2. PICK i \in Ids : eventMap[i] # Nothing /\ eventMap[i].chan = event[u].of
        BY <4>1 DEF IInv, AwaitInv
      <4>3. i # id[l]
        BY <1>a, <1>e, <4>1, <4>2 DEF IInv, EventsInv
      <4> QED
        BY <1>f, <4>2, <4>3
    <3>2. ASSUME NEW i \in Ids, eventMap'[i] # Nothing
          PROVE  \E u \in Threads : epc'[u] = "await" /\ eventMap'[i].chan = event[u].of
      <4>1. i # id[l] /\ eventMap'[i] = eventMap[i]
        BY <1>f, <1>g, <3>2
      <4>2. PICK u \in Threads : epc[u] = "await" /\ eventMap[i].chan = event[u].of
        BY <3>2, <4>1 DEF IInv, AwaitInv
      <4>3. u # t
        BY <1>a, <1>d, <3>2, <4>1, <4>2 DEF IInv, AwaitInv
      <4> QED
        BY <1>a, <4>1, <4>2, <4>3 DEF IInv, TypeOK
    <3>3. ASSUME NEW i \in Ids, NEW j \in Ids, eventMap'[i] # Nothing, eventMap'[j] # Nothing,
                 eventMap'[i].chan = eventMap'[j].chan
          PROVE  i = j
      BY <1>f, <1>g, <3>3 DEF IInv, AwaitInv
    <3> QED
      BY <1>b, <3>1, <3>2, <3>3 DEF AwaitInv
  <2> QED
    BY <2>1, <2>2, <2>3
<1>j. ASSUME NEW m \in Listeners, Carrying(m)'
      PROVE  /\ m # l /\ Carrying(m) /\ (HasEvent(m)' <=> HasEvent(m))
             /\ id'[m] = id[m] /\ eventMap'[id'[m]] = eventMap[id[m]]
  <2>1. m # l
    BY <1>i, <1>j
  <2>2. Carrying(m) /\ (HasEvent(m)' <=> HasEvent(m))
    BY <1>h, <1>j, <2>1 DEF Carrying, HasEvent
  <2>3. id[m] \in Ids \ {id[l]}
    BY <1>d, <2>1, <2>2, CarrierHasId DEF IInv, IdsInv, Ids
  <2> QED
    BY <1>f, <1>h, <2>1, <2>2, <2>3
<1>5. CarriedInv'
  <2> SUFFICES ASSUME NEW m \in Listeners, Carrying(m)'
               PROVE  /\ HasEvent(m)' => /\ got'[m] \in Events /\ got'[m].of = eventMap'[id'[m]].chan
                                         /\ paramBuf'[m].len = got'[m].len
                                         /\ errorBuf'[m].len = got'[m].err
                      /\ ~HasEvent(m)' => /\ eventMap'[id'[m]].parked \in Events
                                          /\ eventMap'[id'[m]].parked.of = eventMap'[id'[m]].chan
                      /\ lpc'[m] \in {"glowParam", "makeParam"} =>
                           ~ParamFits(m, eventMap[id[m]].parked)'
                      /\ lpc'[m] \in {"glowError", "makeError"} =>
                           ~ErrorFits(m, eventMap[id[m]].parked)'
    BY DEF CarriedInv
  <2>1. /\ m # l /\ Carrying(m) /\ (HasEvent(m)' <=> HasEvent(m))
        /\ id'[m] = id[m] /\ eventMap'[id'[m]] = eventMap[id[m]]
    BY <1>j
  <2> QED
    BY <1>h, <2>1 DEF IInv, CarriedInv, ParamFits, ErrorFits
<1>6. RunsInv' /\ ResponseTellsVerdict'
  <2>1. ASSUME NEW m \in Listeners, Carrying(m)'
        PROVE  LET k == eventMap'[id'[m]].chan
               IN  IF verdict'[m] = Nothing THEN runs[k] = 0
                   ELSE runs[k] = 1 /\ verdicts[k] = verdict'[m]
    <3>1. m # l /\ Carrying(m) /\ eventMap'[id'[m]] = eventMap[id[m]]
      BY <1>j, <2>1
    <3> QED
      BY <1>h, <3>1 DEF IInv, RunsInv
  <2>2. \A m \in Listeners : verdict'[m] # Nothing => lpc'[m] = "result"
    BY <1>h, <1>i DEF IInv, RunsInv
  <2>3. \A u \in Threads : epc'[u] = "send" => epc[u] = "send"
    BY <1>a DEF IInv, TypeOK
  <2>4. RunsInv'
    BY <1>b, <2>1, <2>2, <2>3 DEF IInv, RunsInv
  <2>5. ASSUME NEW u \in Threads, epc'[u] = "returned"
        PROVE  IF \/ event[u] = Nothing \/ runs[event[u].of] = 0
                  \/ "newEventResultFunc" \notin setup
                 THEN Refusal(reply'[u])
                 ELSE Says(reply'[u], verdicts[event[u].of])
    <3>1. CASE u = t
      <4>1. reply'[u] = ResponseTo(verdict[l])
        BY <1>a, <3>1 DEF IInv, TypeOK
      <4>2. verdict[l] \in Verdicts \cup {Nothing}
        BY DEF IInv, TypeOK
      <4>3. /\ verdict[l] = Nothing => runs[event[t].of] = 0
            /\ verdict[l] # Nothing => runs[event[t].of] = 1 /\ verdicts[event[t].of] = verdict[l]
        BY <1>a, <1>c DEF IInv, RunsInv
      <4> QED
        BY <1>e, <3>1, <4>1, <4>2, <4>3, ResponseTells
    <3>2. CASE u # t
      BY <1>a, <2>5, <3>2 DEF IInv, TypeOK, ResponseTellsVerdict
    <3> QED
      BY <3>1, <3>2
  <2>6. ResponseTellsVerdict'
    BY <1>b, <2>5 DEF ResponseTellsVerdict
  <2> QED
    BY <2>4, <2>6
<1>7. QuietInv' /\ HaltsOnlyUnquiet'
  BY <1>b DEF IInv, QuietInv, Quiet, HaltsOnlyUnquiet
<1> QED
  BY <1>1, <1>2, <1>3, <1>4, <1>5, <1>6, <1>7 DEF IInv

\* The listener finds the entry of the event it carries: the panic of
\* eventResultFunc is not reached.
LEMMA EventResultStep ==
  ASSUME IInv, NEW l \in Listeners, EventResult(l)
  PROVE  IInv'
<1>1. eventMap[id[l]] # Nothing
  BY CarriedIsAwaited DEF EventResult, Carrying, HasEvent
<1> QED
  BY <1>1, RespondStep DEF EventResult

\* What the application and the request path do.
LEMMA OutsideStep ==
  ASSUME IInv, UNCHANGED <<emitVars, paramBuf, errorBuf, callVars, handlerVars, setup, lpc>>,
         SetEventHandler \/ FreePlugin \/ Resized \/ UNCHANGED vars
  PROVE  IInv'
<1> USE DEF emitVars, callVars, handlerVars
<1>1. TypeOK' /\ SizesInv'
  <2>1. /\ handler' \in BOOLEAN /\ live' \in BOOLEAN /\ halted' \in BOOLEAN
        /\ quietFree' \in BOOLEAN
    BY DEF SetEventHandler, FreePlugin, Resized, vars, appVars, IInv, TypeOK, Quiet
  <2>2. bigSize' \in 1 .. CIntMax /\ smallSize' \in 1 .. CIntMax
    BY DEF SetEventHandler, FreePlugin, Resized, vars, bufferVars, IInv, SizesInv
  <2>3. bigSize' \in Nat /\ smallSize' \in Nat
    BY <2>2, CIntAssumption
  <2> QED
    BY <2>1, <2>2, <2>3 DEF IInv, TypeOK, SizesInv
<1>2. IdsInv' /\ RecallInv' /\ OfferInv' /\ NoOverrun'
  BY DEF IInv, IdsInv, RecallInv, OfferInv, NoOverrun, Carrying, HasEvent
<1>3. EventMapMatches' /\ EventsInv' /\ AwaitInv'
  BY DEF IInv, EventMapMatches, EventsInv, AwaitInv, Carrying, HasEvent
<1>4. CarriedInv' /\ RunsInv' /\ ResponseTellsVerdict'
  BY DEF IInv, CarriedInv, RunsInv, ResponseTellsVerdict, Carrying, HasEvent, ParamFits, ErrorFits
<1>5. QuietInv'
  BY DEF SetEventHandler, FreePlugin, Resized, vars, appVars, IInv, QuietInv, Quiet
<1>6. HaltsOnlyUnquiet'
  <2>1. CASE SetEventHandler \/ FreePlugin
    BY <2>1 DEF SetEventHandler, FreePlugin, HaltsOnlyUnquiet
  <2>2. CASE Resized \/ UNCHANGED vars
    <3>1. UNCHANGED <<halted, handler, live, quietFree, lpc>>
      BY <2>2 DEF Resized, vars, appVars
    <3> QED
      BY <3>1 DEF IInv, HaltsOnlyUnquiet
  <2> QED
    BY <2>1, <2>2
<1> QED
  BY <1>1, <1>2, <1>3, <1>4, <1>5, <1>6 DEF IInv

-----------------------------------------------------------------------------
(* The invariant.                                                          *)

LEMMA InitIInv == Init => IInv
<1> SUFFICES ASSUME Init PROVE IInv
  OBVIOUS
<1>1. TypeOK
  <2>1. 0 \in 0 .. MaxEmits /\ 0 \in 0 .. MaxEvents /\ BigInit \in Nat /\ SmallInit \in Nat
    BY Bounds, EventSizesAssumption, CIntAssumption
  <2>2. NoReply \in Replies /\ NoBuffer \in Buffers
    BY BufferTypes DEF NoReply, Replies
  <2>3. /\ setup \in Setups /\ handler \in BOOLEAN /\ live \in BOOLEAN
        /\ halted \in BOOLEAN /\ quietFree \in BOOLEAN
        /\ eventId \in 0 .. MaxEvents /\ bigSize \in Nat /\ smallSize \in Nat
        /\ emits \in 0 .. MaxEmits
    BY <2>1 DEF Init
  <2>4. /\ eventMap \in [Ids -> Entries \cup {Nothing}]
        /\ event \in [Threads -> Events \cup {Nothing}]
        /\ got \in [Listeners -> Events \cup {Nothing}]
        /\ verdict \in [Listeners -> Verdicts \cup {Nothing}]
        /\ verdicts \in [1 .. MaxEmits -> Verdicts \cup {Nothing}]
    BY DEF Init
  <2>5. /\ epc \in [Threads -> {"idle", "send", "await", "returned"}]
        /\ reply \in [Threads -> Replies]
        /\ id \in [Listeners -> 0 .. MaxEvents] /\ recall \in [Listeners -> BOOLEAN]
        /\ paramBuf \in [Listeners -> Buffers] /\ errorBuf \in [Listeners -> Buffers]
        /\ runs \in [1 .. MaxEmits -> 0 .. 1]
    BY <2>1, <2>2 DEF Init
  <2>6. lpc = [l \in Listeners |-> "start"]
    BY DEF Init
  <2> QED
    BY <2>3, <2>4, <2>5, <2>6 DEF TypeOK
<1>2. SizesInv /\ IdsInv /\ RecallInv
  BY EventSizesAssumption DEF Init, SizesInv, IdsInv, RecallInv
<1>3. OfferInv /\ NoOverrun /\ EventMapMatches /\ CarriedInv
  BY DEF Init, OfferInv, NoOverrun, EventMapMatches, CarriedInv, Carrying, HasEvent
<1>4. EventsInv /\ AwaitInv /\ ResponseTellsVerdict
  BY DEF Init, EventsInv, AwaitInv, ResponseTellsVerdict
<1>5. RunsInv /\ QuietInv /\ HaltsOnlyUnquiet
  BY DEF Init, RunsInv, QuietInv, HaltsOnlyUnquiet, Carrying, HasEvent
<1> QED
  BY <1>1, <1>2, <1>3, <1>4, <1>5 DEF IInv

LEMMA NextIInv == IInv /\ [Next \/ Resized]_vars => IInv'
<1> SUFFICES ASSUME IInv, [Next \/ Resized]_vars PROVE IInv'
  OBVIOUS
<1>1. ASSUME NEW l \in Listeners, Listen(l) PROVE IInv'
  BY <1>1, StartStep, NextEventStep, GetSmallStep, EnterStep, GoneStep, ChannelClosedStep,
     ReceiveStep, RecallStep, GlowParamStep, MakeParamStep, GlowErrorStep, MakeErrorStep,
     NoHandlerStep, HandlerSeenStep, CallHandlerStep, HandlerReturnsStep, EventResultStep
  DEF Listen
<1>2. ASSUME NEW t \in Threads, Emit(t) \/ EmitNotFound(t) \/ SendOnClosed(t) \/ Leave(t)
      PROVE  IInv'
  BY <1>2, EmitStep, EmitNotFoundStep, GoneStep, LeaveStep
<1>3. CASE SetEventHandler \/ FreePlugin \/ Resized \/ UNCHANGED vars
  BY <1>3, OutsideStep
  DEF SetEventHandler, FreePlugin, Resized, vars, bufferVars, appVars
<1> QED
  BY <1>1, <1>2, <1>3 DEF Next

\* Only FreePlugin takes the instance away.
LEMMA ListenKeepsLive ==
  ASSUME NEW l \in Listeners, Listen(l)
  PROVE  live' = live
<1>1. CASE Start(l) \/ NextEvent(l) \/ GetSmallBuffer(l) \/ Enter(l)
  BY <1>1 DEF Start, NextEvent, GetSmallBuffer, Enter, appVars
<1>2. CASE InstanceGone(l) \/ ChannelClosed(l) \/ NoHandler(l) \/ HandlerSeen(l)
  BY <1>2 DEF InstanceGone, ChannelClosed, NoHandler, HandlerSeen, Panics, appVars
<1>3. CASE Recall(l) \/ GlowParam(l) \/ MakeParam(l) \/ GlowError(l) \/ MakeError(l)
  BY <1>3 DEF Recall, GlowParam, MakeParam, GlowError, MakeError, Glow, Made, Panics, appVars
<1>4. CASE CallHandler(l) \/ HandlerReturns(l) \/ EventResult(l)
  BY <1>4 DEF CallHandler, HandlerReturns, EventResult, Respond, Panics, appVars
<1>5. ASSUME NEW t \in Threads, Receive(l, t) PROVE live' = live
  BY <1>5 DEF Receive, appVars
<1> QED
  BY <1>1, <1>2, <1>3, <1>4, <1>5 DEF Listen

LEMMA EmitKeepsLive ==
  ASSUME NEW t \in Threads, Emit(t) \/ EmitNotFound(t) \/ SendOnClosed(t) \/ Leave(t)
  PROVE  live' = live
BY DEF Emit, EmitNotFound, SendOnClosed, Leave, Panics, appVars

\* Whatever the request path does to the sizes, IInv holds.
THEOREM OpenInvariance == OpenSpec => []IInv
BY InitIInv, NextIInv, PTL DEF OpenSpec

LEMMA Invariance == Spec => []IInv
<1>1. IInv /\ [Next]_vars => IInv'
  BY NextIInv
<1> QED
  BY <1>1, InitIInv, PTL DEF Spec

\* Every variable of the event path has its type, for every value of the
\* constants.
THEOREM EventTypeCorrect == Spec => []TypeOK
<1>1. IInv => TypeOK
  BY DEF IInv
<1> QED
  BY <1>1, Invariance, PTL

\* The eventMap holds exactly the events that are carried: the panics on a
\* missing entry in eventListenerLoopFunc and eventResultFunc are not reached.
THEOREM EntriesMatch == Spec => []EventMapMatches
<1>1. IInv => EventMapMatches
  BY DEF IInv
<1> QED
  BY <1>1, Invariance, PTL

\* An awaited event has its entry, and the entry its listener.
LEMMA AwaitedFromIInv == IInv => AwaitedIsCarried
<1> SUFFICES ASSUME IInv PROVE AwaitedIsCarried
  OBVIOUS
<1>1. ASSUME NEW t \in Threads, epc[t] = "await"
      PROVE  \E l \in Listeners : Carries(l, event[t].of)
  <2>1. PICK i \in Ids : eventMap[i] # Nothing /\ eventMap[i].chan = event[t].of
    BY <1>1 DEF IInv, AwaitInv
  <2> QED
    BY <2>1 DEF IInv, EventMapMatches, Carries
<1>2. ASSUME NEW l \in Listeners, Carrying(l)
      PROVE  \E t \in Threads : epc[t] = "await" /\ Carries(l, event[t].of)
  <2>1. id[l] \in Ids /\ eventMap[id[l]] # Nothing
    BY <1>2, CarriedIsAwaited
  <2> QED
    BY <1>2, <2>1 DEF IInv, AwaitInv, Carries
<1>3. ASSUME NEW l \in Listeners, NEW m \in Listeners, NEW k \in 1 .. MaxEmits,
             Carries(l, k), Carries(m, k)
      PROVE  l = m
  BY <1>3, CarriedIsAwaited DEF Carries
<1> QED
  BY <1>1, <1>2, <1>3 DEF AwaitedIsCarried

\* A listener carries the event of its entry in the eventMap.
LEMMA OwnEventFromIInv == IInv => HandlerSeesOwnEvent
BY CarriedIsAwaited DEF IInv, CarriedInv, HandlerSeesOwnEvent, Carries, Carrying

\* Whoever waits in EventEmit is owed a response by exactly one listener.
THEOREM AwaitedOnce == Spec => []AwaitedIsCarried
BY AwaitedFromIInv, Invariance, PTL

\* The handler works on the bytes of the event its result responds to, and on
\* all of them.
THEOREM OwnEvent == Spec => []HandlerSeesOwnEvent
BY OwnEventFromIInv, Invariance, PTL

\* The plugin never writes past the buffers of the host.
THEOREM EventBuffersHold == Spec => []NoOverrun
<1>1. IInv => NoOverrun
  BY DEF IInv
<1> QED
  BY <1>1, Invariance, PTL

\* EventEmit returns what is said of the verdict of the handler on its own event:
\* its result if that can be encoded and decoded, with an error exactly if the
\* handler returned one, and a lost result if not; and it is refused exactly when
\* no handler saw the event or the plugin never made its result function.
THEOREM ResponsesTell == Spec => []ResponseTellsVerdict
<1>1. IInv => ResponseTellsVerdict
  BY DEF IInv
<1> QED
  BY <1>1, Invariance, PTL

\* The event path ends the process only by a FreePlugin that came too early
\* or a handler taken back at the wrong moment.
THEOREM HaltsUnquiet == Spec => []HaltsOnlyUnquiet
<1>1. IInv => HaltsOnlyUnquiet
  BY DEF IInv
<1> QED
  BY <1>1, Invariance, PTL

-----------------------------------------------------------------------------
(* The event path implements Invocation.                                   *)

\* What does not touch the calls of EventEmit and the runs of the handler is
\* invisible.
LEMMA AbstractStutter ==
  ASSUME UNCHANGED <<halted, epc, event, reply, runs, verdicts>>
  PROVE  UNCHANGED Abstract!vars
BY DEF Abstract!vars, Phase, PhaseOf, ExecutedVerdict, Handled

\* A panic halts the abstract system.
LEMMA AbstractHalt ==
  ASSUME Panics
  PROVE  Abstract!Halt
BY DEF Panics, emitVars, handlerVars, Abstract!Halt, Phase, PhaseOf, ExecutedVerdict, Handled

\* A step of one thread's call alone changes the abstract state of that thread.
LEMMA AbstractChange ==
  ASSUME NEW t \in Threads, UNCHANGED <<runs, verdicts>>,
         \A u \in Threads \ {t} : epc'[u] = epc[u] /\ event'[u] = event[u]
  PROVE  /\ Phase' = [Phase EXCEPT ![t] = PhaseOf(t)']
         /\ ExecutedVerdict' = [ExecutedVerdict EXCEPT ![t] =
              IF Handled(t)' THEN verdicts[event'[t].of] ELSE Nothing]
<1>1. \A u \in Threads \ {t} : PhaseOf(u)' = PhaseOf(u) /\ Handled(u)' = Handled(u)
  BY DEF PhaseOf, Handled
<1> QED
  BY <1>1 DEF Phase, ExecutedVerdict

\* EventEmit begins: a call is made, of an event no handler has run for.
LEMMA AbstractEmit ==
  ASSUME IInv, NEW t \in Threads, Emit(t)
  PROVE  Abstract!Invoke(t)
<1>1. /\ ~halted /\ UNCHANGED <<halted, reply, runs, verdicts>>
      /\ epc[t] = "idle" /\ epc' = [epc EXCEPT ![t] = "send"]
      /\ emits' = emits + 1 /\ emits < MaxEmits
  BY DEF Emit, Emitting, handlerVars
<1>2. PICK e \in EventsNumbered({emits'}) : event' = [event EXCEPT ![t] = e]
  BY DEF Emit
<1>3. e.of = emits + 1 /\ emits + 1 \in 1 .. MaxEmits
  <2>1. emits + 1 \in 1 .. MaxEmits
    BY <1>1, Bounds DEF IInv, TypeOK
  <2> QED
    BY <1>1, <1>2, <2>1, EventNumbered
<1>4. event[t] = Nothing /\ event'[t] = e /\ epc'[t] = "send" /\ runs[e.of] = 0
  BY <1>1, <1>2, <1>3, Bounds DEF IInv, TypeOK, EventsInv, RunsInv
<1>5. \A u \in Threads \ {t} : epc'[u] = epc[u] /\ event'[u] = event[u]
  BY <1>1, <1>2 DEF IInv, TypeOK
<1>6. ~Handled(t) /\ ~Handled(t)'
  BY <1>1, <1>4 DEF Handled
<1>7. PhaseOf(t) = "idle" /\ PhaseOf(t)' = "called"
  BY <1>1, <1>4, <1>6 DEF PhaseOf
<1>8. Phase' = [Phase EXCEPT ![t] = "called"] /\ Phase[t] = "idle"
  BY <1>1, <1>5, <1>7, AbstractChange DEF Phase
<1>9. ExecutedVerdict' = ExecutedVerdict
  BY <1>1, <1>5, <1>6, AbstractChange DEF ExecutedVerdict
<1> QED
  BY <1>1, <1>8, <1>9 DEF Abstract!Invoke, Abstract!Moves

\* EventEmit on an instance that is gone is refused.
LEMMA AbstractEmitNotFound ==
  ASSUME IInv, NEW t \in Threads, EmitNotFound(t)
  PROVE  Abstract!Refuse(t, {"idle"})
<1>1. /\ ~halted /\ UNCHANGED <<halted, event, runs, verdicts>>
      /\ epc[t] = "idle" /\ epc' = [epc EXCEPT ![t] = "returned"]
      /\ reply' = [reply EXCEPT ![t] = [result |-> "nil", error |-> "refused"]]
  BY DEF EmitNotFound, Emitting, handlerVars
<1>2. epc'[t] = "returned" /\ \A u \in Threads \ {t} : epc'[u] = epc[u] /\ event'[u] = event[u]
  BY <1>1 DEF IInv, TypeOK
<1>3. Phase' = [Phase EXCEPT ![t] = "replied"] /\ Phase[t] = "idle"
  BY <1>1, <1>2, AbstractChange DEF Phase, PhaseOf
<1>4. ExecutedVerdict' = ExecutedVerdict
  BY <1>1 DEF ExecutedVerdict, Handled
<1>5. LET r == [result |-> "nil", error |-> "refused"] IN r \in Replies /\ Refusal(r)
  BY DEF Replies, Refusal
<1> QED
  BY <1>1, <1>3, <1>4, <1>5 DEF Abstract!Refuse, Abstract!Moves

LEMMA AbstractLeave ==
  ASSUME IInv, NEW t \in Threads, Leave(t)
  PROVE  Abstract!Leave(t)
<1>1. /\ ~halted /\ UNCHANGED <<halted, runs, verdicts>>
      /\ epc[t] = "returned" /\ epc' = [epc EXCEPT ![t] = "idle"]
      /\ event' = [event EXCEPT ![t] = Nothing]
      /\ reply' = [reply EXCEPT ![t] = NoReply]
  BY DEF Leave, Emitting, handlerVars
<1>2. /\ epc'[t] = "idle" /\ event'[t] = Nothing
      /\ \A u \in Threads \ {t} : epc'[u] = epc[u] /\ event'[u] = event[u]
  BY <1>1 DEF IInv, TypeOK
<1>3. Phase' = [Phase EXCEPT ![t] = "idle"] /\ Phase[t] = "replied"
  BY <1>1, <1>2, AbstractChange DEF Phase, PhaseOf
<1>4. ExecutedVerdict' = [ExecutedVerdict EXCEPT ![t] = Nothing]
  BY <1>1, <1>2, AbstractChange DEF Handled
<1> QED
  BY <1>1, <1>3, <1>4 DEF Abstract!Leave, Abstract!Moves

\* A listener takes the event: the call waits as it did.
LEMMA AbstractReceive ==
  ASSUME IInv, NEW l \in Listeners, NEW t \in Threads, Receive(l, t)
  PROVE  UNCHANGED Abstract!vars
<1>1. /\ UNCHANGED <<halted, event, reply, runs, verdicts>>
      /\ epc[t] = "send" /\ epc' = [epc EXCEPT ![t] = "await"]
  BY DEF Receive, Emitting, handlerVars
<1>2. ~Handled(t)
  BY <1>1 DEF IInv, RunsInv, Handled
<1>3. Phase' = Phase /\ ExecutedVerdict' = ExecutedVerdict
  BY <1>1, <1>2 DEF IInv, TypeOK, Phase, PhaseOf, ExecutedVerdict, Handled
<1> QED
  BY <1>1, <1>3 DEF Abstract!vars

\* The handler returns: the callee of the one thread that waits for this event
\* executes.
LEMMA AbstractHandler ==
  ASSUME IInv, NEW l \in Listeners, HandlerReturns(l)
  PROVE  \E t \in Threads : Abstract!Execute(t)
<1>1. /\ ~halted /\ UNCHANGED <<halted, epc, event, reply>>
      /\ runs' = [runs EXCEPT ![got[l].of] = @ + 1]
      /\ Carrying(l)
  BY DEF HandlerReturns, Listening, emitVars, Carrying, HasEvent
<1>2. PICK v \in Verdicts : verdicts' = [verdicts EXCEPT ![got[l].of] = v]
  BY DEF HandlerReturns
<1> DEFINE k == got[l].of
<1>3. /\ k \in 1 .. MaxEmits /\ k = eventMap[id[l]].chan
      /\ verdict[l] = Nothing /\ runs[k] = 0
  BY <1>1, CarriedIsAwaited, Bounds
  DEF HandlerReturns, Listening, IInv, TypeOK, CarriedInv, RunsInv, Carrying, HasEvent
<1>4. PICK t \in Threads : epc[t] = "await" /\ event[t].of = k
  BY <1>1, <1>3, CarriedIsAwaited DEF IInv, AwaitInv
<1>5. /\ event[t] # Nothing
      /\ \A u \in Threads \ {t} : event[u] # Nothing =>
           event[u].of # k /\ event[u].of \in 1 .. MaxEmits
  BY <1>4, EventFields DEF IInv, TypeOK, EventsInv
<1>6. /\ runs'[k] = 1 /\ verdicts'[k] = v
      /\ \A j \in 1 .. MaxEmits : j # k => runs'[j] = runs[j] /\ verdicts'[j] = verdicts[j]
  BY <1>1, <1>2, <1>3 DEF IInv, TypeOK
<1>7. ~Handled(t) /\ Handled(t)'
  BY <1>1, <1>3, <1>4, <1>5, <1>6 DEF Handled
<1>8. \A u \in Threads \ {t} :
        Handled(u)' = Handled(u) /\ (Handled(u) => verdicts'[event[u].of] = verdicts[event[u].of])
  BY <1>1, <1>5, <1>6 DEF Handled
<1>9. Phase' = [Phase EXCEPT ![t] = "executed"] /\ Phase[t] = "called"
  BY <1>1, <1>4, <1>7, <1>8 DEF Phase, PhaseOf
<1>10. ExecutedVerdict' = [ExecutedVerdict EXCEPT ![t] = v]
  BY <1>1, <1>4, <1>6, <1>7, <1>8 DEF ExecutedVerdict
<1> QED
  BY <1>1, <1>9, <1>10 DEF Abstract!Execute, Abstract!Moves

\* The response tells the thread that waits what its handler made, or that
\* there was none.
LEMMA AbstractRespond ==
  ASSUME IInv, NEW l \in Listeners, EventResult(l)
  PROVE  \E t \in Threads : Abstract!Respond(t) \/ Abstract!Refuse(t, {"called"})
<1>1. Carrying(l) /\ lpc[l] = "result" /\ Respond(l)
  BY CarriedIsAwaited DEF EventResult, Carrying, HasEvent
<1>2. /\ ~halted /\ UNCHANGED <<halted, event, runs, verdicts>>
  BY <1>1 DEF Respond, Listening
<1>3. PICK t \in Threads :
        /\ epc[t] = "await" /\ event[t].of = eventMap[id[l]].chan
        /\ epc' = [epc EXCEPT ![t] = "returned"]
        /\ reply' = [reply EXCEPT ![t] = ResponseTo(verdict[l])]
  BY <1>1 DEF Respond
<1> DEFINE k == event[t].of
<1>4. event[t] # Nothing /\ verdict[l] \in Verdicts \cup {Nothing}
  BY <1>3 DEF IInv, TypeOK, EventsInv
<1>5. IF verdict[l] = Nothing THEN runs[k] = 0 ELSE runs[k] = 1 /\ verdicts[k] = verdict[l]
  BY <1>1, <1>3 DEF IInv, RunsInv
<1>6. /\ epc'[t] = "returned"
      /\ \A u \in Threads \ {t} : epc'[u] = epc[u] /\ event'[u] = event[u]
  BY <1>2, <1>3 DEF IInv, TypeOK
<1>7. Phase' = [Phase EXCEPT ![t] = "replied"] /\ ExecutedVerdict' = ExecutedVerdict
  BY <1>2, <1>6, AbstractChange DEF PhaseOf, ExecutedVerdict, Handled
<1>8. CASE verdict[l] = Nothing
  <2>1. Phase[t] = "called"
    BY <1>3, <1>5, <1>8 DEF Phase, PhaseOf, Handled
  <2>2. Refusal(ResponseTo(verdict[l])) /\ ResponseTo(verdict[l]) \in Replies
    BY <1>4, <1>8, ResponseTells
  <2> QED
    BY <1>2, <1>3, <1>7, <2>1, <2>2 DEF Abstract!Refuse, Abstract!Moves
<1>9. CASE verdict[l] # Nothing
  <2>1. Phase[t] = "executed" /\ ExecutedVerdict[t] = verdict[l]
    BY <1>3, <1>4, <1>5, <1>9 DEF Phase, PhaseOf, ExecutedVerdict, Handled
  <2>2. Tells(ResponseTo(verdict[l]), verdict[l]) /\ ResponseTo(verdict[l]) \in Replies
    BY <1>4, <1>9, ResponseTells
  <2> QED
    BY <1>2, <1>3, <1>7, <2>1, <2>2 DEF Abstract!Respond, Abstract!Moves
<1> QED
  BY <1>8, <1>9

\* The steps of a listener nobody is told of, and its panics.
LEMMA AbstractInside ==
  ASSUME IInv, NEW l \in Listeners, Listen(l), ~HandlerReturns(l), ~EventResult(l),
         \A t \in Threads : ~Receive(l, t)
  PROVE  Abstract!Halt \/ UNCHANGED Abstract!vars
<1>1. Panics \/ UNCHANGED <<halted, epc, event, reply, runs, verdicts>>
  <2> USE DEF Listening, emitVars, handlerVars
  <2>1. CASE Start(l) \/ NextEvent(l) \/ GetSmallBuffer(l) \/ Enter(l)
    BY <2>1 DEF Start, NextEvent, GetSmallBuffer, Enter
  <2>2. CASE InstanceGone(l) \/ ChannelClosed(l) \/ NoHandler(l) \/ HandlerSeen(l) \/ CallHandler(l)
    BY <2>2 DEF InstanceGone, ChannelClosed, NoHandler, HandlerSeen, CallHandler
  <2>3. CASE Recall(l)
    BY <2>3 DEF Recall, Bring
  <2>4. CASE GlowParam(l) \/ MakeParam(l) \/ GlowError(l) \/ MakeError(l)
    BY <2>4 DEF GlowParam, MakeParam, GlowError, MakeError, Glow, Made
  <2> QED
    BY <2>1, <2>2, <2>3, <2>4 DEF Listen
<1> QED
  BY <1>1, AbstractHalt, AbstractStutter

LEMMA AbstractInit == Init => Abstract!Init
BY DEF Init, Abstract!Init, Phase, PhaseOf, ExecutedVerdict, Handled

LEMMA AbstractNext == IInv /\ [Next \/ Resized]_vars => [Abstract!Next]_(Abstract!vars)
<1> SUFFICES ASSUME IInv, [Next \/ Resized]_vars
             PROVE  [Abstract!Next]_(Abstract!vars)
  OBVIOUS
<1>1. ASSUME NEW l \in Listeners, Listen(l)
      PROVE  Abstract!Next \/ UNCHANGED Abstract!vars
  <2>1. CASE HandlerReturns(l)
    BY <2>1, AbstractHandler DEF Abstract!Next, Abstract!Advance
  <2>2. CASE EventResult(l)
    BY <2>2, AbstractRespond DEF Abstract!Next, Abstract!Advance
  <2> QED
    BY <1>1, <2>1, <2>2, AbstractReceive, AbstractInside DEF Abstract!Next
<1>2. ASSUME NEW t \in Threads, Emit(t) \/ EmitNotFound(t) \/ SendOnClosed(t) \/ Leave(t)
      PROVE  Abstract!Next
  BY <1>2, AbstractEmit, AbstractEmitNotFound, AbstractLeave, AbstractHalt
  DEF SendOnClosed, Abstract!Next
<1>3. CASE SetEventHandler \/ FreePlugin \/ Resized \/ UNCHANGED vars
  BY <1>3, AbstractStutter
  DEF SetEventHandler, FreePlugin, Resized, vars, emitVars, handlerVars
<1> QED
  BY <1>1, <1>2, <1>3 DEF Next

\* The event path implements the plain invocation, whatever the request path
\* does to the sizes: listeners, ids, the eventMap and the channels do not show.
THEOREM OpenRefinement == OpenSpec => ImplementsInvocation
BY AbstractInit, AbstractNext, OpenInvariance, PTL
DEF OpenSpec, ImplementsInvocation, Abstract!Spec

\* The event path on its own implements the plain invocation.
THEOREM EventRefinement == Spec => ImplementsInvocation
<1>1. IInv /\ [Next]_vars => [Abstract!Next]_(Abstract!vars)
  BY AbstractNext
<1> QED
  BY <1>1, AbstractInit, Invariance, PTL
  DEF Spec, ImplementsInvocation, Abstract!Spec
-----------------------------------------------------------------------------
(* The floor under the sizes.                                              *)

\* A step of one listener leaves the others' buffers alone.
LEMMA OthersBuffers ==
  ASSUME IInv, NEW l \in Listeners, Listen(l), NEW m \in Listeners \ {l}
  PROVE  lpc'[m] = lpc[m] /\ paramBuf'[m] = paramBuf[m] /\ errorBuf'[m] = errorBuf[m]
<1>1. /\ lpc \in [Listeners -> {lpc[k] : k \in Listeners}]
      /\ paramBuf \in [Listeners -> Buffers] /\ errorBuf \in [Listeners -> Buffers]
  BY DEF IInv, TypeOK
<1> USE <1>1 DEF Listening, Panics, bufferVars
<1>2. CASE Start(l) \/ NextEvent(l) \/ GetSmallBuffer(l) \/ Enter(l)
  BY <1>2 DEF Start, NextEvent, GetSmallBuffer, Enter
<1>3. CASE InstanceGone(l) \/ ChannelClosed(l) \/ NoHandler(l) \/ HandlerSeen(l)
  BY <1>3 DEF InstanceGone, ChannelClosed, NoHandler, HandlerSeen
<1>4. CASE GlowParam(l) \/ MakeParam(l) \/ GlowError(l) \/ MakeError(l)
  BY <1>4 DEF GlowParam, MakeParam, GlowError, MakeError, Glow, Made
<1>5. CASE CallHandler(l) \/ HandlerReturns(l) \/ EventResult(l)
  BY <1>5 DEF CallHandler, HandlerReturns, EventResult, Respond
<1>6. CASE Recall(l) \/ \E t \in Threads : Receive(l, t)
  BY <1>6 DEF Recall, Receive, Bring
<1> QED
  BY <1>2, <1>3, <1>4, <1>5, <1>6 DEF Listen

\* Where a listener's capacities and the big size come from.
Source(l) ==
  /\ smallSize' = smallSize
  /\ \/ bigSize' = bigSize
     \/ lpc[l] = "glowParam" /\ bigSize' = 2 * paramBuf[l].cap
     \/ lpc[l] = "glowError" /\ bigSize' = 2 * errorBuf[l].cap
  /\ lpc'[l] \in Offering \cup {"getSmall"} =>
       \/ lpc[l] \in Offering \cup {"getSmall"} /\ paramBuf'[l].cap = paramBuf[l].cap
       \/ paramBuf'[l].cap = bigSize
       \/ lpc[l] = "makeParam" /\ paramBuf'[l].cap = 2 * paramBuf[l].cap
  /\ lpc'[l] \in Offering =>
       \/ lpc[l] \in Offering /\ errorBuf'[l].cap = errorBuf[l].cap
       \/ errorBuf'[l].cap \in {smallSize, bigSize}
       \/ lpc[l] = "makeError" /\ errorBuf'[l].cap = 2 * errorBuf[l].cap

LEMMA SourceOfSizes ==
  ASSUME IInv, NEW l \in Listeners, Listen(l)
  PROVE  Source(l)
<1>1. /\ lpc \in [Listeners -> {lpc[k] : k \in Listeners}]
      /\ paramBuf \in [Listeners -> Buffers] /\ errorBuf \in [Listeners -> Buffers]
  BY DEF IInv, TypeOK
<1>2. CASE Start(l) \/ ChannelClosed(l) \/ NoHandler(l) \/ HandlerSeen(l) \/ HandlerReturns(l)
  <2>1. lpc'[l] \in {"next", "done", "result", "call"} /\ UNCHANGED <<bigSize, smallSize>>
    BY <1>1, <1>2
    DEF Start, ChannelClosed, NoHandler, HandlerSeen, HandlerReturns, Listening, bufferVars
  <2> QED
    BY <2>1 DEF Source, Offering
<1>3. CASE NextEvent(l)
  <2>1. lpc'[l] = "getSmall" /\ paramBuf'[l].cap = bigSize /\ UNCHANGED <<bigSize, smallSize>>
    BY <1>1, <1>3 DEF NextEvent, BufferOf, Listening
  <2> QED
    BY <2>1 DEF Source, Offering
<1>4. CASE GetSmallBuffer(l)
  <2>1. /\ lpc[l] = "getSmall" /\ errorBuf'[l].cap = smallSize
        /\ UNCHANGED <<bigSize, smallSize, paramBuf>>
    BY <1>1, <1>4 DEF GetSmallBuffer, BufferOf, Listening
  <2> QED
    BY <2>1 DEF Source, Offering
<1>5. CASE Enter(l) \/ InstanceGone(l)
  <2>1. lpc[l] \in {"enter", "result"} /\ UNCHANGED bufferVars
    BY <1>5 DEF Enter, InstanceGone, Listening, Panics
  <2>2. lpc[l] = "enter" \/ lpc'[l] = "result"
    BY <1>5 DEF Enter, InstanceGone, Listening, Panics
  <2> QED
    BY <2>1, <2>2 DEF Source, Offering, bufferVars
<1>6. CASE Recall(l) \/ \E t \in Threads : Receive(l, t)
  <2>1. lpc[l] \in {"receive", "recall"} /\ UNCHANGED <<bigSize, smallSize>>
    BY <1>6 DEF Recall, Receive, Panics, bufferVars
  <2>2. ASSUME NEW from, NEW e, Bring(l, from, e)
        PROVE  paramBuf'[l].cap = paramBuf[l].cap /\ errorBuf'[l].cap = errorBuf[l].cap
    BY <1>1, <2>2 DEF Bring, Buffers
  <2>3. paramBuf'[l].cap = paramBuf[l].cap /\ errorBuf'[l].cap = errorBuf[l].cap
    BY <1>6, <2>2 DEF Recall, Receive, Panics, bufferVars
  <2> QED
    BY <2>1, <2>3 DEF Source, Offering
<1>7. CASE GlowParam(l)
  <2>1. /\ lpc[l] = "glowParam" /\ bigSize' = 2 * paramBuf[l].cap
        /\ UNCHANGED <<smallSize, paramBuf, errorBuf>>
    BY <1>7 DEF GlowParam, Glow, Listening
  <2> QED
    BY <2>1 DEF Source, Offering
<1>8. CASE GlowError(l)
  <2>1. /\ lpc[l] = "glowError" /\ bigSize' = 2 * errorBuf[l].cap
        /\ UNCHANGED <<smallSize, paramBuf, errorBuf>>
    BY <1>8 DEF GlowError, Glow, Listening
  <2> QED
    BY <2>1 DEF Source, Offering
<1>9. CASE MakeParam(l)
  <2>1. /\ lpc[l] = "makeParam" /\ UNCHANGED <<bigSize, smallSize, errorBuf>>
        /\ \/ paramBuf' = paramBuf
           \/ paramBuf'[l].cap \in {bigSize, 2 * paramBuf[l].cap}
    BY <1>1, <1>9 DEF MakeParam, Made, BufferOf, Listening, Panics, bufferVars
  <2> QED
    BY <2>1 DEF Source, Offering
<1>10. CASE MakeError(l)
  <2>1. /\ lpc[l] = "makeError" /\ UNCHANGED <<bigSize, smallSize, paramBuf>>
        /\ \/ errorBuf' = errorBuf
           \/ errorBuf'[l].cap \in {bigSize, 2 * errorBuf[l].cap}
    BY <1>1, <1>10 DEF MakeError, Made, BufferOf, Listening, Panics, bufferVars
  <2> QED
    BY <2>1 DEF Source, Offering
<1>11. CASE CallHandler(l) \/ EventResult(l)
  <2>1. lpc'[l] \in {"handling", "next", "call", "result"} /\ UNCHANGED <<bigSize, smallSize>>
    BY <1>1, <1>11 DEF CallHandler, EventResult, Respond, Listening, Panics, bufferVars
  <2> QED
    BY <2>1 DEF Source, Offering
<1> QED
  BY <1>2, <1>3, <1>4, <1>5, <1>6, <1>7, <1>8, <1>9, <1>10, <1>11 DEF Listen

LEMMA FloorStep ==
  ASSUME IInv, [Next]_vars, NEW n \in Nat, BigAtLeast(n)
  PROVE  BigAtLeast(n)'
<1>1. ASSUME NEW l \in Listeners, Listen(l)
      PROVE  BigAtLeast(n)'
  <2>1. bigSize \in Nat /\ smallSize \in Nat /\ paramBuf[l].cap \in Nat /\ errorBuf[l].cap \in Nat
    BY CIntAssumption DEF IInv, TypeOK, Buffers
  <2>2. Source(l) /\ \A m \in Listeners \ {l} :
          lpc'[m] = lpc[m] /\ paramBuf'[m] = paramBuf[m] /\ errorBuf'[m] = errorBuf[m]
    BY <1>1, SourceOfSizes, OthersBuffers
  <2>3. bigSize' >= n /\ 2 * smallSize' >= n
    BY <2>1, <2>2 DEF Source, BigAtLeast, Offering
  <2>4. lpc'[l] \in Offering \cup {"getSmall"} => paramBuf'[l].cap >= n
    BY <2>1, <2>2 DEF Source, BigAtLeast, Offering
  <2>5. lpc'[l] \in Offering => 2 * errorBuf'[l].cap >= n
    BY <2>1, <2>2 DEF Source, BigAtLeast, Offering
  <2> QED
    BY <2>2, <2>3, <2>4, <2>5 DEF BigAtLeast
<1>2. ASSUME NEW t \in Threads, Emit(t) \/ EmitNotFound(t) \/ SendOnClosed(t) \/ Leave(t)
      PROVE  UNCHANGED <<bufferVars, lpc>>
  BY <1>2 DEF Emit, EmitNotFound, SendOnClosed, Leave, Panics
<1>3. CASE SetEventHandler \/ FreePlugin \/ UNCHANGED vars
  BY <1>3 DEF SetEventHandler, FreePlugin, vars, bufferVars, BigAtLeast
<1> QED
  BY <1>1, <1>2, <1>3 DEF Next, bufferVars, BigAtLeast

\* However the listeners interleave, and though their error buffers grow
\* through the manager of the big ones, nothing goes below the smallest
\* capacity in play.
THEOREM EventFloorHolds == Spec => FloorHolds
<1>1. IInv /\ [Next]_vars => [\A n \in 1 .. CIntMax : BigAtLeast(n) => BigAtLeast(n)']_vars
  BY FloorStep, CIntAssumption
<1> QED
  BY Invariance, <1>1, PTL DEF Spec, FloorHolds
=============================================================================
