----------------------------- MODULE EventLoop ------------------------------
(***************************************************************************)
(* The event path of one PluginHandle: EventEmit in the plugin, and the    *)
(* goroutines of the host that run eventListenerLoop.                      *)
(*                                                                         *)
(* A goroutine of the plugin sends its event with a channel for the        *)
(* response over the instance's eventReqChan and waits.  A listener        *)
(* receives it inside eventListenerLoopFunc, brings it to the host (coming *)
(* back with recall = 1 when a buffer is too small), calls the handler of  *)
(* the application and delivers the result with eventResultFunc, which     *)
(* finds the response channel in the instance's eventMap under the event   *)
(* id.  A handler may make the plugin emit again: it then waits in a       *)
(* listener for another listener.                                          *)
(*                                                                         *)
(* FreePlugin closes eventReqChan whatever the listeners are doing; a      *)
(* panic ends the whole process (halted).                                  *)
(***************************************************************************)
EXTENDS CBuffers

CONSTANTS
  Emitters,     \* goroutines of the plugin that emit events
  Listeners,    \* goroutines NewPlugin starts, one per CPU
  Setups,       \* the sets of functions the two sides may have configured
  Results,      \* what the results of handlers are to the coder
  ParamLens,    \* possible lengths of an encoded event parameter
  ErrorLens,    \* possible lengths of the text of an encoding error
  BigInit,      \* bigBufferSize
  SmallInit,    \* smallBufferSize
  MaxDepth,     \* how deep handlers make the plugin emit again
  MaxEmits,     \* bound: calls of EventEmit
  MaxEvents,    \* bound: event ids taken
  AllowFree,    \* whether the application ever frees the plugin
  AllowUnset,   \* whether it ever takes its handler back
  Nothing       \* an absent entry

ASSUME EventAssumption ==
  /\ Emitters \cap Listeners = {}
  /\ Setups \subseteq SUBSET {"newEventParamFunc", "newEventResultFunc"}
  /\ Results \subseteq {"good", "undecodable", "unencodable"}
  /\ ParamLens \subseteq Nat \ {0}
  /\ ErrorLens \subseteq Nat
  /\ MaxDepth \in Nat /\ MaxEmits \in Nat
  /\ MaxEvents \in Nat /\ MaxEvents < IdSpan
  /\ AllowFree \in BOOLEAN /\ AllowUnset \in BOOLEAN

ASSUME EventSizesAssumption ==
  /\ BigInit \in 1 .. CIntMax
  /\ SmallInit \in 1 .. CIntMax
  /\ \A n \in ParamLens \cup ErrorLens : 2 * (n - 1) <= CIntMax

VARIABLES
  setup,        \* the configuration functions that are not nil
  handler,      \* ph.eventHandler is not nil
  live,         \* the instance is in the instMap and its channel is open
  halted,       \* the process died of a panic
  eventId,      \* ph.eventIdGen.currentId
  bigSize,      \* ph.bigBufferMgr.bufferSize
  smallSize,    \* ph.smallBufferMgr.bufferSize
  eventMap,     \* the instance's eventMgr.eventMap
  emits,        \* calls of EventEmit: each numbers its response channel
  epc,          \* where each thread is in EventEmit
  event,        \* the event it emits
  reply,        \* what its EventEmit returned
  lpc,          \* where each listener is
  id,           \* its local eventId
  recall,       \* its local recall
  paramBuf,     \* its local eventParamBuffer with the word of its length
  errorBuf,     \* its local errorBuffer with the word of its length
  got,          \* the event whose bytes are in its buffers
  verdict,      \* what its handler returned
  runs,         \* how often the handler ran for each event (history)
  verdicts,     \* what it returned for each event (history)
  quietFree     \* FreePlugin found nothing under way (history)

emitVars == <<emits, epc, event, reply>>
bufferVars == <<bigSize, smallSize, paramBuf, errorBuf>>
callVars == <<eventId, id, recall, got, eventMap>>
handlerVars == <<verdict, runs, verdicts>>
appVars == <<setup, handler, live, quietFree>>

vars == <<emitVars, bufferVars, callVars, handlerVars, appVars, lpc, halted>>

-----------------------------------------------------------------------------
(* Values.                                                                 *)

Threads == Emitters \cup Listeners

\* An event: its number, which is also its response channel, how deep in
\* handlers it was emitted, the length of its encoded parameter (0 for nil)
\* or the length of the text of the error its encoding made.
EventsNumbered(numbers) ==
  {e \in [of : numbers, depth : 0 .. MaxDepth, len : {0} \cup ParamLens,
          failed : BOOLEAN, err : {0} \cup ErrorLens] :
     IF e.failed THEN e.len = 0 /\ e.err \in ErrorLens ELSE e.err = 0}
Events == EventsNumbered(1 .. MaxEmits)

\* An entry of the eventMap: the response channel, and the event while the
\* host is coming back for it.
Entries == [chan : 1 .. MaxEmits, parked : Events \cup {Nothing}]

\* What a handler returns.  A nil result is sent as no bytes at all, which
\* do not decode.
Verdicts == [result : Results, failed : BOOLEAN]

\* What EventEmit returns: its result (decoded, as newEventResultFunc made
\* it, or nil) and the kind of its error: that nothing was handled, that the
\* result could not be encoded or decoded, the encoded bytes of the handler's
\* error taken for a text, or that error itself.
Replies == [result : {"value", "blank", "nil"},
            error : {"none", "refused", "codec", "garbled", "handler"}]

ASSUME EventNothingAssumption == Nothing \notin Events \cup Entries \cup Verdicts

NoReply == [result |-> "nil", error |-> "none"]
NoBuffer == BufferOf(0)

-----------------------------------------------------------------------------
(* Moves.                                                                  *)

Emitting(t, from, to) ==
  /\ ~halted
  /\ UNCHANGED halted
  /\ epc[t] = from
  /\ epc' = [epc EXCEPT ![t] = to]

Listening(l, from, to) ==
  /\ ~halted
  /\ UNCHANGED halted
  /\ lpc[l] = from
  /\ lpc' = [lpc EXCEPT ![l] = to]

Panics ==
  /\ ~halted
  /\ halted' = TRUE
  /\ UNCHANGED <<emitVars, bufferVars, callVars, handlerVars, appVars, lpc>>

-----------------------------------------------------------------------------
(* EventEmit.                                                              *)

\* A listener emits in the plugin, called from its handler.
MayEmit(t) ==
  \/ t \in Emitters
  \/ t \in Listeners /\ lpc[t] = "handling" /\ got[t].depth < MaxDepth

DepthOf(t) == IF t \in Emitters THEN 0 ELSE got[t].depth + 1

\* eventEmit finds the instance; it then waits to send on its channel.
Emit(t) ==
  /\ Emitting(t, "idle", "send")
  /\ MayEmit(t)
  /\ live
  /\ emits < MaxEmits
  /\ emits' = emits + 1
  /\ \E e \in EventsNumbered({emits'}) :
       /\ e.depth = DepthOf(t)
       /\ event' = [event EXCEPT ![t] = e]
  /\ UNCHANGED <<reply, bufferVars, callVars, handlerVars, appVars, lpc>>

EmitNotFound(t) ==
  /\ Emitting(t, "idle", "returned")
  /\ MayEmit(t)
  /\ ~live
  /\ emits < MaxEmits
  /\ emits' = emits + 1
  /\ reply' = [reply EXCEPT ![t] = [result |-> "nil", error |-> "refused"]]
  /\ UNCHANGED <<event, bufferVars, callVars, handlerVars, appVars, lpc>>

\* The channel is closed before or while the thread waits to send on it.
SendOnClosed(t) ==
  /\ epc[t] = "send"
  /\ ~live
  /\ Panics

Leave(t) ==
  /\ Emitting(t, "returned", "idle")
  /\ event' = [event EXCEPT ![t] = Nothing]
  /\ reply' = [reply EXCEPT ![t] = NoReply]
  /\ UNCHANGED <<emits, bufferVars, callVars, handlerVars, appVars, lpc>>

-----------------------------------------------------------------------------
(* A listener, from the host into the plugin.                              *)

\* Without newEventParamFunc eventListenerLoop returns at once.
Start(l) ==
  /\ Listening(l, "start", IF "newEventParamFunc" \in setup THEN "next" ELSE "done")
  /\ UNCHANGED <<emitVars, bufferVars, callVars, handlerVars, appVars>>

\* Mutant of NextEvent: the generator without its mutex, two listeners with
\* one id.
NextEventRacyId(l) ==
  /\ Listening(l, "next", "getSmall")
  /\ eventId < MaxEvents
  /\ eventId' \in {NextId(eventId)} \cup ({eventId} \ {0})
  /\ id' = [id EXCEPT ![l] = eventId']
  /\ paramBuf' = [paramBuf EXCEPT ![l] = BufferOf(bigSize)]
  /\ UNCHANGED <<recall, got, eventMap, bigSize, smallSize, errorBuf,
                 emitVars, handlerVars, appVars>>

\* Mutant of NextEvent: the parameter's buffer is made by the small manager.
NextEventSmall(l) ==
  /\ Listening(l, "next", "getSmall")
  /\ eventId < MaxEvents
  /\ eventId' = NextId(eventId)
  /\ id' = [id EXCEPT ![l] = eventId']
  /\ paramBuf' = [paramBuf EXCEPT ![l] = BufferOf(smallSize)]
  /\ UNCHANGED <<recall, got, eventMap, bigSize, smallSize, errorBuf,
                 emitVars, handlerVars, appVars>>

\* The id and the first buffer: the generator is the listeners' own.
NextEvent(l) ==
  /\ Listening(l, "next", "getSmall")
  /\ eventId < MaxEvents
  /\ eventId' = NextId(eventId)
  /\ id' = [id EXCEPT ![l] = eventId']
  /\ paramBuf' = [paramBuf EXCEPT ![l] = BufferOf(bigSize)]
  /\ UNCHANGED <<recall, got, eventMap, bigSize, smallSize, errorBuf,
                 emitVars, handlerVars, appVars>>

GetSmallBuffer(l) ==
  /\ Listening(l, "getSmall", "enter")
  /\ errorBuf' = [errorBuf EXCEPT ![l] = BufferOf(smallSize)]
  /\ UNCHANGED <<bigSize, smallSize, paramBuf, emitVars, callVars, handlerVars,
                 appVars>>

\* Mutant of Enter: recall is not looked at.
EnterAnew(l) ==
  /\ Listening(l, "enter", "receive")
  /\ live
  /\ UNCHANGED <<emitVars, bufferVars, callVars, handlerVars, appVars>>

\* getInstance finds the instance; what follows uses the pointer it returned.
Enter(l) ==
  /\ Listening(l, "enter", IF recall[l] THEN "recall" ELSE "receive")
  /\ live
  /\ UNCHANGED <<emitVars, bufferVars, callVars, handlerVars, appVars>>

InstanceGone(l) ==
  /\ lpc[l] \in {"enter", "result"}
  /\ ~live
  /\ Panics

\* Mutants of ChannelClosed: the listener loops, or is not woken.
ChannelClosedLoops(l) ==
  /\ Listening(l, "receive", "next")
  /\ ~live
  /\ UNCHANGED <<emitVars, bufferVars, callVars, handlerVars, appVars>>
ChannelNotClosed(l) == FALSE

ChannelClosed(l) ==
  /\ Listening(l, "receive", "done")
  /\ ~live
  /\ UNCHANGED <<emitVars, bufferVars, callVars, handlerVars, appVars>>

ParamFits(l, e) == HoldsData(paramBuf[l], e.len)

\* Mutant of ErrorFits: room is left for a terminator the buffer has not got.
ErrorFitsOneOver(l, e) == ~e.failed \/ e.err <= AsCInt(errorBuf[l].len) + 1

ErrorFits(l, e) == HoldsError(errorBuf[l], e.failed, e.err)

\* What the plugin does with the event it received, or had parked: it asks
\* for a larger buffer or copies the event out.
Bring(l, from, e) ==
  \/ /\ ~ParamFits(l, e)
     /\ Listening(l, from, "glowParam")
     /\ UNCHANGED <<got, paramBuf, errorBuf>>
  \/ /\ ParamFits(l, e)
     /\ ~ErrorFits(l, e)
     /\ Listening(l, from, "glowError")
     /\ UNCHANGED <<got, paramBuf, errorBuf>>
  \/ /\ ParamFits(l, e)
     /\ ErrorFits(l, e)
     /\ Listening(l, from, "decide")
     /\ got' = [got EXCEPT ![l] = e]
     /\ paramBuf' = [paramBuf EXCEPT ![l].len = e.len]
     /\ errorBuf' = [errorBuf EXCEPT ![l].len = IF e.failed THEN e.err ELSE 0]

\* The channel has no buffer: the thread's send and the receive are one.
Receive(l, t) ==
  /\ lpc[l] = "receive"
  /\ live
  /\ Emitting(t, "send", "await")
  /\ Bring(l, "receive", event[t])
  /\ eventMap' = [eventMap EXCEPT ![id[l]] =
       [chan |-> event[t].of,
        parked |-> IF lpc'[l] = "decide" THEN Nothing ELSE event[t]]]
  /\ UNCHANGED <<emits, event, reply, bigSize, smallSize, eventId, id, recall,
                 handlerVars, appVars>>

\* A later call: the parked event.  The code takes its absence for impossible.
Recall(l) ==
  /\ lpc[l] = "recall"
  /\ \/ /\ eventMap[id[l]] = Nothing
        /\ Panics
     \/ /\ eventMap[id[l]] # Nothing
        /\ Bring(l, "recall", eventMap[id[l]].parked)
        /\ UNCHANGED <<emitVars, bigSize, smallSize, eventId, id, recall,
                       eventMap, handlerVars, appVars>>

-----------------------------------------------------------------------------
(* Back in the host.  The store and the load of glowBuffer are not          *)
(* synchronised, and the error buffer grows through bigBufferMgr too.      *)

\* Mutant of Glow: the shared size is doubled, not the listener's own.
GlowShared(l, from, to, buf) ==
  /\ Listening(l, from, to)
  /\ bigSize' = 2 * bigSize
  /\ UNCHANGED <<smallSize, paramBuf, errorBuf, emitVars, callVars, handlerVars,
                 appVars>>

Glow(l, from, to, buf) ==
  /\ Listening(l, from, to)
  /\ bigSize' = 2 * buf.cap
  /\ UNCHANGED <<smallSize, paramBuf, errorBuf, emitVars, callVars, handlerVars,
                 appVars>>

GlowParam(l) == Glow(l, "glowParam", "makeParam", paramBuf[l])
GlowError(l) == Glow(l, "glowError", "makeError", errorBuf[l])

Made(l, from) ==
  /\ Listening(l, from, "enter")
  /\ recall' = [recall EXCEPT ![l] = TRUE]
  /\ UNCHANGED <<bigSize, smallSize, eventId, id, got, eventMap, emitVars,
                 handlerVars, appVars>>

\* Mutant of MakeParam: the new buffer is as short as the old one.
MakeParamSame(l) ==
  /\ Made(l, "makeParam")
  /\ paramBuf' = [paramBuf EXCEPT ![l] = BufferOf(paramBuf[l].cap)]
  /\ UNCHANGED errorBuf

MakeParam(l) ==
  \E n \in {bigSize, 2 * paramBuf[l].cap} :
    \/ /\ n <= MaxAlloc
       /\ Made(l, "makeParam")
       /\ paramBuf' = [paramBuf EXCEPT ![l] = BufferOf(n)]
       /\ UNCHANGED errorBuf
    \/ /\ n > MaxAlloc
       /\ lpc[l] = "makeParam"
       /\ Panics

MakeError(l) ==
  \E n \in {bigSize, 2 * errorBuf[l].cap} :
    \/ /\ n <= MaxAlloc
       /\ Made(l, "makeError")
       /\ errorBuf' = [errorBuf EXCEPT ![l] = BufferOf(n)]
       /\ UNCHANGED paramBuf
    \/ /\ n > MaxAlloc
       /\ lpc[l] = "makeError"
       /\ Panics

\* No handler: the result function is told so.
NoHandler(l) ==
  /\ Listening(l, "decide", "result")
  /\ ~handler
  /\ UNCHANGED <<emitVars, bufferVars, callVars, handlerVars, appVars>>

HandlerSeen(l) ==
  /\ Listening(l, "decide", "call")
  /\ handler
  /\ UNCHANGED <<emitVars, bufferVars, callVars, handlerVars, appVars>>

\* The field is read again for the call, unless the build kept it.
CallHandler(l) ==
  \/ /\ Listening(l, "call", "handling")
     /\ UNCHANGED <<emitVars, bufferVars, callVars, handlerVars, appVars>>
  \/ /\ lpc[l] = "call"
     /\ ~handler
     /\ Panics

HandlerReturns(l) ==
  /\ Listening(l, "handling", "result")
  /\ epc[l] = "idle"
  /\ \E v \in Verdicts :
       /\ verdict' = [verdict EXCEPT ![l] = v]
       /\ verdicts' = [verdicts EXCEPT ![got[l].of] = v]
  /\ runs' = [runs EXCEPT ![got[l].of] = @ + 1]
  /\ UNCHANGED <<emitVars, bufferVars, callVars, appVars>>

\* Mutants of ResponseTo: no response is made when nothing was handled, or
\* the error of the handler is left out.
ResponseToHandled(v) ==
  IF v = Nothing THEN Nothing ELSE [result |-> "value", error |-> "none"]
ResponseToLosesError(v) ==
  IF v = Nothing THEN [result |-> "blank", error |-> "refused"]
  ELSE IF v.result # "good" THEN [result |-> "blank", error |-> "codec"]
  ELSE [result |-> "value", error |-> "none"]

\* The response eventResultFunc makes of the handler's verdict: the error the
\* handler returned is looked at last, when everything else went well.
ResponseTo(v) ==
  IF "newEventResultFunc" \notin setup
    THEN [result |-> "nil", error |-> "refused"]
  ELSE IF v = Nothing
    THEN [result |-> "blank", error |-> "refused"]
  ELSE IF v.result # "good"
    THEN [result |-> "blank", error |-> "codec"]
  ELSE [result |-> "value", error |-> IF v.failed THEN "garbled" ELSE "none"]

\* eventManager.delete, and its mutant that deletes nothing.
DeleteNothing(l) == UNCHANGED eventMap
Delete(l) == eventMap' = [eventMap EXCEPT ![id[l]] = Nothing]

\* The thread waiting on the response channel of the entry takes the response,
\* the entry is deleted and the listener loops.
Respond(l) ==
  /\ Listening(l, "result", "next")
  /\ \E t \in Threads :
       /\ epc[t] = "await"
       /\ event[t].of = eventMap[id[l]].chan
       /\ epc' = [epc EXCEPT ![t] = "returned"]
       /\ reply' = [reply EXCEPT ![t] = ResponseTo(verdict[l])]
  /\ Delete(l)
  /\ recall' = [recall EXCEPT ![l] = FALSE]
  /\ paramBuf' = [paramBuf EXCEPT ![l] = NoBuffer]
  /\ errorBuf' = [errorBuf EXCEPT ![l] = NoBuffer]
  /\ got' = [got EXCEPT ![l] = Nothing]
  /\ verdict' = [verdict EXCEPT ![l] = Nothing]
  /\ UNCHANGED <<emits, event, bigSize, smallSize, eventId, id, runs, verdicts,
                 appVars>>

\* eventResultFunc takes a missing entry for impossible.
EventResult(l) ==
  /\ lpc[l] = "result"
  /\ live
  /\ IF eventMap[id[l]] = Nothing THEN Panics ELSE Respond(l)

-----------------------------------------------------------------------------
(* The application.                                                        *)

SetEventHandler ==
  /\ ~halted
  /\ handler' \in IF AllowUnset THEN BOOLEAN ELSE {TRUE}
  /\ handler' # handler
  /\ UNCHANGED <<setup, live, quietFree, halted, emitVars, bufferVars, callVars,
                 handlerVars, lpc>>

\* No event is under way, no listener is left to come back to the plugin.
Quiet ==
  /\ \A l \in Listeners : lpc[l] \in {"receive", "done"}
  /\ \A t \in Threads : epc[t] # "send"

\* FreePlugin, through deleteInstance: the channel is closed and the
\* instance leaves the instMap.
FreePlugin ==
  /\ AllowFree
  /\ ~halted
  /\ live
  /\ live' = FALSE
  /\ quietFree' = Quiet
  /\ UNCHANGED <<setup, handler, halted, emitVars, bufferVars, callVars,
                 handlerVars, lpc>>

-----------------------------------------------------------------------------
Init ==
  /\ setup \in Setups
  /\ handler = FALSE
  /\ live = TRUE
  /\ halted = FALSE
  /\ eventId = 0
  /\ bigSize = BigInit
  /\ smallSize = SmallInit
  /\ eventMap = [i \in Ids |-> Nothing]
  /\ emits = 0
  /\ epc = [t \in Threads |-> "idle"]
  /\ event = [t \in Threads |-> Nothing]
  /\ reply = [t \in Threads |-> NoReply]
  /\ lpc = [l \in Listeners |-> "start"]
  /\ id = [l \in Listeners |-> 0]
  /\ recall = [l \in Listeners |-> FALSE]
  /\ paramBuf = [l \in Listeners |-> NoBuffer]
  /\ errorBuf = [l \in Listeners |-> NoBuffer]
  /\ got = [l \in Listeners |-> Nothing]
  /\ verdict = [l \in Listeners |-> Nothing]
  /\ runs = [k \in 1 .. MaxEmits |-> 0]
  /\ verdicts = [k \in 1 .. MaxEmits |-> Nothing]
  /\ quietFree = FALSE

\* What a listener does on its own.
Listen(l) ==
  \/ Start(l) \/ NextEvent(l) \/ GetSmallBuffer(l)
  \/ Enter(l) \/ InstanceGone(l) \/ ChannelClosed(l)
  \/ \E t \in Threads : Receive(l, t)
  \/ Recall(l)
  \/ GlowParam(l) \/ MakeParam(l) \/ GlowError(l) \/ MakeError(l)
  \/ NoHandler(l) \/ HandlerSeen(l) \/ CallHandler(l) \/ HandlerReturns(l)
  \/ EventResult(l)

Next ==
  \/ \E l \in Listeners : Listen(l)
  \/ \E t \in Threads : Emit(t) \/ EmitNotFound(t) \/ SendOnClosed(t) \/ Leave(t)
  \/ SetEventHandler
  \/ FreePlugin

Spec == Init /\ [][Next]_vars

\* The request path of the same handle moves the sizes as well, within what
\* a C int can say.
Resized ==
  /\ bigSize' \in 1 .. CIntMax
  /\ smallSize' \in 1 .. CIntMax
  /\ UNCHANGED <<emitVars, paramBuf, errorBuf, callVars, handlerVars, appVars,
                 lpc, halted>>

OpenSpec == Init /\ [][Next \/ Resized]_vars

\* The scheduler runs every listener, handlers return once what they emitted
\* is answered, and an EventEmit that has its response returns.
FairSpec ==
  /\ Spec
  /\ \A l \in Listeners : WF_vars(Listen(l))
  /\ \A t \in Threads : WF_vars(SendOnClosed(t) \/ Leave(t))

-----------------------------------------------------------------------------
(* Properties.                                                             *)

\* Every variable has its type.
TypeOK ==
  /\ setup \in Setups
  /\ handler \in BOOLEAN /\ live \in BOOLEAN /\ halted \in BOOLEAN
  /\ quietFree \in BOOLEAN
  /\ eventId \in 0 .. MaxEvents
  /\ bigSize \in Nat /\ smallSize \in Nat
  /\ eventMap \in [Ids -> Entries \cup {Nothing}]
  /\ emits \in 0 .. MaxEmits
  /\ epc \in [Threads -> {"idle", "send", "await", "returned"}]
  /\ event \in [Threads -> Events \cup {Nothing}]
  /\ reply \in [Threads -> Replies]
  /\ lpc \in [Listeners ->
       {"start", "next", "getSmall", "enter", "receive", "recall", "glowParam",
        "makeParam", "glowError", "makeError", "decide", "call", "handling",
        "result", "done"}]
  /\ id \in [Listeners -> 0 .. MaxEvents]
  /\ recall \in [Listeners -> BOOLEAN]
  /\ paramBuf \in [Listeners -> Buffers]
  /\ errorBuf \in [Listeners -> Buffers]
  /\ got \in [Listeners -> Events \cup {Nothing}]
  /\ verdict \in [Listeners -> Verdicts \cup {Nothing}]
  /\ runs \in [1 .. MaxEmits -> 0 .. 1]
  /\ verdicts \in [1 .. MaxEmits -> Verdicts \cup {Nothing}]

\* The host has an event in hand.
HasEvent(l) == lpc[l] \in {"decide", "call", "handling", "result"}

\* The listener has received an event it has not responded to.
Carrying(l) ==
  \/ HasEvent(l)
  \/ lpc[l] \in {"glowParam", "makeParam", "glowError", "makeError"}
  \/ recall[l] /\ lpc[l] \in {"enter", "recall"}

Carries(l, k) ==
  Carrying(l) /\ eventMap[id[l]] # Nothing /\ eventMap[id[l]].chan = k

\* The eventMap holds exactly the events being carried: no listener finds its
\* entry missing, and no entry stays behind.
EventMapMatches ==
  \A i \in Ids :
    eventMap[i] # Nothing <=> \E l \in Listeners : id[l] = i /\ Carrying(l)

\* Whoever waits for a response is owed it by one listener and not by two,
\* and nobody who has stopped waiting is sent one: a listener would block on
\* the response channel for ever.
AwaitedIsCarried ==
  /\ \A t \in Threads : epc[t] = "await" =>
       \E l \in Listeners : Carries(l, event[t].of)
  /\ \A l \in Listeners : Carrying(l) =>
       \E t \in Threads : epc[t] = "await" /\ Carries(l, event[t].of)
  /\ \A l, m \in Listeners : \A k \in 1 .. MaxEmits :
       Carries(l, k) /\ Carries(m, k) => l = m

\* The handler works on the bytes of the event its result will respond to, and
\* on as many, however the ids and the buffers of the listeners interleave.
HandlerSeesOwnEvent ==
  \A l \in Listeners : HasEvent(l) =>
    /\ Carries(l, got[l].of)
    /\ paramBuf[l].len = got[l].len /\ errorBuf[l].len = got[l].err

\* The copies of the plugin never run past the buffers of the host.
NoOverrun ==
  \A l \in Listeners : HasEvent(l) => /\ paramBuf[l].len <= paramBuf[l].cap
                                      /\ errorBuf[l].len <= errorBuf[l].cap

\* Nothing was handled, or eventResultFunc cannot make a result.
Refusal(r) == r.error = "refused" /\ r.result # "value"

\* What is said of a handler's verdict.  A result that can be encoded and
\* decoded is there, with an error if and only if the handler returned one; of
\* any other the emitter learns that it was lost, and whether the handler
\* returned an error is lost with it.
Says(r, v) ==
  IF v.result = "good"
    THEN r.result = "value" /\ r.error = (IF v.failed THEN "garbled" ELSE "none")
    ELSE r.result = "blank" /\ r.error = "codec"

Tells(r, v) == Refusal(r) \/ Says(r, v)

\* EventEmit returns what the handler made of this event and of no other, as
\* far as it is said, and is refused exactly when no handler saw the event or
\* the plugin never made its result function.
ResponseTellsVerdict ==
  \A t \in Threads : epc[t] = "returned" =>
    IF \/ event[t] = Nothing \/ runs[event[t].of] = 0
       \/ "newEventResultFunc" \notin setup
      THEN Refusal(reply[t])
      ELSE Says(reply[t], verdicts[event[t].of])

\* The process dies only of a FreePlugin that came while an event was under
\* way or a listener away from the channel, or of a handler taken back
\* between the check of the field and the call.
HaltsOnlyUnquiet ==
  halted => \/ ~live /\ ~quietFree
            \/ \E l \in Listeners : lpc[l] = "call" /\ ~handler

\* The capacities in play: the big size, the buffers a listener may still
\* double, and the doubles of error buffers, those that are yet to be made of
\* the small size included.
Offering == {"enter", "receive", "recall", "glowParam", "makeParam", "glowError", "makeError"}
BigAtLeast(n) ==
  /\ bigSize >= n /\ 2 * smallSize >= n
  /\ \A l \in Listeners :
       /\ lpc[l] \in Offering \cup {"getSmall"} => paramBuf[l].cap >= n
       /\ lpc[l] \in Offering => 2 * errorBuf[l].cap >= n

\* The error buffer grows through bigBufferMgr and sets the big size back to
\* the double of a small one, but no store and no buffer goes below the
\* smallest capacity in play.
FloorHolds == [][\A n \in 1 .. CIntMax : BigAtLeast(n) => BigAtLeast(n)']_vars

\* Every listener is in a handler that waits for the answer to an event of
\* its own: none is left to take the one nobody has taken.
Starved ==
  \A l \in Listeners : lpc[l] = "handling" /\ epc[l] \in {"send", "await"}

\* An emitted event is answered, in spite of handlers that emit in turn and
\* of buffers that shrink under the listeners; unless handlers occupy every
\* listener, each waiting for another, or the process has died.
EmitsAnswered ==
  \A t \in Threads :
    epc[t] = "send" /\ "newEventParamFunc" \in setup
      ~> epc[t] \in {"idle", "returned"} \/ halted \/ Starved

\* Once the plugin is freed its listeners come to an end.
ListenersFinish ==
  ~live ~> halted \/ \A l \in Listeners : lpc[l] = "done"

\* The error of the handler reaches the plugin as the handler made it, and is
\* neither replaced by an error of the coder nor taken for a text.
HandlerErrorReaches ==
  \A t \in Threads :
    epc[t] = "returned" /\ event[t] # Nothing =>
      LET v == verdicts[event[t].of]
      IN  v # Nothing => (v.failed <=> reply[t].error = "handler")

-----------------------------------------------------------------------------
(* The inductive invariant.                                                *)

SizesInv == bigSize \in 1 .. CIntMax /\ smallSize \in 1 .. CIntMax

\* No two listeners hold one id.
IdsInv ==
  \A l \in Listeners :
    /\ id[l] <= eventId
    /\ lpc[l] \notin {"start", "next", "done"} => id[l] # 0
    /\ id[l] # 0 => \A m \in Listeners \ {l} : id[m] # id[l]

\* A listener comes back to the plugin for an event it carries.
RecallInv ==
  \A l \in Listeners :
    /\ recall[l] => Carrying(l)
    /\ lpc[l] = "recall" => recall[l]

\* A buffer the plugin has not written to offers its whole capacity.
Offered(buf) == buf.cap \in 1 .. CIntMax /\ buf.len = buf.cap

OfferInv ==
  \A l \in Listeners :
    /\ lpc[l] \in {"getSmall", "enter", "receive", "recall", "glowParam", "makeParam",
                   "glowError", "makeError"} => Offered(paramBuf[l])
    /\ lpc[l] \in {"enter", "receive", "recall", "glowParam", "makeParam",
                   "glowError", "makeError"} => Offered(errorBuf[l])

\* A listener that carries an event has it, or comes back for it because a
\* buffer was too small.
CarriedInv ==
  \A l \in Listeners : Carrying(l) =>
    /\ HasEvent(l) => /\ got[l] \in Events /\ got[l].of = eventMap[id[l]].chan
                      /\ paramBuf[l].len = got[l].len /\ errorBuf[l].len = got[l].err
    /\ ~HasEvent(l) => /\ eventMap[id[l]].parked \in Events
                       /\ eventMap[id[l]].parked.of = eventMap[id[l]].chan
    /\ lpc[l] \in {"glowParam", "makeParam"} => ~ParamFits(l, eventMap[id[l]].parked)
    /\ lpc[l] \in {"glowError", "makeError"} => ~ErrorFits(l, eventMap[id[l]].parked)

\* Every event is one thread's.
EventsInv ==
  \A t \in Threads :
    /\ epc[t] = "idle" => event[t] = Nothing
    /\ epc[t] \in {"send", "await"} => event[t] # Nothing
    /\ event[t] # Nothing =>
         /\ event[t].of <= emits
         /\ \A u \in Threads \ {t} : event[u] # Nothing => event[u].of # event[t].of

\* The entries of the eventMap are those of the threads that wait, one each.
AwaitInv ==
  /\ \A t \in Threads : epc[t] = "await" =>
       \E i \in Ids : eventMap[i] # Nothing /\ eventMap[i].chan = event[t].of
  /\ \A i \in Ids : eventMap[i] # Nothing =>
       \E t \in Threads : epc[t] = "await" /\ eventMap[i].chan = event[t].of
  /\ \A i, j \in Ids : eventMap[i] # Nothing /\ eventMap[j] # Nothing
                         /\ eventMap[i].chan = eventMap[j].chan => i = j

\* The handler has run for no event but one that is responded to.
RunsInv ==
  /\ \A k \in 1 .. MaxEmits : k > emits => runs[k] = 0
  /\ \A t \in Threads : epc[t] = "send" => runs[event[t].of] = 0
  /\ \A l \in Listeners : verdict[l] # Nothing => lpc[l] = "result"
  /\ \A l \in Listeners : Carrying(l) =>
       LET k == eventMap[id[l]].chan
       IN  IF verdict[l] = Nothing THEN runs[k] = 0 ELSE runs[k] = 1 /\ verdicts[k] = verdict[l]

\* After a FreePlugin that found nothing under way nothing gets under way.
QuietInv == quietFree => ~live /\ Quiet

IInv ==
  /\ TypeOK /\ SizesInv /\ IdsInv /\ RecallInv /\ OfferInv /\ NoOverrun
  /\ EventMapMatches /\ CarriedInv /\ EventsInv /\ AwaitInv /\ RunsInv
  /\ ResponseTellsVerdict /\ QuietInv /\ HaltsOnlyUnquiet

-----------------------------------------------------------------------------
(* The event path seen as calls from the plugin to the handler.            *)

Handled(t) == event[t] # Nothing /\ runs[event[t].of] > 0
ExecutedVerdict ==
  [t \in Threads |-> IF Handled(t) THEN verdicts[event[t].of] ELSE Nothing]

PhaseOf(t) ==
  IF epc[t] = "idle" THEN "idle"
  ELSE IF epc[t] = "returned" THEN "replied"
  ELSE IF Handled(t) THEN "executed" ELSE "called"
Phase == [t \in Threads |-> PhaseOf(t)]

Abstract == INSTANCE Invocation WITH
  Callers <- Threads, Answers <- Verdicts, phase <- Phase, answer <- ExecutedVerdict

\* Channels, ids, listeners and the eventMap implement a plain invocation: the
\* handler runs at most once for an event and its emitter is told what it made.
ImplementsInvocation == Abstract!Spec
=============================================================================
