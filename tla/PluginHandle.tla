---------------------------- MODULE PluginHandle ----------------------------
(***************************************************************************)
(* One PluginHandle as the application uses it: the request path and the   *)
(* event path together, on the instance and the two bufferManagers they    *)
(* share.                                                                  *)
(*                                                                         *)
(* The paths meet in three ways.  Callers and listeners move the same      *)
(* bufferSize.  A method may call EventEmit before it returns, and its     *)
(* caller waits in the plugin for a listener.  An event handler may call   *)
(* methods of the handle, on the listener that brought the event; such a   *)
(* method may emit in turn.                                                *)
(*                                                                         *)
(* Either path on its own is an open system whose environment, the other   *)
(* path, moves the sizes (OpenSpec).  Each path has its own halted here,   *)
(* to tell which of the two ended the process; neither moves after that.   *)
(***************************************************************************)
EXTENDS CBuffers

CONSTANTS
  Callers,      \* goroutines of the application that call methods
  Emitters,     \* goroutines of the plugin's own that emit events
  Listeners,    \* goroutines NewPlugin starts
  Methods,      \* the methods that are called
  Args,         \* the kinds of argument they are called with
  Results,      \* the kinds of result handlers return
  ResultLens, ParamLens, ErrorLens,   \* as in RequestCall and EventLoop
  BigInit, SmallInit,
  MaxCalls, MaxDepth, MaxEmits, MaxEvents,
  AllowFree, AllowUnset,
  Nothing

ASSUME HandleAssumption ==
  /\ Callers \cap Listeners = {}
  /\ Emitters \cap (Callers \cup Listeners) = {}
  /\ Methods \subseteq {"Init", "Start", "Stop", "Reload", "Fini", "Command"}
  /\ Results \subseteq {"good", "undecodable", "unencodable"}
  /\ ResultLens \cup ParamLens \subseteq Nat \ {0}
  /\ ErrorLens \subseteq Nat
  /\ MaxDepth \in Nat /\ MaxEmits \in Nat
  /\ MaxCalls \in Nat /\ MaxCalls < IdSpan
  /\ MaxEvents \in Nat /\ MaxEvents < IdSpan
  /\ AllowFree \in BOOLEAN /\ AllowUnset \in BOOLEAN

\* As SizesAssumption and EventSizesAssumption.
ASSUME HandleSizesAssumption ==
  /\ BigInit \in 1 .. CIntMax
  /\ SmallInit \in 1 .. CIntMax
  /\ \A n \in ResultLens \cup ParamLens \cup ErrorLens : 2 * (n - 1) <= CIntMax

VARIABLES
  live, bigSize, smallSize,                     \* what the paths share
  reqSetup, reqHalted, requestId, resultMap, pc, request, id, recall,
  resultBuf, errorBuf, got, runs, made, reply,  \* the request path
  evSetup, evHalted, handler, eventId, eventMap, emits, epc, event, evReply, lpc,
  evId, evRecall, paramBuf, evErrorBuf, evGot, verdict, evRuns, verdicts,
  quietFree                                     \* the event path

reqVars == <<reqSetup, reqHalted, requestId, resultMap, pc, request, id, recall,
             resultBuf, errorBuf, got, runs, made, reply>>
evVars == <<evSetup, evHalted, handler, eventId, eventMap, emits, epc, event, evReply,
            lpc, evId, evRecall, paramBuf, evErrorBuf, evGot, verdict, evRuns,
            verdicts, quietFree>>
vars == <<live, bigSize, smallSize, reqVars, evVars>>

\* Every function is configured on both sides: the other set-ups concern one
\* path alone.
RequestFuncs == {"newResultFunc", "newCommandResultFunc",
                 "newConfigFunc", "newCommandParamFunc"}
EventFuncs == {"newEventParamFunc", "newEventResultFunc"}

\* Handlers call methods on their listener.
CallThreads == Callers \cup Listeners

\* The modules of the proofs bring the theorems of each path with it.
Req == INSTANCE RequestCallProofs WITH
  Callers <- CallThreads, Setups <- {RequestFuncs}, setup <- reqSetup,
  halted <- reqHalted

Ev == INSTANCE EventLoopProofs WITH
  Emitters <- Callers \cup Emitters, Setups <- {EventFuncs}, setup <- evSetup,
  halted <- evHalted, reply <- evReply, id <- evId, recall <- evRecall,
  errorBuf <- evErrorBuf, got <- evGot, runs <- evRuns

ASSUME HandleNothingAssumption ==
  Nothing \notin Req!Answers \cup Ev!Events \cup Ev!Entries \cup Ev!Verdicts

-----------------------------------------------------------------------------
Halted == reqHalted \/ evHalted

\* What a step of one path leaves alone.
RequestPath == ~Halted /\ UNCHANGED evVars
EventPath == ~Halted /\ UNCHANGED reqVars

\* The method of the thread's call is running in the plugin.
InMethod(t) == t \in CallThreads /\ pc[t] = "run" /\ request[t].arg = "good"

\* A listener calls from the handler it runs.
MayCall(t) == t \in Listeners => lpc[t] = "handling" /\ epc[t] = "idle"

Invoke(t) ==
  /\ RequestPath
  /\ MayCall(t)
  /\ \E r \in Req!Requests :
       /\ r.arg \in Args
       /\ Req!NotOffered(t, r) \/ Req!EncodeFails(t, r) \/ Req!Begin(t, r)

\* A method that has called EventEmit waits for it.
Call(t) ==
  /\ RequestPath
  /\ epc[t] = "idle"
  /\ Req!Advance(t)

Return(t) == RequestPath /\ Req!Leave(t)

\* Threads of the application and listeners emit inside a method only.
EventEmit(t) ==
  /\ EventPath
  /\ t \in Emitters \/ InMethod(t)
  /\ Ev!Emit(t) \/ Ev!EmitNotFound(t)

EmitEnds(t) == EventPath /\ (Ev!SendOnClosed(t) \/ Ev!Leave(t))

\* A handler that has called a method waits for it.
Listen(l) ==
  /\ EventPath
  /\ pc[l] = "idle"
  /\ Ev!Listen(l)

SetEventHandler == EventPath /\ Ev!SetEventHandler

FreePlugin == ~Halted /\ Req!FreePlugin /\ Ev!FreePlugin

Init == Req!Init /\ Ev!Init

Next ==
  \/ \E t \in CallThreads : Invoke(t) \/ Call(t) \/ Return(t)
  \/ \E t \in CallThreads \cup Emitters : EventEmit(t) \/ EmitEnds(t)
  \/ \E l \in Listeners : Listen(l)
  \/ SetEventHandler
  \/ FreePlugin

Spec == Init /\ [][Next]_vars

\* What happens without the application: it owes no further call, no return to
\* what it did before, no handler and no free.
Progress ==
  \/ \E t \in CallThreads : Call(t)
  \/ \E t \in CallThreads \cup Emitters : EmitEnds(t)
  \/ \E l \in Listeners : Listen(l) \/ Return(l)

\* As long as some goroutine can run, one does.  Methods return once what they
\* emitted is answered, handlers once the methods they called have returned.
FairSpec == Spec /\ WF_vars(Progress)

-----------------------------------------------------------------------------
(* Properties.                                                             *)

\* To the request path the event path is an environment that moves the sizes
\* within what a C int can say, and conversely: what is shown of either path
\* in an open system holds of the two together.
OpenPaths == Req!OpenSpec /\ Ev!OpenSpec

\* The capacities in play on either path: of the big buffers n, of the small
\* ones m.
AtLeast(n, m) == Req!BigAtLeast(n) /\ Ev!BigAtLeast(n) /\ Req!SmallAtLeast(m)

\* Callers and listeners undo each other's growth, and the listeners' error
\* buffers grow through the manager of the big ones: still no buffer of either
\* path goes below the smallest capacity in play, or the double of the
\* smallest small one.
FloorsHold ==
  [][\A n, m \in 1 .. CIntMax : 2 * m >= n /\ AtLeast(n, m) => AtLeast(n, m)']_vars

\* Every listener is in a handler that waits, in a method it called, for the
\* answer to an event: no listener is left to take the one nobody has taken.
Starved ==
  \A l \in Listeners : lpc[l] = "handling" /\ epc[l] \in {"send", "await"}

\* A call of the application returns although its method emits, the handler
\* of that event calls the handle again, such a call emits in turn, and all of
\* them move the sizes; unless handlers occupy every listener, each waiting
\* for another, or the process has died.
CallsReturn ==
  \A c \in Callers :
    pc[c] # "idle" ~> pc[c] \in {"returned", "idle"} \/ Halted \/ Starved
=============================================================================
