---------------------------- MODULE RequestCall -----------------------------
(***************************************************************************)
(* The request path of one PluginHandle: Init, Start, Stop, Reload, Fini   *)
(* and Command, called by any number of goroutines of the application.     *)
(*                                                                         *)
(* The host half is callEpNoArg and callEpWithArg (plugger/plugger.go), the*)
(* plugin half noArgBaseFunc and withArgBaseFunc (plugin/entrypoint.go).   *)
(* The host offers a result and an error buffer.  When an answer does not  *)
(* fit, the plugin parks it in the instance's resultMap under the request  *)
(* id and asks for a larger buffer; the host doubles the buffer and calls  *)
(* again with recall = 1 until the parked answer is copied out.            *)
(*                                                                         *)
(* The callers share, without a lock, the two bufferManagers of the handle.*)
(* FreePlugin may take the instance away under a running call; a panic in  *)
(* the plugin ends the whole process (halted).                             *)
(***************************************************************************)
EXTENDS CBuffers

CONSTANTS
  Callers,      \* goroutines of the application that use the handle
  Methods,      \* the methods they call
  Setups,       \* the sets of functions the two sides may have configured
  ResultLens,   \* possible lengths of an encoded result
  ErrorLens,    \* possible lengths of an error text
  BigInit,      \* bigBufferSize
  SmallInit,    \* smallBufferSize
  MaxCalls,     \* bound: calls that take a request id
  AllowFree,    \* whether the application ever frees the plugin
  Nothing       \* an absent resultInfo

ConfigFuncs == {"newResultFunc", "newCommandResultFunc",
                "newConfigFunc", "newCommandParamFunc"}

ASSUME RequestAssumption ==
  /\ Methods \subseteq {"Init", "Start", "Stop", "Reload", "Fini", "Command"}
  /\ Setups \subseteq SUBSET ConfigFuncs
  /\ ResultLens \subseteq Nat \ {0}
  /\ ErrorLens \subseteq Nat
  /\ MaxCalls \in Nat /\ MaxCalls < IdSpan
  /\ AllowFree \in BOOLEAN

\* Every answer is at most half of the range of a C int, so that doubling
\* the buffer reaches it before the capacity stops fitting the C int.
ASSUME SizesAssumption ==
  /\ BigInit \in 1 .. CIntMax
  /\ SmallInit \in 1 .. CIntMax
  /\ \A n \in ResultLens \cup ErrorLens : 2 * (n - 1) <= CIntMax

VARIABLES
  setup,        \* the configuration functions that are not nil
  live,         \* the instance is in the plugin's instMap
  halted,       \* the process died of a panic
  requestId,    \* ph.requestIdGen.currentId
  bigSize,      \* ph.bigBufferMgr.bufferSize
  smallSize,    \* ph.smallBufferMgr.bufferSize
  resultMap,    \* the instance's resultMgr.resultMap
  pc,           \* where each caller is
  request,      \* the method and the kind of argument of its call
  id,           \* its local requestId
  recall,       \* its local recall
  resultBuf,    \* its local resultBuffer with the word of its length
  errorBuf,     \* its local errorBuffer with the word of its length
  got,          \* the answer whose bytes are in its buffers
  runs,         \* how often the plugin's method ran for its call (history)
  made,         \* the answer the plugin made for its call (history)
  reply         \* what its call returned

vars == <<setup, live, halted, requestId, bigSize, smallSize, resultMap, pc,
          request, id, recall, resultBuf, errorBuf, got, runs, made, reply>>

-----------------------------------------------------------------------------
(* Values.                                                                 *)

TakesArg(m) == m \in {"Init", "Reload", "Command"}

\* The function of the host that makes the result of a method.
HostFunc(m) == IF m = "Command" THEN "newCommandResultFunc" ELSE "newResultFunc"

\* The function of the plugin that makes the parameter of a method.
PluginFunc(m) == IF m = "Command" THEN "newCommandParamFunc" ELSE "newConfigFunc"

\* A nil argument is sent as no bytes at all, which do not decode.
Requests ==
  {r \in [method : Methods, arg : {"good", "undecodable", "unencodable"}] :
     TakesArg(r.method) \/ r.arg = "good"}

\* An encoded answer: the request it was made for, the length of the result
\* (0 when there is none or it could not be encoded, which makes an error),
\* whether there is an error and the length of its text.
AnswersTo(ids) ==
  {a \in [of : ids, res : {0} \cup ResultLens,
          failed : BOOLEAN, err : {0} \cup ErrorLens] :
     IF a.failed THEN a.err \in ErrorLens ELSE a.err = 0}
Answers == AnswersTo(Ids)

ASSUME NothingAssumption == Nothing \notin Answers

\* What a call returns: its result (decoded, as newResultFunc made it, or
\* nil) and the sides that contributed to its error ({} is a nil error).
Replies == [result : {"value", "blank", "nil"}, error : SUBSET {"plugin", "host"}]

NoReply == [result |-> "nil", error |-> {}]
NoBuffer == BufferOf(0)

-----------------------------------------------------------------------------
(* Moves of one caller.                                                    *)

Moves(c, from, to) ==
  /\ ~halted
  /\ pc[c] = from
  /\ pc' = [pc EXCEPT ![c] = to]

Panics(c, at) ==
  /\ ~halted
  /\ pc[c] = at
  /\ halted' = TRUE
  /\ UNCHANGED <<setup, live, requestId, bigSize, smallSize, resultMap, pc,
                 request, id, recall, resultBuf, errorBuf, got, runs, made,
                 reply>>

Returns(c, r) ==
  /\ reply' = [reply EXCEPT ![c] = r]
  /\ UNCHANGED <<setup, live, halted, requestId, bigSize, smallSize, resultMap,
                 id, recall, resultBuf, errorBuf, got, runs, made>>

\* The host has no function to make the result with.
NotOffered(c, r) ==
  /\ Moves(c, "idle", "returned")
  /\ HostFunc(r.method) \notin setup
  /\ request' = [request EXCEPT ![c] = r]
  /\ Returns(c, [result |-> "nil", error |-> {"host"}])

\* The argument cannot be encoded: no request id is taken.
EncodeFails(c, r) ==
  /\ Moves(c, "idle", "returned")
  /\ HostFunc(r.method) \in setup
  /\ r.arg = "unencodable"
  /\ request' = [request EXCEPT ![c] = r]
  /\ Returns(c, [result |-> "blank", error |-> {"host"}])

\* Mutant of Begin: the generator without its mutex, two calls with one id.
BeginRacyId(c, r) ==
  /\ Moves(c, "idle", "getBig")
  /\ HostFunc(r.method) \in setup
  /\ r.arg # "unencodable"
  /\ requestId < MaxCalls
  /\ requestId' \in {NextId(requestId)} \cup ({requestId} \ {0})
  /\ request' = [request EXCEPT ![c] = r]
  /\ id' = [id EXCEPT ![c] = requestId']
  /\ UNCHANGED <<setup, live, halted, bigSize, smallSize, resultMap, recall,
                 resultBuf, errorBuf, got, runs, made, reply>>

Begin(c, r) ==
  /\ Moves(c, "idle", "getBig")
  /\ HostFunc(r.method) \in setup
  /\ r.arg # "unencodable"
  /\ requestId < MaxCalls
  /\ requestId' = NextId(requestId)
  /\ request' = [request EXCEPT ![c] = r]
  /\ id' = [id EXCEPT ![c] = requestId']
  /\ UNCHANGED <<setup, live, halted, bigSize, smallSize, resultMap, recall,
                 resultBuf, errorBuf, got, runs, made, reply>>

GetBigBuffer(c) ==
  /\ Moves(c, "getBig", "getSmall")
  /\ resultBuf' = [resultBuf EXCEPT ![c] = BufferOf(bigSize)]
  /\ UNCHANGED <<setup, live, halted, requestId, bigSize, smallSize, resultMap,
                 request, id, recall, errorBuf, got, runs, made, reply>>

GetSmallBuffer(c) ==
  /\ Moves(c, "getSmall", "enter")
  /\ errorBuf' = [errorBuf EXCEPT ![c] = BufferOf(smallSize)]
  /\ UNCHANGED <<setup, live, halted, requestId, bigSize, smallSize, resultMap,
                 request, id, recall, resultBuf, got, runs, made, reply>>

-----------------------------------------------------------------------------
(* Inside the plugin.                                                      *)

HasParam(c) ==
  TakesArg(request[c].method) => PluginFunc(request[c].method) \in setup

\* InitPlugin, ReloadPlugin or Command without a function for the parameter.
NotImplemented(c) ==
  /\ Moves(c, "enter", "returned")
  /\ ~HasParam(c)
  /\ UNCHANGED request
  /\ Returns(c, [result |-> "nil", error |-> {"host"}])

\* Mutant of Enter: recall is not looked at.
EnterAnew(c) ==
  /\ Moves(c, "enter", "run")
  /\ HasParam(c)
  /\ live
  /\ UNCHANGED <<setup, live, halted, requestId, bigSize, smallSize, resultMap,
                 request, id, recall, resultBuf, errorBuf, got, runs, made,
                 reply>>

\* getInstance finds the instance; what follows uses the pointer it returned.
Enter(c) ==
  /\ Moves(c, "enter", IF recall[c] THEN "recall" ELSE "run")
  /\ HasParam(c)
  /\ live
  /\ UNCHANGED <<setup, live, halted, requestId, bigSize, smallSize, resultMap,
                 request, id, recall, resultBuf, errorBuf, got, runs, made,
                 reply>>

InstanceGone(c) ==
  /\ Panics(c, "enter")
  /\ HasParam(c)
  /\ ~live

ResultFits(c, a) == HoldsData(resultBuf[c], a.res)

\* Mutant of ErrorFits: room is left for a terminator the buffer has not got.
ErrorFitsOneOver(c, a) == ~a.failed \/ a.err <= AsCInt(errorBuf[c].len) + 1

ErrorFits(c, a) == HoldsError(errorBuf[c], a.failed, a.err)

\* Mutants of Park and Forget: the answer is not added, or not deleted.
ParkNothing(c, a) == UNCHANGED resultMap
ForgetNothing(c) == UNCHANGED resultMap

\* resultManager.add and resultManager.delete.
Park(c, a) == resultMap' = [resultMap EXCEPT ![id[c]] = a]
Forget(c) == resultMap' = [resultMap EXCEPT ![id[c]] = Nothing]

\* Mutant of CopyOut: the word of the capacity stays when there is no error.
CopyOutStale(c, a) ==
  /\ got' = [got EXCEPT ![c] = a]
  /\ resultBuf' = [resultBuf EXCEPT ![c].len = a.res]
  /\ errorBuf' = [errorBuf EXCEPT ![c].len = IF a.failed THEN a.err ELSE @]

\* Success: both answers are copied and both words say what was copied.
CopyOut(c, a) ==
  /\ got' = [got EXCEPT ![c] = a]
  /\ resultBuf' = [resultBuf EXCEPT ![c].len = a.res]
  /\ errorBuf' = [errorBuf EXCEPT ![c].len = IF a.failed THEN a.err ELSE 0]

\* The plugin's reply to a first call, from the answer it has just made.
Answer(c, a) ==
  /\ made' = [made EXCEPT ![c] = a]
  /\ \/ /\ ~ResultFits(c, a)
        /\ Moves(c, "run", "glowResult")
        /\ Park(c, a)
        /\ UNCHANGED <<got, resultBuf, errorBuf>>
     \/ /\ ResultFits(c, a)
        /\ ~ErrorFits(c, a)
        /\ Moves(c, "run", "glowError")
        /\ Park(c, a)
        /\ UNCHANGED <<got, resultBuf, errorBuf>>
     \/ /\ ResultFits(c, a)
        /\ ErrorFits(c, a)
        /\ Moves(c, "run", "rebuild")
        /\ CopyOut(c, a)
        /\ UNCHANGED resultMap
  /\ UNCHANGED <<setup, live, halted, requestId, bigSize, smallSize, request,
                 id, recall, reply>>

\* The argument does not decode: the method does not run.
RejectArg(c) ==
  /\ pc[c] = "run"
  /\ request[c].arg = "undecodable"
  /\ \E e \in ErrorLens :
       Answer(c, [of |-> id[c], res |-> 0, failed |-> TRUE, err |-> e])
  /\ UNCHANGED runs

Run(c) ==
  /\ pc[c] = "run"
  /\ request[c].arg = "good"
  /\ \E a \in AnswersTo({id[c]}) : Answer(c, a)
  /\ runs' = [runs EXCEPT ![c] = @ + 1]

\* A later call: the parked answer, still too long or copied and forgotten.
\* The code takes the absence of the answer for impossible and panics.
Recall(c) ==
  /\ pc[c] = "recall"
  /\ LET a == resultMap[id[c]] IN
     \/ /\ a = Nothing
        /\ Panics(c, "recall")
     \/ /\ a # Nothing
        /\ \/ /\ ~ResultFits(c, a)
              /\ Moves(c, "recall", "glowResult")
              /\ UNCHANGED <<resultMap, got, resultBuf, errorBuf>>
           \/ /\ ResultFits(c, a)
              /\ ~ErrorFits(c, a)
              /\ Moves(c, "recall", "glowError")
              /\ UNCHANGED <<resultMap, got, resultBuf, errorBuf>>
           \/ /\ ResultFits(c, a)
              /\ ErrorFits(c, a)
              /\ Moves(c, "recall", "rebuild")
              /\ CopyOut(c, a)
              /\ Forget(c)
        /\ UNCHANGED <<setup, live, halted, requestId, bigSize, smallSize,
                       request, id, recall, runs, made, reply>>

-----------------------------------------------------------------------------
(* Back in the host.  glowBuffer stores the doubled capacity in the shared  *)
(* bufferManager and then allocates what the manager says: the store and    *)
(* the load are not synchronised, and a build may use the stored value for  *)
(* the load or read the field again.                                        *)

GlowResult(c) ==
  /\ Moves(c, "glowResult", "makeResult")
  /\ bigSize' = 2 * resultBuf[c].cap
  /\ UNCHANGED <<setup, live, halted, requestId, smallSize, resultMap, request,
                 id, recall, resultBuf, errorBuf, got, runs, made, reply>>

\* Mutant of MakeResult: the new buffer is as short as the old one.
MakeResultSame(c) ==
  /\ Moves(c, "makeResult", "enter")
  /\ resultBuf' = [resultBuf EXCEPT ![c] = BufferOf(resultBuf[c].cap)]
  /\ recall' = [recall EXCEPT ![c] = TRUE]
  /\ UNCHANGED <<setup, live, halted, requestId, bigSize, smallSize, resultMap,
                 request, id, errorBuf, got, runs, made, reply>>

MakeResult(c) ==
  \E n \in {bigSize, 2 * resultBuf[c].cap} :
    \/ /\ n <= MaxAlloc
       /\ Moves(c, "makeResult", "enter")
       /\ resultBuf' = [resultBuf EXCEPT ![c] = BufferOf(n)]
       /\ recall' = [recall EXCEPT ![c] = TRUE]
       /\ UNCHANGED <<setup, live, halted, requestId, bigSize, smallSize,
                      resultMap, request, id, errorBuf, got, runs, made, reply>>
    \/ /\ n > MaxAlloc
       /\ Panics(c, "makeResult")

\* Mutant of GlowError: through the big manager, as an event's error buffer.
GlowErrorBig(c) ==
  /\ Moves(c, "glowError", "makeError")
  /\ bigSize' = 2 * errorBuf[c].cap
  /\ UNCHANGED <<setup, live, halted, requestId, smallSize, resultMap, request,
                 id, recall, resultBuf, errorBuf, got, runs, made, reply>>

GlowError(c) ==
  /\ Moves(c, "glowError", "makeError")
  /\ smallSize' = 2 * errorBuf[c].cap
  /\ UNCHANGED <<setup, live, halted, requestId, bigSize, resultMap, request,
                 id, recall, resultBuf, errorBuf, got, runs, made, reply>>

MakeError(c) ==
  \E n \in {smallSize, 2 * errorBuf[c].cap} :
    \/ /\ n <= MaxAlloc
       /\ Moves(c, "makeError", "enter")
       /\ errorBuf' = [errorBuf EXCEPT ![c] = BufferOf(n)]
       /\ recall' = [recall EXCEPT ![c] = TRUE]
       /\ UNCHANGED <<setup, live, halted, requestId, bigSize, smallSize,
                      resultMap, request, id, resultBuf, got, runs, made, reply>>
    \/ /\ n > MaxAlloc
       /\ Panics(c, "makeError")

\* The error is rebuilt from its text, the result is decoded: the decoding
\* fails when the two sides disagree on the type.
Rebuild(c) ==
  /\ Moves(c, "rebuild", "returned")
  /\ UNCHANGED request
  /\ \E decodes \in BOOLEAN :
       Returns(c,
         [result |-> IF resultBuf[c].len # 0 /\ decodes THEN "value" ELSE "blank",
          error  |-> {s \in {"plugin", "host"} :
                        IF s = "plugin" THEN errorBuf[c].len # 0
                                        ELSE resultBuf[c].len # 0 /\ ~decodes}])

\* The application has its reply; the locals of the call are gone.
Leave(c) ==
  /\ Moves(c, "returned", "idle")
  /\ id' = [id EXCEPT ![c] = 0]
  /\ recall' = [recall EXCEPT ![c] = FALSE]
  /\ resultBuf' = [resultBuf EXCEPT ![c] = NoBuffer]
  /\ errorBuf' = [errorBuf EXCEPT ![c] = NoBuffer]
  /\ got' = [got EXCEPT ![c] = Nothing]
  /\ runs' = [runs EXCEPT ![c] = 0]
  /\ made' = [made EXCEPT ![c] = Nothing]
  /\ reply' = [reply EXCEPT ![c] = NoReply]
  /\ request' = [request EXCEPT ![c] = Nothing]
  /\ UNCHANGED <<setup, live, halted, requestId, bigSize, smallSize, resultMap>>

\* The plugin's FreePlugin, through deleteInstance: the instance leaves the
\* instMap whatever the calls on it are doing.
FreePlugin ==
  /\ AllowFree
  /\ ~halted
  /\ live
  /\ live' = FALSE
  /\ UNCHANGED <<setup, halted, requestId, bigSize, smallSize, resultMap, pc,
                 request, id, recall, resultBuf, errorBuf, got, runs, made,
                 reply>>

-----------------------------------------------------------------------------
Init ==
  /\ setup \in Setups
  /\ live = TRUE
  /\ halted = FALSE
  /\ requestId = 0
  /\ bigSize = BigInit
  /\ smallSize = SmallInit
  /\ resultMap = [i \in Ids |-> Nothing]
  /\ pc = [c \in Callers |-> "idle"]
  /\ request = [c \in Callers |-> Nothing]
  /\ id = [c \in Callers |-> 0]
  /\ recall = [c \in Callers |-> FALSE]
  /\ resultBuf = [c \in Callers |-> NoBuffer]
  /\ errorBuf = [c \in Callers |-> NoBuffer]
  /\ got = [c \in Callers |-> Nothing]
  /\ runs = [c \in Callers |-> 0]
  /\ made = [c \in Callers |-> Nothing]
  /\ reply = [c \in Callers |-> NoReply]

\* What a call does on its own, once made.
Advance(c) ==
  \/ GetBigBuffer(c) \/ GetSmallBuffer(c)
  \/ NotImplemented(c) \/ Enter(c) \/ InstanceGone(c)
  \/ RejectArg(c) \/ Run(c) \/ Recall(c)
  \/ GlowResult(c) \/ MakeResult(c) \/ GlowError(c) \/ MakeError(c)
  \/ Rebuild(c)

\* What the application does.
Invoke(c) ==
  \E r \in Requests : NotOffered(c, r) \/ EncodeFails(c, r) \/ Begin(c, r)

Next ==
  \/ \E c \in Callers : Invoke(c) \/ Advance(c) \/ Leave(c)
  \/ FreePlugin

Spec == Init /\ [][Next]_vars

\* The event path of the same handle moves the sizes as well, within what a
\* C int can say.
Resized ==
  /\ bigSize' \in 1 .. CIntMax
  /\ smallSize' \in 1 .. CIntMax
  /\ UNCHANGED <<setup, live, halted, requestId, resultMap, pc, request, id,
                 recall, resultBuf, errorBuf, got, runs, made, reply>>

OpenSpec == Init /\ [][Next \/ Resized]_vars

\* The scheduler runs every goroutine and the plugin's methods return;
\* nothing obliges the application to call again or to free the plugin.
FairSpec == Spec /\ \A c \in Callers : WF_vars(Advance(c))

-----------------------------------------------------------------------------
(* Properties.                                                             *)

PcValues == {"idle", "getBig", "getSmall", "enter", "run", "recall",
             "glowResult", "makeResult", "glowError", "makeError",
             "rebuild", "returned"}

\* Every variable has its type.
TypeOK ==
  /\ setup \in Setups
  /\ live \in BOOLEAN
  /\ halted \in BOOLEAN
  /\ requestId \in 0 .. MaxCalls
  /\ bigSize \in Nat
  /\ smallSize \in Nat
  /\ resultMap \in [Ids -> Answers \cup {Nothing}]
  /\ pc \in [Callers -> PcValues]
  /\ request \in [Callers -> Requests \cup {Nothing}]
  /\ id \in [Callers -> 0 .. MaxCalls]
  /\ recall \in [Callers -> BOOLEAN]
  /\ resultBuf \in [Callers -> Buffers]
  /\ errorBuf \in [Callers -> Buffers]
  /\ got \in [Callers -> Answers \cup {Nothing}]
  /\ runs \in [Callers -> 0 .. 1]
  /\ made \in [Callers -> Answers \cup {Nothing}]
  /\ reply \in [Callers -> Replies]

\* However often a call goes back to the plugin for a larger buffer, and
\* whatever the other callers do meanwhile, the plugin's method runs once
\* for it, and not at all when the argument did not decode.
MethodRunsOnce ==
  \A c \in Callers :
    pc[c] \in {"glowResult", "makeResult", "glowError", "makeError", "rebuild"} =>
      runs[c] = IF request[c].arg = "good" THEN 1 ELSE 0

\* The bytes a caller rebuilds its reply from are those of the answer the
\* plugin made for this very request, never of another caller's.
OwnAnswer ==
  \A c \in Callers :
    pc[c] = "rebuild" => got[c] = made[c] /\ got[c].of = id[c]

\* The copies of the plugin never run past the buffers of the host: the
\* plugin writes through bare pointers, trusting the word of the capacity.
NoOverrun ==
  \A c \in Callers :
    pc[c] = "rebuild" => /\ resultBuf[c].len <= resultBuf[c].cap
                         /\ errorBuf[c].len <= errorBuf[c].cap

Growing(c) ==
  \/ pc[c] \in {"glowResult", "makeResult", "glowError", "makeError"}
  \/ recall[c] /\ pc[c] \in {"enter", "recall"}

\* An answer is parked exactly while its caller is growing a buffer for it:
\* no recall finds its answer missing and no answer stays behind.
ParkedWhileGrowing ==
  \A i \in Ids :
    resultMap[i] # Nothing <=> \E c \in Callers : id[c] = i /\ Growing(c)

\* The only panic a caller can run into is that of an instance freed under
\* it: the request path never loses a parked answer and never asks for a
\* buffer that cannot be allocated.
HaltsOnlyAfterFree == halted => ~live

\* A reply that is true to the answer of the method: its error shows if and
\* only if there was one, a result is returned only if there was one, and one
\* is missing only with an explanation of the host.
Tells(r, a) ==
  /\ "plugin" \in r.error <=> a.failed
  /\ r.result = "value" => a.res # 0
  /\ a.res # 0 => r.result = "value" \/ "host" \in r.error

Refusal(r) == r.error # {} /\ r.result # "value"

\* The reply tells what the plugin did: the method's error is reported when
\* there was one and only then, and its result is there or the host says why.
ReplyTellsAnswer ==
  \A c \in Callers :
    pc[c] = "returned" =>
      IF made[c] = Nothing
        THEN reply[c].error = {"host"} /\ reply[c].result # "value"
        ELSE Tells(reply[c], made[c])

\* The capacities in play, of results and of errors: the size, and the buffers
\* a caller may still double.
Offering == {"enter", "run", "recall", "glowResult", "makeResult", "glowError", "makeError"}
BigAtLeast(n) ==
  /\ bigSize >= n
  /\ \A c \in Callers : pc[c] \in Offering \cup {"getSmall"} => resultBuf[c].cap >= n
SmallAtLeast(n) ==
  /\ smallSize >= n
  /\ \A c \in Callers : pc[c] \in Offering => errorBuf[c].cap >= n

\* A store may undo another caller's growth, but no store and no buffer goes
\* below the smallest capacity in play of its kind.
FloorsHold ==
  [][\A n \in 1 .. CIntMax :
       /\ BigAtLeast(n) => BigAtLeast(n)'
       /\ SmallAtLeast(n) => SmallAtLeast(n)']_vars

\* A call of the application returns, in spite of the other callers that
\* move the shared buffer sizes up and down under its own growth, unless the
\* process has died.
CallsReturn ==
  \A c \in Callers : pc[c] # "idle" ~> pc[c] \in {"returned", "idle"} \/ halted

-----------------------------------------------------------------------------
(* The inductive invariant behind the safety properties: what holds of one *)
(* caller at each point of its call, and what ties the callers together.   *)

\* The call holds a request id that no other call holds.
HoldsId(c) ==
  /\ id[c] \in 1 .. requestId
  /\ request[c] \in Requests
  /\ \A d \in Callers \ {c} : id[d] # id[c]

Fresh(c) == runs[c] = 0 /\ made[c] = Nothing /\ ~recall[c]

\* The plugin has made its answer.
Answered(c) ==
  /\ made[c] \in Answers
  /\ made[c].of = id[c]
  /\ runs[c] = IF request[c].arg = "good" THEN 1 ELSE 0
  /\ request[c].arg # "good" => made[c].failed /\ made[c].res = 0

\* A buffer as the host offers it, of a capacity the C int can hold.
Offered(buf) == buf.cap \in 1 .. CIntMax /\ buf.len = buf.cap

CallerInv(c) ==
  /\ id[c] <= requestId
  /\ pc[c] = "run" \/ Growing(c) => HasParam(c)
  /\ pc[c] = "idle" => id[c] = 0 /\ Fresh(c)
  /\ pc[c] = "getBig" => HoldsId(c) /\ Fresh(c)
  /\ pc[c] = "getSmall" => HoldsId(c) /\ Fresh(c) /\ Offered(resultBuf[c])
  /\ pc[c] \in {"enter", "run", "recall", "glowResult", "makeResult",
               "glowError", "makeError"} =>
       HoldsId(c) /\ Offered(resultBuf[c]) /\ Offered(errorBuf[c])
  /\ pc[c] = "enter" /\ ~recall[c] => Fresh(c)
  /\ pc[c] = "run" => Fresh(c)
  /\ pc[c] = "recall" => recall[c]
  /\ Growing(c) => Answered(c) /\ resultMap[id[c]] = made[c]
  /\ pc[c] \in {"glowResult", "makeResult"} => 2 * resultBuf[c].cap <= CIntMax
  /\ pc[c] \in {"glowError", "makeError"} => 2 * errorBuf[c].cap <= CIntMax
  /\ pc[c] = "rebuild" =>
       /\ HoldsId(c)
       /\ Answered(c)
       /\ got[c] = made[c]
       /\ resultBuf[c].len = made[c].res
       /\ errorBuf[c].len = made[c].err
       /\ resultBuf[c].len <= resultBuf[c].cap
       /\ errorBuf[c].len <= errorBuf[c].cap

SizesInv == bigSize \in 1 .. CIntMax /\ smallSize \in 1 .. CIntMax

ParkedInv ==
  \A i \in Ids : resultMap[i] # Nothing => \E c \in Callers : id[c] = i /\ Growing(c)

IInv ==
  /\ TypeOK
  /\ SizesInv
  /\ ParkedInv
  /\ HaltsOnlyAfterFree
  /\ \A c \in Callers : CallerInv(c)

-----------------------------------------------------------------------------
\* The answer of a method that ran, and where the call is to its caller.
ExecutedAnswer == [c \in Callers |-> IF runs[c] = 0 THEN Nothing ELSE made[c]]

PhaseOf(c) ==
  IF pc[c] = "idle" THEN "idle"
  ELSE IF pc[c] = "returned" THEN "replied"
  ELSE IF runs[c] = 0 THEN "called" ELSE "executed"
Phase == [c \in Callers |-> PhaseOf(c)]

Abstract == INSTANCE Invocation WITH phase <- Phase, answer <- ExecutedAnswer

\* Request ids, buffers, recalls and parking implement a plain invocation:
\* the method runs at most once and its caller is told what it answered.
ImplementsInvocation == Abstract!Spec

\* An error of the plugin's method is an error of the call.
ErrorsSurvive ==
  \A c \in Callers :
    pc[c] = "returned" /\ made[c] # Nothing =>
      (made[c].failed => reply[c].error # {})
=============================================================================
