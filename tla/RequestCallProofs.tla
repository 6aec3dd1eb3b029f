------------------------- MODULE RequestCallProofs --------------------------
(***************************************************************************)
(* RequestCall is safe for any number of callers, any methods, any lengths *)
(* of answers and any width of the C int: IInv is inductive, and the       *)
(* safety properties of the runs follow from it.                           *)
(*                                                                         *)
(* A step is the step of one caller c, so each action needs three things:  *)
(* what becomes of c (one lemma per action), that the other callers keep   *)
(* theirs (OthersKept) and that the parked answers keep their owners       *)
(* (ParkedKept).                                                           *)
(***************************************************************************)
EXTENDS RequestCall, TLAPS

-----------------------------------------------------------------------------
(* Values.                                                                 *)

\* A capacity a C int can hold is read back as it was written
\* (getIntFromCintPtr, int( *lenPtr)).
LEMMA AsCIntExact ==
  ASSUME NEW n \in Nat, n <= CIntMax
  PROVE  AsCInt(n) = n
BY DEF AsCInt

\* Within the bound on the calls the id generator counts up.
LEMMA NextIdCounts ==
  ASSUME NEW n \in Nat, n < MaxCalls
  PROVE  NextId(n) = n + 1 /\ NextId(n) \in Ids
BY RequestAssumption, IdSpanAssumption DEF NextId, Ids

\* A length, 0 for an absent result or error included, is a number.
LEMMA LengthsAreNat == {0} \cup ResultLens \subseteq Nat /\ {0} \cup ErrorLens \subseteq Nat
BY RequestAssumption

\* Doubling a buffer that is too short for an answer stays in the C int.
LEMMA DoubleFits ==
  ASSUME NEW n \in {0} \cup ResultLens \cup ErrorLens,
         NEW cap \in Nat, cap < n
  PROVE  n \in Nat /\ 2 * cap <= CIntMax
<1>1. n \in ResultLens \cup ErrorLens /\ n \in Nat
  BY RequestAssumption
<1>2. 2 * (n - 1) <= CIntMax
  BY <1>1, SizesAssumption
<1> QED
  BY <1>1, <1>2, CIntAssumption

\* The fields of an answer.
LEMMA AnswerFields ==
  ASSUME NEW a \in Answers
  PROVE  /\ a.of \in Ids
         /\ a.failed \in BOOLEAN
         /\ a.res \in {0} \cup ResultLens
         /\ a.res \in Nat
         /\ a.err \in {0} \cup ErrorLens
         /\ a.err \in Nat
         /\ ~a.failed => a.err = 0
         /\ a # Nothing
<1>1. /\ a.of \in Ids
      /\ a.failed \in BOOLEAN
      /\ a.res \in {0} \cup ResultLens
      /\ a.err \in {0} \cup ErrorLens
      /\ ~a.failed => a.err = 0
  BY DEF Answers, AnswersTo
<1>2. a.res \in Nat /\ a.err \in Nat
  BY <1>1, LengthsAreNat
<1>3. a # Nothing
  BY NothingAssumption
<1> QED
  BY <1>1, <1>2, <1>3

\* The answers to one request are among the answers.
LEMMA AnswersToOne ==
  ASSUME NEW i \in Ids, NEW a \in AnswersTo({i})
  PROVE  a \in Answers /\ a.of = i
BY DEF Answers, AnswersTo

-----------------------------------------------------------------------------
(* What a step of one caller leaves to the others.                         *)

\* A step that is, at most, a step of caller c.
StepOf(c) ==
  /\ UNCHANGED setup
  /\ \A d \in Callers \ {c} :
       /\ pc'[d] = pc[d]
       /\ request'[d] = request[d]
       /\ id'[d] = id[d]
       /\ recall'[d] = recall[d]
       /\ resultBuf'[d] = resultBuf[d]
       /\ errorBuf'[d] = errorBuf[d]
       /\ got'[d] = got[d]
       /\ runs'[d] = runs[d]
       /\ made'[d] = made[d]
  /\ id'[c] \in {id[c], 0, requestId + 1}
  /\ requestId' \in {requestId, requestId + 1}
  /\ \A i \in Ids \ {id[c]} : resultMap'[i] = resultMap[i]

\* A call that holds an id holds one of the id type.
LEMMA HeldIds ==
  ASSUME TypeOK, NEW c \in Callers, HoldsId(c)
  PROVE  id[c] \in Ids /\ id[c] # 0
<1>1. requestId \in Nat /\ requestId < IdSpan
  BY RequestAssumption, IdSpanAssumption DEF TypeOK
<1> QED
  BY <1>1, IdSpanAssumption DEF HoldsId, Ids

\* The other callers keep their part of the invariant: a step never takes an
\* id that is held nor touches an answer parked under another id.
LEMMA OthersKept ==
  ASSUME TypeOK, NEW c \in Callers, StepOf(c),
         NEW d \in Callers \ {c}, CallerInv(d)
  PROVE  CallerInv(d)'
<1>1. HoldsId(d) => HoldsId(d)'
  <2> SUFFICES ASSUME HoldsId(d) PROVE HoldsId(d)'
    OBVIOUS
  <2>1. id'[d] \in 1 .. requestId' /\ request'[d] \in Requests
    BY RequestAssumption DEF TypeOK, StepOf, HoldsId
  <2>2. \A e \in Callers \ {d} : id'[e] # id'[d]
    <3>1. ASSUME NEW e \in Callers \ {d} PROVE id'[e] # id'[d]
      <4>1. CASE e = c
        BY <4>1, RequestAssumption DEF TypeOK, StepOf, HoldsId
      <4>2. CASE e # c
        BY <4>2 DEF StepOf, HoldsId
      <4> QED
        BY <4>1, <4>2
    <3> QED
      BY <3>1
  <2> QED
    BY <2>1, <2>2 DEF HoldsId
<1>2. /\ Growing(d)' = Growing(d)
      /\ Fresh(d)' = Fresh(d)
      /\ Answered(d)' = Answered(d)
  BY DEF StepOf, Growing, Fresh, Answered
<1>3. Growing(d) => HoldsId(d)
  BY DEF CallerInv, Growing
<1>4. Growing(d) => resultMap'[id'[d]] = resultMap[id[d]]
  BY <1>3, HeldIds DEF StepOf, HoldsId
<1>5. id'[d] <= requestId' /\ HasParam(d)' = HasParam(d)
  BY RequestAssumption DEF TypeOK, CallerInv, StepOf, HasParam
<1> QED
  BY <1>1, <1>2, <1>4, <1>5 DEF CallerInv, StepOf, Offered

\* The parked answers keep their owners, if the one under the id of the
\* caller that moves does.
LEMMA ParkedKept ==
  ASSUME TypeOK, NEW c \in Callers, StepOf(c), ParkedInv,
         id[c] \in Ids /\ resultMap'[id[c]] # Nothing =>
           Growing(c)' /\ id'[c] = id[c]
  PROVE  ParkedInv'
<1>1. ASSUME NEW i \in Ids, resultMap'[i] # Nothing
      PROVE  \E d \in Callers : id'[d] = i /\ Growing(d)'
  <2>1. CASE i = id[c]
    BY <1>1, <2>1
  <2>2. CASE i # id[c]
    <3>1. resultMap[i] # Nothing
      BY <1>1, <2>2 DEF StepOf
    <3>2. PICK d \in Callers : id[d] = i /\ Growing(d)
      BY <3>1 DEF ParkedInv
    <3>3. d # c
      BY <2>2, <3>2
    <3> QED
      BY <3>2, <3>3 DEF StepOf, Growing
  <2> QED
    BY <2>1, <2>2
<1> QED
  BY <1>1 DEF ParkedInv

\* A step of caller c preserves the invariant when c's own part, the types,
\* the sizes and its parked answer are taken care of.
LEMMA StepKeepsIInv ==
  ASSUME IInv, NEW c \in Callers, StepOf(c), TypeOK', SizesInv', CallerInv(c)',
         HaltsOnlyAfterFree',
         id[c] \in Ids /\ resultMap'[id[c]] # Nothing =>
           Growing(c)' /\ id'[c] = id[c]
  PROVE  IInv'
<1>1. ParkedInv'
  BY ParkedKept DEF IInv
<1>2. ASSUME NEW d \in Callers PROVE CallerInv(d)'
  <2>1. CASE d = c
    BY <2>1
  <2>2. CASE d # c
    BY <2>2, OthersKept DEF IInv
  <2> QED
    BY <2>1, <2>2
<1> QED
  BY <1>1, <1>2 DEF IInv

\* An answer parked under the id of a call is being waited for by that call.
LEMMA ParkedIsOwn ==
  ASSUME IInv, NEW c \in Callers, id[c] \in Ids, resultMap[id[c]] # Nothing
  PROVE  Growing(c)
<1>1. PICK d \in Callers : id[d] = id[c] /\ Growing(d)
  BY DEF IInv, ParkedInv
<1>2. HoldsId(d)
  BY <1>1 DEF IInv, CallerInv, Growing
<1> QED
  BY <1>1, <1>2 DEF HoldsId

\* Buffers of a capacity the C int holds, and the reply of the host alone.
LEMMA BufferTypes ==
  /\ NoBuffer \in Buffers
  /\ \A n \in 1 .. CIntMax : BufferOf(n) \in Buffers /\ Offered(BufferOf(n))
  /\ \A buf \in Buffers : \A n \in 0 .. MaxAlloc : [buf EXCEPT !.len = n] \in Buffers
BY CIntAssumption DEF NoBuffer, BufferOf, Buffers, Offered

LEMMA ReplyTypes ==
  /\ NoReply \in Replies
  /\ \A res \in {"value", "blank", "nil"} : \A e \in SUBSET {"plugin", "host"} :
       [result |-> res, error |-> e] \in Replies
BY DEF NoReply, Replies

-----------------------------------------------------------------------------
(* One lemma per action.                                                   *)

\* A call the host cannot make the result of returns at once.
LEMMA NotOfferedStep ==
  ASSUME IInv, NEW c \in Callers, NEW r \in Requests, NotOffered(c, r)
  PROVE  IInv'
<1> USE DEF NotOffered, Moves, Returns
<1>1. StepOf(c)
  BY DEF IInv, TypeOK, StepOf
<1>2. TypeOK'
  BY ReplyTypes DEF IInv, TypeOK, PcValues
<1>3. SizesInv' /\ HaltsOnlyAfterFree'
  BY DEF IInv, TypeOK, SizesInv, HaltsOnlyAfterFree
<1>4. CallerInv(c)'
  BY DEF IInv, TypeOK, CallerInv, HoldsId, Fresh, Answered, Growing, Offered, HasParam
<1>5. id[c] \in Ids /\ resultMap'[id[c]] # Nothing =>
        Growing(c)' /\ id'[c] = id[c]
  BY ParkedIsOwn DEF IInv, TypeOK, Growing
<1> QED
  BY <1>1, <1>2, <1>3, <1>4, <1>5, StepKeepsIInv

\* A call whose argument is not encoded returns at once.
LEMMA EncodeFailsStep ==
  ASSUME IInv, NEW c \in Callers, NEW r \in Requests, EncodeFails(c, r)
  PROVE  IInv'
<1> USE DEF EncodeFails, Moves, Returns
<1>1. StepOf(c)
  BY DEF IInv, TypeOK, StepOf
<1>2. TypeOK'
  BY ReplyTypes DEF IInv, TypeOK, PcValues
<1>3. SizesInv' /\ HaltsOnlyAfterFree'
  BY DEF IInv, TypeOK, SizesInv, HaltsOnlyAfterFree
<1>4. CallerInv(c)'
  BY DEF IInv, TypeOK, CallerInv, HoldsId, Fresh, Answered, Growing, Offered, HasParam
<1>5. id[c] \in Ids /\ resultMap'[id[c]] # Nothing =>
        Growing(c)' /\ id'[c] = id[c]
  BY ParkedIsOwn DEF IInv, TypeOK, Growing
<1> QED
  BY <1>1, <1>2, <1>3, <1>4, <1>5, StepKeepsIInv

\* A call takes an id no other call holds.
LEMMA BeginStep ==
  ASSUME IInv, NEW c \in Callers, NEW r \in Requests, Begin(c, r)
  PROVE  IInv'
<1> USE DEF Begin, Moves
<1>0. requestId' = requestId + 1 /\ requestId + 1 \in 1 .. MaxCalls
  BY NextIdCounts, RequestAssumption DEF IInv, TypeOK
<1>1. StepOf(c)
  BY <1>0 DEF IInv, TypeOK, StepOf
<1>2. TypeOK'
  BY <1>0, RequestAssumption DEF IInv, TypeOK, PcValues
<1>3. SizesInv' /\ HaltsOnlyAfterFree'
  BY DEF IInv, TypeOK, SizesInv, HaltsOnlyAfterFree
<1>4. CallerInv(c)'
  BY <1>0 DEF IInv, TypeOK, CallerInv, HoldsId, Fresh, Answered, Growing, Offered, HasParam
<1>5. id[c] \in Ids /\ resultMap'[id[c]] # Nothing =>
        Growing(c)' /\ id'[c] = id[c]
  BY ParkedIsOwn DEF IInv, TypeOK, Growing
<1> QED
  BY <1>1, <1>2, <1>3, <1>4, <1>5, StepKeepsIInv

\* A result buffer of the shared size.
LEMMA GetBigStep ==
  ASSUME IInv, NEW c \in Callers, GetBigBuffer(c)
  PROVE  IInv'
<1> USE DEF GetBigBuffer, Moves
<1>1. StepOf(c)
  BY DEF IInv, TypeOK, StepOf
<1>2. TypeOK'
  BY BufferTypes DEF IInv, TypeOK, PcValues, SizesInv
<1>3. SizesInv' /\ HaltsOnlyAfterFree'
  BY DEF IInv, TypeOK, SizesInv, HaltsOnlyAfterFree
<1>4. CallerInv(c)'
  BY BufferTypes DEF IInv, TypeOK, CallerInv, HoldsId, Fresh, Answered, Growing, Offered, HasParam, SizesInv
<1>5. id[c] \in Ids /\ resultMap'[id[c]] # Nothing =>
        Growing(c)' /\ id'[c] = id[c]
  BY ParkedIsOwn DEF IInv, TypeOK, Growing
<1> QED
  BY <1>1, <1>2, <1>3, <1>4, <1>5, StepKeepsIInv

\* An error buffer of the shared size.
LEMMA GetSmallStep ==
  ASSUME IInv, NEW c \in Callers, GetSmallBuffer(c)
  PROVE  IInv'
<1> USE DEF GetSmallBuffer, Moves
<1>1. StepOf(c)
  BY DEF IInv, TypeOK, StepOf
<1>2. TypeOK'
  BY BufferTypes DEF IInv, TypeOK, PcValues, SizesInv
<1>3. SizesInv' /\ HaltsOnlyAfterFree'
  BY DEF IInv, TypeOK, SizesInv, HaltsOnlyAfterFree
<1>4. CallerInv(c)'
  BY BufferTypes DEF IInv, TypeOK, CallerInv, HoldsId, Fresh, Answered, Growing, Offered, HasParam, SizesInv
<1>5. id[c] \in Ids /\ resultMap'[id[c]] # Nothing =>
        Growing(c)' /\ id'[c] = id[c]
  BY ParkedIsOwn DEF IInv, TypeOK, Growing
<1> QED
  BY <1>1, <1>2, <1>3, <1>4, <1>5, StepKeepsIInv

\* The plugin has no function for the parameter: the call returns.
LEMMA NotImplementedStep ==
  ASSUME IInv, NEW c \in Callers, NotImplemented(c)
  PROVE  IInv'
<1> USE DEF NotImplemented, Moves, Returns
<1>1. StepOf(c)
  BY DEF IInv, TypeOK, StepOf
<1>2. TypeOK'
  BY ReplyTypes DEF IInv, TypeOK, PcValues
<1>3. SizesInv' /\ HaltsOnlyAfterFree'
  BY DEF IInv, TypeOK, SizesInv, HaltsOnlyAfterFree
<1>4. CallerInv(c)'
  BY DEF IInv, TypeOK, CallerInv, HoldsId, Fresh, Answered, Growing, Offered, HasParam
<1>5. id[c] \in Ids /\ resultMap'[id[c]] # Nothing =>
        Growing(c)' /\ id'[c] = id[c]
  BY ParkedIsOwn DEF IInv, TypeOK, Growing, CallerInv
<1> QED
  BY <1>1, <1>2, <1>3, <1>4, <1>5, StepKeepsIInv

\* The plugin finds the instance.
LEMMA EnterStep ==
  ASSUME IInv, NEW c \in Callers, Enter(c)
  PROVE  IInv'
<1> USE DEF Enter, Moves
<1>1. StepOf(c)
  BY DEF IInv, TypeOK, StepOf
<1>2. TypeOK'
  BY DEF IInv, TypeOK, PcValues
<1>3. SizesInv' /\ HaltsOnlyAfterFree'
  BY DEF IInv, TypeOK, SizesInv, HaltsOnlyAfterFree
<1>4. CallerInv(c)'
  BY DEF IInv, TypeOK, CallerInv, HoldsId, Fresh, Answered, Growing, Offered, HasParam
<1>5. id[c] \in Ids /\ resultMap'[id[c]] # Nothing =>
        Growing(c)' /\ id'[c] = id[c]
  BY ParkedIsOwn DEF IInv, TypeOK, Growing
<1> QED
  BY <1>1, <1>2, <1>3, <1>4, <1>5, StepKeepsIInv

\* The instance is gone and the process halts.
LEMMA InstanceGoneStep ==
  ASSUME IInv, NEW c \in Callers, InstanceGone(c)
  PROVE  IInv'
<1> USE DEF InstanceGone, Panics
<1>1. StepOf(c)
  BY DEF IInv, TypeOK, StepOf
<1>2. TypeOK'
  BY DEF IInv, TypeOK, PcValues
<1>3. SizesInv' /\ HaltsOnlyAfterFree'
  BY DEF IInv, TypeOK, SizesInv, HaltsOnlyAfterFree
<1>4. CallerInv(c)'
  BY DEF IInv, TypeOK, CallerInv, HoldsId, Fresh, Answered, Growing, Offered, HasParam
<1>5. id[c] \in Ids /\ resultMap'[id[c]] # Nothing =>
        Growing(c)' /\ id'[c] = id[c]
  BY ParkedIsOwn DEF IInv, TypeOK, Growing
<1> QED
  BY <1>1, <1>2, <1>3, <1>4, <1>5, StepKeepsIInv

\* The shared size of the result buffers becomes twice the caller's.
LEMMA GlowResultStep ==
  ASSUME IInv, NEW c \in Callers, GlowResult(c)
  PROVE  IInv'
<1> USE DEF GlowResult, Moves
<1>1. StepOf(c)
  BY DEF IInv, TypeOK, StepOf
<1>2. TypeOK'
  BY CIntAssumption DEF IInv, TypeOK, PcValues, Buffers
<1>3. SizesInv' /\ HaltsOnlyAfterFree'
  BY DEF IInv, TypeOK, SizesInv, HaltsOnlyAfterFree, CallerInv, Offered, Buffers
<1>4. CallerInv(c)'
  BY DEF IInv, TypeOK, CallerInv, HoldsId, Fresh, Answered, Growing, Offered, HasParam
<1>5. id[c] \in Ids /\ resultMap'[id[c]] # Nothing =>
        Growing(c)' /\ id'[c] = id[c]
  BY ParkedIsOwn DEF IInv, TypeOK, Growing
<1> QED
  BY <1>1, <1>2, <1>3, <1>4, <1>5, StepKeepsIInv

\* A larger result buffer, of one of the two sizes the host may read.
LEMMA MakeResultStep ==
  ASSUME IInv, NEW c \in Callers, MakeResult(c)
  PROVE  IInv'
<1> USE DEF MakeResult, Moves, Panics
<1>0. PICK n \in 1 .. CIntMax :
        /\ pc[c] = "makeResult"
        /\ pc' = [pc EXCEPT ![c] = "enter"]
        /\ resultBuf' = [resultBuf EXCEPT ![c] = BufferOf(n)]
        /\ recall' = [recall EXCEPT ![c] = TRUE]
        /\ UNCHANGED <<setup, live, halted, requestId, bigSize, smallSize,
                       resultMap, request, id, errorBuf, got, runs, made, reply>>
  <2>1. bigSize \in 1 .. CIntMax /\ 2 * resultBuf[c].cap \in 1 .. CIntMax
    BY CIntAssumption DEF IInv, SizesInv, CallerInv, Offered
  <2> QED
    BY <2>1, CIntAssumption
<1>1. StepOf(c)
  BY DEF IInv, TypeOK, StepOf
<1>2. TypeOK'
  BY <1>0, BufferTypes DEF IInv, TypeOK, PcValues
<1>3. SizesInv' /\ HaltsOnlyAfterFree'
  BY <1>0 DEF IInv, TypeOK, SizesInv, HaltsOnlyAfterFree
<1>4. CallerInv(c)'
  BY <1>0, BufferTypes DEF IInv, TypeOK, CallerInv, HoldsId, Fresh, Answered, Growing, Offered, HasParam
<1>5. id[c] \in Ids /\ resultMap'[id[c]] # Nothing =>
        Growing(c)' /\ id'[c] = id[c]
  BY ParkedIsOwn DEF IInv, TypeOK, Growing
<1> QED
  BY <1>1, <1>2, <1>3, <1>4, <1>5, StepKeepsIInv

\* The shared size of the error buffers becomes twice the caller's.
LEMMA GlowErrorStep ==
  ASSUME IInv, NEW c \in Callers, GlowError(c)
  PROVE  IInv'
<1> USE DEF GlowError, Moves
<1>1. StepOf(c)
  BY DEF IInv, TypeOK, StepOf
<1>2. TypeOK'
  BY CIntAssumption DEF IInv, TypeOK, PcValues, Buffers
<1>3. SizesInv' /\ HaltsOnlyAfterFree'
  BY DEF IInv, TypeOK, SizesInv, HaltsOnlyAfterFree, CallerInv, Offered, Buffers
<1>4. CallerInv(c)'
  BY DEF IInv, TypeOK, CallerInv, HoldsId, Fresh, Answered, Growing, Offered, HasParam
<1>5. id[c] \in Ids /\ resultMap'[id[c]] # Nothing =>
        Growing(c)' /\ id'[c] = id[c]
  BY ParkedIsOwn DEF IInv, TypeOK, Growing
<1> QED
  BY <1>1, <1>2, <1>3, <1>4, <1>5, StepKeepsIInv

\* A larger error buffer, of one of the two sizes the host may read.
LEMMA MakeErrorStep ==
  ASSUME IInv, NEW c \in Callers, MakeError(c)
  PROVE  IInv'
<1> USE DEF MakeError, Moves, Panics
<1>0. PICK n \in 1 .. CIntMax :
        /\ pc[c] = "makeError"
        /\ pc' = [pc EXCEPT ![c] = "enter"]
        /\ errorBuf' = [errorBuf EXCEPT ![c] = BufferOf(n)]
        /\ recall' = [recall EXCEPT ![c] = TRUE]
        /\ UNCHANGED <<setup, live, halted, requestId, bigSize, smallSize,
                       resultMap, request, id, resultBuf, got, runs, made, reply>>
  <2>1. smallSize \in 1 .. CIntMax /\ 2 * errorBuf[c].cap \in 1 .. CIntMax
    BY CIntAssumption DEF IInv, SizesInv, CallerInv, Offered
  <2> QED
    BY <2>1, CIntAssumption
<1>1. StepOf(c)
  BY DEF IInv, TypeOK, StepOf
<1>2. TypeOK'
  BY <1>0, BufferTypes DEF IInv, TypeOK, PcValues
<1>3. SizesInv' /\ HaltsOnlyAfterFree'
  BY <1>0 DEF IInv, TypeOK, SizesInv, HaltsOnlyAfterFree
<1>4. CallerInv(c)'
  BY <1>0, BufferTypes DEF IInv, TypeOK, CallerInv, HoldsId, Fresh, Answered, Growing, Offered, HasParam
<1>5. id[c] \in Ids /\ resultMap'[id[c]] # Nothing =>
        Growing(c)' /\ id'[c] = id[c]
  BY ParkedIsOwn DEF IInv, TypeOK, Growing
<1> QED
  BY <1>1, <1>2, <1>3, <1>4, <1>5, StepKeepsIInv

\* The call returns what its buffers hold.
LEMMA RebuildStep ==
  ASSUME IInv, NEW c \in Callers, Rebuild(c)
  PROVE  IInv'
<1> USE DEF Rebuild, Moves, Returns
<1>1. StepOf(c)
  BY DEF IInv, TypeOK, StepOf
<1>2. TypeOK'
  BY ReplyTypes DEF IInv, TypeOK, PcValues
<1>3. SizesInv' /\ HaltsOnlyAfterFree'
  BY DEF IInv, TypeOK, SizesInv, HaltsOnlyAfterFree
<1>4. CallerInv(c)'
  BY DEF IInv, TypeOK, CallerInv, HoldsId, Fresh, Answered, Growing, Offered, HasParam
<1>5. id[c] \in Ids /\ resultMap'[id[c]] # Nothing =>
        Growing(c)' /\ id'[c] = id[c]
  BY ParkedIsOwn DEF IInv, TypeOK, Growing
<1> QED
  BY <1>1, <1>2, <1>3, <1>4, <1>5, StepKeepsIInv

\* The locals of a call that returned are gone.
LEMMA LeaveStep ==
  ASSUME IInv, NEW c \in Callers, Leave(c)
  PROVE  IInv'
<1> USE DEF Leave, Moves
<1>1. StepOf(c)
  BY DEF IInv, TypeOK, StepOf
<1>2. TypeOK'
  BY BufferTypes, ReplyTypes, RequestAssumption DEF IInv, TypeOK, PcValues
<1>3. SizesInv' /\ HaltsOnlyAfterFree'
  BY DEF IInv, TypeOK, SizesInv, HaltsOnlyAfterFree
<1>4. CallerInv(c)'
  BY DEF IInv, TypeOK, CallerInv, HoldsId, Fresh, Answered, Growing, Offered, HasParam
<1>5. id[c] \in Ids /\ resultMap'[id[c]] # Nothing =>
        Growing(c)' /\ id'[c] = id[c]
  BY ParkedIsOwn DEF IInv, TypeOK, Growing
<1> QED
  BY <1>1, <1>2, <1>3, <1>4, <1>5, StepKeepsIInv

\* The plugin's comparison of an answer with the words of the capacities: a
\* part that fits is no longer than its buffer, and one that does not is
\* reached by a capacity the C int still holds.
LEMMA Comparisons ==
  ASSUME TypeOK, NEW c \in Callers, NEW a \in Answers,
         Offered(resultBuf[c]), Offered(errorBuf[c])
  PROVE  /\ ResultFits(c, a) => a.res <= resultBuf[c].cap
         /\ ~ResultFits(c, a) => 2 * resultBuf[c].cap <= CIntMax
         /\ ErrorFits(c, a) => a.err <= errorBuf[c].cap
         /\ ~ErrorFits(c, a) => 2 * errorBuf[c].cap <= CIntMax
<1>1. /\ AsCInt(resultBuf[c].len) = resultBuf[c].cap
      /\ AsCInt(errorBuf[c].len) = errorBuf[c].cap
  BY AsCIntExact, CIntAssumption DEF Offered
<1>2. resultBuf[c].cap \in Nat /\ errorBuf[c].cap \in Nat
  BY CIntAssumption DEF Offered
<1>3. /\ ResultFits(c, a) => a.res <= resultBuf[c].cap
      /\ ErrorFits(c, a) => a.err <= errorBuf[c].cap
  BY <1>1, <1>2, AnswerFields DEF ResultFits, ErrorFits, HoldsData, HoldsError
<1>4. ~ResultFits(c, a) => resultBuf[c].cap < a.res
  BY <1>1, <1>2, AnswerFields DEF ResultFits, HoldsData
<1>5. ~ErrorFits(c, a) => errorBuf[c].cap < a.err
  BY <1>1, <1>2, AnswerFields DEF ErrorFits, HoldsError
<1>6. ~ResultFits(c, a) => 2 * resultBuf[c].cap <= CIntMax
  BY <1>2, <1>4, AnswerFields, DoubleFits
<1>7. ~ErrorFits(c, a) => 2 * errorBuf[c].cap <= CIntMax
  BY <1>2, <1>5, AnswerFields, DoubleFits
<1> QED
  BY <1>3, <1>6, <1>7

\* The copy leaves, in both words, the lengths of the answer.
LEMMA Copied ==
  ASSUME TypeOK, NEW c \in Callers, NEW a \in Answers, CopyOut(c, a),
         a.res <= resultBuf[c].cap, a.err <= errorBuf[c].cap
  PROVE  /\ resultBuf' \in [Callers -> Buffers]
         /\ errorBuf' \in [Callers -> Buffers]
         /\ got' \in [Callers -> Answers \cup {Nothing}]
         /\ got'[c] = a
         /\ resultBuf'[c].len = a.res /\ resultBuf'[c].cap = resultBuf[c].cap
         /\ errorBuf'[c].len = a.err /\ errorBuf'[c].cap = errorBuf[c].cap
<1>1. /\ resultBuf[c] \in Buffers
      /\ errorBuf[c] \in Buffers
      /\ a.res \in 0 .. MaxAlloc
      /\ a.err \in 0 .. MaxAlloc
      /\ a.err = IF a.failed THEN a.err ELSE 0
  BY AnswerFields, CIntAssumption DEF TypeOK, Buffers
<1>2. /\ resultBuf' = [resultBuf EXCEPT ![c] = [resultBuf[c] EXCEPT !.len = a.res]]
      /\ errorBuf' = [errorBuf EXCEPT ![c] = [errorBuf[c] EXCEPT !.len = a.err]]
      /\ got' = [got EXCEPT ![c] = a]
  BY <1>1 DEF CopyOut
<1>3. /\ [resultBuf[c] EXCEPT !.len = a.res] \in Buffers
      /\ [errorBuf[c] EXCEPT !.len = a.err] \in Buffers
  BY <1>1, BufferTypes
<1> QED
  BY <1>1, <1>2, <1>3 DEF TypeOK, Buffers

\* The plugin's reply to a first call, whichever way the answer was made: it
\* is parked with a caller that grows a buffer for it, or copied out.
LEMMA AnswerStep ==
  ASSUME IInv, NEW c \in Callers, NEW a \in Answers, a.of = id[c],
         request[c].arg # "good" => a.failed /\ a.res = 0, pc[c] = "run", Answer(c, a),
         runs' = [runs EXCEPT ![c] = IF request[c].arg = "good" THEN 1 ELSE 0]
  PROVE  IInv'
<1> USE DEF Answer, Moves, Park
<1>1. /\ TypeOK
      /\ CallerInv(c)
      /\ HoldsId(c)
      /\ HasParam(c)
      /\ id[c] \in Ids
      /\ Offered(resultBuf[c])
      /\ Offered(errorBuf[c])
  BY HeldIds DEF IInv, CallerInv
<1>2. SizesInv' /\ HaltsOnlyAfterFree'
  BY DEF IInv, SizesInv, HaltsOnlyAfterFree
<1>3. StepOf(c)
  BY <1>1 DEF TypeOK, StepOf, CopyOut
<1>4. Answered(c)' /\ HoldsId(c)' /\ HasParam(c)' /\ id'[c] <= requestId'
  BY <1>1, <1>3 DEF TypeOK, Answered, HoldsId, HasParam, CallerInv
<1>5. ASSUME resultBuf' \in [Callers -> Buffers],
             errorBuf' \in [Callers -> Buffers],
             got' \in [Callers -> Answers \cup {Nothing}]
      PROVE  TypeOK'
  BY <1>1, <1>5 DEF TypeOK, PcValues
<1>6. CASE Moves(c, "run", "glowResult") /\ ~ResultFits(c, a) /\ Park(c, a)
           /\ UNCHANGED <<got, resultBuf, errorBuf>>
  <2>1. TypeOK'
    BY <1>1, <1>5, <1>6 DEF TypeOK
  <2>2. 2 * resultBuf[c].cap <= CIntMax
    BY <1>1, <1>6, Comparisons
  <2>3. Growing(c)' /\ resultMap'[id'[c]] = made'[c]
    BY <1>1, <1>6 DEF TypeOK, Growing
  <2>4. CallerInv(c)'
    BY <1>1, <1>4, <1>6, <2>2, <2>3 DEF TypeOK, CallerInv, Offered
  <2> QED
    BY <1>2, <1>3, <2>1, <2>3, <2>4, StepKeepsIInv
<1>7. CASE Moves(c, "run", "glowError") /\ ~ErrorFits(c, a) /\ Park(c, a)
           /\ UNCHANGED <<got, resultBuf, errorBuf>>
  <2>1. TypeOK'
    BY <1>1, <1>5, <1>7 DEF TypeOK
  <2>2. 2 * errorBuf[c].cap <= CIntMax
    BY <1>1, <1>7, Comparisons
  <2>3. Growing(c)' /\ resultMap'[id'[c]] = made'[c]
    BY <1>1, <1>7 DEF TypeOK, Growing
  <2>4. CallerInv(c)'
    BY <1>1, <1>4, <1>7, <2>2, <2>3 DEF TypeOK, CallerInv, Offered
  <2> QED
    BY <1>2, <1>3, <2>1, <2>3, <2>4, StepKeepsIInv
<1>8. CASE Moves(c, "run", "rebuild") /\ ResultFits(c, a) /\ ErrorFits(c, a)
           /\ CopyOut(c, a) /\ UNCHANGED resultMap
  <2>1. a.res <= resultBuf[c].cap /\ a.err <= errorBuf[c].cap
    BY <1>1, <1>8, Comparisons
  <2>2. TypeOK'
    BY <1>1, <1>5, <1>8, <2>1, Copied
  <2>3. resultMap'[id[c]] = Nothing
    BY <1>1, <1>8, ParkedIsOwn DEF Growing
  <2>4. pc'[c] = "rebuild" /\ ~Growing(c)' /\ made'[c] = a
    BY <1>1, <1>8 DEF TypeOK, Growing
  <2>5. CallerInv(c)'
    BY <1>1, <1>4, <1>8, <2>1, <2>4, Copied DEF TypeOK, CallerInv
  <2> QED
    BY <1>2, <1>3, <2>2, <2>3, <2>5, StepKeepsIInv
<1> QED
  BY <1>6, <1>7, <1>8

\* An argument that does not decode is answered without running the method.
LEMMA RejectArgStep ==
  ASSUME IInv, NEW c \in Callers, RejectArg(c)
  PROVE  IInv'
<1>1. HoldsId(c) /\ Fresh(c) /\ id[c] \in Ids
  BY HeldIds DEF IInv, CallerInv, RejectArg
<1>2. PICK e \in ErrorLens :
        Answer(c, [of |-> id[c], res |-> 0, failed |-> TRUE, err |-> e])
  BY DEF RejectArg
<1>3. [of |-> id[c], res |-> 0, failed |-> TRUE, err |-> e] \in Answers
  BY <1>1 DEF Answers, AnswersTo
<1>4. runs' = [runs EXCEPT ![c] = IF request[c].arg = "good" THEN 1 ELSE 0]
  BY <1>1 DEF RejectArg, Fresh, IInv, TypeOK
<1> QED
  BY <1>2, <1>3, <1>4, AnswerStep DEF RejectArg

\* The method runs and makes an answer for this request.
LEMMA RunStep ==
  ASSUME IInv, NEW c \in Callers, Run(c)
  PROVE  IInv'
<1>1. HoldsId(c) /\ Fresh(c) /\ id[c] \in Ids
  BY HeldIds DEF IInv, CallerInv, Run
<1>2. PICK a \in AnswersTo({id[c]}) : Answer(c, a)
  BY DEF Run
<1>3. a \in Answers /\ a.of = id[c]
  BY <1>1, AnswersToOne
<1>4. runs' = [runs EXCEPT ![c] = IF request[c].arg = "good" THEN 1 ELSE 0]
  BY <1>1 DEF Run, Fresh, IInv, TypeOK
<1> QED
  BY <1>2, <1>3, <1>4, AnswerStep DEF Run

\* A recall finds the answer of the call: it stays parked with a caller that
\* grows a buffer again, or it is copied out and forgotten.
LEMMA RecallStep ==
  ASSUME IInv, NEW c \in Callers, Recall(c)
  PROVE  IInv'
<1> DEFINE a == made[c]
<1> USE DEF Recall, Moves, Panics, Forget
<1>1. /\ TypeOK
      /\ CallerInv(c)
      /\ HoldsId(c)
      /\ HasParam(c)
      /\ Answered(c)
      /\ id[c] \in Ids
      /\ recall[c] /\ pc[c] = "recall"
      /\ resultMap[id[c]] = a
      /\ a \in Answers
      /\ Offered(resultBuf[c])
      /\ Offered(errorBuf[c])
  BY HeldIds DEF IInv, CallerInv, Growing, Answered
<1>2. a # Nothing
  BY <1>1, AnswerFields
<1>3. UNCHANGED <<setup, live, halted, requestId, bigSize, smallSize,
                  request, id, recall, runs, made, reply>>
  BY <1>1, <1>2
<1>4. \/ /\ Moves(c, "recall", "glowResult")
         /\ ~ResultFits(c, a)
         /\ UNCHANGED <<resultMap, got, resultBuf, errorBuf>>
      \/ /\ Moves(c, "recall", "glowError")
         /\ ~ErrorFits(c, a)
         /\ UNCHANGED <<resultMap, got, resultBuf, errorBuf>>
      \/ /\ Moves(c, "recall", "rebuild")
         /\ ResultFits(c, a)
         /\ ErrorFits(c, a)
         /\ CopyOut(c, a)
         /\ Forget(c)
  BY <1>1, <1>2
<1>5. SizesInv' /\ HaltsOnlyAfterFree'
  BY <1>3 DEF IInv, SizesInv, HaltsOnlyAfterFree
<1>6. StepOf(c)
  BY <1>1, <1>3, <1>4 DEF TypeOK, StepOf, CopyOut
<1>7. Answered(c)' /\ HoldsId(c)' /\ HasParam(c)' /\ id'[c] <= requestId'
  BY <1>1, <1>3 DEF TypeOK, Answered, HoldsId, HasParam, CallerInv
<1>8. ASSUME resultBuf' \in [Callers -> Buffers],
             errorBuf' \in [Callers -> Buffers],
             got' \in [Callers -> Answers \cup {Nothing}]
      PROVE  TypeOK'
  BY <1>1, <1>3, <1>4, <1>8 DEF TypeOK, PcValues
<1>9. CASE Moves(c, "recall", "glowResult") /\ ~ResultFits(c, a)
           /\ UNCHANGED <<resultMap, got, resultBuf, errorBuf>>
  <2>1. TypeOK' /\ 2 * resultBuf[c].cap <= CIntMax
    BY <1>1, <1>8, <1>9, Comparisons DEF TypeOK
  <2>2. Growing(c)' /\ CallerInv(c)'
    BY <1>1, <1>3, <1>7, <1>9, <2>1 DEF TypeOK, CallerInv, Offered, Growing
  <2> QED
    BY <1>3, <1>5, <1>6, <2>1, <2>2, StepKeepsIInv
<1>10. CASE Moves(c, "recall", "glowError") /\ ~ErrorFits(c, a)
            /\ UNCHANGED <<resultMap, got, resultBuf, errorBuf>>
  <2>1. TypeOK' /\ 2 * errorBuf[c].cap <= CIntMax
    BY <1>1, <1>8, <1>10, Comparisons DEF TypeOK
  <2>2. Growing(c)' /\ CallerInv(c)'
    BY <1>1, <1>3, <1>7, <1>10, <2>1 DEF TypeOK, CallerInv, Offered, Growing
  <2> QED
    BY <1>3, <1>5, <1>6, <2>1, <2>2, StepKeepsIInv
<1>11. CASE Moves(c, "recall", "rebuild") /\ ResultFits(c, a) /\ ErrorFits(c, a)
            /\ CopyOut(c, a) /\ Forget(c)
  <2>1. a.res <= resultBuf[c].cap /\ a.err <= errorBuf[c].cap
    BY <1>1, <1>11, Comparisons
  <2>2. TypeOK'
    BY <1>1, <1>8, <1>11, <2>1, Copied
  <2>3. pc'[c] = "rebuild" /\ ~Growing(c)' /\ resultMap'[id[c]] = Nothing
    BY <1>1, <1>11 DEF TypeOK, Growing
  <2>4. CallerInv(c)'
    BY <1>1, <1>3, <1>7, <1>11, <2>1, <2>3, Copied DEF TypeOK, CallerInv
  <2> QED
    BY <1>5, <1>6, <2>2, <2>3, <2>4, StepKeepsIInv
<1> QED
  BY <1>4, <1>9, <1>10, <1>11

\* FreePlugin touches no call: what it sets off is a later panic.
LEMMA FreePluginStep ==
  ASSUME IInv, FreePlugin
  PROVE  IInv'
<1> USE DEF FreePlugin
<1>1. TypeOK' /\ SizesInv' /\ HaltsOnlyAfterFree'
  BY DEF IInv, TypeOK, SizesInv, HaltsOnlyAfterFree
<1>2. ASSUME NEW c \in Callers PROVE CallerInv(c)'
  BY DEF IInv, CallerInv, HoldsId, Fresh, Answered, Growing, HasParam, Offered
<1>3. ParkedInv'
  BY DEF IInv, ParkedInv, Growing
<1> QED
  BY <1>1, <1>2, <1>3 DEF IInv

-----------------------------------------------------------------------------
(* The invariant.                                                          *)

LEMMA InitIInv == Init => IInv
<1> SUFFICES ASSUME Init PROVE IInv
  OBVIOUS
<1>0. /\ 0 \in 0 .. MaxCalls
      /\ BigInit \in Nat /\ SmallInit \in Nat
  BY SizesAssumption, RequestAssumption, CIntAssumption
<1>1. TypeOK
  <2>1. /\ setup \in Setups
        /\ live \in BOOLEAN
        /\ halted \in BOOLEAN
        /\ requestId \in 0 .. MaxCalls
        /\ bigSize \in Nat
        /\ smallSize \in Nat
        /\ resultMap \in [Ids -> Answers \cup {Nothing}]
    BY <1>0 DEF Init
  <2>2. /\ pc \in [Callers -> PcValues]
        /\ request \in [Callers -> Requests \cup {Nothing}]
        /\ id \in [Callers -> 0 .. MaxCalls]
        /\ recall \in [Callers -> BOOLEAN]
        /\ runs \in [Callers -> 0 .. 1]
    BY <1>0 DEF Init, PcValues
  <2>3. /\ resultBuf \in [Callers -> Buffers]
        /\ errorBuf \in [Callers -> Buffers]
        /\ got \in [Callers -> Answers \cup {Nothing}]
        /\ made \in [Callers -> Answers \cup {Nothing}]
        /\ reply \in [Callers -> Replies]
    BY BufferTypes, ReplyTypes DEF Init
  <2> QED
    BY <2>1, <2>2, <2>3 DEF TypeOK
<1>2. SizesInv /\ HaltsOnlyAfterFree
  BY SizesAssumption DEF Init, SizesInv, HaltsOnlyAfterFree
<1>3. ParkedInv
  BY DEF Init, ParkedInv
<1>4. \A c \in Callers : CallerInv(c)
  BY DEF Init, CallerInv, Fresh, Growing
<1> QED
  BY <1>1, <1>2, <1>3, <1>4 DEF IInv

LEMMA NextIInv == IInv /\ [Next \/ Resized]_vars => IInv'
<1> SUFFICES ASSUME IInv, [Next \/ Resized]_vars PROVE IInv'
  OBVIOUS
<1>1. ASSUME NEW c \in Callers, Invoke(c) PROVE IInv'
  BY <1>1, NotOfferedStep, EncodeFailsStep, BeginStep DEF Invoke
<1>2. ASSUME NEW c \in Callers, Advance(c) PROVE IInv'
  BY <1>2, GetBigStep, GetSmallStep, NotImplementedStep, EnterStep,
     InstanceGoneStep, RejectArgStep, RunStep, RecallStep, GlowResultStep,
     MakeResultStep, GlowErrorStep, MakeErrorStep, RebuildStep DEF Advance
<1>3. ASSUME NEW c \in Callers, Leave(c) PROVE IInv'
  BY <1>3, LeaveStep
<1>4. CASE FreePlugin
  BY <1>4, FreePluginStep
<1>5. CASE UNCHANGED vars
  <2>1. TypeOK' /\ SizesInv' /\ HaltsOnlyAfterFree'
    BY <1>5 DEF vars, IInv, TypeOK, SizesInv, HaltsOnlyAfterFree
  <2>2. ASSUME NEW c \in Callers PROVE CallerInv(c)'
    BY <1>5 DEF vars, IInv, CallerInv, HoldsId, Fresh, Answered, Growing,
                HasParam, Offered
  <2>3. ParkedInv'
    BY <1>5 DEF vars, IInv, ParkedInv, Growing
  <2> QED
    BY <2>1, <2>2, <2>3 DEF IInv
<1>6. CASE Resized
  <2>1. /\ bigSize' \in 1 .. CIntMax /\ smallSize' \in 1 .. CIntMax
        /\ bigSize' \in Nat /\ smallSize' \in Nat
    BY <1>6, CIntAssumption DEF Resized
  <2>2. TypeOK' /\ SizesInv' /\ HaltsOnlyAfterFree'
    BY <1>6, <2>1 DEF Resized, IInv, TypeOK, SizesInv, HaltsOnlyAfterFree
  <2>3. ASSUME NEW c \in Callers PROVE CallerInv(c)'
    BY <1>6 DEF Resized, IInv, CallerInv, HoldsId, Fresh, Answered, Growing,
                HasParam, Offered
  <2>4. ParkedInv'
    BY <1>6 DEF Resized, IInv, ParkedInv, Growing
  <2> QED
    BY <2>2, <2>3, <2>4 DEF IInv
<1> QED
  BY <1>1, <1>2, <1>3, <1>4, <1>5, <1>6 DEF Next

\* Only FreePlugin takes the instance away.
LEMMA CallKeepsLive ==
  ASSUME NEW c \in Callers, Invoke(c) \/ Advance(c) \/ Leave(c)
  PROVE  live' = live
<1>1. ASSUME Invoke(c) PROVE live' = live
  BY <1>1 DEF Invoke, NotOffered, EncodeFails, Begin, Returns
<1>2. ASSUME Advance(c) PROVE live' = live
  <2>1. CASE GetBigBuffer(c) \/ GetSmallBuffer(c) \/ NotImplemented(c) \/ Enter(c)
    BY <2>1 DEF GetBigBuffer, GetSmallBuffer, NotImplemented, Enter, Returns
  <2>2. CASE InstanceGone(c) \/ RejectArg(c) \/ Run(c) \/ Recall(c)
    BY <2>2 DEF InstanceGone, RejectArg, Run, Recall, Answer, Panics
  <2>3. CASE GlowResult(c) \/ MakeResult(c)
    BY <2>3 DEF GlowResult, MakeResult, Panics
  <2>4. CASE GlowError(c) \/ MakeError(c) \/ Rebuild(c)
    BY <2>4 DEF GlowError, MakeError, Rebuild, Returns, Panics
  <2> QED
    BY <1>2, <2>1, <2>2, <2>3, <2>4 DEF Advance
<1> QED
  BY <1>1, <1>2 DEF Leave

\* Whatever the event path does to the sizes, IInv holds.
THEOREM OpenInvariance == OpenSpec => []IInv
BY InitIInv, NextIInv, PTL DEF OpenSpec

\* IInv holds of every reachable state.
THEOREM Invariance == Spec => []IInv
<1>1. IInv /\ [Next]_vars => IInv'
  BY NextIInv
<1> QED
  BY <1>1, InitIInv, PTL DEF Spec

\* The safety properties follow from IInv in every state.
LEMMA IInvImplies ==
  IInv => /\ MethodRunsOnce
          /\ OwnAnswer
          /\ NoOverrun
          /\ ParkedWhileGrowing
<1> SUFFICES ASSUME IInv
             PROVE  MethodRunsOnce /\ OwnAnswer /\ NoOverrun /\ ParkedWhileGrowing
  OBVIOUS
<1>1. MethodRunsOnce
  BY DEF IInv, CallerInv, MethodRunsOnce, Growing, Answered
<1>2. OwnAnswer
  BY DEF IInv, CallerInv, OwnAnswer, Answered
<1>3. NoOverrun
  BY DEF IInv, CallerInv, NoOverrun
<1>4. ParkedWhileGrowing
  <2>1. ASSUME NEW c \in Callers, Growing(c)
        PROVE  id[c] \in Ids /\ resultMap[id[c]] # Nothing
    <3>1. HoldsId(c) /\ Answered(c) /\ resultMap[id[c]] = made[c]
      BY <2>1 DEF IInv, CallerInv, Growing
    <3> QED
      BY <3>1, HeldIds, AnswerFields DEF IInv, Answered
  <2> QED
    BY <2>1 DEF IInv, ParkedInv, ParkedWhileGrowing
<1> QED
  BY <1>1, <1>2, <1>3, <1>4

\* Every variable keeps its type.
THEOREM TypeCorrect == Spec => []TypeOK
BY Invariance, PTL DEF IInv

\* The plugin's method runs once for a call, however often the call comes
\* back for a larger buffer (callEpWithArg with recall = 1), for any number
\* of callers and any width of the C int.
THEOREM RunsOnce == Spec => []MethodRunsOnce
BY Invariance, IInvImplies, PTL

\* A caller rebuilds its reply from the answer to its own request.
THEOREM OwnAnswers == Spec => []OwnAnswer
BY Invariance, IInvImplies, PTL

\* The plugin never writes past a buffer of the host, whatever sizes the
\* unsynchronised bufferManagers hand out.
THEOREM NoOverruns == Spec => []NoOverrun
BY Invariance, IInvImplies, PTL

\* The resultMap holds exactly the answers being waited for.
THEOREM NoParkedAnswerLost == Spec => []ParkedWhileGrowing
BY Invariance, IInvImplies, PTL

\* Without FreePlugin the request path cannot panic.
THEOREM OnlyFreeHalts == Spec => []HaltsOnlyAfterFree
BY Invariance, PTL DEF IInv

-----------------------------------------------------------------------------
(* What a call returns.  An error with an empty text is the exception the  *)
(* host cannot see (ErrorsSurvive), so these results assume there is none. *)

Told(c) ==
  pc[c] = "returned" =>
    IF made[c] = Nothing
      THEN reply[c].error = {"host"} /\ reply[c].result # "value"
      ELSE Tells(reply[c], made[c])

\* A step after which no more calls have returned leaves the replies told.
LEMMA QuietStep ==
  ASSUME ReplyTellsAnswer,
         \A d \in Callers : pc'[d] = "returned" =>
           pc[d] = "returned" /\ made'[d] = made[d] /\ reply'[d] = reply[d]
  PROVE  ReplyTellsAnswer'
BY DEF ReplyTellsAnswer, Tells

\* A call that returns before the plugin has answered carries an error of the
\* host and no result.
LEMMA RefusalTold ==
  ASSUME IInv, ReplyTellsAnswer, NEW c \in Callers, Fresh(c),
         NEW r \in {"nil", "blank"},
         pc' = [pc EXCEPT ![c] = "returned"],
         reply' = [reply EXCEPT ![c] = [result |-> r, error |-> {"host"}]],
         made' = made
  PROVE  ReplyTellsAnswer'
<1>1. Told(c)'
  BY DEF IInv, TypeOK, Fresh, Told
<1>2. ASSUME NEW d \in Callers, d # c PROVE Told(d)'
  BY <1>2 DEF IInv, TypeOK, ReplyTellsAnswer, Told, Tells
<1> QED
  BY <1>1, <1>2 DEF ReplyTellsAnswer, Told

\* A call that rebuilds its reply tells the answer in its buffers.
LEMMA RebuildTold ==
  ASSUME 0 \notin ErrorLens, IInv, ReplyTellsAnswer,
         NEW c \in Callers, Rebuild(c)
  PROVE  ReplyTellsAnswer'
<1> DEFINE a == made[c]
<1> USE DEF Rebuild, Moves, Returns
<1>1. /\ pc[c] = "rebuild"
      /\ a \in Answers
      /\ resultBuf[c].len = a.res
      /\ errorBuf[c].len = a.err
  BY DEF IInv, CallerInv, Answered
<1>2. a # Nothing /\ (a.failed <=> a.err # 0)
  BY <1>1, AnswerFields DEF Answers, AnswersTo
<1>3. PICK decodes \in BOOLEAN :
        reply' = [reply EXCEPT ![c] =
          [result |-> IF resultBuf[c].len # 0 /\ decodes THEN "value" ELSE "blank",
           error  |-> {s \in {"plugin", "host"} :
                         IF s = "plugin" THEN errorBuf[c].len # 0
                                         ELSE resultBuf[c].len # 0 /\ ~decodes}]]
  OBVIOUS
<1>4. Tells(reply'[c], a)
  BY <1>1, <1>2, <1>3 DEF Tells, IInv, TypeOK
<1>5. Told(c)'
  BY <1>2, <1>4 DEF Told, Tells
<1>6. ASSUME NEW d \in Callers, d # c PROVE Told(d)'
  BY <1>6 DEF IInv, TypeOK, ReplyTellsAnswer, Told, Tells
<1> QED
  BY <1>5, <1>6 DEF ReplyTellsAnswer, Told

LEMMA RepliesToldStep ==
  ASSUME 0 \notin ErrorLens, IInv, ReplyTellsAnswer, [Next \/ Resized]_vars
  PROVE  ReplyTellsAnswer'
<1> USE DEF Moves
<1>1. ASSUME NEW c \in Callers, NEW r \in Requests,
             NotOffered(c, r) \/ EncodeFails(c, r)
      PROVE  ReplyTellsAnswer'
  <2>1. Fresh(c)
    BY <1>1 DEF NotOffered, EncodeFails, IInv, CallerInv
  <2> QED
    BY <1>1, <2>1, RefusalTold DEF NotOffered, EncodeFails, Returns
<1>2. ASSUME NEW c \in Callers, NotImplemented(c) PROVE ReplyTellsAnswer'
  <2>1. Fresh(c)
    BY <1>2 DEF NotImplemented, IInv, CallerInv, Growing
  <2> QED
    BY <1>2, <2>1, RefusalTold DEF NotImplemented, Returns
<1>3. ASSUME NEW c \in Callers, Rebuild(c) PROVE ReplyTellsAnswer'
  BY <1>3, RebuildTold
<1>4. ASSUME NEW c \in Callers, NEW r \in Requests, Begin(c, r)
      PROVE  ReplyTellsAnswer'
  BY <1>4, QuietStep DEF Begin, IInv, TypeOK
<1>5. ASSUME NEW c \in Callers, RejectArg(c) \/ Run(c) PROVE ReplyTellsAnswer'
  BY <1>5, QuietStep DEF RejectArg, Run, Answer, IInv, TypeOK
<1>6. ASSUME NEW c \in Callers, Recall(c) PROVE ReplyTellsAnswer'
  BY <1>6, QuietStep DEF Recall, Panics, IInv, TypeOK
<1>7. ASSUME NEW c \in Callers,
             MakeResult(c) \/ MakeError(c) \/ InstanceGone(c)
      PROVE  ReplyTellsAnswer'
  BY <1>7, QuietStep DEF MakeResult, MakeError, InstanceGone, Panics, IInv, TypeOK
<1>8. ASSUME NEW c \in Callers,
             GetBigBuffer(c) \/ GetSmallBuffer(c) \/ Enter(c)
               \/ GlowResult(c) \/ GlowError(c)
      PROVE  ReplyTellsAnswer'
  BY <1>8, QuietStep DEF GetBigBuffer, GetSmallBuffer, Enter, GlowResult,
                         GlowError, IInv, TypeOK
<1>9. ASSUME NEW c \in Callers, Leave(c) PROVE ReplyTellsAnswer'
  BY <1>9, QuietStep DEF Leave, IInv, TypeOK
<1>10. CASE FreePlugin
  BY <1>10, QuietStep DEF FreePlugin
<1>11. CASE UNCHANGED vars \/ Resized
  BY <1>11, QuietStep DEF vars, Resized
<1> QED
  BY <1>1, <1>2, <1>3, <1>4, <1>5, <1>6, <1>7, <1>8, <1>9, <1>10, <1>11
  DEF Next, Invoke, Advance

\* A call returns what the plugin answered: an error exactly when there was
\* one, and the result unless the host says why not.
THEOREM RepliesTell ==
  ASSUME 0 \notin ErrorLens
  PROVE  Spec => []ReplyTellsAnswer
<1>1. Init => ReplyTellsAnswer
  BY DEF Init, ReplyTellsAnswer
<1>2. IInv /\ ReplyTellsAnswer /\ [Next]_vars => ReplyTellsAnswer'
  BY RepliesToldStep
<1> QED
  BY <1>1, <1>2, Invariance, PTL DEF Spec

-----------------------------------------------------------------------------
(* The request path implements Invocation.                                 *)

\* A step of caller c alone changes the abstract state of c alone.
LEMMA AbstractChange ==
  ASSUME TypeOK, NEW c \in Callers,
         \A d \in Callers \ {c} :
           pc'[d] = pc[d] /\ runs'[d] = runs[d] /\ made'[d] = made[d]
  PROVE  /\ Phase' = [Phase EXCEPT ![c] = PhaseOf(c)']
         /\ ExecutedAnswer' =
              [ExecutedAnswer EXCEPT ![c] = IF runs'[c] = 0 THEN Nothing ELSE made'[c]]
<1>1. Phase' = [Phase EXCEPT ![c] = PhaseOf(c)']
  BY DEF Phase, PhaseOf
<1>2. ExecutedAnswer' =
        [ExecutedAnswer EXCEPT ![c] = IF runs'[c] = 0 THEN Nothing ELSE made'[c]]
  BY DEF ExecutedAnswer
<1> QED
  BY <1>1, <1>2

\* A step that changes neither the phase, the runs nor the answers nor the
\* reply of its caller is invisible.
LEMMA AbstractStutter ==
  ASSUME TypeOK, NEW c \in Callers, UNCHANGED <<halted, reply>>,
         \A d \in Callers \ {c} :
           pc'[d] = pc[d] /\ runs'[d] = runs[d] /\ made'[d] = made[d],
         PhaseOf(c)' = PhaseOf(c),
         runs'[c] = runs[c],
         runs[c] = 0 \/ made'[c] = made[c]
  PROVE  UNCHANGED Abstract!vars
<1>1. Phase' = Phase
  BY AbstractChange DEF Phase
<1>2. ExecutedAnswer' = ExecutedAnswer
  BY AbstractChange DEF ExecutedAnswer
<1> QED
  BY <1>1, <1>2 DEF Abstract!vars

\* A call refused by the host, before or after it was made.
LEMMA AbstractRefuse ==
  ASSUME IInv, NEW c \in Callers, Fresh(c), ~halted, UNCHANGED <<halted, runs, made>>,
         pc' = [pc EXCEPT ![c] = "returned"],
         NEW from \in {"idle", "called"}, PhaseOf(c) = from,
         NEW res \in {"nil", "blank"},
         reply' = [reply EXCEPT ![c] = [result |-> res, error |-> {"host"}]]
  PROVE  Abstract!Refuse(c, {from})
<1>1. Phase' = [Phase EXCEPT ![c] = "replied"]
  BY AbstractChange DEF IInv, TypeOK, PhaseOf
<1>2. ExecutedAnswer' = ExecutedAnswer
  BY DEF ExecutedAnswer
<1>3. Refusal([result |-> res, error |-> {"host"}])
  BY DEF Refusal
<1>4. [result |-> res, error |-> {"host"}] \in Replies
  BY ReplyTypes
<1>5. Phase[c] = from
  BY DEF Phase
<1> QED
  BY <1>1, <1>2, <1>3, <1>4, <1>5 DEF Abstract!Refuse, Abstract!Moves

\* Rebuilding the reply responds to a call that ran, and refuses one whose
\* argument did not decode.
LEMMA AbstractRebuild ==
  ASSUME 0 \notin ErrorLens, IInv, ReplyTellsAnswer,
         NEW c \in Callers, Rebuild(c)
  PROVE  Abstract!Respond(c) \/ Abstract!Refuse(c, {"called"})
<1> USE DEF Rebuild, Moves, Returns
<1>1. /\ pc[c] = "rebuild" /\ pc'[c] = "returned" /\ ~halted
      /\ Answered(c)
      /\ resultBuf[c].len = made[c].res
      /\ UNCHANGED <<runs, made, halted>>
  BY DEF IInv, TypeOK, CallerInv
<1>2. /\ made[c] # Nothing
      /\ TypeOK' /\ ReplyTellsAnswer'
  BY <1>1, AnswerFields, RebuildTold, RebuildStep DEF IInv, Answered
<1>3. Tells(reply'[c], made[c]) /\ reply'[c] \in Replies
  BY <1>1, <1>2 DEF ReplyTellsAnswer, TypeOK
<1>4. reply' = [reply EXCEPT ![c] = reply'[c]]
  BY DEF IInv, TypeOK
<1>5. Phase' = [Phase EXCEPT ![c] = "replied"] /\ ExecutedAnswer' = ExecutedAnswer
  BY <1>1, AbstractChange DEF IInv, TypeOK, PhaseOf, ExecutedAnswer
<1>6. CASE runs[c] = 0
  <2>1. made[c].failed /\ made[c].res = 0
    BY <1>1, <1>6 DEF Answered
  <2>2. Refusal(reply'[c])
    BY <1>2, <1>3, <2>1 DEF Tells, Refusal
  <2>3. Phase[c] = "called"
    BY <1>1, <1>6 DEF Phase, PhaseOf
  <2> QED
    BY <1>1, <1>3, <1>4, <1>5, <2>2, <2>3 DEF Abstract!Refuse, Abstract!Moves
<1>7. CASE runs[c] # 0
  <2>1. Phase[c] = "executed" /\ ExecutedAnswer[c] = made[c]
    BY <1>1, <1>7 DEF Phase, PhaseOf, ExecutedAnswer
  <2> QED
    BY <1>1, <1>3, <1>4, <1>5, <2>1 DEF Abstract!Respond, Abstract!Moves
<1> QED
  BY <1>6, <1>7

\* The method of a call runs: the abstract callee executes.
LEMMA AbstractRun ==
  ASSUME IInv, NEW c \in Callers, Run(c)
  PROVE  Abstract!Execute(c)
<1> USE DEF Run, Moves
<1>1. HoldsId(c) /\ Fresh(c) /\ id[c] \in Ids
  BY HeldIds DEF IInv, CallerInv
<1>2. PICK a \in AnswersTo({id[c]}) : Answer(c, a)
  OBVIOUS
<1>3. a \in Answers
  BY <1>1, AnswersToOne
<1>4. /\ ~halted /\ UNCHANGED <<halted, reply>>
      /\ pc[c] = "run"
      /\ pc'[c] \in {"glowResult", "glowError", "rebuild"}
      /\ made' = [made EXCEPT ![c] = a]
      /\ runs' = [runs EXCEPT ![c] = @ + 1]
      /\ \A d \in Callers \ {c} : pc'[d] = pc[d]
  BY <1>2 DEF Answer, IInv, TypeOK
<1>5. runs'[c] = 1 /\ made'[c] = a
  BY <1>1, <1>4 DEF Fresh, IInv, TypeOK
<1>6. /\ Phase' = [Phase EXCEPT ![c] = "executed"]
      /\ ExecutedAnswer' = [ExecutedAnswer EXCEPT ![c] = a]
  BY <1>4, <1>5, AbstractChange DEF IInv, TypeOK, PhaseOf
<1>7. Phase[c] = "called"
  BY <1>1, <1>4 DEF Phase, PhaseOf, Fresh
<1> QED
  BY <1>3, <1>4, <1>6, <1>7 DEF Abstract!Execute, Abstract!Moves

\* The steps that go on with a call without telling anybody.
LEMMA AbstractInside ==
  ASSUME IInv, NEW c \in Callers,
         \/ GetBigBuffer(c) \/ GetSmallBuffer(c) \/ Enter(c)
         \/ RejectArg(c) \/ GlowResult(c) \/ GlowError(c)
         \/ (Recall(c) /\ ~halted') \/ (MakeResult(c) /\ ~halted')
         \/ (MakeError(c) /\ ~halted')
  PROVE  UNCHANGED Abstract!vars
<1> USE DEF Moves, Panics
<1>1. CASE GetBigBuffer(c) \/ GetSmallBuffer(c) \/ Enter(c)
           \/ GlowResult(c) \/ GlowError(c)
  BY <1>1, AbstractStutter
  DEF GetBigBuffer, GetSmallBuffer, Enter, GlowResult, GlowError, PhaseOf,
      IInv, TypeOK
<1>2. CASE RejectArg(c)
  <2>1. Fresh(c)
    BY <1>2 DEF RejectArg, IInv, CallerInv
  <2> QED
    BY <1>2, <2>1, AbstractStutter DEF RejectArg, Answer, PhaseOf, Fresh, IInv, TypeOK
<1>3. CASE Recall(c) /\ ~halted'
  BY <1>3, AbstractStutter DEF Recall, PhaseOf, IInv, TypeOK
<1>4. CASE (MakeResult(c) \/ MakeError(c)) /\ ~halted'
  BY <1>4, AbstractStutter DEF MakeResult, MakeError, PhaseOf, IInv, TypeOK
<1> QED
  BY <1>1, <1>2, <1>3, <1>4

\* A panic halts the abstract system.
LEMMA AbstractHalt ==
  ASSUME ~halted, halted', UNCHANGED <<pc, runs, made, reply>>
  PROVE  Abstract!Halt
BY DEF Abstract!Halt, Phase, PhaseOf, ExecutedAnswer

LEMMA AbstractAdvance ==
  ASSUME 0 \notin ErrorLens, IInv, ReplyTellsAnswer,
         NEW c \in Callers, Advance(c)
  PROVE  Abstract!Advance(c) \/ Abstract!Halt \/ UNCHANGED Abstract!vars
<1>1. CASE NotImplemented(c)
  <2>1. Fresh(c) /\ pc[c] = "enter"
    BY <1>1 DEF NotImplemented, Moves, IInv, CallerInv, Growing
  <2>2. PhaseOf(c) = "called"
    BY <2>1 DEF PhaseOf, Fresh
  <2> QED
    BY <1>1, <2>1, <2>2, AbstractRefuse
    DEF NotImplemented, Moves, Returns, Abstract!Advance
<1>2. CASE InstanceGone(c)
  BY <1>2, AbstractHalt DEF InstanceGone, Panics
<1>3. CASE Recall(c) \/ MakeResult(c) \/ MakeError(c)
  <2>1. CASE halted'
    BY <1>3, <2>1, AbstractHalt DEF Recall, MakeResult, MakeError, Panics, Moves
  <2>2. CASE ~halted'
    BY <1>3, <2>2, AbstractInside
  <2> QED
    BY <2>1, <2>2 DEF IInv, TypeOK
<1>4. CASE Run(c)
  BY <1>4, AbstractRun DEF Abstract!Advance
<1>5. CASE Rebuild(c)
  BY <1>5, AbstractRebuild DEF Abstract!Advance
<1> QED
  BY <1>1, <1>2, <1>3, <1>4, <1>5, AbstractInside DEF Advance

\* The calls of the application: refused by the host, or made.
LEMMA AbstractInvoke ==
  ASSUME IInv, NEW c \in Callers, Invoke(c)
  PROVE  Abstract!Invoke(c) \/ Abstract!Refuse(c, {"idle"})
<1> USE DEF Moves, Returns
<1>1. Fresh(c) /\ PhaseOf(c) = "idle" /\ pc[c] = "idle" /\ ~halted
  BY DEF Invoke, NotOffered, EncodeFails, Begin, IInv, CallerInv, PhaseOf
<1>2. ASSUME NEW r \in Requests, NotOffered(c, r) \/ EncodeFails(c, r)
      PROVE  Abstract!Refuse(c, {"idle"})
  BY <1>1, <1>2, AbstractRefuse DEF NotOffered, EncodeFails
<1>3. ASSUME NEW r \in Requests, Begin(c, r)
      PROVE  Abstract!Invoke(c)
  <2>1. /\ pc' = [pc EXCEPT ![c] = "getBig"]
        /\ UNCHANGED <<halted, runs, made, reply>>
    BY <1>3 DEF Begin
  <2>2. Phase' = [Phase EXCEPT ![c] = "called"]
    BY <1>1, <2>1, AbstractChange DEF IInv, TypeOK, PhaseOf, Fresh
  <2>3. ExecutedAnswer' = ExecutedAnswer /\ Phase[c] = "idle"
    BY <1>1, <2>1 DEF ExecutedAnswer, Phase
  <2> QED
    BY <1>1, <2>1, <2>2, <2>3 DEF Abstract!Invoke, Abstract!Moves
<1> QED
  BY <1>2, <1>3 DEF Invoke

LEMMA AbstractLeave ==
  ASSUME IInv, NEW c \in Callers, Leave(c)
  PROVE  Abstract!Leave(c)
<1> USE DEF Leave, Moves
<1>1. Phase' = [Phase EXCEPT ![c] = "idle"]
  BY AbstractChange DEF IInv, TypeOK, PhaseOf
<1>2. ExecutedAnswer' = [ExecutedAnswer EXCEPT ![c] = Nothing]
  BY AbstractChange DEF IInv, TypeOK
<1>3. Phase[c] = "replied"
  BY DEF Phase, PhaseOf
<1> QED
  BY <1>1, <1>2, <1>3 DEF Abstract!Leave, Abstract!Moves

LEMMA AbstractInit == Init => Abstract!Init
BY DEF Init, Abstract!Init, Phase, PhaseOf, ExecutedAnswer

LEMMA AbstractNext ==
  ASSUME 0 \notin ErrorLens
  PROVE  IInv /\ ReplyTellsAnswer /\ [Next \/ Resized]_vars => [Abstract!Next]_(Abstract!vars)
<1> SUFFICES ASSUME IInv, ReplyTellsAnswer, [Next \/ Resized]_vars
             PROVE  [Abstract!Next]_(Abstract!vars)
  OBVIOUS
<1>1. ASSUME NEW c \in Callers, Invoke(c) PROVE Abstract!Next
  BY <1>1, AbstractInvoke DEF Abstract!Next
<1>2. ASSUME NEW c \in Callers, Advance(c)
      PROVE  Abstract!Next \/ UNCHANGED Abstract!vars
  BY <1>2, AbstractAdvance DEF Abstract!Next
<1>3. ASSUME NEW c \in Callers, Leave(c) PROVE Abstract!Next
  BY <1>3, AbstractLeave DEF Abstract!Next
<1>4. CASE FreePlugin \/ Resized \/ UNCHANGED vars
  <2>1. UNCHANGED <<pc, runs, made, reply, halted>>
    BY <1>4 DEF FreePlugin, Resized, vars
  <2> QED
    BY <2>1 DEF Abstract!vars, Phase, PhaseOf, ExecutedAnswer
<1> QED
  BY <1>1, <1>2, <1>3, <1>4 DEF Next

\* The request path implements the plain invocation: ids, buffers, recalls
\* and the unsynchronised sizes do not show.
THEOREM Refinement ==
  ASSUME 0 \notin ErrorLens
  PROVE  Spec => ImplementsInvocation
<1>1. IInv /\ ReplyTellsAnswer /\ [Next]_vars => [Abstract!Next]_(Abstract!vars)
  BY AbstractNext
<1> QED
  BY <1>1, AbstractInit, Invariance, RepliesTell, PTL
  DEF Spec, ImplementsInvocation, Abstract!Spec

\* So it does whatever the event path does to the sizes.
THEOREM OpenRefinement ==
  ASSUME 0 \notin ErrorLens
  PROVE  OpenSpec => ImplementsInvocation
<1>1. Init => ReplyTellsAnswer
  BY DEF Init, ReplyTellsAnswer
<1>2. IInv /\ ReplyTellsAnswer /\ [Next \/ Resized]_vars => ReplyTellsAnswer'
  BY RepliesToldStep
<1>3. IInv /\ ReplyTellsAnswer /\ [Next \/ Resized]_vars => [Abstract!Next]_(Abstract!vars)
  BY AbstractNext
<1> QED
  BY <1>1, <1>2, <1>3, AbstractInit, OpenInvariance, PTL
  DEF OpenSpec, ImplementsInvocation, Abstract!Spec

-----------------------------------------------------------------------------
(* The floors under the sizes.                                             *)

\* A step of one caller leaves the others' buffers alone.
LEMMA OthersBuffers ==
  ASSUME IInv, NEW c \in Callers, Invoke(c) \/ Advance(c) \/ Leave(c),
         NEW d \in Callers \ {c}
  PROVE  pc'[d] = pc[d] /\ resultBuf'[d] = resultBuf[d] /\ errorBuf'[d] = errorBuf[d]
<1> USE DEF IInv, TypeOK, Moves, Panics, Returns
<1>1. CASE Invoke(c) \/ Leave(c)
  BY <1>1 DEF Invoke, NotOffered, EncodeFails, Begin, Leave
<1>2. CASE GetBigBuffer(c) \/ GetSmallBuffer(c) \/ NotImplemented(c) \/ Enter(c) \/ InstanceGone(c)
  BY <1>2 DEF GetBigBuffer, GetSmallBuffer, NotImplemented, Enter, InstanceGone
<1>3. CASE RejectArg(c) \/ Run(c) \/ Recall(c)
  BY <1>3 DEF RejectArg, Run, Recall, Answer, CopyOut
<1>4. CASE GlowResult(c) \/ MakeResult(c) \/ GlowError(c) \/ MakeError(c) \/ Rebuild(c)
  BY <1>4 DEF GlowResult, MakeResult, GlowError, MakeError, Rebuild
<1> QED
  BY <1>1, <1>2, <1>3, <1>4 DEF Advance

\* Where a caller's capacities and the sizes come from.
Source(c) ==
  /\ \/ bigSize' = bigSize
     \/ pc[c] = "glowResult" /\ bigSize' = 2 * resultBuf[c].cap
  /\ \/ smallSize' = smallSize
     \/ pc[c] = "glowError" /\ smallSize' = 2 * errorBuf[c].cap
  /\ pc'[c] \in Offering \cup {"getSmall"} =>
       \/ pc[c] \in Offering \cup {"getSmall"} /\ resultBuf'[c].cap = resultBuf[c].cap
       \/ resultBuf'[c].cap = bigSize
       \/ pc[c] = "makeResult" /\ resultBuf'[c].cap = 2 * resultBuf[c].cap
  /\ pc'[c] \in Offering =>
       \/ pc[c] \in Offering /\ errorBuf'[c].cap = errorBuf[c].cap
       \/ errorBuf'[c].cap = smallSize
       \/ pc[c] = "makeError" /\ errorBuf'[c].cap = 2 * errorBuf[c].cap

LEMMA SourceOfSizes ==
  ASSUME IInv, NEW c \in Callers, Invoke(c) \/ Advance(c) \/ Leave(c)
  PROVE  Source(c)
<1>1. /\ pc \in [Callers -> PcValues]
      /\ resultBuf \in [Callers -> Buffers]
      /\ errorBuf \in [Callers -> Buffers]
  BY DEF IInv, TypeOK
<1>2. CASE Invoke(c) \/ Leave(c)
  <2>1. pc'[c] \in {"returned", "getBig", "idle"} /\ UNCHANGED <<bigSize, smallSize>>
    BY <1>1, <1>2 DEF Invoke, NotOffered, EncodeFails, Begin, Leave, Moves, Returns
  <2> QED
    BY <2>1 DEF Source, Offering
<1>3. CASE GetBigBuffer(c)
  <2>1. pc'[c] = "getSmall" /\ resultBuf'[c].cap = bigSize /\ UNCHANGED <<bigSize, smallSize>>
    BY <1>1, <1>3 DEF GetBigBuffer, BufferOf, Moves
  <2> QED
    BY <2>1 DEF Source, Offering
<1>4. CASE GetSmallBuffer(c)
  <2>1. /\ pc[c] = "getSmall" /\ errorBuf'[c].cap = smallSize
        /\ UNCHANGED <<bigSize, smallSize, resultBuf>>
    BY <1>1, <1>4 DEF GetSmallBuffer, BufferOf, Moves
  <2> QED
    BY <2>1 DEF Source, Offering
<1>5. CASE NotImplemented(c) \/ Rebuild(c)
  <2>1. pc'[c] = "returned" /\ UNCHANGED <<bigSize, smallSize>>
    BY <1>1, <1>5 DEF NotImplemented, Rebuild, Moves, Returns
  <2> QED
    BY <2>1 DEF Source, Offering
<1>6. CASE Enter(c) \/ InstanceGone(c)
  <2>1. pc[c] = "enter" /\ UNCHANGED <<bigSize, smallSize, resultBuf, errorBuf>>
    BY <1>6 DEF Enter, InstanceGone, Moves, Panics
  <2> QED
    BY <2>1 DEF Source, Offering
<1>7. CASE RejectArg(c) \/ Run(c) \/ Recall(c)
  <2>1. pc[c] \in {"run", "recall"} /\ UNCHANGED <<bigSize, smallSize>>
    BY <1>7 DEF RejectArg, Run, Recall, Answer, Moves, Panics
  <2>2. UNCHANGED <<resultBuf, errorBuf>> \/ \E a : CopyOut(c, a)
    BY <1>7 DEF RejectArg, Run, Recall, Answer, Panics
  <2>3. ASSUME NEW a, CopyOut(c, a)
        PROVE  resultBuf'[c].cap = resultBuf[c].cap /\ errorBuf'[c].cap = errorBuf[c].cap
    BY <1>1, <2>3 DEF CopyOut, Buffers
  <2> QED
    BY <2>1, <2>2, <2>3 DEF Source, Offering
<1>8. CASE GlowResult(c)
  <2>1. /\ pc[c] = "glowResult" /\ bigSize' = 2 * resultBuf[c].cap
        /\ UNCHANGED <<smallSize, resultBuf, errorBuf>>
    BY <1>8 DEF GlowResult, Moves
  <2> QED
    BY <2>1 DEF Source, Offering
<1>9. CASE GlowError(c)
  <2>1. /\ pc[c] = "glowError" /\ smallSize' = 2 * errorBuf[c].cap
        /\ UNCHANGED <<bigSize, resultBuf, errorBuf>>
    BY <1>9 DEF GlowError, Moves
  <2> QED
    BY <2>1 DEF Source, Offering
<1>10. CASE MakeResult(c)
  <2>1. /\ pc[c] = "makeResult" /\ UNCHANGED <<bigSize, smallSize, errorBuf>>
        /\ \/ resultBuf' = resultBuf
           \/ resultBuf'[c].cap \in {bigSize, 2 * resultBuf[c].cap}
    BY <1>1, <1>10 DEF MakeResult, BufferOf, Moves, Panics
  <2> QED
    BY <2>1 DEF Source, Offering
<1>11. CASE MakeError(c)
  <2>1. /\ pc[c] = "makeError" /\ UNCHANGED <<bigSize, smallSize, resultBuf>>
        /\ \/ errorBuf' = errorBuf
           \/ errorBuf'[c].cap \in {smallSize, 2 * errorBuf[c].cap}
    BY <1>1, <1>11 DEF MakeError, BufferOf, Moves, Panics
  <2> QED
    BY <2>1 DEF Source, Offering
<1> QED
  BY <1>2, <1>3, <1>4, <1>5, <1>6, <1>7, <1>8, <1>9, <1>10, <1>11 DEF Advance

LEMMA FloorsStep ==
  ASSUME IInv, [Next]_vars, NEW n \in Nat
  PROVE  (BigAtLeast(n) => BigAtLeast(n)') /\ (SmallAtLeast(n) => SmallAtLeast(n)')
<1>1. ASSUME NEW c \in Callers, Invoke(c) \/ Advance(c) \/ Leave(c)
      PROVE  (BigAtLeast(n) => BigAtLeast(n)') /\ (SmallAtLeast(n) => SmallAtLeast(n)')
  <2>1. bigSize \in Nat /\ smallSize \in Nat /\ resultBuf[c].cap \in Nat /\ errorBuf[c].cap \in Nat
    BY CIntAssumption DEF IInv, TypeOK, Buffers
  <2>2. Source(c) /\ \A d \in Callers \ {c} :
          pc'[d] = pc[d] /\ resultBuf'[d] = resultBuf[d] /\ errorBuf'[d] = errorBuf[d]
    BY <1>1, SourceOfSizes, OthersBuffers
  <2>3. ASSUME BigAtLeast(n) PROVE BigAtLeast(n)'
    <3>1. bigSize' >= n
      BY <2>1, <2>2, <2>3 DEF Source, BigAtLeast, Offering
    <3>2. pc'[c] \in Offering \cup {"getSmall"} => resultBuf'[c].cap >= n
      BY <2>1, <2>2, <2>3 DEF Source, BigAtLeast, Offering
    <3> QED
      BY <2>2, <2>3, <3>1, <3>2 DEF BigAtLeast
  <2>4. ASSUME SmallAtLeast(n) PROVE SmallAtLeast(n)'
    <3>1. smallSize' >= n
      BY <2>1, <2>2, <2>4 DEF Source, SmallAtLeast, Offering
    <3>2. pc'[c] \in Offering => errorBuf'[c].cap >= n
      BY <2>1, <2>2, <2>4 DEF Source, SmallAtLeast, Offering
    <3> QED
      BY <2>2, <2>4, <3>1, <3>2 DEF SmallAtLeast
  <2> QED
    BY <2>3, <2>4
<1>2. CASE FreePlugin \/ UNCHANGED vars
  BY <1>2 DEF FreePlugin, vars, BigAtLeast, SmallAtLeast
<1> QED
  BY <1>1, <1>2 DEF Next

\* Whatever callers undo of each other's growth, nothing of either kind goes
\* below the smallest capacity in play.
THEOREM RequestFloorsHold == Spec => FloorsHold
<1>1. IInv /\ [Next]_vars =>
        [\A n \in 1 .. CIntMax : /\ BigAtLeast(n) => BigAtLeast(n)'
                                 /\ SmallAtLeast(n) => SmallAtLeast(n)']_vars
  BY FloorsStep, CIntAssumption
<1> QED
  BY Invariance, <1>1, PTL DEF Spec, FloorsHold
=============================================================================
