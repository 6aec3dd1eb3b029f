----------------------------- MODULE Invocation -----------------------------
(***************************************************************************)
(* What a call across the C boundary promises its caller, without buffers, *)
(* recalls, ids, channels or other callers: the callee runs at most once,  *)
(* in one step, and the reply is true to what that run answered; or the    *)
(* call is refused and the reply says so.                                  *)
(*                                                                         *)
(* It serves both directions: the application calling a method of the      *)
(* plugin, and the plugin emitting an event to the handler of the          *)
(* application.                                                            *)
(***************************************************************************)
CONSTANTS
  Callers,   \* the goroutines that call
  Answers,   \* what a run of the callee can answer
  Replies,   \* what a call can return
  NoReply,   \* the reply of a call that has not returned
  Nothing,   \* the answer of a callee that has not run
  Tells(_, _),  \* whether a reply is true to an answer
  Refusal(_)    \* whether a reply says that nothing was answered

VARIABLES phase, answer, reply, halted

vars == <<phase, answer, reply, halted>>

Init ==
  /\ phase = [c \in Callers |-> "idle"]
  /\ answer = [c \in Callers |-> Nothing]
  /\ reply = [c \in Callers |-> NoReply]
  /\ halted = FALSE

Moves(c, from, to) ==
  /\ ~halted
  /\ UNCHANGED halted
  /\ phase[c] \in from
  /\ phase' = [phase EXCEPT ![c] = to]

Invoke(c) ==
  /\ Moves(c, {"idle"}, "called")
  /\ UNCHANGED <<answer, reply>>

Execute(c) ==
  /\ Moves(c, {"called"}, "executed")
  /\ \E a \in Answers : answer' = [answer EXCEPT ![c] = a]
  /\ UNCHANGED reply

Respond(c) ==
  /\ Moves(c, {"executed"}, "replied")
  /\ \E r \in Replies : /\ Tells(r, answer[c])
                        /\ reply' = [reply EXCEPT ![c] = r]
  /\ UNCHANGED answer

Refuse(c, from) ==
  /\ Moves(c, from, "replied")
  /\ \E r \in Replies : /\ Refusal(r)
                        /\ reply' = [reply EXCEPT ![c] = r]
  /\ UNCHANGED answer

Leave(c) ==
  /\ Moves(c, {"replied"}, "idle")
  /\ answer' = [answer EXCEPT ![c] = Nothing]
  /\ reply' = [reply EXCEPT ![c] = NoReply]

Halt ==
  /\ ~halted
  /\ halted' = TRUE
  /\ UNCHANGED <<phase, answer, reply>>

Advance(c) == Execute(c) \/ Respond(c) \/ Refuse(c, {"called"})

Next ==
  \/ \E c \in Callers : Invoke(c) \/ Advance(c) \/ Refuse(c, {"idle"}) \/ Leave(c)
  \/ Halt

Spec == Init /\ [][Next]_vars
=============================================================================
