---------------------------- MODULE MCEventLoop -----------------------------
(***************************************************************************)
(* Instances of EventLoop for TLC.                                         *)
(***************************************************************************)
EXTENDS EventLoop, TLC

CONSTANTS e1, e2, l1, l2, l3

BothConfigured == {{"newEventParamFunc", "newEventResultFunc"}}

\* Everything configured, and each function missing in turn.
OneMissing == {{"newEventParamFunc", "newEventResultFunc"},
               {"newEventParamFunc"}, {"newEventResultFunc"}}

ThreadSymmetry == Permutations(Emitters) \cup Permutations(Listeners)
=============================================================================
