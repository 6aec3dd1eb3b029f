--------------------------- MODULE MCRequestCall ----------------------------
(***************************************************************************)
(* Instances of RequestCall for TLC.                                       *)
(***************************************************************************)
EXTENDS RequestCall, TLC

CONSTANTS c1, c2

AllConfigured == {ConfigFuncs}

\* Everything configured, and one side's functions missing.
OneSideMissing ==
  {ConfigFuncs, ConfigFuncs \ {"newResultFunc", "newCommandResultFunc"},
   ConfigFuncs \ {"newConfigFunc", "newCommandParamFunc"}}

CallerSymmetry == Permutations(Callers)
=============================================================================
