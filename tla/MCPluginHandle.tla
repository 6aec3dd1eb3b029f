--------------------------- MODULE MCPluginHandle ---------------------------
(***************************************************************************)
(* Instances of PluginHandle for TLC.                                      *)
(***************************************************************************)
EXTENDS PluginHandle, TLC

CONSTANTS c1, c2, l1, l2
=============================================================================
