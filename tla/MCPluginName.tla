---------------------------- MODULE MCPluginName ----------------------------
(***************************************************************************)
(* An instance of PluginName for TLC.                                      *)
(***************************************************************************)
EXTENDS PluginName
=============================================================================
