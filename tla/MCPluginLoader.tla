----------------------------- MODULE MCPluginLoader -----------------------------
(***************************************************************************)
(* PluginLoader for TLC.                                                   *)
(***************************************************************************)
EXTENDS PluginLoader, TLC

DirectorySymmetry == Permutations(Jars) \cup Permutations(Classes)
===============================================================================
