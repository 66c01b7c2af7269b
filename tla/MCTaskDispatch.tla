---------------------------- MODULE MCTaskDispatch ----------------------------
(***************************************************************************)
(* TaskDispatch for TLC.  Workers, tasks and correlation ids are           *)
(* interchangeable, which the safety runs use.                             *)
(***************************************************************************)
EXTENDS TaskDispatchProperties, TLC

Symmetry == Permutations(Tasks) \cup Permutations(Workers) \cup Permutations(CorrIds)
===============================================================================
