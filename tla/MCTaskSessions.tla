---------------------------- MODULE MCTaskSessions ----------------------------
(***************************************************************************)
(* TaskSessions for TLC.                                                   *)
(***************************************************************************)
EXTENDS TaskSessionsProperties, TLC

Symmetry == Permutations(Tasks) \cup Permutations(Threads)
===============================================================================
