--------------------------- MODULE MCExecutorStreams ---------------------------
(***************************************************************************)
(* ExecutorStreams for TLC: a child that may write more than a pipe holds. *)
(***************************************************************************)
EXTENDS ExecutorStreams, TLC

AllExecutors == {"commandLine", "triana", "pegasus"}
Talkative == [s \in {"out", "err"} |-> 4]
===============================================================================
