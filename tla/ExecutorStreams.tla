---------------------------- MODULE ExecutorStreams ----------------------------
(***************************************************************************)
(* One execution of a task by an executor that starts a child process: the *)
(* command line executor, the Triana executor with StreamToOutput, or the  *)
(* Pegasus executor with RunPegasusPlan.  All three read the child's       *)
(* standard output to its end, then its standard error, on one thread      *)
(* (StreamToOutput.start runs the copying where it is called), and then    *)
(* wait for the child.                                                     *)
(*                                                                         *)
(* The child and the two pipes are external.  A pipe holds Capacity        *)
(* portions of output; who writes to a full one waits.                     *)
(***************************************************************************)
EXTENDS Naturals

CONSTANTS Executors,   \* those that may be asked, of "commandLine", "triana", "pegasus"
          Capacity,    \* what a pipe holds
          MaxOutput,   \* MaxOutput[s]: bound on what the child has to write to s
          MaxFaults    \* bound: failing calls of the Java side

Streams == {"out", "err"}

ASSUME StreamsAssumption == /\ Executors \subseteq {"commandLine", "triana", "pegasus"}
                            /\ Capacity \in Nat \ {0}
                            /\ MaxOutput \in [Streams -> Nat]
                            /\ MaxFaults \in Nat

VARIABLES
  executor,   \* the executor that was asked
  pc,         \* the stream it reads, or where else it is
  child,      \* the child process
  output,     \* output[s]: how much the child is to write to s
  written,    \* written[s]: how much it has
  received,   \* received[s]: how much of that the executor has read
  closed,     \* the streams the executor has closed
  result,     \* what executeTask() returns
  faults      \* faults so far

process == <<child, output, written>>
vars == <<executor, pc, process, received, closed, result, faults>>

TypeOK ==
  /\ executor \in Executors
  /\ pc \in Streams \cup {"start", "waitFor", "encode", "returned"}
  /\ child \in {"none", "running", "succeeded", "failed"}
  /\ {output, written, received} \subseteq [Streams -> Nat]
  /\ \A s \in Streams : /\ output[s] <= MaxOutput[s]
                        /\ written[s] \in 0 .. output[s]
                        /\ received[s] \in 0 .. written[s]
  /\ closed \subseteq Streams
  /\ result \in {"none", "nothing", "task"}
  /\ faults \in 0 .. MaxFaults

Init ==
  /\ executor \in Executors
  /\ pc = "start"
  /\ child = "none"
  /\ output = [s \in Streams |-> 0]
  /\ written = output
  /\ received = output
  /\ closed = {}
  /\ result = "none"
  /\ faults = 0

Fault == faults < MaxFaults /\ faults' = faults + 1

\* What is in the pipe, and what it does not hold yet.
Unread(s) == written[s] - received[s]
Unwritten(s) == output[s] - written[s]

-------------------------------------------------------------------------------
(* The executor. *)

\* Variant: the wait comes before the errors are read.
WaitBeforeErrors(s) == "waitFor"

\* Where the executor goes at the end of s.
After(s) == IF s = "out" THEN "err" ELSE "waitFor"

\* Variant: the errors are read first.
StartReadingErrors ==
  /\ pc = "start"
  /\ child' = "running"
  /\ \E out \in 0 .. MaxOutput["out"], err \in 0 .. MaxOutput["err"] :
       output' = [s \in Streams |-> IF s = "out" THEN out ELSE err]
  /\ pc' = "err"
  /\ UNCHANGED <<executor, written, received, closed, result, faults>>

\* exec() or ProcessBuilder.start(): what the child will write is its own affair.
startProcess ==
  /\ pc = "start"
  /\ child' = "running"
  /\ \E out \in 0 .. MaxOutput["out"], err \in 0 .. MaxOutput["err"] :
       output' = [s \in Streams |-> IF s = "out" THEN out ELSE err]
  /\ pc' = "out"
  /\ UNCHANGED <<executor, written, received, closed, result, faults>>

\* Variant: the read does not wait for output.
ReadNothing(s) ==
  /\ pc = s
  /\ received' = [received EXCEPT ![s] = @ + 1]
  /\ UNCHANGED <<executor, pc, process, closed, result, faults>>

readLine(s) ==
  /\ pc = s
  /\ Unread(s) > 0
  /\ received' = [received EXCEPT ![s] = @ + 1]
  /\ UNCHANGED <<executor, pc, process, closed, result, faults>>

Exited == child \in {"succeeded", "failed"}

\* Variant: a stream that has nothing to read for now is taken to be at its end.
AtEndForNow(s) == Unread(s) = 0

\* readLine() returns null.
AtEnd(s) == Unread(s) = 0 /\ Exited

endOfStream(s) ==
  /\ pc = s
  /\ AtEnd(s)
  /\ closed' = closed \cup {s}
  /\ pc' = After(s)
  /\ UNCHANGED <<executor, process, received, result, faults>>

\* Where an exception takes the executor: PegasusExecutor encodes its task in any
\* case, the others return an empty array.
Caught == IF executor = "pegasus" THEN pc' = "encode" /\ UNCHANGED result
          ELSE pc' = "returned" /\ result' = "nothing"

\* A temporary file or the child cannot be had, or the bundle is no bundle.
StartFails ==
  /\ pc = "start"
  /\ Fault
  /\ Caught
  /\ UNCHANGED <<executor, process, received, closed>>

\* Variant: StreamToOutput lets the exception through.
ReadFailsAlike(s) ==
  /\ pc = s
  /\ Fault
  /\ Caught
  /\ UNCHANGED <<executor, process, received, closed>>

\* StreamToOutput closes a stream that cannot be read and returns as at its end;
\* the others leave both as they are.
ReadFails(s) ==
  /\ pc = s
  /\ Fault
  /\ IF executor = "triana"
     THEN /\ closed' = closed \cup {s}
          /\ pc' = After(s)
          /\ UNCHANGED result
     ELSE /\ Caught
          /\ UNCHANGED closed
  /\ UNCHANGED <<executor, process, received>>

\* The exit status is not looked at.
waitFor ==
  /\ pc = "waitFor"
  /\ Exited
  /\ pc' = "encode"
  /\ UNCHANGED <<executor, process, received, closed, result, faults>>

\* Variant: a child that failed makes the executor return nothing.
EncodeOnSuccess ==
  /\ pc = "encode"
  /\ result' = IF child = "failed" THEN "nothing" ELSE "task"
  /\ pc' = "returned"
  /\ UNCHANGED <<executor, process, received, closed, faults>>

\* The output (command line), the bundle file (Triana) or an empty array (Pegasus)
\* becomes the task's ReturnData.
encodeTask ==
  /\ pc = "encode"
  /\ result' = "task"
  /\ pc' = "returned"
  /\ UNCHANGED <<executor, process, received, closed, faults>>

\* The bundle file does not read, or the task does not encode.
EncodeFails ==
  /\ pc = "encode"
  /\ Fault
  /\ result' = "nothing"
  /\ pc' = "returned"
  /\ UNCHANGED <<executor, process, received, closed>>

-------------------------------------------------------------------------------
(* The child. *)

Write(s) ==
  /\ child = "running"
  /\ Unwritten(s) > 0
  /\ s \notin closed
  /\ Unread(s) < Capacity
  /\ written' = [written EXCEPT ![s] = @ + 1]
  /\ UNCHANGED <<executor, pc, child, output, received, closed, result, faults>>

\* What it writes to a closed stream is lost: the child ends there, or goes on.
WriteToClosed(s) ==
  /\ child = "running"
  /\ Unwritten(s) > 0
  /\ s \in closed
  /\ \/ child' = "failed" /\ UNCHANGED written
     \/ written' = [written EXCEPT ![s] = @ + 1] /\ UNCHANGED child
  /\ UNCHANGED <<executor, pc, output, received, closed, result, faults>>

\* It succeeds or fails; one that fails may do so at any point.
Exit ==
  /\ child = "running"
  /\ \/ child' = "succeeded" /\ \A s \in Streams : Unwritten(s) = 0
     \/ child' = "failed"
  /\ UNCHANGED <<executor, pc, output, written, received, closed, result, faults>>

-------------------------------------------------------------------------------

Executor == \/ startProcess \/ waitFor \/ encodeTask
            \/ \E s \in Streams : readLine(s) \/ endOfStream(s)
Child == \/ \E s \in Streams : Write(s) \/ WriteToClosed(s)
         \/ Exit

Next == \/ Executor \/ Child
        \/ StartFails \/ EncodeFails \/ \E s \in Streams : ReadFails(s)

Spec == Init /\ [][Next]_vars

\* The executor's thread runs, and a child that has written what it had to, ends.
\* No child need fail.
FairSpec == /\ Spec
            /\ WF_vars(Executor)
            /\ WF_vars(\E s \in Streams : Write(s) \/ WriteToClosed(s))
            /\ WF_vars(Exit /\ child' = "succeeded")
-------------------------------------------------------------------------------
(* Properties. *)

ExecutorWaits == \/ \E s \in Streams : pc = s /\ Unread(s) = 0 /\ ~Exited
                 \/ pc = "waitFor" /\ ~Exited
ChildWaits == /\ child = "running"
              /\ \E s \in Streams : Unwritten(s) > 0
              /\ \A s \in Streams : Unwritten(s) > 0 => s \notin closed /\ Unread(s) = Capacity

\* The executor and the child wait for each other only if the child has more to write
\* to standard error than the pipe holds while standard output is still open: the
\* order of the two reads is what blocks (StreamToOutput.java:50, Executor.java:49-56),
\* and a child that writes to standard output alone is always drained.
StuckOnErrorsOnly ==
  ExecutorWaits /\ ChildWaits => pc = "out" /\ output["err"] > Capacity

\* What an execution returns.  The task is not encoded before all that the child has
\* to say has been written and read, unless the child or a read failed
\* (Executor.java:49-57).  An empty array, which blocks the broker (RejectReturn of
\* TaskDispatch), comes from a failure of the Java side only; a child that fails is
\* returned as a task.  The Pegasus executor, which encodes its task after any
\* exception, needs a second one to return it before its child has ended
\* (PegasusExecutor.java:47-64).
WholeUnlessFault ==
  /\ result = "task" /\ faults = 0 =>
       /\ received = written
       /\ child = "succeeded" => written = output
  /\ result = "nothing" => faults > (IF executor = "pegasus" /\ ~Exited THEN 1 ELSE 0)

\* A child outlives its execution only if a read failed, and never that of the
\* Triana executor, which waits for it even so.
NoChildLeftBehind ==
  pc = "returned" /\ child = "running" => faults > 0 /\ executor # "triana"

\* An execution ends, whatever fails, if its child ends when it can write and has no
\* more errors than a pipe holds (StreamToOutput.java:50, Executor.java:49-56).
EveryExecutionEnds ==
  child = "running" /\ output["err"] <= Capacity ~> pc = "returned"
===============================================================================
