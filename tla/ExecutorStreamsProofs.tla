------------------------- MODULE ExecutorStreamsProofs -------------------------
(***************************************************************************)
(* The safety properties of an execution hold for every capacity of the   *)
(* pipes, every amount of output and every number of failing calls.       *)
(***************************************************************************)
EXTENDS ExecutorStreams, TLAPS

(* The inductive invariant. *)

\* No process and no output before the start, and a process while it is read.
Started ==
  /\ pc = "start" => child = "none"
  /\ child = "none" => \A s \in Streams : written[s] = 0
  /\ pc \in Streams \cup {"waitFor"} => child # "none"

\* The streams are closed in the order they are read in.
ClosedInOrder ==
  /\ pc = "err" => "out" \in closed
  /\ pc = "waitFor" => closed = Streams

\* Without a fault, a stream is left at its end only.
LeftAtEnd ==
  faults = 0 =>
    /\ pc \in {"err", "waitFor", "encode", "returned"} => AtEnd("out")
    /\ pc \in {"waitFor", "encode", "returned"} => AtEnd("err")

\* A child that succeeds has written everything.
SucceedsWhenWritten == child = "succeeded" => \A s \in Streams : Unwritten(s) = 0

\* What it takes to return an empty array, to encode the task while the child is
\* not at its end, and to leave one running.
Blame ==
  /\ pc # "returned" => result = "none"
  /\ pc = "encode" /\ ~Exited => faults > 0 /\ executor = "pegasus"

IInv == TypeOK /\ Started /\ ClosedInOrder /\ LeftAtEnd /\ SucceedsWhenWritten /\ Blame
        /\ WholeUnlessFault /\ NoChildLeftBehind

-------------------------------------------------------------------------------

LEMMA InitInv == Init => IInv
BY StreamsAssumption DEF Init, IInv, TypeOK, Streams, Started, ClosedInOrder,
   LeftAtEnd,
   SucceedsWhenWritten, Blame, WholeUnlessFault, NoChildLeftBehind

\* One step per action: the types, then everything else.
LEMMA StepInv == IInv /\ [Next]_vars => IInv'
<1> SUFFICES ASSUME IInv, [Next]_vars PROVE IInv'
  OBVIOUS
<1> USE StreamsAssumption DEF IInv, TypeOK, Streams
<1> DEFINE Rest == Started /\ ClosedInOrder /\ LeftAtEnd /\ SucceedsWhenWritten /\ Blame
                   /\ WholeUnlessFault /\ NoChildLeftBehind
<1>1. CASE startProcess
  <2>1. TypeOK'
    BY <1>1 DEF startProcess, process, Started
  <2>2. Rest'
    BY <1>1, <2>1 DEF startProcess, process, Started, ClosedInOrder, LeftAtEnd,
       SucceedsWhenWritten, Blame, WholeUnlessFault, NoChildLeftBehind, AtEnd,
       Exited, Unread, Unwritten
  <2>3. QED
    BY <2>1, <2>2
<1>2. CASE waitFor
  <2>1. TypeOK'
    BY <1>2 DEF waitFor, process
  <2>2. Rest'
    BY <1>2, <2>1 DEF waitFor, process, Started, ClosedInOrder, LeftAtEnd,
       SucceedsWhenWritten, Blame, WholeUnlessFault, NoChildLeftBehind, AtEnd,
       Exited, Unread, Unwritten
  <2>3. QED
    BY <2>1, <2>2
<1>3. CASE encodeTask
  <2>1. TypeOK'
    BY <1>3 DEF encodeTask, process
  <2>2. Rest'
    BY <1>3, <2>1 DEF encodeTask, process, Started, ClosedInOrder, LeftAtEnd,
       SucceedsWhenWritten, Blame, WholeUnlessFault, NoChildLeftBehind, AtEnd,
       Exited, Unread, Unwritten
  <2>3. QED
    BY <2>1, <2>2
<1>4. CASE Exit
  <2>1. TypeOK'
    BY <1>4 DEF Exit, process
  <2>2. Rest'
    BY <1>4, <2>1 DEF Exit, process, Started, ClosedInOrder, LeftAtEnd,
       SucceedsWhenWritten, Blame, WholeUnlessFault, NoChildLeftBehind, AtEnd,
       Exited, Unread, Unwritten
  <2>3. QED
    BY <2>1, <2>2
<1>5. CASE StartFails
  <2>1. TypeOK'
    BY <1>5 DEF StartFails, process, Fault, Caught
  <2>2. Rest'
    BY <1>5, <2>1 DEF StartFails, process, Fault, Caught, Started, ClosedInOrder,
       LeftAtEnd, SucceedsWhenWritten, Blame, WholeUnlessFault, NoChildLeftBehind,
       AtEnd, Exited, Unread, Unwritten
  <2>3. QED
    BY <2>1, <2>2
<1>6. CASE EncodeFails
  <2>1. TypeOK'
    BY <1>6 DEF EncodeFails, process, Fault
  <2>2. Rest'
    BY <1>6, <2>1 DEF EncodeFails, process, Fault, Started, ClosedInOrder,
       LeftAtEnd, SucceedsWhenWritten, Blame, WholeUnlessFault, NoChildLeftBehind,
       AtEnd, Exited, Unread, Unwritten
  <2>3. QED
    BY <2>1, <2>2
<1>7. ASSUME NEW s \in Streams, readLine(s) PROVE IInv'
  <2>1. TypeOK'
    BY <1>7 DEF readLine, process, Unread
  <2>2. Rest'
    BY <1>7, <2>1 DEF readLine, process, Started, ClosedInOrder, LeftAtEnd,
       SucceedsWhenWritten, Blame, WholeUnlessFault, NoChildLeftBehind, AtEnd,
       Exited, Unread, Unwritten
  <2>3. QED
    BY <2>1, <2>2
<1>8. ASSUME NEW s \in Streams, endOfStream(s) PROVE IInv'
  <2>1. TypeOK'
    BY <1>8 DEF endOfStream, process, After
  <2>2. Started'
    BY <1>8, <2>1 DEF endOfStream, process, After, Started, AtEnd
  <2>3. ClosedInOrder'
    BY <1>8, <2>1 DEF endOfStream, process, After, ClosedInOrder, AtEnd
  <2>4. LeftAtEnd'
    BY <1>8, <2>1 DEF endOfStream, process, After, LeftAtEnd, AtEnd, Exited,
       Unread, Unwritten
  <2>5. SucceedsWhenWritten'
    BY <1>8, <2>1 DEF endOfStream, process, After, SucceedsWhenWritten, Unwritten,
       AtEnd
  <2>6. Blame'
    BY <1>8, <2>1 DEF endOfStream, process, After, Blame, Exited, Started, AtEnd
  <2>7. WholeUnlessFault'
    BY <1>8, <2>1 DEF endOfStream, process, After, WholeUnlessFault, LeftAtEnd,
       SucceedsWhenWritten, Blame, AtEnd, Exited, Unread, Unwritten
  <2>8. NoChildLeftBehind'
    BY <1>8, <2>1 DEF endOfStream, process, After, NoChildLeftBehind, Blame,
       Started, Exited, AtEnd
  <2>9. QED
    BY <2>1, <2>2, <2>3, <2>4, <2>5, <2>6, <2>7, <2>8
<1>9. ASSUME NEW s \in Streams, Write(s) PROVE IInv'
  <2>1. TypeOK'
    BY <1>9 DEF Write, process, Unwritten, Unread
  <2>2. Started'
    BY <1>9, <2>1 DEF Write, process, Started
  <2>3. ClosedInOrder'
    BY <1>9, <2>1 DEF Write, process, ClosedInOrder
  <2>4. LeftAtEnd'
    BY <1>9, <2>1 DEF Write, process, LeftAtEnd, AtEnd, Exited, Unread, Unwritten
  <2>5. SucceedsWhenWritten'
    BY <1>9, <2>1 DEF Write, process, SucceedsWhenWritten, Unwritten
  <2>6. Blame'
    BY <1>9, <2>1 DEF Write, process, Blame, Exited, Started
  <2>7. WholeUnlessFault'
    BY <1>9, <2>1 DEF Write, process, WholeUnlessFault, LeftAtEnd,
       SucceedsWhenWritten, Blame, AtEnd, Exited, Unread, Unwritten
  <2>8. NoChildLeftBehind'
    BY <1>9, <2>1 DEF Write, process, NoChildLeftBehind, Blame, Started, Exited
  <2>9. QED
    BY <2>1, <2>2, <2>3, <2>4, <2>5, <2>6, <2>7, <2>8
<1>10. ASSUME NEW s \in Streams, WriteToClosed(s) PROVE IInv'
  <2>1. TypeOK'
    BY <1>10 DEF WriteToClosed, process, Unwritten
  <2>2. Started'
    BY <1>10, <2>1 DEF WriteToClosed, process, Started
  <2>3. ClosedInOrder'
    BY <1>10, <2>1 DEF WriteToClosed, process, ClosedInOrder
  <2>4. LeftAtEnd'
    BY <1>10, <2>1 DEF WriteToClosed, process, LeftAtEnd, AtEnd, Exited, Unread,
       Unwritten
  <2>5. SucceedsWhenWritten'
    BY <1>10, <2>1 DEF WriteToClosed, process, SucceedsWhenWritten, Unwritten
  <2>6. Blame'
    BY <1>10, <2>1 DEF WriteToClosed, process, Blame, Exited, Started
  <2>7. WholeUnlessFault'
    BY <1>10, <2>1 DEF WriteToClosed, process, WholeUnlessFault, LeftAtEnd,
       SucceedsWhenWritten, Blame, AtEnd, Exited, Unread, Unwritten
  <2>8. NoChildLeftBehind'
    BY <1>10, <2>1 DEF WriteToClosed, process, NoChildLeftBehind, Blame, Started,
       Exited
  <2>9. QED
    BY <2>1, <2>2, <2>3, <2>4, <2>5, <2>6, <2>7, <2>8
<1>11. ASSUME NEW s \in Streams, ReadFails(s) PROVE IInv'
  <2>1. TypeOK'
    <3>1. faults' \in 0 .. MaxFaults
      BY <1>11 DEF ReadFails, Fault
    <3>2. CASE executor = "triana"
      BY <1>11, <3>1, <3>2 DEF ReadFails, process, After
    <3>3. CASE executor # "triana"
      BY <1>11, <3>1, <3>3 DEF ReadFails, process, Caught
    <3>4. QED
      BY <3>2, <3>3
  <2>2. Started'
    BY <1>11, <2>1 DEF ReadFails, process, Fault, Caught, After, Started
  <2>3. ClosedInOrder'
    BY <1>11, <2>1 DEF ReadFails, process, Fault, Caught, After, ClosedInOrder
  <2>4. LeftAtEnd'
    BY <1>11, <2>1 DEF ReadFails, process, Fault, Caught, After, LeftAtEnd, AtEnd,
       Exited, Unread, Unwritten
  <2>5. SucceedsWhenWritten'
    BY <1>11, <2>1 DEF ReadFails, process, Fault, Caught, After,
       SucceedsWhenWritten, Unwritten
  <2>6. Blame'
    BY <1>11, <2>1 DEF ReadFails, process, Fault, Caught, After, Blame, Exited,
       Started
  <2>7. WholeUnlessFault'
    BY <1>11, <2>1 DEF ReadFails, process, Fault, Caught, After, WholeUnlessFault,
       LeftAtEnd, SucceedsWhenWritten, Blame, AtEnd, Exited, Unread, Unwritten
  <2>8. NoChildLeftBehind'
    BY <1>11, <2>1 DEF ReadFails, process, Fault, Caught, After, NoChildLeftBehind,
       Blame, Started, Exited
  <2>9. QED
    BY <2>1, <2>2, <2>3, <2>4, <2>5, <2>6, <2>7, <2>8
<1>12. CASE UNCHANGED vars
  BY <1>12 DEF vars, process, Started, ClosedInOrder, LeftAtEnd,
     SucceedsWhenWritten,
     Blame, WholeUnlessFault, NoChildLeftBehind, AtEnd, Exited, Unread, Unwritten
<1>13. QED
  BY <1>1, <1>2, <1>3, <1>4, <1>5, <1>6, <1>7, <1>8, <1>9, <1>10, <1>11, <1>12 DEF
     Next, Executor, Child

\* What blocks is read off the invariant: the stream being read is empty, so it is
\* not the one the child waits for, and the closed ones keep nobody waiting.
LEMMA InvStuck == IInv => StuckOnErrorsOnly
<1> SUFFICES ASSUME IInv, ExecutorWaits, ChildWaits
             PROVE  pc = "out" /\ output["err"] > Capacity
  BY DEF StuckOnErrorsOnly
<1> USE StreamsAssumption DEF IInv, TypeOK, Streams
<1>1. PICK s \in Streams : Unwritten(s) > 0 /\ s \notin closed /\ Unread(s) = Capacity
  BY DEF ChildWaits
<1>2. pc # "waitFor" /\ ~(pc = "err" /\ s = "out")
  BY <1>1 DEF ClosedInOrder
<1>3. pc \in Streams /\ Unread(pc) = 0
  BY <1>2 DEF ExecutorWaits
<1>4. s # pc
  BY <1>1, <1>3
<1>5. pc = "out" /\ s = "err"
  BY <1>2, <1>3, <1>4
<1>6. output["err"] > Capacity
  BY <1>1, <1>5 DEF Unwritten, Unread
<1>7. QED
  BY <1>5, <1>6

\* The invariant above holds of every state: of the steps of the executor, of its child
\* and of the failing calls (StreamToOutput.java:47-65).
THEOREM Invariance == Spec => []IInv
<1>1. Init => IInv
  BY InitInv
<1>2. IInv /\ [Next]_vars => IInv'
  BY StepInv
<1>3. QED
  BY <1>1, <1>2, PTL DEF Spec

-------------------------------------------------------------------------------
(* The properties. *)

\* The state has its types: no stream is read beyond what was written, nor written
\* beyond what the child has to say (StreamToOutput.java:47-65).
THEOREM TypeCorrect == Spec => []TypeOK
<1>1. IInv => TypeOK
  BY DEF IInv
<1>2. QED
  BY <1>1, Invariance, PTL

\* The executor and the child wait for each other only over standard error, with
\* standard output still open (Executor.java:49-56, StreamToOutput.java:50).
THEOREM StuckOnErrorsOnlyHolds == Spec => []StuckOnErrorsOnly
<1>1. IInv => StuckOnErrorsOnly
  BY InvStuck
<1>2. QED
  BY <1>1, Invariance, PTL

\* A task is returned whole unless a call failed, and an empty array only then
\* (Executor.java:49-57, PegasusExecutor.java:47-64).
THEOREM WholeUnlessFaultHolds == Spec => []WholeUnlessFault
<1>1. IInv => WholeUnlessFault
  BY DEF IInv
<1>2. QED
  BY <1>1, Invariance, PTL

\* Only after a fault, and never with Triana's executor, is a child left running
\* (StreamToOutput.java:58-65).
THEOREM NoChildLeftBehindHolds == Spec => []NoChildLeftBehind
<1>1. IInv => NoChildLeftBehind
  BY DEF IInv
<1>2. QED
  BY <1>1, Invariance, PTL
===============================================================================
