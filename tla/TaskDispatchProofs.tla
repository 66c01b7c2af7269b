-------------------------- MODULE TaskDispatchProofs --------------------------
(***************************************************************************)
(* Proofs about TaskDispatch, for every number of tasks, workers,          *)
(* correlation ids and faults.                                             *)
(***************************************************************************)
EXTENDS TaskDispatchProperties, SequenceTheorems, TLAPS

\* A delivery the server works on is at the head of the queue, and it has a reply
\* in hand exactly between its transaction and the publish.
ServerHolds ==
  /\ serverPc \in {"replying", "acking", "stuck"} => rpcQueue # <<>>
  /\ serverPc = "replying" <=> reply # Nothing

\* What a worker has in hand follows from where it is.
WorkerHolds ==
  \A w \in Workers :
    /\ workerPc[w] = "executing" => inHand[w] \in Tasks
    /\ workerPc[w] = "returning" => inHand[w] \in Tasks \cup {NOTASK, Undecodable}
    /\ workerPc[w] \notin {"executing", "returning"} => inHand[w] = Nothing

TypeInv == TypeOK /\ ServerHolds /\ WorkerHolds

-------------------------------------------------------------------------------
(* Calls and replies. *)

\* call() puts one request of w's behind those in the queue.
LEMMA CallAppends ==
  ASSUME TypeOK, NEW w \in Workers, NEW method \in {"gettask", "rettask"},
         NEW content \in Tasks \cup {NOTASK, Undecodable, Nothing},
         Call(w, method, content)
  PROVE  \E m \in Request : /\ m.from = w
                            /\ m.method = method
                            /\ m.content = content
                            /\ rpcQueue' = Append(rpcQueue, m)
                            /\ corrId' = [corrId EXCEPT ![w] = m.corrId]
<1>1. PICK c \in CorrIds \ IdsInUse(w) :
        /\ corrId' = [corrId EXCEPT ![w] = c]
        /\ rpcQueue' = Append(rpcQueue, [method |-> method, from |-> w,
                                         corrId |-> c, content |-> content])
  BY DEF Call
<1> DEFINE m == [method |-> method, from |-> w, corrId |-> c, content |-> content]
<1>2. m \in Request
  BY DEF Request
<1> WITNESS m \in Request
<1> QED
  BY <1>1

LEMMA CallType ==
  ASSUME TypeOK, NEW w \in Workers, NEW method \in {"gettask", "rettask"},
         NEW content \in Tasks \cup {NOTASK, Undecodable, Nothing},
         Call(w, method, content)
  PROVE  /\ rpcQueue' \in Seq(Request)
         /\ rpcQueue' # <<>>
         /\ corrId' \in [Workers -> CorrIds \cup {Nothing}]
<1>1. PICK m \in Request : /\ rpcQueue' = Append(rpcQueue, m)
                           /\ corrId' = [corrId EXCEPT ![w] = m.corrId]
  BY CallAppends
<1>2. rpcQueue \in Seq(Request) /\ corrId \in [Workers -> CorrIds \cup {Nothing}]
  BY DEF TypeOK
<1>3. m.corrId \in CorrIds
  BY DEF Request
<1>4. rpcQueue' \in Seq(Request) /\ rpcQueue' # <<>>
  BY <1>1, <1>2, AppendProperties
<1> QED
  BY <1>1, <1>2, <1>3, <1>4

\* A call that returns takes the first reply off w's queue.
LEMMA CallReturnsType ==
  ASSUME TypeOK, NEW w \in Workers, CallReturns(w)
  PROVE  /\ Head(replyQueue[w]) \in Reply
         /\ Tail(replyQueue[w]) \in Seq(Reply)
         /\ replyQueue' \in [Workers -> Seq(Reply)]
         /\ corrId' \in [Workers -> CorrIds \cup {Nothing}]
<1>1. replyQueue[w] \in Seq(Reply) /\ replyQueue[w] # <<>>
  BY DEF TypeOK, CallReturns
<1>2. Head(replyQueue[w]) \in Reply /\ Tail(replyQueue[w]) \in Seq(Reply)
  BY <1>1, HeadTailProperties
<1> QED
  BY <1>2 DEF TypeOK, CallReturns

\* A worker that begins to execute has a task to execute.
LEMMA ExecutionType ==
  ASSUME TypeInv, NEW w \in Workers, workerPc[w] = "executing", ExecutionBegins(w)
  PROVE  executions' \in [Tasks -> Seq(Workers)]
<1>1. inHand[w] \in Tasks
  BY DEF TypeInv, WorkerHolds
<1>2. executions \in [Tasks -> Seq(Workers)]
  BY DEF TypeInv, TypeOK
<1>3. Append(executions[inHand[w]], w) \in Seq(Workers)
  BY <1>1, <1>2, AppendProperties
<1> QED
  BY <1>1, <1>2, <1>3 DEF ExecutionBegins

-------------------------------------------------------------------------------
(* Type correctness. *)

LEMMA InitTypeInv == Init => TypeInv
  BY DispatchAssumption, EmptySeq DEF Init, TypeInv, TypeOK, ServerHolds, WorkerHolds

\* Steps of a worker.
LEMMA WorkerTypeInv ==
  ASSUME TypeInv, NEW w \in Workers, WorkerStep(w)
  PROVE  TypeInv'
<1> USE DEF TypeInv
<1>1. CASE getTask(w)
  <2>1. Call(w, "gettask", Nothing)
    BY <1>1 DEF getTask
  <2>2. /\ rpcQueue' \in Seq(Request) /\ rpcQueue' # <<>>
        /\ corrId' \in [Workers -> CorrIds \cup {Nothing}]
    BY <2>1, CallType
  <2>a. TypeOK'
    BY <1>1, <2>2 DEF getTask, TypeOK, database, server
  <2>b. ServerHolds'
    BY <1>1, <2>2 DEF getTask, ServerHolds, database, server
  <2>c. WorkerHolds'
    BY <1>1, <2>2 DEF getTask, TypeOK, WorkerHolds
  <2> QED
    BY <2>a, <2>b, <2>c
<1>2. CASE DiscardReply(w)
  <2>1. Tail(replyQueue[w]) \in Seq(Reply)
    BY <1>2, HeadTailProperties DEF DiscardReply, TypeOK
  <2> QED
    BY <1>2, <2>1 DEF DiscardReply, TypeOK, ServerHolds, WorkerHolds, database, server, worker
<1>3. CASE TaskArrives(w)
  <2>1. /\ Head(replyQueue[w]) \in Reply
        /\ replyQueue' \in [Workers -> Seq(Reply)]
        /\ corrId' \in [Workers -> CorrIds \cup {Nothing}]
    BY <1>3, CallReturnsType DEF TaskArrives
  <2>2. Head(replyQueue[w]).body \in Tasks \cup {NOTASK, Accepted}
    BY <2>1 DEF Reply
  <2>a. TypeOK'
    BY <1>3, <2>1, <2>2, DispatchAssumption DEF TaskArrives, TypeOK, database, server
  <2>b. ServerHolds'
    BY <1>3, <2>1, <2>2, DispatchAssumption DEF TaskArrives, ServerHolds, database, server
  <2>c. WorkerHolds'
    BY <1>3, <2>1, <2>2, DispatchAssumption DEF TaskArrives, TypeOK, WorkerHolds
  <2> QED
    BY <2>a, <2>b, <2>c
<1>4. CASE executeTask(w)
  <2>1. executions' \in [Tasks -> Seq(Workers)]
    BY <1>4, ExecutionType DEF executeTask
  <2> QED
    BY <1>4, <2>1 DEF executeTask, TypeOK, ServerHolds, WorkerHolds, database, server
<1>5. CASE sendCompleteTask(w)
  <2>1. Call(w, "rettask", inHand[w]) /\ inHand[w] \in Tasks \cup {NOTASK, Undecodable}
    BY <1>5 DEF sendCompleteTask, WorkerHolds
  <2>2. /\ rpcQueue' \in Seq(Request) /\ rpcQueue' # <<>>
        /\ corrId' \in [Workers -> CorrIds \cup {Nothing}]
    BY <2>1, CallType
  <2>a. TypeOK'
    BY <1>5, <2>2 DEF sendCompleteTask, TypeOK, database, server
  <2>b. ServerHolds'
    BY <1>5, <2>2 DEF sendCompleteTask, ServerHolds, database, server
  <2>c. WorkerHolds'
    BY <1>5, <2>2 DEF sendCompleteTask, TypeOK, WorkerHolds
  <2> QED
    BY <2>a, <2>b, <2>c
<1>6. CASE ReturnAnswered(w)
  <2>1. /\ replyQueue' \in [Workers -> Seq(Reply)]
        /\ corrId' \in [Workers -> CorrIds \cup {Nothing}]
    BY <1>6, CallReturnsType DEF ReturnAnswered
  <2>a. TypeOK'
    BY <1>6, <2>1 DEF ReturnAnswered, TypeOK, database, server
  <2>b. ServerHolds'
    BY <1>6, <2>1 DEF ReturnAnswered, ServerHolds, database, server
  <2>c. WorkerHolds'
    BY <1>6, <2>1 DEF ReturnAnswered, TypeOK, WorkerHolds
  <2> QED
    BY <2>a, <2>b, <2>c
<1> QED
  BY <1>1, <1>2, <1>3, <1>4, <1>5, <1>6 DEF WorkerStep

\* Faults, of a worker and of the server.
LEMMA FaultTypeInv ==
  ASSUME TypeInv, Stop \/ HandlerError \/ \E w \in Workers : WorkerFault(w)
  PROVE  TypeInv'
<1> USE DispatchAssumption DEF TypeInv
<1>1. ASSUME NEW kind, Fault(kind)
      PROVE  faults' \in 0 .. MaxFaults
  BY <1>1 DEF Fault, TypeOK
<1>3. ASSUME NEW w \in Workers, CallBeforeQueueExists(w)
      PROVE  TypeInv'
  BY <1>1, <1>3
  DEF CallBeforeQueueExists, TypeOK, ServerHolds, WorkerHolds, database, server
<1>4. ASSUME NEW w \in Workers, ExecutorReturnsNothing(w)
      PROVE  TypeInv'
  BY <1>1, <1>4, ExecutionType
  DEF ExecutorReturnsNothing, TypeOK, ServerHolds, WorkerHolds, database, server
<1>5. ASSUME NEW w \in Workers, WorkerError(w)
      PROVE  TypeInv'
  <2>1. executions' \in [Tasks -> Seq(Workers)]
    BY <1>5, ExecutionType DEF WorkerError, TypeOK
  <2> QED
    BY <1>1, <1>5, <2>1 DEF WorkerError, TypeOK, ServerHolds, WorkerHolds, database, server
<1>6. ASSUME NEW w \in Workers, Crash(w)
      PROVE  TypeInv'
  <2>1. executions' \in [Tasks -> Seq(Workers)]
    BY <1>6, ExecutionType DEF Crash, TypeOK
  <2> QED
    BY <1>1, <1>6, <2>1, EmptySeq DEF Crash, TypeOK, ServerHolds, WorkerHolds, database, server
<1>7. CASE Stop
  BY <1>1, <1>7 DEF Stop, TypeOK, ServerHolds, WorkerHolds, database, worker
<1>8. CASE HandlerError
  BY <1>1, <1>8 DEF HandlerError, TypeOK, ServerHolds, WorkerHolds, database, worker
<1> QED
  BY <1>3, <1>4, <1>5, <1>6, <1>7, <1>8 DEF WorkerFault

\* Steps of the server's thread.
LEMMA ServerTypeInv ==
  ASSUME TypeInv, ServerStep
  PROVE  TypeInv'
<1> USE DispatchAssumption DEF TypeInv
<1>1. CASE init
  BY <1>1 DEF init, TypeOK, ServerHolds, WorkerHolds, database, worker
<1>2. CASE SendNoTask
  BY <1>2 DEF SendNoTask, Delivered, Respond, TypeOK, ServerHolds, WorkerHolds, database, worker
<1>3. CASE AcceptNoTask
  BY <1>3 DEF AcceptNoTask, Delivered, Respond, TypeOK, ServerHolds, WorkerHolds, database, worker
<1>4. CASE RejectReturn
  BY <1>4 DEF RejectReturn, Delivered, TypeOK, ServerHolds, WorkerHolds, database, worker
<1>5. CASE Publish
  <2> DEFINE call == Head(rpcQueue)
             r == [corrId |-> call.corrId, body |-> reply]
  <2>1. call \in Request
    BY <1>5, HeadTailProperties DEF Publish, TypeOK, ServerHolds
  <2>2. call.from \in Workers /\ call.corrId \in CorrIds
    BY <2>1 DEF Request
  <2>3. r \in Reply
    BY <1>5, <2>2 DEF Publish, TypeOK, ServerHolds, Reply
  <2>4. Append(replyQueue[call.from], r) \in Seq(Reply)
    BY <2>2, <2>3, AppendProperties DEF TypeOK
  <2>5. replyQueue' \in [Workers -> Seq(Reply)]
    BY <1>5, <2>2, <2>4 DEF Publish, TypeOK
  <2> QED
    BY <1>5, <2>5 DEF Publish, TypeOK, ServerHolds, WorkerHolds, database, worker
<1>6. CASE Ack
  <2>1. rpcQueue' \in Seq(Request)
    BY <1>6, HeadTailProperties DEF Ack, TypeOK, ServerHolds
  <2> QED
    BY <1>6, <2>1 DEF Ack, TypeOK, ServerHolds, WorkerHolds, database, worker
<1>7. ASSUME NEW t \in Tasks, SendTask(t)
      PROVE  TypeInv'
  BY <1>7 DEF SendTask, Delivered, Respond, TypeOK, ServerHolds, WorkerHolds, worker
<1>8. ASSUME NEW t \in Tasks, CompleteTask(t)
      PROVE  TypeInv'
  <2>1. Head(rpcQueue) \in Request
    BY <1>8, HeadTailProperties DEF CompleteTask, Delivered, TypeOK
  <2>2. Output(t, Head(rpcQueue).from) \in Outputs
    BY <2>1 DEF Request, Output, Outputs
  <2> QED
    BY <1>8, <2>2
    DEF CompleteTask, Delivered, Respond, TypeOK, ServerHolds, WorkerHolds, worker
<1> QED
  BY <1>1, <1>2, <1>3, <1>4, <1>5, <1>6, <1>7, <1>8 DEF ServerStep

LEMMA NextTypeInv == TypeInv /\ [Next]_vars => TypeInv'
<1> SUFFICES ASSUME TypeInv, [Next]_vars
             PROVE  TypeInv'
  OBVIOUS
<1>1. ASSUME NEW t \in Tasks, insertTask(t)
      PROVE  TypeInv'
  BY <1>1 DEF insertTask, TypeInv, TypeOK, ServerHolds, WorkerHolds, server, worker
<1>2. CASE UNCHANGED vars
  BY <1>2 DEF vars, database, server, worker, TypeInv, TypeOK, ServerHolds, WorkerHolds
<1> QED
  BY <1>1, <1>2, WorkerTypeInv, FaultTypeInv, ServerTypeInv DEF Next

\* Every variable keeps its type, for every instance: what the rest relies on.
THEOREM TypeCorrect == Spec => []TypeOK
<1>1. TypeInv => TypeOK
  BY DEF TypeInv
<1> QED
  BY <1>1, InitTypeInv, NextTypeInv, PTL DEF Spec

-------------------------------------------------------------------------------
(* Custody.  SingleCustody is about positions in queues; the invariant below says *)
(* it position by position, for one task at a time, and adds what each place      *)
(* tells of the executions of the task: none before a worker has begun, exactly   *)
(* one, by the sender, when its result is on the way back.                        *)

ReplyAt(t, w, i) == i \in 1 .. Len(replyQueue[w]) /\ replyQueue[w][i].body = t
ReturnAt(t, i) == i \in 1 .. Len(rpcQueue) /\ rpcQueue[i].content = t

OnePlace(t) ==
  /\ reply = t => /\ \A w \in Workers : inHand[w] # t /\ \A i \in Nat : ~ReplyAt(t, w, i)
                  /\ \A i \in Nat : ~ReturnAt(t, i)
  /\ \A w \in Workers, i \in Nat : ReplyAt(t, w, i) =>
       \A v \in Workers, j \in Nat : /\ ReplyAt(t, v, j) => v = w /\ j = i
                                     /\ inHand[v] # t
                                     /\ ~ReturnAt(t, j)
  /\ \A w \in Workers : inHand[w] = t =>
       \A v \in Workers, j \in Nat : /\ inHand[v] = t => v = w
                                     /\ ~ReturnAt(t, j)
  /\ \A i, j \in Nat : ReturnAt(t, i) /\ ReturnAt(t, j) => i = j

Nowhere(t) ==
  /\ reply # t
  /\ \A w \in Workers : inHand[w] # t /\ \A i \in Nat : ~ReplyAt(t, w, i)
  /\ \A i \in Nat : ~ReturnAt(t, i)

\* What the place of t tells of its executions.
History(t) ==
  /\ reply = t => executions[t] = <<>>
  /\ \A w \in Workers, i \in Nat : ReplyAt(t, w, i) => executions[t] = <<>>
  /\ \A w \in Workers : inHand[w] = t =>
       /\ workerPc[w] = "executing" => executions[t] = <<>>
       /\ workerPc[w] = "returning" => executions[t] = <<w>>
  /\ \A i \in Nat : ReturnAt(t, i) => executions[t] = <<rpcQueue[i].from>>

\* What the row of t tells.
Row(t) ==
  /\ state[t] \in {"ABSENT", "PENDING"} => Nowhere(t) /\ executions[t] = <<>>
  /\ state[t] # "COMPLETE" => returnData[t] = Nothing
  /\ state[t] = "COMPLETE" => \E w \in Workers : /\ executions[t] = <<w>>
                                                 /\ returnData[t] = Output(t, w)
  /\ executions[t] = <<>> \/ \E w \in Workers : executions[t] = <<w>>

TaskInv(t) == OnePlace(t) /\ History(t) /\ Row(t)

-------------------------------------------------------------------------------
(* How the queues change. *)

\* A new request leaves the others where they are.
LEMMA RequestAdded ==
  ASSUME TypeOK, NEW t \in Tasks, NEW w \in Workers, NEW method \in {"gettask", "rettask"},
         NEW content \in Tasks \cup {NOTASK, Undecodable, Nothing},
         Call(w, method, content), NEW i \in Nat, ReturnAt(t, i)'
  PROVE  \/ ReturnAt(t, i) /\ rpcQueue'[i] = rpcQueue[i]
         \/ i = Len(rpcQueue) + 1 /\ content = t /\ rpcQueue'[i].from = w
<1>1. PICK m \in Request : /\ m.from = w /\ m.content = content
                           /\ rpcQueue' = Append(rpcQueue, m)
  BY CallAppends
<1>2. rpcQueue \in Seq(Request)
  BY DEF TypeOK
<1>3. /\ Len(rpcQueue') = Len(rpcQueue) + 1
      /\ Len(rpcQueue) \in Nat
      /\ \A j \in 1 .. Len(rpcQueue) : rpcQueue'[j] = rpcQueue[j]
      /\ rpcQueue'[Len(rpcQueue) + 1] = m
  BY <1>1, <1>2, AppendProperties, LenProperties
<1> QED
  BY <1>1, <1>3 DEF ReturnAt

\* An acknowledged request is gone and the others move up.
LEMMA RequestAcked ==
  ASSUME TypeInv, NEW t \in Tasks, Ack, NEW i \in Nat, ReturnAt(t, i)'
  PROVE  ReturnAt(t, i + 1) /\ rpcQueue'[i] = rpcQueue[i + 1]
<1>1. rpcQueue \in Seq(Request) /\ rpcQueue # <<>> /\ rpcQueue' = Tail(rpcQueue)
  BY DEF TypeInv, TypeOK, ServerHolds, Ack
<1>2. /\ Len(rpcQueue') = Len(rpcQueue) - 1
      /\ Len(rpcQueue) \in Nat
      /\ \A j \in 1 .. Len(rpcQueue') : rpcQueue'[j] = rpcQueue[j + 1]
  BY <1>1, HeadTailProperties, LenProperties
<1> QED
  BY <1>2 DEF ReturnAt

\* The replies behind one that is taken move up.
LEMMA ReplyTaken ==
  ASSUME TypeOK, NEW t \in Tasks, NEW w \in Workers, replyQueue[w] # <<>>,
         replyQueue' = [replyQueue EXCEPT ![w] = Tail(@)],
         NEW v \in Workers, NEW i \in Nat, ReplyAt(t, v, i)'
  PROVE  i >= 1 /\ (v = w => ReplyAt(t, v, i + 1)) /\ (v # w => ReplyAt(t, v, i))
<1>1. replyQueue[w] \in Seq(Reply) /\ replyQueue \in [Workers -> Seq(Reply)]
  BY DEF TypeOK
<1>2. /\ Len(Tail(replyQueue[w])) = Len(replyQueue[w]) - 1
      /\ Len(replyQueue[w]) \in Nat
      /\ \A j \in 1 .. Len(Tail(replyQueue[w])) : Tail(replyQueue[w])[j] = replyQueue[w][j + 1]
  BY <1>1, HeadTailProperties, LenProperties
<1>3. replyQueue'[w] = Tail(replyQueue[w]) /\ (v # w => replyQueue'[v] = replyQueue[v])
  BY <1>1
<1>4. CASE v = w
  <2>1. i \in 1 .. Len(Tail(replyQueue[w])) /\ Tail(replyQueue[w])[i].body = t
    BY <1>3, <1>4 DEF ReplyAt
  <2>2. i + 1 \in 1 .. Len(replyQueue[w]) /\ replyQueue[w][i + 1].body = t
    BY <1>2, <2>1
  <2> QED
    BY <1>4, <2>1, <2>2 DEF ReplyAt
<1>5. CASE v # w
  BY <1>3, <1>5 DEF ReplyAt
<1> QED
  BY <1>4, <1>5

\* The first reply is at the first position.
LEMMA HeadReply ==
  ASSUME TypeOK, NEW t \in Tasks, NEW w \in Workers, replyQueue[w] # <<>>,
         Head(replyQueue[w]).body = t
  PROVE  ReplyAt(t, w, 1)
<1>1. replyQueue[w] \in Seq(Reply)
  BY DEF TypeOK
<1>2. Len(replyQueue[w]) \in Nat \ {0} /\ Head(replyQueue[w]) = replyQueue[w][1]
  BY <1>1, EmptySeq
<1> QED
  BY <1>2 DEF ReplyAt

\* A published reply is the last one of the caller.
LEMMA ReplyAdded ==
  ASSUME TypeInv, NEW t \in Tasks, Publish, NEW v \in Workers, NEW i \in Nat, ReplyAt(t, v, i)'
  PROVE  ReplyAt(t, v, i) \/ (reply = t /\ v = Head(rpcQueue).from /\ i = Len(replyQueue[v]) + 1)
<1> DEFINE w == Head(rpcQueue).from
           r == [corrId |-> Head(rpcQueue).corrId, body |-> reply]
<1>1. replyQueue[v] \in Seq(Reply) /\ replyQueue \in [Workers -> Seq(Reply)]
  BY DEF TypeInv, TypeOK
<1>2. Head(rpcQueue) \in Request
  BY HeadTailProperties DEF Publish, TypeInv, TypeOK, ServerHolds
<1>3. r \in Reply
  BY <1>2 DEF Publish, TypeInv, TypeOK, ServerHolds, Reply, Request
<1>4. /\ Len(Append(replyQueue[v], r)) = Len(replyQueue[v]) + 1
      /\ Len(replyQueue[v]) \in Nat
      /\ \A j \in 1 .. Len(replyQueue[v]) : Append(replyQueue[v], r)[j] = replyQueue[v][j]
      /\ Append(replyQueue[v], r)[Len(replyQueue[v]) + 1] = r
  BY <1>1, <1>3, AppendProperties, LenProperties
<1>5. replyQueue'[v] = replyQueue[v] \/ (v = w /\ replyQueue'[v] = Append(replyQueue[v], r))
  BY <1>1 DEF Publish
<1> QED
  BY <1>4, <1>5 DEF ReplyAt

-------------------------------------------------------------------------------
(* Each step preserves the invariant of each task. *)

\* A step that leaves the row and the history of t alone, and after which each place
\* t is in comes from one it was in: all but d[w] positions further in w's replies,
\* e positions further among the requests.
LEMMA FewerPlaces ==
  ASSUME NEW t \in Tasks, TaskInv(t),
         NEW d \in [Workers -> {0, 1}], NEW e \in {0, 1},
         state'[t] = state[t], returnData'[t] = returnData[t], executions'[t] = executions[t],
         reply' = t => reply = t,
         \A w \in Workers, i \in Nat : ReplyAt(t, w, i)' => ReplyAt(t, w, i + d[w]),
         \A w \in Workers : inHand'[w] = t => inHand[w] = t /\ workerPc'[w] = workerPc[w],
         \A i \in Nat : ReturnAt(t, i)' => /\ ReturnAt(t, i + e)
                                           /\ rpcQueue'[i].from = rpcQueue[i + e].from
  PROVE  TaskInv(t)'
<1>1. /\ \A w \in Workers, i \in Nat : i + d[w] \in Nat
      /\ \A i \in Nat : i + e \in Nat
      /\ \A w \in Workers, i, j \in Nat : i + d[w] = j + d[w] => i = j
      /\ \A i, j \in Nat : i + e = j + e => i = j
  OBVIOUS
<1>2. OnePlace(t)'
  <2>1. reply' = t => /\ \A w \in Workers : inHand'[w] # t /\ \A i \in Nat : ~ReplyAt(t, w, i)'
                      /\ \A i \in Nat : ~ReturnAt(t, i)'
    BY <1>1 DEF TaskInv, OnePlace
  <2>2. ASSUME NEW w \in Workers, NEW i \in Nat, ReplyAt(t, w, i)',
               NEW v \in Workers, NEW j \in Nat
        PROVE  /\ ReplyAt(t, v, j)' => v = w /\ j = i
               /\ inHand'[v] # t
               /\ ~ReturnAt(t, j)'
    <3>1. ReplyAt(t, w, i + d[w]) /\ i + d[w] \in Nat /\ j + d[v] \in Nat /\ j + e \in Nat
      BY <1>1, <2>2
    <3>2. ReplyAt(t, v, j)' => v = w /\ j = i
      <4> HAVE ReplyAt(t, v, j)'
      <4>1. v = w /\ j + d[v] = i + d[w]
        BY <3>1 DEF TaskInv, OnePlace
      <4> QED
        BY <1>1, <4>1
    <3>3. inHand'[v] # t
      BY <3>1 DEF TaskInv, OnePlace
    <3>4. ~ReturnAt(t, j)'
      BY <3>1 DEF TaskInv, OnePlace
    <3> QED
      BY <3>2, <3>3, <3>4
  <2>3. ASSUME NEW w \in Workers, inHand'[w] = t, NEW v \in Workers, NEW j \in Nat
        PROVE  (inHand'[v] = t => v = w) /\ ~ReturnAt(t, j)'
    BY <1>1, <2>3 DEF TaskInv, OnePlace
  <2>4. ASSUME NEW i \in Nat, NEW j \in Nat, ReturnAt(t, i)', ReturnAt(t, j)'
        PROVE  i = j
    <3>1. ReturnAt(t, i + e) /\ ReturnAt(t, j + e) /\ i + e \in Nat /\ j + e \in Nat
      BY <1>1, <2>4
    <3>2. i + e = j + e
      BY <3>1 DEF TaskInv, OnePlace
    <3> QED
      BY <1>1, <3>2
  <2> QED
    BY <2>1, <2>2, <2>3, <2>4 DEF OnePlace
<1>3. History(t)'
  BY <1>1 DEF TaskInv, History
<1>4. Nowhere(t) => Nowhere(t)'
  BY <1>1 DEF Nowhere
<1>5. Row(t)'
  BY <1>4 DEF TaskInv, Row
<1> QED
  BY <1>2, <1>3, <1>5 DEF TaskInv

LEMMA NothingMoves ==
  ASSUME NEW t \in Tasks, TaskInv(t),
         state'[t] = state[t], returnData'[t] = returnData[t], executions'[t] = executions[t],
         reply' = t => reply = t,
         \A w \in Workers, i \in Nat : ReplyAt(t, w, i)' => ReplyAt(t, w, i),
         \A w \in Workers : inHand'[w] = t => inHand[w] = t /\ workerPc'[w] = workerPc[w],
         \A i \in Nat : ReturnAt(t, i)' => ReturnAt(t, i) /\ rpcQueue'[i].from = rpcQueue[i].from
  PROVE  TaskInv(t)'
<1> DEFINE d == [w \in Workers |-> 0]
<1>1. d \in [Workers -> {0, 1}] /\ 0 \in {0, 1}
  OBVIOUS
<1>2. \A w \in Workers, i \in Nat : ReplyAt(t, w, i)' => ReplyAt(t, w, i + d[w])
  OBVIOUS
<1>3. \A i \in Nat : ReturnAt(t, i)' => /\ ReturnAt(t, i + 0)
                                        /\ rpcQueue'[i].from = rpcQueue[i + 0].from
  OBVIOUS
<1> HIDE DEF d
<1> QED
  BY <1>1, <1>2, <1>3, FewerPlaces

LEMMA InsertTaskInv ==
  ASSUME TypeInv, NEW t \in Tasks, TaskInv(t), NEW u \in Tasks, insertTask(u)
  PROVE  TaskInv(t)'
<1>1. /\ \A w \in Workers, i \in Nat : ReplyAt(t, w, i)' <=> ReplyAt(t, w, i)
      /\ \A i \in Nat : ReturnAt(t, i)' <=> ReturnAt(t, i)
  BY DEF insertTask, ReplyAt, ReturnAt
<1>2. /\ state' = [state EXCEPT ![u] = "PENDING"] /\ state[u] = "ABSENT"
      /\ state \in [Tasks -> {"ABSENT", "PENDING", "SENT", "COMPLETE"}]
      /\ UNCHANGED <<returnData, executions, rpcQueue, reply, inHand, workerPc>>
  BY DEF insertTask, server, worker, TypeInv, TypeOK
<1>3. CASE t # u
  BY <1>1, <1>2, <1>3, NothingMoves
<1>4. CASE t = u
  BY <1>1, <1>2, <1>4 DEF TaskInv, OnePlace, History, Row, Nowhere
<1> QED
  BY <1>3, <1>4

\* Steps of a worker.
LEMMA WorkerTaskInv ==
  ASSUME TypeInv, NEW t \in Tasks, TaskInv(t), NEW w \in Workers, WorkerStep(w)
  PROVE  TaskInv(t)'
<1> USE DEF TypeInv
<1> DEFINE d == [v \in Workers |-> IF v = w THEN 1 ELSE 0]
<1>d. d \in [Workers -> {0, 1}] /\ 0 \in {0, 1}
  OBVIOUS
<1>t. ASSUME replyQueue[w] # <<>>, replyQueue' = [replyQueue EXCEPT ![w] = Tail(@)]
      PROVE  \A v \in Workers, i \in Nat : ReplyAt(t, v, i)' => ReplyAt(t, v, i + d[v])
  <2> SUFFICES ASSUME NEW v \in Workers, NEW i \in Nat, ReplyAt(t, v, i)'
               PROVE  ReplyAt(t, v, i + d[v])
    OBVIOUS
  <2>1. (v = w => ReplyAt(t, v, i + 1)) /\ (v # w => ReplyAt(t, v, i))
    BY <1>t, ReplyTaken
  <2>2. v = w => i + d[v] = i + 1
    OBVIOUS
  <2>3. v # w => i + d[v] = i
    OBVIOUS
  <2> QED
    BY <2>1, <2>2, <2>3
<1>r. ASSUME UNCHANGED rpcQueue
      PROVE  \A i \in Nat : ReturnAt(t, i)' => /\ ReturnAt(t, i + 0)
                                               /\ rpcQueue'[i].from = rpcQueue[i + 0].from
  BY <1>r DEF ReturnAt
<1> HIDE DEF d
<1>1. CASE getTask(w)
  <2>1. Call(w, "gettask", Nothing) /\ Nothing # t
    BY <1>1, DispatchAssumption DEF getTask
  <2>2. \A i \in Nat : ReturnAt(t, i)' => ReturnAt(t, i) /\ rpcQueue'[i].from = rpcQueue[i].from
    BY <2>1, RequestAdded
  <2>3. \A v \in Workers : inHand'[v] = t => inHand[v] = t /\ workerPc'[v] = workerPc[v]
    BY <1>1, DispatchAssumption DEF getTask, TypeOK, WorkerHolds
  <2>4. \A v \in Workers, i \in Nat : ReplyAt(t, v, i)' => ReplyAt(t, v, i)
    BY <1>1 DEF getTask, ReplyAt
  <2> QED
    BY <1>1, <2>2, <2>3, <2>4, NothingMoves DEF getTask, database, server
<1>2. CASE DiscardReply(w)
  BY <1>2, <1>d, <1>t, <1>r, FewerPlaces DEF DiscardReply, database, server, worker
<1>3. CASE TaskArrives(w)
  <2>1. /\ replyQueue[w] # <<>> /\ replyQueue' = [replyQueue EXCEPT ![w] = Tail(@)]
        /\ UNCHANGED <<state, returnData, executions, reply, rpcQueue>>
    BY <1>3 DEF TaskArrives, CallReturns, database, server
  <2>2. CASE Head(replyQueue[w]).body # t
    <3>1. \A v \in Workers : inHand'[v] = t => inHand[v] = t /\ workerPc'[v] = workerPc[v]
      BY <1>3, <2>2, DispatchAssumption DEF TaskArrives, TypeOK, WorkerHolds
    <3> QED
      BY <1>d, <1>t, <1>r, <2>1, <3>1, FewerPlaces
  <2>3. CASE Head(replyQueue[w]).body = t
    <3>1. ReplyAt(t, w, 1)
      BY <2>1, <2>3, HeadReply
    <3>2. /\ \A v \in Workers, i \in Nat : ~ReplyAt(t, v, i)'
          /\ \A i \in Nat : ~ReturnAt(t, i)'
          /\ \A v \in Workers : inHand[v] # t
          /\ reply' # t
      <4>1. \A v \in Workers, i \in Nat : ReplyAt(t, v, i) => v = w /\ i = 1
        BY <3>1 DEF TaskInv, OnePlace
      <4>2. \A v \in Workers, i \in Nat : ~ReplyAt(t, v, i)'
        <5> SUFFICES ASSUME NEW v \in Workers, NEW i \in Nat, ReplyAt(t, v, i)'
                     PROVE  FALSE
          OBVIOUS
        <5>1. i >= 1 /\ (v = w => ReplyAt(t, v, i + 1)) /\ (v # w => ReplyAt(t, v, i))
          BY <2>1, ReplyTaken
        <5>2. i + 1 \in Nat /\ i + 1 # 1
          BY <5>1
        <5> QED
          BY <4>1, <5>1, <5>2
      <4> QED
        BY <2>1, <3>1, <4>2 DEF TaskInv, OnePlace, ReturnAt
    <3>3. inHand' = [inHand EXCEPT ![w] = t] /\ workerPc' = [workerPc EXCEPT ![w] = "executing"]
      BY <1>3, <2>3, DispatchAssumption DEF TaskArrives
    <3>4. executions[t] = <<>> /\ state[t] \notin {"ABSENT", "PENDING"}
      BY <3>1 DEF TaskInv, History, Row, Nowhere
    <3>5. OnePlace(t)'
      BY <3>2, <3>3 DEF OnePlace, TypeOK
    <3>6. History(t)'
      BY <2>1, <3>2, <3>3, <3>4 DEF History, TypeOK
    <3>7. Row(t)'
      BY <2>1, <3>4 DEF Row, TaskInv
    <3> QED
      BY <3>5, <3>6, <3>7 DEF TaskInv
  <2> QED
    BY <2>2, <2>3
<1>4. CASE executeTask(w)
  <2>1. /\ \A v \in Workers, i \in Nat : ReplyAt(t, v, i)' <=> ReplyAt(t, v, i)
        /\ \A i \in Nat : ReturnAt(t, i)' <=> ReturnAt(t, i)
    BY <1>4 DEF executeTask, ReplyAt, ReturnAt
  <2>2. /\ UNCHANGED <<state, returnData, reply, rpcQueue, inHand>>
        /\ workerPc' = [workerPc EXCEPT ![w] = "returning"] /\ workerPc[w] = "executing"
        /\ executions' = [executions EXCEPT ![inHand[w]] = Append(@, w)]
    BY <1>4 DEF executeTask, ExecutionBegins, database, server
  <2>3. CASE inHand[w] # t
    <3>1. executions'[t] = executions[t]
      BY <2>2, <2>3 DEF TypeOK
    <3>2. \A v \in Workers : inHand'[v] = t => inHand[v] = t /\ workerPc'[v] = workerPc[v]
      BY <2>2, <2>3 DEF TypeOK
    <3> QED
      BY <2>1, <2>2, <3>1, <3>2, NothingMoves
  <2>4. CASE inHand[w] = t
    <3>1. executions[t] = <<>> /\ state[t] \notin {"ABSENT", "PENDING", "COMPLETE"}
      BY <2>2, <2>4 DEF TaskInv, History, Row, Nowhere
    <3>2. executions'[t] = <<w>>
      BY <2>2, <2>4, <3>1 DEF TypeOK
    <3>3. OnePlace(t)'
      BY <2>1, <2>2 DEF TaskInv, OnePlace
    <3>4. History(t)'
      BY <2>1, <2>2, <2>4, <3>2 DEF TaskInv, OnePlace, History, TypeOK
    <3>5. Row(t)'
      BY <2>2, <3>1, <3>2 DEF TaskInv, Row
    <3> QED
      BY <3>3, <3>4, <3>5 DEF TaskInv
  <2> QED
    BY <2>3, <2>4
<1>5. CASE sendCompleteTask(w)
  <2>1. /\ Call(w, "rettask", inHand[w]) /\ inHand[w] \in Tasks \cup {NOTASK, Undecodable}
        /\ UNCHANGED <<state, returnData, executions, reply, replyQueue>>
        /\ inHand' = [inHand EXCEPT ![w] = Nothing]
        /\ workerPc' = [workerPc EXCEPT ![w] = "awaitReturn"] /\ workerPc[w] = "returning"
    BY <1>5 DEF sendCompleteTask, WorkerHolds, database, server
  <2>2. \A v \in Workers : inHand'[v] = t => v # w /\ inHand[v] = t /\ workerPc'[v] = workerPc[v]
    BY <2>1, DispatchAssumption DEF TypeOK
  <2>3. \A v \in Workers, i \in Nat : ReplyAt(t, v, i)' <=> ReplyAt(t, v, i)
    BY <2>1 DEF ReplyAt
  <2>4. \A i \in Nat : ReturnAt(t, i)' =>
          \/ ReturnAt(t, i) /\ rpcQueue'[i] = rpcQueue[i]
          \/ i = Len(rpcQueue) + 1 /\ inHand[w] = t /\ rpcQueue'[i].from = w
    BY <2>1, RequestAdded
  <2>5. CASE inHand[w] # t
    BY <2>1, <2>2, <2>3, <2>4, <2>5, NothingMoves
  <2>6. CASE inHand[w] = t
    <3>1. executions[t] = <<w>> /\ state[t] \notin {"ABSENT", "PENDING"}
      BY <2>1, <2>6 DEF TaskInv, History, Row, Nowhere
    <3>2. /\ \A v \in Workers, i \in Nat : ~ReplyAt(t, v, i)'
          /\ \A v \in Workers : inHand'[v] # t
          /\ reply' # t
          /\ \A i \in Nat : ReturnAt(t, i)' => i = Len(rpcQueue) + 1 /\ rpcQueue'[i].from = w
      BY <2>1, <2>2, <2>3, <2>4, <2>6 DEF TaskInv, OnePlace
    <3>3. OnePlace(t)' /\ History(t)'
      BY <2>1, <3>1, <3>2 DEF OnePlace, History
    <3>4. Row(t)'
      BY <2>1, <3>1 DEF TaskInv, Row
    <3> QED
      BY <3>3, <3>4 DEF TaskInv
  <2> QED
    BY <2>5, <2>6
<1>6. CASE ReturnAnswered(w)
  <2>1. /\ replyQueue[w] # <<>> /\ replyQueue' = [replyQueue EXCEPT ![w] = Tail(@)]
        /\ UNCHANGED <<state, returnData, executions, reply, rpcQueue>>
    BY <1>6 DEF ReturnAnswered, CallReturns, database, server
  <2>2. \A v \in Workers : inHand'[v] = t => inHand[v] = t /\ workerPc'[v] = workerPc[v]
    BY <1>6, DispatchAssumption DEF ReturnAnswered, TypeOK, WorkerHolds
  <2> QED
    BY <1>d, <1>t, <1>r, <2>1, <2>2, FewerPlaces
<1> QED
  BY <1>1, <1>2, <1>3, <1>4, <1>5, <1>6 DEF WorkerStep

\* Faults, of a worker and of the server.
LEMMA FaultTaskInv ==
  ASSUME TypeInv, NEW t \in Tasks, TaskInv(t),
         Stop \/ HandlerError \/ \E w \in Workers : WorkerFault(w)
  PROVE  TaskInv(t)'
<1> USE DispatchAssumption DEF TypeInv
<1>r. ASSUME UNCHANGED rpcQueue
      PROVE  \A i \in Nat :
               ReturnAt(t, i)' => ReturnAt(t, i) /\ rpcQueue'[i].from = rpcQueue[i].from
  BY <1>r DEF ReturnAt
<1>q. ASSUME UNCHANGED replyQueue
      PROVE  \A w \in Workers, i \in Nat : ReplyAt(t, w, i)' <=> ReplyAt(t, w, i)
  BY <1>q DEF ReplyAt
<1>1. ASSUME NEW w \in Workers, CallBeforeQueueExists(w)
      PROVE  TaskInv(t)'
  <2>1. \A v \in Workers : inHand'[v] = t => inHand[v] = t /\ workerPc'[v] = workerPc[v]
    BY <1>1 DEF CallBeforeQueueExists, TypeOK, WorkerHolds
  <2> QED
    BY <1>1, <1>r, <1>q, <2>1, NothingMoves DEF CallBeforeQueueExists, database, server
\* An execution that begins and comes to nothing leaves the task nowhere.
<1>2. ASSUME NEW w \in Workers, workerPc[w] = "executing", inHand[w] # t,
             ExecutionBegins(w) \/ UNCHANGED executions
      PROVE  executions'[t] = executions[t]
  BY <1>2 DEF ExecutionBegins, TypeOK
<1>3. ASSUME NEW w \in Workers, workerPc[w] = "executing", inHand[w] = t, inHand'[w] # t,
             \A v \in Workers : v # w => inHand'[v] = inHand[v],
             ExecutionBegins(w) \/ UNCHANGED executions,
             \A v \in Workers, i \in Nat : ReplyAt(t, v, i)' => ReplyAt(t, v, i),
             UNCHANGED <<state, returnData, reply, rpcQueue>>
      PROVE  TaskInv(t)'
  <2>1. /\ \A v \in Workers, i \in Nat : ~ReplyAt(t, v, i) /\ ~ReturnAt(t, i)
        /\ \A v \in Workers : v # w => inHand[v] # t
        /\ reply # t
    BY <1>3 DEF TaskInv, OnePlace
  <2>2. Nowhere(t)'
    BY <1>3, <2>1 DEF Nowhere, ReturnAt
  <2>3. executions[t] = <<>> /\ state[t] # "COMPLETE"
    BY <1>3 DEF TaskInv, History, Row
  <2>4. executions'[t] = <<>> \/ executions'[t] = <<w>>
    BY <1>3, <2>3 DEF ExecutionBegins, TypeOK
  <2>5. state[t] \notin {"ABSENT", "PENDING"}
    BY <1>3 DEF TaskInv, Row, Nowhere
  <2>6. OnePlace(t)' /\ History(t)'
    BY <2>2 DEF OnePlace, History, Nowhere
  <2>7. Row(t)'
    BY <1>3, <2>3, <2>4, <2>5 DEF TaskInv, Row
  <2> QED
    BY <2>6, <2>7 DEF TaskInv
<1>4. ASSUME NEW w \in Workers, ExecutorReturnsNothing(w)
      PROVE  TaskInv(t)'
  <2>1. /\ workerPc[w] = "executing" /\ ExecutionBegins(w)
        /\ UNCHANGED <<state, returnData, reply, rpcQueue, replyQueue>>
        /\ inHand' = [inHand EXCEPT ![w] = Undecodable]
        /\ workerPc' = [workerPc EXCEPT ![w] = "returning"]
    BY <1>4 DEF ExecutorReturnsNothing, database, server
  <2>2. /\ inHand'[w] # t
        /\ \A v \in Workers : v # w => inHand'[v] = inHand[v] /\ workerPc'[v] = workerPc[v]
    BY <2>1 DEF TypeOK
  <2>3. CASE inHand[w] = t
    BY <1>3, <1>q, <2>1, <2>2, <2>3
  <2>4. CASE inHand[w] # t
    BY <1>2, <1>r, <1>q, <2>1, <2>2, <2>4, NothingMoves
  <2> QED
    BY <2>3, <2>4
<1>5. ASSUME NEW w \in Workers, WorkerError(w)
      PROVE  TaskInv(t)'
  <2>1. /\ workerPc[w] = "executing" /\ (ExecutionBegins(w) \/ UNCHANGED executions)
        /\ UNCHANGED <<state, returnData, reply, rpcQueue, replyQueue>>
        /\ inHand' = [inHand EXCEPT ![w] = Nothing]
        /\ workerPc' = [workerPc EXCEPT ![w] = "idle"]
    BY <1>5 DEF WorkerError, database, server
  <2>2. /\ inHand'[w] # t
        /\ \A v \in Workers : v # w => inHand'[v] = inHand[v] /\ workerPc'[v] = workerPc[v]
    BY <2>1 DEF TypeOK
  <2>3. CASE inHand[w] = t
    BY <1>3, <1>q, <2>1, <2>2, <2>3
  <2>4. CASE inHand[w] # t
    BY <1>2, <1>r, <1>q, <2>1, <2>2, <2>4, NothingMoves
  <2> QED
    BY <2>3, <2>4
<1>6. ASSUME NEW w \in Workers, Crash(w)
      PROVE  TaskInv(t)'
  <2>1. /\ inHand'[w] # t
        /\ \A v \in Workers : v # w => inHand'[v] = inHand[v] /\ workerPc'[v] = workerPc[v]
    BY <1>6 DEF Crash, TypeOK
  <2>2. \A v \in Workers, i \in Nat : ReplyAt(t, v, i)' => ReplyAt(t, v, i)
    BY <1>6, EmptySeq DEF Crash, ReplyAt, TypeOK
  <2>3. /\ UNCHANGED <<state, returnData, reply, rpcQueue>>
        /\ \/ UNCHANGED executions
           \/ workerPc[w] = "executing" /\ ExecutionBegins(w)
    BY <1>6 DEF Crash, database, server
  <2>4. CASE executions'[t] = executions[t]
    BY <1>r, <2>1, <2>2, <2>3, <2>4, NothingMoves
  <2>5. CASE executions'[t] # executions[t]
    BY <1>2, <1>3, <2>1, <2>2, <2>3, <2>5
  <2> QED
    BY <2>4, <2>5
<1>7. CASE Stop \/ HandlerError
  <2>1. /\ UNCHANGED <<state, returnData, executions, rpcQueue, replyQueue, inHand, workerPc>>
        /\ reply' # t
    BY <1>7 DEF Stop, HandlerError, database, worker
  <2> QED
    BY <1>r, <1>q, <2>1, NothingMoves
<1> QED
  BY <1>1, <1>4, <1>5, <1>6, <1>7 DEF WorkerFault

\* Steps of the server's thread.
LEMMA ServerTaskInv ==
  ASSUME TypeInv, NEW t \in Tasks, TaskInv(t), ServerStep
  PROVE  TaskInv(t)'
<1> USE DispatchAssumption DEF TypeInv
<1>r. ASSUME UNCHANGED rpcQueue
      PROVE  \A i \in Nat : ReturnAt(t, i)' <=> ReturnAt(t, i)
  BY <1>r DEF ReturnAt
<1>q. ASSUME UNCHANGED replyQueue
      PROVE  \A w \in Workers, i \in Nat : ReplyAt(t, w, i)' <=> ReplyAt(t, w, i)
  BY <1>q DEF ReplyAt
<1>1. CASE init \/ SendNoTask \/ AcceptNoTask \/ RejectReturn
  <2>1. /\ UNCHANGED <<state, returnData, executions, rpcQueue, replyQueue, inHand, workerPc>>
        /\ reply' = t => reply = t
    BY <1>1 DEF init, SendNoTask, AcceptNoTask, RejectReturn, Respond, database, worker
  <2> QED
    BY <1>r, <1>q, <2>1, NothingMoves
<1>2. CASE Publish
  <2>1. /\ UNCHANGED <<state, returnData, executions, rpcQueue, inHand, workerPc>>
        /\ reply' # t
    BY <1>2 DEF Publish, database, worker
  <2>2. \A w \in Workers, i \in Nat : ReplyAt(t, w, i)' =>
          \/ ReplyAt(t, w, i)
          \/ reply = t /\ w = Head(rpcQueue).from /\ i = Len(replyQueue[w]) + 1
    BY <1>2, ReplyAdded
  <2>3. CASE reply # t
    BY <1>r, <2>1, <2>2, <2>3, NothingMoves
  <2>4. CASE reply = t
    <3>1. /\ \A w \in Workers, i \in Nat :
               /\ ReplyAt(t, w, i)' => w = Head(rpcQueue).from /\ i = Len(replyQueue[w]) + 1
               /\ ~ReturnAt(t, i)'
          /\ \A w \in Workers : inHand'[w] # t
      BY <1>r, <2>1, <2>2, <2>4 DEF TaskInv, OnePlace
    <3>2. OnePlace(t)'
      BY <1>r, <2>1, <2>4, <3>1 DEF TaskInv, OnePlace
    <3>3. History(t)'
      BY <1>r, <2>1, <2>4, <3>1 DEF TaskInv, OnePlace, History
    <3>4. Row(t)'
      BY <2>1, <2>4 DEF TaskInv, Row, Nowhere
    <3> QED
      BY <3>2, <3>3, <3>4 DEF TaskInv
  <2> QED
    BY <2>3, <2>4
<1>3. CASE Ack
  <2> DEFINE d == [w \in Workers |-> 0]
  <2>1. d \in [Workers -> {0, 1}] /\ 1 \in {0, 1}
    OBVIOUS
  <2>2. \A w \in Workers, i \in Nat : ReplyAt(t, w, i)' => ReplyAt(t, w, i + d[w])
    BY <1>3, <1>q DEF Ack
  <2>3. \A i \in Nat : ReturnAt(t, i)' => /\ ReturnAt(t, i + 1)
                                          /\ rpcQueue'[i].from = rpcQueue[i + 1].from
    BY <1>3, RequestAcked
  <2> HIDE DEF d
  <2> QED
    BY <1>3, <2>1, <2>2, <2>3, FewerPlaces DEF Ack, database, worker
<1>4. ASSUME NEW u \in Tasks, SendTask(u)
      PROVE  TaskInv(t)'
  <2>1. /\ UNCHANGED <<returnData, executions, rpcQueue, replyQueue, inHand, workerPc>>
        /\ state' = [state EXCEPT ![u] = "SENT"] /\ state[u] = "PENDING" /\ reply' = u
    BY <1>4 DEF SendTask, Pending, Respond, worker
  <2>2. CASE t # u
    BY <1>r, <1>q, <2>1, <2>2, NothingMoves DEF TypeOK
  <2>3. CASE t = u
    <3>1. Nowhere(t) /\ executions[t] = <<>> /\ returnData[t] = Nothing /\ state'[t] = "SENT"
      BY <2>1, <2>3 DEF TaskInv, Row, TypeOK
    <3>2. /\ \A w \in Workers : inHand'[w] # t /\ \A i \in Nat : ~ReplyAt(t, w, i)'
          /\ \A i \in Nat : ~ReturnAt(t, i)'
      BY <1>r, <1>q, <2>1, <3>1 DEF Nowhere
    <3>3. OnePlace(t)'
      BY <3>2 DEF OnePlace
    <3>4. History(t)'
      BY <2>1, <3>1, <3>2 DEF History
    <3>5. Row(t)'
      BY <2>1, <3>1 DEF Row
    <3> QED
      BY <3>3, <3>4, <3>5 DEF TaskInv
  <2> QED
    BY <2>2, <2>3
<1>5. ASSUME NEW u \in Tasks, CompleteTask(u)
      PROVE  TaskInv(t)'
  <2>1. /\ UNCHANGED <<executions, rpcQueue, replyQueue, inHand, workerPc>>
        /\ state' = [state EXCEPT ![u] = "COMPLETE"]
        /\ returnData' = [returnData EXCEPT ![u] = Output(u, Head(rpcQueue).from)]
        /\ reply' # t
        /\ rpcQueue # <<>> /\ Head(rpcQueue).content = u
    BY <1>5 DEF CompleteTask, Delivered, Respond, worker
  <2>2. CASE t # u
    BY <1>r, <1>q, <2>1, <2>2, NothingMoves DEF TypeOK
  <2>3. CASE t = u
    <3>1. rpcQueue \in Seq(Request) /\ Head(rpcQueue) \in Request
      BY <2>1, HeadTailProperties DEF TypeOK
    <3>2. Len(rpcQueue) \in Nat \ {0} /\ Head(rpcQueue) = rpcQueue[1]
      BY <2>1, <3>1, EmptySeq
    <3>3. ReturnAt(t, 1) /\ Head(rpcQueue).from \in Workers
      BY <2>1, <2>3, <3>1, <3>2 DEF ReturnAt, Request
    <3>4. executions[t] = <<Head(rpcQueue).from>> /\ reply # t
      BY <3>2, <3>3 DEF TaskInv, History, OnePlace
    <3>5. state'[t] = "COMPLETE" /\ returnData'[t] = Output(t, Head(rpcQueue).from)
      BY <2>1, <2>3 DEF TypeOK
    <3>6. OnePlace(t)' /\ History(t)'
      BY <1>r, <1>q, <2>1, <3>4 DEF TaskInv, OnePlace, History
    <3>7. Row(t)'
      BY <2>1, <3>3, <3>4, <3>5 DEF Row
    <3> QED
      BY <3>6, <3>7 DEF TaskInv
  <2> QED
    BY <2>2, <2>3
<1> QED
  BY <1>1, <1>2, <1>3, <1>4, <1>5 DEF ServerStep

-------------------------------------------------------------------------------
(* The safety theorems. *)

IInv == TypeInv /\ \A t \in Tasks : TaskInv(t)

LEMMA InitIInv == Init => IInv
<1> SUFFICES ASSUME Init
             PROVE  IInv
  OBVIOUS
<1>1. TypeInv
  BY InitTypeInv
<1>2. ASSUME NEW t \in Tasks
      PROVE  TaskInv(t)
  <2>1. /\ \A w \in Workers, i \in Nat : ~ReplyAt(t, w, i)
        /\ \A i \in Nat : ~ReturnAt(t, i)
    BY Len(<<>>) = 0, 1 .. 0 = {} DEF Init, ReplyAt, ReturnAt
  <2>2. Nowhere(t)
    BY <2>1, DispatchAssumption DEF Init, Nowhere
  <2> QED
    BY <2>2 DEF Init, TaskInv, OnePlace, History, Row, Nowhere
<1> QED
  BY <1>1, <1>2 DEF IInv

LEMMA NextIInv == IInv /\ [Next]_vars => IInv'
<1> SUFFICES ASSUME IInv, [Next]_vars
             PROVE  IInv'
  OBVIOUS
<1>1. TypeInv /\ TypeInv'
  BY NextTypeInv DEF IInv
<1>2. ASSUME NEW t \in Tasks
      PROVE  TaskInv(t)'
  <2>1. TaskInv(t)
    BY DEF IInv
  <2>2. CASE UNCHANGED vars
    <3>1. /\ \A w \in Workers, i \in Nat : ReplyAt(t, w, i)' <=> ReplyAt(t, w, i)
          /\ \A i \in Nat : ReturnAt(t, i)' <=> ReturnAt(t, i)
      BY <2>2 DEF vars, ReplyAt, ReturnAt
    <3> QED
      BY <2>1, <2>2, <3>1, NothingMoves DEF vars, database, server, worker
  <2> QED
    BY <1>1, <2>1, <2>2, InsertTaskInv, WorkerTaskInv, FaultTaskInv, ServerTaskInv DEF Next
<1> QED
  BY <1>1, <1>2 DEF IInv

LEMMA Invariance == Spec => []IInv
  BY InitIInv, NextIInv, PTL DEF Spec

\* A task is in one place at a time and in none before it is sent, through every
\* crash, restart and redelivery.
THEOREM SingleCustodyHolds == Spec => []SingleCustody
<1>1. IInv => SingleCustody
  <2> SUFFICES ASSUME IInv, NEW t \in Tasks
               PROVE  /\ \A p, q \in Custody(t) : p = q
                      /\ state[t] \in {"ABSENT", "PENDING"} => Custody(t) = {}
    BY DEF SingleCustody
  <2>1. TaskInv(t) /\ TypeOK
    BY DEF IInv, TypeInv
  <2>2. /\ DOMAIN rpcQueue = 1 .. Len(rpcQueue) /\ Len(rpcQueue) \in Nat
        /\ \A w \in Workers : /\ DOMAIN replyQueue[w] = 1 .. Len(replyQueue[w])
                              /\ Len(replyQueue[w]) \in Nat
    BY <2>1, LenProperties DEF TypeOK
  \* The four kinds of place.
  <2>3. ASSUME NEW p \in Custody(t)
        PROVE  \/ p = <<"server">> /\ reply = t
               \/ \E w \in Workers, i \in Nat : p = <<"reply", w, i>> /\ ReplyAt(t, w, i)
               \/ \E w \in Workers : p = <<"worker", w>> /\ inHand[w] = t
               \/ \E i \in Nat : p = <<"return", i>> /\ ReturnAt(t, i)
    <3>1. CASE p \in AtServer(t)
      BY <3>1 DEF AtServer
    <3>2. CASE p \in InReplies(t)
      <4>1. PICK w \in Workers : p \in {<<"reply", w, i>> : i \in {j \in DOMAIN replyQueue[w] :
                                                      replyQueue[w][j].body = t}}
        BY <3>2 DEF InReplies
      <4>2. PICK i \in DOMAIN replyQueue[w] : p = <<"reply", w, i>> /\ replyQueue[w][i].body = t
        BY <4>1
      <4>3. i \in Nat /\ ReplyAt(t, w, i)
        BY <2>2, <4>2 DEF ReplyAt
      <4> QED
        BY <4>2, <4>3
    <3>3. CASE p \in AtWorkers(t)
      BY <3>3 DEF AtWorkers
    <3>4. CASE p \in InReturns(t)
      <4>1. PICK i \in DOMAIN rpcQueue : p = <<"return", i>> /\ rpcQueue[i].content = t
        BY <3>4 DEF InReturns
      <4>2. i \in Nat /\ ReturnAt(t, i)
        BY <2>2, <4>1 DEF ReturnAt
      <4> QED
        BY <4>1, <4>2
    <3> QED
      BY <2>3, <3>1, <3>2, <3>3, <3>4 DEF Custody
  <2>4. ASSUME NEW p \in Custody(t), NEW q \in Custody(t)
        PROVE  p = q
    <3>1. CASE reply = t
      BY <2>1, <2>3, <3>1 DEF TaskInv, OnePlace
    <3>2. CASE \E w \in Workers, i \in Nat : p = <<"reply", w, i>> /\ ReplyAt(t, w, i)
      BY <2>1, <2>3, <3>2 DEF TaskInv, OnePlace
    <3>3. CASE \E w \in Workers : p = <<"worker", w>> /\ inHand[w] = t
      BY <2>1, <2>3, <3>3 DEF TaskInv, OnePlace
    <3>4. CASE \E i \in Nat : p = <<"return", i>> /\ ReturnAt(t, i)
      BY <2>1, <2>3, <3>4 DEF TaskInv, OnePlace
    <3> QED
      BY <2>3, <3>1, <3>2, <3>3, <3>4
  <2>5. state[t] \in {"ABSENT", "PENDING"} => Custody(t) = {}
    BY <2>1, <2>3 DEF TaskInv, Row, Nowhere
  <2> QED
    BY <2>4, <2>5
<1> QED
  BY <1>1, Invariance, PTL

\* No task begins to execute twice, and none whose row is still PENDING was executed.
THEOREM AtMostOnceExecutionHolds == Spec => []AtMostOnceExecution
<1>1. IInv => AtMostOnceExecution
  <2> SUFFICES ASSUME IInv, NEW t \in Tasks
               PROVE  /\ Len(executions[t]) <= 1
                      /\ state[t] \in {"ABSENT", "PENDING"} => executions[t] = <<>>
    BY DEF AtMostOnceExecution
  <2>1. Len(executions[t]) <= 1
    <3>1. executions[t] = <<>> \/ \E w \in Workers : executions[t] = <<w>>
      BY DEF IInv, TaskInv, Row
    <3>2. CASE executions[t] = <<>>
      BY <3>2, EmptySeq
    <3>3. CASE \E w \in Workers : executions[t] = <<w>>
      <4>1. PICK w \in Workers : executions[t] = <<w>>
        BY <3>3
      <4>2. Len(<<w>>) = 1
        OBVIOUS
      <4> QED
        BY <4>1, <4>2
    <3> QED
      BY <3>1, <3>2, <3>3
  <2>2. state[t] \in {"ABSENT", "PENDING"} => executions[t] = <<>>
    BY DEF IInv, TaskInv, Row
  <2> QED
    BY <2>1, <2>2
<1> QED
  BY <1>1, Invariance, PTL

\* The result stored for a complete task is the one its only execution produced, and
\* no other row holds a result.
THEOREM ResultAttributionHolds == Spec => []ResultAttribution
<1>1. IInv => ResultAttribution
  BY DEF IInv, TaskInv, Row, ResultAttribution
<1> QED
  BY <1>1, Invariance, PTL

-------------------------------------------------------------------------------
(* Step properties.  All but a few steps leave rows and executions alone. *)

Quiet == UNCHANGED <<state, returnData, executions>>

\* The steps that do not.
Begins(t, w) == /\ workerPc[w] = "executing" /\ inHand[w] = t
                /\ executions' = [executions EXCEPT ![t] = Append(@, w)]
                /\ UNCHANGED <<state, returnData>>
Effect(t) == \/ insertTask(t) \/ SendTask(t) \/ CompleteTask(t)
             \/ \E w \in Workers : Begins(t, w)

LEMMA QuietOrEffect ==
  ASSUME IInv, [Next]_vars
  PROVE  Quiet \/ \E t \in Tasks : Effect(t)
<1>1. CASE UNCHANGED vars
  BY <1>1 DEF vars, database, Quiet
<1>2. CASE \E t \in Tasks : insertTask(t) \/ SendTask(t) \/ CompleteTask(t)
  BY <1>2 DEF Effect
<1>3. CASE \/ Stop \/ HandlerError \/ init \/ SendNoTask \/ AcceptNoTask \/ RejectReturn
           \/ Publish \/ Ack
  BY <1>3 DEF Stop, HandlerError, init, SendNoTask, AcceptNoTask, RejectReturn, Publish, Ack,
              database, Quiet
<1>4. ASSUME NEW w \in Workers, workerPc[w] = "executing", ExecutionBegins(w),
             UNCHANGED <<state, returnData>>
      PROVE  \E t \in Tasks : Effect(t)
  <2>1. inHand[w] \in Tasks
    BY <1>4 DEF IInv, TypeInv, WorkerHolds
  <2>2. Begins(inHand[w], w)
    BY <1>4 DEF Begins, ExecutionBegins
  <2> QED
    BY <2>1, <2>2 DEF Effect
<1>5. ASSUME NEW w \in Workers, WorkerStep(w)
      PROVE  Quiet \/ \E t \in Tasks : Effect(t)
  <2>1. CASE executeTask(w)
    BY <1>4, <2>1 DEF executeTask, database
  <2>2. CASE ~executeTask(w)
    BY <1>5, <2>2 DEF WorkerStep, getTask, DiscardReply, TaskArrives, sendCompleteTask,
                      ReturnAnswered, database, Quiet
  <2> QED
    BY <2>1, <2>2
<1>6. ASSUME NEW w \in Workers, WorkerFault(w)
      PROVE  Quiet \/ \E t \in Tasks : Effect(t)
  <2>1. CASE ExecutorReturnsNothing(w)
    BY <1>4, <2>1 DEF ExecutorReturnsNothing, database
  <2>2. CASE WorkerError(w)
    BY <1>4, <2>2 DEF WorkerError, database, Quiet
  <2>3. CASE CallBeforeQueueExists(w) \/ Crash(w)
    BY <1>4, <2>3 DEF CallBeforeQueueExists, Crash, database, Quiet
  <2> QED
    BY <1>6, <2>1, <2>2, <2>3 DEF WorkerFault
<1> QED
  BY <1>1, <1>2, <1>3, <1>5, <1>6 DEF Next, ServerStep

\* The result that is at the head of the queue is that of the only execution, and the
\* row has it already if it is complete.
LEMMA CompletedOnce ==
  ASSUME IInv, NEW t \in Tasks, CompleteTask(t)
  PROVE  \E w \in Workers :
           /\ executions[t] = <<w>>
           /\ state[t] \in {"SENT", "COMPLETE"}
           /\ state[t] = "SENT" => returnData[t] = Nothing
           /\ state[t] = "COMPLETE" => returnData[t] = Output(t, w)
           /\ returnData' = [returnData EXCEPT ![t] = Output(t, w)]
<1>1. /\ TypeOK /\ TaskInv(t) /\ rpcQueue # <<>> /\ Head(rpcQueue).content = t
      /\ returnData' = [returnData EXCEPT ![t] = Output(t, Head(rpcQueue).from)]
  BY DEF IInv, TypeInv, CompleteTask, Delivered
<1>2. rpcQueue \in Seq(Request) /\ Head(rpcQueue) \in Request
  BY <1>1, HeadTailProperties DEF TypeOK
<1>3. Len(rpcQueue) \in Nat \ {0} /\ Head(rpcQueue) = rpcQueue[1]
  BY <1>1, <1>2, EmptySeq
<1>4. ReturnAt(t, 1) /\ Head(rpcQueue).from \in Workers
  BY <1>1, <1>2, <1>3 DEF ReturnAt, Request
<1>5. executions[t] = <<Head(rpcQueue).from>>
  BY <1>1, <1>3, <1>4 DEF TaskInv, History
<1>6. state[t] \in {"SENT", "COMPLETE"} /\ (state[t] = "SENT" => returnData[t] = Nothing)
  BY <1>1, <1>4 DEF TaskInv, Row, Nowhere, TypeOK
<1>7. state[t] = "COMPLETE" => returnData[t] = Output(t, Head(rpcQueue).from)
  <2> HAVE state[t] = "COMPLETE"
  <2>1. PICK w \in Workers : executions[t] = <<w>> /\ returnData[t] = Output(t, w)
    BY <1>1 DEF TaskInv, Row
  <2>2. w = Head(rpcQueue).from
    BY <1>5, <2>1
  <2> QED
    BY <2>1, <2>2
<1> QED
  BY <1>1, <1>4, <1>5, <1>6, <1>7

\* Complete rows and their results stand, and no row goes back.
THEOREM ResultsStandHolds == Spec => ResultsStand
<1> DEFINE Stands(t) == /\ Rank[state'[t]] >= Rank[state[t]]
                        /\ state[t] = "COMPLETE" => returnData'[t] = returnData[t]
<1>1. Rank["ABSENT"] = 0 /\ Rank["PENDING"] = 1 /\ Rank["SENT"] = 2 /\ Rank["COMPLETE"] = 3
  BY DEF Rank
<1>2. ASSUME IInv, [Next]_vars, NEW t \in Tasks
      PROVE  Stands(t)
  <2>1. TypeOK
    BY <1>2 DEF IInv, TypeInv
  <2>2. state[t] \in {"ABSENT", "PENDING", "SENT", "COMPLETE"}
    BY <2>1 DEF TypeOK
  <2>3. ASSUME state'[t] = state[t], returnData'[t] = returnData[t]
        PROVE  Stands(t)
    BY <1>1, <2>2, <2>3
  <2>4. CASE Quiet
    BY <2>3, <2>4 DEF Quiet
  <2>5. ASSUME NEW u \in Tasks, insertTask(u) \/ SendTask(u)
        PROVE  Stands(t)
    <3>1. UNCHANGED returnData /\ \/ state[u] = "ABSENT" /\ state' = [state EXCEPT ![u] = "PENDING"]
                                  \/ state[u] = "PENDING" /\ state' = [state EXCEPT ![u] = "SENT"]
      BY <2>5 DEF insertTask, SendTask, Pending
    <3>2. CASE u = t
      BY <1>1, <2>1, <3>1, <3>2 DEF TypeOK
    <3>3. CASE u # t
      BY <2>1, <2>3, <3>1, <3>3 DEF TypeOK
    <3> QED
      BY <3>2, <3>3
  <2>6. ASSUME NEW u \in Tasks, CompleteTask(u)
        PROVE  Stands(t)
    <3>1. state' = [state EXCEPT ![u] = "COMPLETE"]
      BY <2>6 DEF CompleteTask
    <3>2. PICK w \in Workers : /\ state[u] = "COMPLETE" => returnData[u] = Output(u, w)
                               /\ returnData' = [returnData EXCEPT ![u] = Output(u, w)]
      BY <1>2, <2>6, CompletedOnce
    <3>3. CASE u = t
      BY <1>1, <2>1, <2>2, <3>1, <3>2, <3>3 DEF TypeOK
    <3>4. CASE u # t
      BY <2>1, <2>3, <3>1, <3>2, <3>4 DEF TypeOK
    <3> QED
      BY <3>3, <3>4
  <2>7. ASSUME NEW u \in Tasks, Effect(u)
        PROVE  Stands(t)
    BY <2>3, <2>5, <2>6, <2>7 DEF Effect, Begins
  <2> QED
    BY <1>2, <2>4, <2>5, <2>6, <2>7, QuietOrEffect
<1>3. IInv /\ [Next]_vars => [\A t \in Tasks : Stands(t)]_vars
  BY <1>2
<1> QED
  BY <1>3, Invariance, PTL DEF Spec, ResultsStand

-------------------------------------------------------------------------------
(* Refinement: each step is a step of the contract or none. *)

LEMMA InitContract == Init => Contract!Init
<1> SUFFICES ASSUME Init
             PROVE  Contract!Init
  OBVIOUS
<1>1. /\ {t \in Tasks : state[t] = "PENDING"} = {}
      /\ {t \in Tasks : state[t] \in {"SENT", "COMPLETE"}} = {}
  BY DEF Init
<1> QED
  BY <1>1 DEF Init, Contract!Init

\* A step that leaves rows and executions alone is none of the contract's.
LEMMA QuietContract ==
  ASSUME Quiet
  PROVE  UNCHANGED Contract!vars
  BY DEF Quiet, Contract!vars

LEMMA EffectContract ==
  ASSUME IInv, NEW t \in Tasks, Effect(t)
  PROVE  Contract!Next \/ UNCHANGED Contract!vars
<1>1. TypeOK /\ TaskInv(t)
  BY DEF IInv, TypeInv
<1>2. CASE insertTask(t)
  <2>1. Contract!Submit(t)
    BY <1>1, <1>2 DEF insertTask, Contract!Submit, TypeOK
  <2> QED
    BY <2>1 DEF Contract!Next
<1>3. CASE SendTask(t)
  <2>1. Contract!HandOut(t)
    BY <1>1, <1>3 DEF SendTask, Pending, Contract!HandOut, TypeOK
  <2> QED
    BY <2>1 DEF Contract!Next
<1>4. CASE CompleteTask(t)
  <2>1. state' = [state EXCEPT ![t] = "COMPLETE"] /\ UNCHANGED executions
    BY <1>4 DEF CompleteTask
  <2>2. PICK v \in Workers : /\ executions[t] = <<v>>
                             /\ state[t] \in {"SENT", "COMPLETE"}
                             /\ state[t] = "SENT" => returnData[t] = Nothing
                             /\ state[t] = "COMPLETE" => returnData[t] = Output(t, v)
                             /\ returnData' = [returnData EXCEPT ![t] = Output(t, v)]
    BY <1>4, CompletedOnce
  <2>3. UNCHANGED <<{u \in Tasks : state[u] = "PENDING"},
                    {u \in Tasks : state[u] \in {"SENT", "COMPLETE"}}>>
    BY <1>1, <2>1, <2>2 DEF TypeOK
  <2>4. CASE state[t] = "SENT"
    <3>1. Contract!Store(t)
      BY <2>1, <2>2, <2>3, <2>4 DEF Contract!Store, Contract!Output, Output
    <3> QED
      BY <3>1 DEF Contract!Next
  <2>5. CASE state[t] = "COMPLETE"
    <3>1. returnData' = returnData
      BY <1>1, <2>2, <2>5 DEF TypeOK
    <3> QED
      BY <2>1, <2>3, <3>1 DEF Contract!vars
  <2> QED
    BY <2>2, <2>4, <2>5
<1>5. ASSUME NEW w \in Workers, Begins(t, w)
      PROVE  Contract!Next
  <2>1. executions[t] = <<>> /\ state[t] \in {"SENT", "COMPLETE"}
    BY <1>1, <1>5 DEF Begins, TaskInv, History, Row, Nowhere, TypeOK
  <2>2. executions' = [executions EXCEPT ![t] = <<w>>]
    BY <1>1, <1>5, <2>1 DEF Begins, TypeOK
  <2>3. Contract!Run(t, w)
    BY <1>5, <2>1, <2>2 DEF Begins, Contract!Run
  <2> QED
    BY <2>3 DEF Contract!Next
<1> QED
  BY <1>2, <1>3, <1>4, <1>5 DEF Effect

\* Through crashes, restarts and redeliveries the dispatcher does what TaskContract
\* says: a task is handed out once, run at most once, and the result stored is its own.
THEOREM Refinement == Spec => Implements
<1>1. IInv /\ [Next]_vars => [Contract!Next]_(Contract!vars)
  <2> SUFFICES ASSUME IInv, [Next]_vars
               PROVE  [Contract!Next]_(Contract!vars)
    OBVIOUS
  <2>1. CASE Quiet
    BY <2>1, QuietContract
  <2> QED
    BY <2>1, EffectContract, QuietOrEffect
<1> QED
  BY <1>1, InitContract, Invariance, PTL DEF Spec, Implements, Contract!Spec
===============================================================================
