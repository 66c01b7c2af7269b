----------------------------- MODULE TaskDispatch -----------------------------
(***************************************************************************)
(* The path of a task through TrianaCloud: the broker's servlet inserts it *)
(* in the database, workers ask for work and return results by remote      *)
(* calls over RabbitMQ (RPCClient.java, Worker.java), and one broker       *)
(* thread (RPCServer.java) answers the calls from the database             *)
(* (TaskDAO.java).                                                         *)
(*                                                                         *)
(* RabbitMQ is external.  All calls go to one queue, which outlives both   *)
(* ends; the server takes one message at a time (basicQos(1)) and          *)
(* acknowledges it by hand, so the message it works on stays at the head   *)
(* of rpcQueue until the ack, and is delivered again if the channel closes *)
(* before.  Replies go to a private queue of the caller, acknowledged on   *)
(* delivery, and are dropped when that queue is gone.                      *)
(***************************************************************************)
EXTENDS Naturals, Sequences, FiniteSets

CONSTANTS Tasks,        \* tasks, each with a UUID of its own
          Workers,      \* worker processes; a restarted one is another worker
          CorrIds,      \* correlation ids a call may draw
          FaultKinds,   \* the faults that may happen
          MaxFaults,    \* bound: how many of them
          NOTASK,       \* the task that says there is no task
          Undecodable,  \* a returned payload that is not an encoded task
          Accepted,     \* the reply to a returned task: one byte or none
          Nothing       \* null

Output(t, w) == [task |-> t, by |-> w]
Outputs == [task : Tasks, by : Workers]

\* The sentinels are told apart from each other, from tasks and from results.
ASSUME DispatchAssumption ==
         /\ MaxFaults \in Nat
         /\ {NOTASK, Undecodable, Accepted, Nothing} \cap Tasks = {}
         /\ NOTASK \notin {Undecodable, Accepted, Nothing}
         /\ Undecodable \notin {Accepted, Nothing}
         /\ Accepted # Nothing
         /\ Nothing \notin Outputs

VARIABLES
  state,        \* state[t]: the State column of t's row, "ABSENT" before the insert
  returnData,   \* returnData[t]: the ReturnData column
  executions,   \* executions[t]: history of the workers whose executor began t
  rpcQueue,     \* trianaloud_rpc_queue, the unacknowledged delivery at its head
  serverPc,     \* where the RPC server's thread is
  reply,        \* the reply it is about to publish
  replyQueue,   \* replyQueue[w]: the private reply queue of w's RPCClient
  workerPc,     \* where worker w's loop is
  corrId,       \* corrId[w]: the id call() waits for
  inHand,       \* inHand[w]: the task w has to execute or the result it has to send
  faults        \* faults so far

database == <<state, returnData>>
server == <<serverPc, reply>>
worker == <<workerPc, corrId, inHand>>
vars == <<database, executions, rpcQueue, server, replyQueue, worker, faults>>

Request == [method : {"gettask", "rettask"}, from : Workers, corrId : CorrIds,
            content : Tasks \cup {NOTASK, Undecodable, Nothing}]
Reply == [corrId : CorrIds, body : Tasks \cup {NOTASK, Accepted}]

TypeOK ==
  /\ state \in [Tasks -> {"ABSENT", "PENDING", "SENT", "COMPLETE"}]
  /\ returnData \in [Tasks -> Outputs \cup {Nothing}]
  /\ executions \in [Tasks -> Seq(Workers)]
  /\ rpcQueue \in Seq(Request)
  /\ serverPc \in {"unstarted", "waiting", "replying", "acking", "stuck", "down"}
  /\ reply \in Tasks \cup {NOTASK, Accepted, Nothing}
  /\ replyQueue \in [Workers -> Seq(Reply)]
  /\ workerPc \in [Workers -> {"idle", "awaitTask", "executing", "returning",
                               "awaitReturn", "hung", "dead"}]
  /\ corrId \in [Workers -> CorrIds \cup {Nothing}]
  /\ inHand \in [Workers -> Tasks \cup {NOTASK, Undecodable, Nothing}]
  /\ faults \in 0 .. MaxFaults

Init ==
  /\ state = [t \in Tasks |-> "ABSENT"]
  /\ returnData = [t \in Tasks |-> Nothing]
  /\ executions = [t \in Tasks |-> <<>>]
  /\ rpcQueue = <<>>
  /\ serverPc = "unstarted"
  /\ reply = Nothing
  /\ replyQueue = [w \in Workers |-> <<>>]
  /\ workerPc = [w \in Workers |-> "idle"]
  /\ corrId = [w \in Workers |-> Nothing]
  /\ inHand = [w \in Workers |-> Nothing]
  /\ faults = 0

Fault(kind) == /\ kind \in FaultKinds
               /\ faults < MaxFaults
               /\ faults' = faults + 1

-------------------------------------------------------------------------------
(* The broker's servlet. *)

insertTask(t) ==
  /\ state[t] = "ABSENT"
  /\ state' = [state EXCEPT ![t] = "PENDING"]
  /\ UNCHANGED <<returnData, executions, rpcQueue, server, replyQueue, worker, faults>>

-------------------------------------------------------------------------------
(* The worker and its RPCClient. *)

\* Variant: ids are not unique.
NoIdsInUse(w) == {}

\* Ids of w's calls that a message still carries: a new random UUID is none of them.
IdsInUse(w) ==
  {rpcQueue[i].corrId : i \in {j \in DOMAIN rpcQueue : rpcQueue[j].from = w}}
    \cup {replyQueue[w][i].corrId : i \in DOMAIN replyQueue[w]}

\* call() up to its wait: a new id, and the request published.
Call(w, method, content) ==
  \E c \in CorrIds \ IdsInUse(w) :
    /\ corrId' = [corrId EXCEPT ![w] = c]
    /\ rpcQueue' = Append(rpcQueue, [method |-> method, from |-> w,
                                     corrId |-> c, content |-> content])

getTask(w) ==
  /\ workerPc[w] = "idle"
  /\ serverPc # "unstarted"
  /\ Call(w, "gettask", Nothing)
  /\ workerPc' = [workerPc EXCEPT ![w] = "awaitTask"]
  /\ UNCHANGED <<database, executions, server, replyQueue, inHand, faults>>

\* Before the server first declares the queue RabbitMQ drops the request, and
\* call() has no timeout.
CallBeforeQueueExists(w) ==
  /\ Fault("earlyCall")
  /\ workerPc[w] = "idle"
  /\ serverPc = "unstarted"
  /\ workerPc' = [workerPc EXCEPT ![w] = "hung"]
  /\ UNCHANGED <<database, executions, rpcQueue, server, replyQueue, corrId, inHand>>

Awaiting(w) == workerPc[w] \in {"awaitTask", "awaitReturn"}

\* call() drops replies to calls it no longer waits for.
DiscardReply(w) ==
  /\ Awaiting(w)
  /\ replyQueue[w] # <<>>
  /\ Head(replyQueue[w]).corrId # corrId[w]
  /\ replyQueue' = [replyQueue EXCEPT ![w] = Tail(@)]
  /\ UNCHANGED <<database, executions, rpcQueue, server, worker, faults>>

\* Variant: the reply is read but stays in the queue.
CallReturnsByPeek(w) ==
  /\ replyQueue[w] # <<>>
  /\ Head(replyQueue[w]).corrId = corrId[w]
  /\ corrId' = [corrId EXCEPT ![w] = Nothing]
  /\ UNCHANGED replyQueue

\* The wait of call() ends: its local variables are gone.
CallReturns(w) ==
  /\ replyQueue[w] # <<>>
  /\ Head(replyQueue[w]).corrId = corrId[w]
  /\ replyQueue' = [replyQueue EXCEPT ![w] = Tail(@)]
  /\ corrId' = [corrId EXCEPT ![w] = Nothing]

\* A task is executed, NOTASK is sent back as it came, and anything else does
\* not decode: getTask() returns null and run() begins its loop again.
TaskArrives(w) ==
  /\ workerPc[w] = "awaitTask"
  /\ CallReturns(w)
  /\ LET body == Head(replyQueue[w]).body IN
       \/ /\ body \in Tasks
          /\ workerPc' = [workerPc EXCEPT ![w] = "executing"]
          /\ inHand' = [inHand EXCEPT ![w] = body]
       \/ /\ body = NOTASK
          /\ workerPc' = [workerPc EXCEPT ![w] = "returning"]
          /\ inHand' = [inHand EXCEPT ![w] = body]
       \/ /\ body = Accepted
          /\ workerPc' = [workerPc EXCEPT ![w] = "idle"]
          /\ UNCHANGED inHand
  /\ UNCHANGED <<database, executions, rpcQueue, server, faults>>

\* Variant: sendCompleteTask() does not wait.
ReturnNotAwaited(w) ==
  /\ workerPc[w] = "awaitReturn"
  /\ workerPc' = [workerPc EXCEPT ![w] = "idle"]
  /\ corrId' = [corrId EXCEPT ![w] = Nothing]
  /\ UNCHANGED <<database, executions, rpcQueue, server, replyQueue, inHand, faults>>

\* sendCompleteTask() does not look at what it is answered.
ReturnAnswered(w) ==
  /\ workerPc[w] = "awaitReturn"
  /\ CallReturns(w)
  /\ workerPc' = [workerPc EXCEPT ![w] = "idle"]
  /\ UNCHANGED <<database, executions, rpcQueue, server, inHand, faults>>

ExecutionBegins(w) ==
  executions' = [executions EXCEPT ![inHand[w]] = Append(@, w)]

executeTask(w) ==
  /\ workerPc[w] = "executing"
  /\ ExecutionBegins(w)
  /\ workerPc' = [workerPc EXCEPT ![w] = "returning"]
  /\ UNCHANGED <<database, rpcQueue, server, replyQueue, corrId, inHand, faults>>

\* The executors that start a child return an empty array when they catch an
\* exception; the example executor returns the letters of a name.
ExecutorReturnsNothing(w) ==
  /\ Fault("badReturn")
  /\ workerPc[w] = "executing"
  /\ ExecutionBegins(w)
  /\ workerPc' = [workerPc EXCEPT ![w] = "returning"]
  /\ inHand' = [inHand EXCEPT ![w] = Undecodable]
  /\ UNCHANGED <<database, rpcQueue, server, replyQueue, corrId>>

\* No such executor, or it throws: run() logs it and goes on to the next task.
WorkerError(w) ==
  /\ Fault("workerError")
  /\ workerPc[w] = "executing"
  /\ ExecutionBegins(w) \/ UNCHANGED executions
  /\ workerPc' = [workerPc EXCEPT ![w] = "idle"]
  /\ inHand' = [inHand EXCEPT ![w] = Nothing]
  /\ UNCHANGED <<database, rpcQueue, server, replyQueue, corrId>>

sendCompleteTask(w) ==
  /\ workerPc[w] = "returning"
  /\ Call(w, "rettask", inHand[w])
  /\ workerPc' = [workerPc EXCEPT ![w] = "awaitReturn"]
  /\ inHand' = [inHand EXCEPT ![w] = Nothing]
  /\ UNCHANGED <<database, executions, server, replyQueue, faults>>

\* The process ends, or loses the connection it never opens again, which does not
\* keep it from executing a task it has got.
Crash(w) ==
  /\ Fault("crash")
  /\ workerPc[w] # "dead"
  /\ \/ UNCHANGED executions
     \/ workerPc[w] = "executing" /\ ExecutionBegins(w)
  /\ workerPc' = [workerPc EXCEPT ![w] = "dead"]
  /\ corrId' = [corrId EXCEPT ![w] = Nothing]
  /\ inHand' = [inHand EXCEPT ![w] = Nothing]
  /\ replyQueue' = [replyQueue EXCEPT ![w] = <<>>]
  /\ UNCHANGED <<database, rpcQueue, server>>

-------------------------------------------------------------------------------
(* The RPC server. *)

init ==
  /\ serverPc \in {"unstarted", "down"}
  /\ serverPc' = "waiting"
  /\ UNCHANGED <<database, executions, rpcQueue, reply, replyQueue, worker, faults>>

\* Variant: deliveries are acknowledged when they are made.
StopLosingDelivery ==
  /\ Fault("stop")
  /\ serverPc \notin {"unstarted", "down"}
  /\ serverPc' = "down"
  /\ reply' = Nothing
  /\ rpcQueue' = IF serverPc = "waiting" THEN rpcQueue ELSE Tail(rpcQueue)
  /\ UNCHANGED <<database, executions, replyQueue, worker>>

\* The channel closes: stopRunning(), a lost connection, or the end of the
\* web application.
Stop ==
  /\ Fault("stop")
  /\ serverPc \notin {"unstarted", "down"}
  /\ serverPc' = "down"
  /\ reply' = Nothing
  /\ UNCHANGED <<database, executions, rpcQueue, replyQueue, worker>>

Delivered(method) == /\ serverPc = "waiting"
                     /\ rpcQueue # <<>>
                     /\ Head(rpcQueue).method = method

\* Variant: the reply is never filled in.
RespondUnset(body) == serverPc' = "replying" /\ UNCHANGED reply

Respond(body) == /\ reply' = body
                 /\ serverPc' = "replying"

\* Variant: the query does not select on State.
AnyRow(t) == state[t] # "ABSENT"

Pending(t) == state[t] = "PENDING"

\* Variant: every row found is marked, not the one handed out.
SendAllPending(t) ==
  /\ Delivered("gettask")
  /\ Pending(t)
  /\ state' = [u \in Tasks |-> IF Pending(u) THEN "SENT" ELSE state[u]]
  /\ Respond(t)
  /\ UNCHANGED <<returnData, executions, rpcQueue, replyQueue, worker, faults>>

\* getNextPending() finds a task: any one, its query states no order.
SendTask(t) ==
  /\ Delivered("gettask")
  /\ Pending(t)
  /\ state' = [state EXCEPT ![t] = "SENT"]
  /\ Respond(t)
  /\ UNCHANGED <<returnData, executions, rpcQueue, replyQueue, worker, faults>>

SendNoTask ==
  /\ Delivered("gettask")
  /\ \A t \in Tasks : ~Pending(t)
  /\ Respond(NOTASK)
  /\ UNCHANGED <<database, executions, rpcQueue, replyQueue, worker, faults>>

\* Variant: only the State column is written.
CompleteWithoutData(t) ==
  /\ Delivered("rettask")
  /\ Head(rpcQueue).content = t
  /\ state' = [state EXCEPT ![t] = "COMPLETE"]
  /\ Respond(Accepted)
  /\ UNCHANGED <<returnData, executions, rpcQueue, replyQueue, worker, faults>>

\* getByUUID() and save(): the columns are written whatever the row held.
CompleteTask(t) ==
  /\ Delivered("rettask")
  /\ Head(rpcQueue).content = t
  /\ state' = [state EXCEPT ![t] = "COMPLETE"]
  /\ returnData' = [returnData EXCEPT ![t] = Output(t, Head(rpcQueue).from)]
  /\ Respond(Accepted)
  /\ UNCHANGED <<executions, rpcQueue, replyQueue, worker, faults>>

AcceptNoTask ==
  /\ Delivered("rettask")
  /\ Head(rpcQueue).content = NOTASK
  /\ Respond(Accepted)
  /\ UNCHANGED <<database, executions, rpcQueue, replyQueue, worker, faults>>

\* Variant: what does not decode is acknowledged.
RejectAndAck ==
  /\ Delivered("rettask")
  /\ Head(rpcQueue).content = Undecodable
  /\ rpcQueue' = Tail(rpcQueue)
  /\ UNCHANGED <<database, executions, server, replyQueue, worker, faults>>

\* decodeTask() throws: no reply, no ack, and with basicQos(1) no other delivery.
RejectReturn ==
  /\ Delivered("rettask")
  /\ Head(rpcQueue).content = Undecodable
  /\ serverPc' = "stuck"
  /\ UNCHANGED <<database, executions, rpcQueue, reply, replyQueue, worker, faults>>

\* Any other exception of the handler, before its transaction commits or after.
HandlerError ==
  /\ Fault("handlerError")
  /\ \/ serverPc = "waiting" /\ rpcQueue # <<>>
     \/ serverPc \in {"replying", "acking"}
  /\ serverPc' = "stuck"
  /\ reply' = Nothing
  /\ UNCHANGED <<database, executions, rpcQueue, replyQueue, worker>>

\* A reply queue goes with the worker that declared it.
Publish ==
  /\ serverPc = "replying"
  /\ LET call == Head(rpcQueue)
         w == call.from IN
       replyQueue' = IF workerPc[w] = "dead" THEN replyQueue
                     ELSE [replyQueue EXCEPT ![w] =
                             Append(@, [corrId |-> call.corrId, body |-> reply])]
  /\ reply' = Nothing
  /\ serverPc' = "acking"
  /\ UNCHANGED <<database, executions, rpcQueue, worker, faults>>

Ack ==
  /\ serverPc = "acking"
  /\ rpcQueue' = Tail(rpcQueue)
  /\ serverPc' = "waiting"
  /\ UNCHANGED <<database, executions, reply, replyQueue, worker, faults>>

-------------------------------------------------------------------------------

\* What a worker and the server do when nothing goes wrong.
WorkerStep(w) == \/ getTask(w) \/ DiscardReply(w) \/ TaskArrives(w)
                 \/ executeTask(w) \/ sendCompleteTask(w) \/ ReturnAnswered(w)
ServerStep == \/ init \/ SendNoTask \/ AcceptNoTask \/ RejectReturn \/ Publish \/ Ack
              \/ \E t \in Tasks : SendTask(t) \/ CompleteTask(t)

WorkerFault(w) == \/ CallBeforeQueueExists(w) \/ ExecutorReturnsNothing(w)
                  \/ WorkerError(w) \/ Crash(w)

Next == \/ \E t \in Tasks : insertTask(t)
        \/ \E w \in Workers : WorkerStep(w) \/ WorkerFault(w)
        \/ ServerStep
        \/ Stop
        \/ HandlerError

Spec == Init /\ [][Next]_vars

\* Worker processes and the server's thread keep running, and a web application
\* that stops is deployed again.
FairSpec == Spec /\ WF_vars(ServerStep) /\ \A w \in Workers : WF_vars(WorkerStep(w))
===============================================================================
