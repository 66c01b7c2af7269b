----------------------------- MODULE BrokerContext -----------------------------
(***************************************************************************)
(* Start and stop of the broker, a web application, and its next           *)
(* deployments: BrokerServletContextListener with the two threads it       *)
(* starts, the Receiver's and the RPC server's.  Each of the two has a     *)
(* connection and a channel of its own, may fail to get them, and may lose *)
(* them later.                                                             *)
(*                                                                         *)
(* TaskDispatch has one RPC server.  This module asks when that is so: a   *)
(* thread that outlives its deployment goes on taking requests next to     *)
(* that of the following one, and getNextPending() reads a row and writes  *)
(* it with nothing to keep two threads from the same row.  Of requests and *)
(* rows there is just enough here to tell whether a row is handed out      *)
(* twice.                                                                  *)
(***************************************************************************)
EXTENDS Naturals

CONSTANTS Tasks,            \* rows, all pending at first
          NoTask,           \* the server has found no row, or has none in hand
          MaxDeployments,   \* bound: how often the application is deployed
          MaxFaults         \* bound: failing init() calls and channels lost

ASSUME ContextAssumption == /\ NoTask \notin Tasks
                            /\ MaxDeployments \in Nat
                            /\ MaxFaults \in Nat

Deployments == 1 .. MaxDeployments
Parts == {"receiver", "rpcServer"}

VARIABLES
  current,       \* the latest deployment
  pc,            \* where the listener is in contextInitialized or contextDestroyed
  channel,       \* channel[p][d]: of part p of deployment d; "none" is null
  consumer,      \* consumer[p][d]: "none" is null, "deaf" one that is not subscribed
  keepRunning,   \* the parts <<p, d>> whose field keepRunning is set
  thread,        \* thread[p][d]: where the thread is in run()
  delivered,     \* the deployments in whose server's consumer a request waits
  inHand,        \* inHand[d]: what getNextPending() has found
  row,           \* row[t]: the State column
  handed,        \* history: how often a row was given to a worker
  failed,        \* history: the parts whose init() failed or whose channel was lost
  faults         \* faults so far

threads == <<thread, delivered, inHand, row, handed>>
vars == <<current, pc, channel, consumer, keepRunning, threads, failed, faults>>

\* f with the value x for part p of deployment d.
With(f, p, d, x) == [f EXCEPT ![p] = [@ EXCEPT ![d] = x]]

TypeOK ==
  /\ current \in 0 .. MaxDeployments
  /\ pc \in {"undeployed", "initReceiver", "initServer", "startReceiver", "startServer",
             "deployed", "stopReceiver", "stopServer", "joinReceiver", "joinServer"}
  /\ channel \in [Parts -> [Deployments -> {"none", "open", "closed"}]]
  /\ consumer \in [Parts -> [Deployments -> {"none", "deaf", "subscribed"}]]
  /\ keepRunning \subseteq Parts \X Deployments
  /\ thread \in [Parts -> [Deployments ->
                   {"none", "check", "waiting", "asked", "found", "saved", "ended"}]]
  /\ pc \in {"deployed", "stopReceiver", "stopServer", "joinReceiver", "joinServer"} =>
       \A p \in Parts : current > 0 /\ thread[p][current] # "none"
  /\ delivered \subseteq Deployments
  /\ inHand \in [Deployments -> Tasks \cup {NoTask}]
  /\ row \in [Tasks -> {"PENDING", "SENT"}]
  /\ handed \in [Tasks -> Nat]
  /\ failed \subseteq Parts \X Deployments
  /\ faults \in 0 .. MaxFaults

Everywhere(x) == [p \in Parts |-> [d \in Deployments |-> x]]

\* The Receiver's constructor sets keepRunning; the server's init() does.
Init ==
  /\ current = 0
  /\ pc = "undeployed"
  /\ channel = Everywhere("none")
  /\ consumer = Everywhere("none")
  /\ keepRunning = {"receiver"} \X Deployments
  /\ thread = Everywhere("none")
  /\ delivered = {}
  /\ inHand = [d \in Deployments |-> NoTask]
  /\ row = [t \in Tasks |-> "PENDING"]
  /\ handed = [t \in Tasks |-> 0]
  /\ failed = {}
  /\ faults = 0

Fault(p) == /\ faults < MaxFaults
            /\ faults' = faults + 1
            /\ failed' = failed \cup {<<p, current>>}

-------------------------------------------------------------------------------
(* contextInitialized. *)

\* The container deploys the application, again once it was undeployed.
contextInitialized ==
  /\ pc = "undeployed"
  /\ current < MaxDeployments
  /\ current' = current + 1
  /\ pc' = "initReceiver"
  /\ UNCHANGED <<channel, consumer, keepRunning, threads, failed, faults>>

InitPc(p) == IF p = "receiver" THEN "initReceiver" ELSE "initServer"
AfterInit(p) == IF p = "receiver" THEN "initServer" ELSE "startReceiver"

init(p) ==
  /\ pc = InitPc(p)
  /\ channel' = With(channel, p, current, "open")
  /\ consumer' = With(consumer, p, current, "subscribed")
  /\ keepRunning' = keepRunning \cup {<<p, current>>}
  /\ pc' = AfterInit(p)
  /\ UNCHANGED <<current, threads, failed, faults>>

\* The connection cannot be had, or a later call fails, which closes the channel: the
\* Receiver has made its consumer by then, the server perhaps not.  The listener
\* goes on, for the Receiver returns null and it catches the server's exception.
InitFails(p) ==
  /\ pc = InitPc(p)
  /\ Fault(p)
  /\ \E ch \in {"none", "closed"}, co \in {"none", "deaf"} :
       /\ ch = "none" => co = "none"
       /\ p = "receiver" /\ ch = "closed" => co = "deaf"
       /\ channel' = With(channel, p, current, ch)
       /\ consumer' = With(consumer, p, current, co)
  /\ keepRunning' = keepRunning \cup {<<p, current>>}
  /\ pc' = AfterInit(p)
  /\ UNCHANGED <<current, threads>>

\* Variant: a part without a channel gets no thread.
StartIfOpen(p) ==
  /\ pc = IF p = "receiver" THEN "startReceiver" ELSE "startServer"
  /\ thread' = IF channel[p][current] = "open" THEN With(thread, p, current, "check")
               ELSE thread
  /\ pc' = IF p = "receiver" THEN "startServer" ELSE "deployed"
  /\ UNCHANGED <<current, channel, consumer, keepRunning, delivered, inHand, row, handed,
                 failed, faults>>

\* Both threads start, whatever became of init().
start(p) ==
  /\ pc = IF p = "receiver" THEN "startReceiver" ELSE "startServer"
  /\ thread' = With(thread, p, current, "check")
  /\ pc' = IF p = "receiver" THEN "startServer" ELSE "deployed"
  /\ UNCHANGED <<current, channel, consumer, keepRunning, delivered, inHand, row, handed,
                 failed, faults>>

-------------------------------------------------------------------------------
(* contextDestroyed. *)

contextDestroyed ==
  /\ pc = "deployed"
  /\ pc' = "stopReceiver"
  /\ UNCHANGED <<current, channel, consumer, keepRunning, threads, failed, faults>>

StopPc(p) == IF p = "receiver" THEN "stopReceiver" ELSE "stopServer"
AfterStop(p) == IF p = "receiver" THEN "stopServer" ELSE "joinReceiver"

\* Variant: the channel is closed first, and an exception comes before the assignment.
CloseFirst(p) ==
  /\ pc = StopPc(p)
  /\ IF channel[p][current] = "open"
     THEN /\ channel' = With(channel, p, current, "closed")
          /\ keepRunning' = keepRunning \ {<<p, current>>}
          /\ pc' = AfterStop(p)
     ELSE /\ pc' = "undeployed"
          /\ UNCHANGED <<channel, keepRunning>>
  /\ UNCHANGED <<current, consumer, threads, failed, faults>>

\* Variant: the channel stays open.
FlagOnly(p) ==
  /\ pc = StopPc(p)
  /\ keepRunning' = keepRunning \ {<<p, current>>}
  /\ pc' = AfterStop(p)
  /\ UNCHANGED <<current, channel, consumer, threads, failed, faults>>

\* Variant: the Receiver alone is stopped.
ForgetServer(p) ==
  /\ pc = StopPc(p)
  /\ keepRunning' = keepRunning \ {<<"receiver", current>>}
  /\ channel' = IF p = "receiver" THEN With(channel, p, current, "closed") ELSE channel
  /\ pc' = IF p = "receiver" THEN "stopServer" ELSE "undeployed"
  /\ UNCHANGED <<current, consumer, threads, failed, faults>>

\* A channel that is null or closed makes close() throw what stopRunning() does not
\* catch: contextDestroyed ends there, whatever was still to be stopped or joined.
stopRunning(p) ==
  /\ pc = StopPc(p)
  /\ keepRunning' = keepRunning \ {<<p, current>>}
  /\ IF channel[p][current] = "open"
     THEN /\ channel' = With(channel, p, current, "closed")
          /\ pc' = AfterStop(p)
     ELSE /\ pc' = "undeployed"
          /\ UNCHANGED channel
  /\ UNCHANGED <<current, consumer, threads, failed, faults>>

JoinPc(p) == IF p = "receiver" THEN "joinReceiver" ELSE "joinServer"
AfterJoin(p) == IF p = "receiver" THEN "joinServer" ELSE "undeployed"

\* Variant: nobody waits for the threads.
DoNotJoin(p) ==
  /\ pc = JoinPc(p)
  /\ pc' = AfterJoin(p)
  /\ UNCHANGED <<current, channel, consumer, keepRunning, threads, failed, faults>>

join(p) ==
  /\ pc = JoinPc(p)
  /\ thread[p][current] = "ended"
  /\ pc' = AfterJoin(p)
  /\ UNCHANGED <<current, channel, consumer, keepRunning, threads, failed, faults>>

-------------------------------------------------------------------------------
(* The two threads. *)

Goto(p, d, l) == thread' = With(thread, p, d, l)

\* while (keepRunning)
CheckLoop(p, d) ==
  /\ thread[p][d] = "check"
  /\ Goto(p, d, IF <<p, d>> \in keepRunning THEN "waiting" ELSE "ended")
  /\ UNCHANGED <<current, pc, channel, consumer, keepRunning, delivered, inHand, row,
                 handed, failed, faults>>

\* The field is not volatile: the thread may miss that it was set.
MissStop(p, d) ==
  /\ thread[p][d] = "check"
  /\ <<p, d>> \notin keepRunning
  /\ Goto(p, d, "waiting")
  /\ UNCHANGED <<current, pc, channel, consumer, keepRunning, delivered, inHand, row,
                 handed, failed, faults>>

\* nextDelivery() on no consumer, or on one whose channel has closed and that has
\* nothing left, throws, and the exception is logged.  One that is not subscribed is
\* never told of the closing, and waits.
NoDelivery(p, d) ==
  /\ thread[p][d] = "waiting"
  /\ \/ consumer[p][d] = "none"
     \/ /\ consumer[p][d] = "subscribed"
        /\ channel[p][d] = "closed"
        /\ p = "rpcServer" => d \notin delivered
  /\ Goto(p, d, "check")
  /\ UNCHANGED <<current, pc, channel, consumer, keepRunning, delivered, inHand, row,
                 handed, failed, faults>>

\* RabbitMQ delivers a request, one before the ack of the one before it.  Workers
\* keep asking.
Deliver(d) ==
  /\ channel["rpcServer"][d] = "open"
  /\ d \notin delivered
  /\ thread["rpcServer"][d] \in {"none", "check", "waiting"}
  /\ delivered' = delivered \cup {d}
  /\ UNCHANGED <<current, pc, channel, consumer, keepRunning, thread, inHand, row, handed,
                 failed, faults>>

nextDelivery(d) ==
  /\ thread["rpcServer"][d] = "waiting"
  /\ d \in delivered
  /\ delivered' = delivered \ {d}
  /\ Goto("rpcServer", d, "asked")
  /\ UNCHANGED <<current, pc, channel, consumer, keepRunning, inHand, row, handed, failed,
                 faults>>

\* The first half of getNextPending: the query.
SelectPending(d) ==
  /\ thread["rpcServer"][d] = "asked"
  /\ \/ \E t \in Tasks : row[t] = "PENDING" /\ inHand' = [inHand EXCEPT ![d] = t]
     \/ /\ \A t \in Tasks : row[t] # "PENDING"
        /\ inHand' = [inHand EXCEPT ![d] = NoTask]
  /\ Goto("rpcServer", d, "found")
  /\ UNCHANGED <<current, pc, channel, consumer, keepRunning, delivered, row, handed,
                 failed, faults>>

\* The second: the update and the commit.
MarkSent(d) ==
  /\ thread["rpcServer"][d] = "found"
  /\ row' = [t \in Tasks |-> IF t = inHand[d] THEN "SENT" ELSE row[t]]
  /\ Goto("rpcServer", d, "saved")
  /\ UNCHANGED <<current, pc, channel, consumer, keepRunning, delivered, inHand, handed,
                 failed, faults>>

\* The reply is published and the request acknowledged, or the channel is closed.
basicPublish(d) ==
  /\ thread["rpcServer"][d] = "saved"
  /\ handed' = [t \in Tasks |-> IF t = inHand[d] /\ channel["rpcServer"][d] = "open"
                                THEN handed[t] + 1 ELSE handed[t]]
  /\ inHand' = [inHand EXCEPT ![d] = NoTask]
  /\ Goto("rpcServer", d, "check")
  /\ UNCHANGED <<current, pc, channel, consumer, keepRunning, delivered, row, failed, faults>>

\* The connection is lost.
ChannelFails(p) ==
  /\ current > 0
  /\ channel[p][current] = "open"
  /\ Fault(p)
  /\ channel' = With(channel, p, current, "closed")
  /\ UNCHANGED <<current, pc, consumer, keepRunning, threads>>

-------------------------------------------------------------------------------

Listener == \E p \in Parts : init(p) \/ start(p) \/ stopRunning(p) \/ join(p)
ReceiverStep(d) == CheckLoop("receiver", d) \/ NoDelivery("receiver", d)
ServerStep(d) == \/ CheckLoop("rpcServer", d) \/ NoDelivery("rpcServer", d)
                 \/ nextDelivery(d) \/ SelectPending(d) \/ MarkSent(d) \/ basicPublish(d)

Next ==
  \/ contextInitialized \/ contextDestroyed \/ Listener
  \/ \E p \in Parts : InitFails(p) \/ ChannelFails(p)
  \/ \E d \in Deployments : ReceiverStep(d) \/ ServerStep(d) \/ Deliver(d)
  \/ \E d \in Deployments, p \in Parts : MissStop(p, d)

Spec == Init /\ [][Next]_vars

\* Threads run; nothing obliges the container to deploy or undeploy.  A thread does not
\* miss for ever that it was stopped, for each round of its loop takes the log's lock.
FairSpec == /\ Spec
            /\ WF_vars(Listener)
            /\ \A d \in Deployments : WF_vars(ReceiverStep(d)) /\ WF_vars(ServerStep(d))
            /\ \A d \in Deployments, p \in Parts : SF_vars(CheckLoop(p, d))
===============================================================================
